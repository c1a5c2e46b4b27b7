-------------------------- MODULE UserSessionProofs --------------------------
(***************************************************************************)
(* Proofs about UserSession for any groups and any number of changes: the  *)
(* types, the one synchronizer, what a screen shows and that the end of    *)
(* the session is noticed.  The strengthening says who observes when.      *)
(***************************************************************************)
EXTENDS UserSession, TLAPS

\* The listener is given a value only when the pointer differs from the last one.
CountOK ==
    attached => /\ seen.count <= changes + 1
                /\ seen.count = changes + 1 => seen.group = pointer

\* A screen that is shown, and no other, observes the session; one about to be opened
\* leaves that to the main screen.
ObserversOK ==
    /\ screen.at = "shown" => observers = {screen.kind}
    /\ screen.at = "registered" => screen.kind \in observers
    /\ screen.at = "opening" => "main" \in observers
    /\ screen.at = "login" => user.ended

\* An end that was noticed has an update waiting until the login screen comes up.
EndWaiting ==
    (user.ended /\ ~unseen /\ screen.at \notin {"login", "crashed"}) =>
        \E k \in Kinds : posts[k] > 0

SessionInv ==
    /\ TypeOK /\ CountOK /\ OneSynchronizer /\ ObserversOK /\ EndWaiting
    /\ ScreenNotice

LEMMA SessionStart == Init => SessionInv
<1> SUFFICES ASSUME Init PROVE SessionInv
  OBVIOUS
<1>1. TypeOK
  <2>1. 0 \in 0 .. MaxChanges /\ 0 \in 0 .. MaxChanges + 1 /\ NoGroup \in MaybeGroup
    BY SessionAssumption DEF MaybeGroup
  <2>2. /\ user \in [groupId : MaybeGroup, synchronizer : SUBSET Synchronizer, info : MaybeGroup,
                    groupOK : BOOLEAN, ended : BOOLEAN]
        /\ seen \in [count : 0 .. MaxChanges + 1, group : MaybeGroup]
    BY <2>1 DEF Init
  <2>3. /\ observers \subseteq Kinds /\ posts \in [Kinds -> Nat]
        /\ screen \in [kind : Kinds, at : Ats, shown : MaybeGroup]
        /\ photo \in [at : {"none", "inserted", "handed"}, album : MaybeGroup, via : MaybeGroup]
    BY <2>1 DEF Init, Kinds, Ats
  <2> QED
    BY <2>1, <2>2, <2>3 DEF Init, TypeOK, Histories
<1>2. CountOK /\ OneSynchronizer /\ ObserversOK /\ EndWaiting
  BY SessionAssumption DEF Init, CountOK, OneSynchronizer, ObserversOK, EndWaiting,
     InGroup
<1>3. ScreenNotice
  BY DEF Init, ScreenNotice, ShouldGoOn
<1> QED
  BY <1>1, <1>2, <1>3 DEF SessionInv

\* A notification reaches all who observe and takes nothing away.
LEMMA Notified ==
    ASSUME TypeOK, NEW changed \in BOOLEAN, Notify(changed)
    PROVE  /\ posts' \in [Kinds -> Nat]
           /\ \A k \in Kinds : posts[k] \in Nat /\ posts'[k] >= posts[k]
           /\ \A k \in observers : changed => posts'[k] > 0
<1>1. posts \in [Kinds -> Nat] /\ observers \subseteq Kinds
  BY DEF TypeOK
<1> QED
  BY <1>1 DEF Notify

\* The link between the pointer and the pool.
LEMMA LinkPreserves ==
    ASSUME SessionInv, (\E g \in MaybeGroup : Point(g)) \/ Deliver \/ Cancel
    PROVE  SessionInv'
<1>1. /\ UNCHANGED <<replies, session, observers, posts, screen, photo, history>>
      /\ TypeOK /\ CountOK
  BY DEF SessionInv, Point, Deliver, Cancel, HandOver, session, history, pool
<1>2. OneSynchronizer' /\ ObserversOK' /\ EndWaiting' /\ ScreenNotice'
  BY <1>1 DEF SessionInv, OneSynchronizer, ObserversOK, EndWaiting, ScreenNotice,
     session, history, InGroup, ShouldGoOn
<1>3. seen \in [count : 0 .. MaxChanges + 1, group : MaybeGroup] /\ changes \in 0 .. MaxChanges
  BY <1>1 DEF TypeOK
<1>4. TypeOK' /\ CountOK'
  <2>1. CASE \E g \in MaybeGroup : Point(g)
    <3>1. PICK g \in MaybeGroup : Point(g)
      BY <2>1
    <3>2. changes' \in 0 .. MaxChanges /\ changes' = changes + 1
      BY <1>3, <3>1, SessionAssumption DEF Point
    <3>3. TypeOK'
      BY <1>1, <3>1, <3>2 DEF TypeOK, Point, pool, session, history, Histories
    <3>4. CountOK'
      BY <1>1, <1>3, <3>1, <3>2 DEF CountOK, Point
    <3> QED
      BY <3>3, <3>4
  <2>2. ASSUME NEW g \in MaybeGroup, HandOver(g), seen.count <= MaxChanges,
               attached' \in BOOLEAN
        PROVE  TypeOK'
    <3>1. seen.count + 1 \in Ids /\ seen.count + 1 \in 0 .. MaxChanges + 1
      BY <1>3, <2>2, SessionAssumption DEF Ids
    <3>2. tasks' \subseteq Task
      <4>1. [id |-> seen.count + 1, group |-> g, made |-> FALSE] \in Task
        BY <2>2, <3>1 DEF Task
      <4> QED
        BY <1>1, <2>2, <4>1 DEF TypeOK, HandOver
    <3> QED
      BY <1>1, <2>2, <3>1, <3>2 DEF TypeOK, HandOver, session, history, Histories
  <2>3. CASE Deliver
    <3>1. seen.count <= changes
      BY <1>1, <1>3, <2>3 DEF Deliver, CountOK
    <3>2. TypeOK'
      BY <1>1, <1>3, <2>2, <2>3, <3>1, SessionAssumption DEF Deliver, TypeOK
    <3>3. CountOK'
      BY <1>3, <2>3, <3>1 DEF Deliver, HandOver, CountOK
    <3> QED
      BY <3>2, <3>3
  <2>4. CASE Cancel
    BY <2>2, <2>4 DEF Cancel, CountOK, MaybeGroup
  <2> QED
    BY <2>1, <2>3, <2>4
<1> QED
  BY <1>2, <1>4 DEF SessionInv

\* A pool thread that takes the lock.
LEMMA SwapPreserves ==
    ASSUME SessionInv, NEW t \in tasks, Swap(t)
    PROVE  SessionInv'
<1>1. /\ t \in Task /\ UNCHANGED <<link, replies, observers, screen, photo, silent, unseen>>
      /\ tasks' \subseteq tasks /\ TypeOK /\ late' \in BOOLEAN
  BY DEF SessionInv, TypeOK, Swap, Histories, Overtakes
<1>2. CASE user.groupId = t.group
  <2>1. UNCHANGED <<session, posts>>
    BY <1>2 DEF Swap
  <2> QED
    BY <1>1, <2>1 DEF SessionInv, TypeOK, CountOK, OneSynchronizer, ObserversOK, EndWaiting,
       ScreenNotice, session, link, Histories, InGroup, ShouldGoOn
<1>3. CASE user.groupId # t.group
  <2>1. /\ user' = [user EXCEPT !.groupId = t.group, !.synchronizer = Made(t)]
        /\ listening' = (listening \ user.synchronizer) \union Made(t)
        /\ Notify((t.group # NoGroup) # InGroup)
    BY <1>3 DEF Swap, Replace, NotifyGroup
  <2>2. /\ t.group \in MaybeGroup /\ t.id \in Ids /\ Made(t) \subseteq Synchronizer
        /\ t.group # NoGroup => Made(t) = {[id |-> t.id, group |-> t.group]}
        /\ t.group = NoGroup => Made(t) = {}
    BY <1>1 DEF Made, Task, Synchronizer, MaybeGroup
  <2>3. /\ user \in [groupId : MaybeGroup, synchronizer : SUBSET Synchronizer, info : MaybeGroup,
                     groupOK : BOOLEAN, ended : BOOLEAN]
        /\ user' \in [groupId : MaybeGroup, synchronizer : SUBSET Synchronizer, info : MaybeGroup,
                      groupOK : BOOLEAN, ended : BOOLEAN]
        /\ user'.groupId = t.group /\ user'.synchronizer = Made(t) /\ user'.info = user.info
        /\ user'.ended = user.ended
    BY <1>1, <2>1, <2>2 DEF TypeOK
  <2>4. /\ posts' \in [Kinds -> Nat]
        /\ \A k \in Kinds : posts[k] \in Nat /\ posts'[k] >= posts[k]
        /\ \A k \in observers : ((t.group # NoGroup) # InGroup) => posts'[k] > 0
    BY <1>1, <2>1, Notified
  <2>5. TypeOK'
    <3>2. listening' \subseteq Synchronizer
      BY <1>1, <2>1, <2>2 DEF TypeOK
    <3> QED
      BY <1>1, <2>3, <2>4, <3>2 DEF TypeOK, Histories, link
  <2>6. OneSynchronizer'
    BY <2>1, <2>2, <2>3 DEF SessionInv, OneSynchronizer, InGroup
  <2>7. ObserversOK' /\ CountOK'
    BY <1>1, <2>3 DEF SessionInv, ObserversOK, CountOK, link
  <2>8. EndWaiting'
    BY <1>1, <2>3, <2>4 DEF SessionInv, EndWaiting
  <2>10. ScreenNotice'
    <3> SUFFICES ASSUME screen.at = "shown", posts'[screen.kind] = 0, ~user.ended
                 PROVE  /\ ShouldGoOn(screen.kind)'
                        /\ (screen.kind = "group" /\ ~silent) => screen.shown = user.info
      BY <1>1, <2>3 DEF ScreenNotice
    <3>1. screen.kind \in observers /\ screen.kind \in Kinds
      BY <1>1 DEF SessionInv, ObserversOK, TypeOK
    <3>2. posts[screen.kind] = 0 /\ InGroup' = InGroup
      BY <2>3, <2>4, <3>1 DEF InGroup
    <3> QED
      BY <1>1, <3>2 DEF SessionInv, ScreenNotice, ShouldGoOn
  <2> QED
    BY <2>5, <2>6, <2>7, <2>8, <2>10 DEF SessionInv
<1> QED
  BY <1>2, <1>3

\* The preparation of a synchronizer.
LEMMA PreparePreserves ==
    ASSUME SessionInv, NEW t \in tasks, Prepare(t)
    PROVE  SessionInv'
<1>1. UNCHANGED <<link, session, observers, posts, screen, photo, history>> /\ TypeOK
  BY DEF SessionInv, Prepare
<1>2. t \in Task
  BY <1>1 DEF TypeOK
<1>3. [t EXCEPT !.made = TRUE] \in Task
  BY <1>2 DEF Task
<1>4. t.group # NoGroup => [id |-> t.id, group |-> t.group] \in Synchronizer
  BY <1>2 DEF Task, Synchronizer, MaybeGroup
<1>5. tasks' \subseteq Task /\ replies' \subseteq Synchronizer
  BY <1>1, <1>3, <1>4 DEF TypeOK, Prepare
<1>6. TypeOK'
  BY <1>1, <1>5 DEF TypeOK, link, session, history, Histories
<1> QED
  BY <1>1, <1>6 DEF SessionInv, CountOK, OneSynchronizer, ObserversOK, EndWaiting, ScreenNotice, link, session, history, InGroup, ShouldGoOn

\* The group's data.
LEMMA ReplyPreserves ==
    ASSUME SessionInv, NEW r \in replies, Reply(r)
    PROVE  SessionInv'
<1>1. /\ UNCHANGED <<link, tasks, listening, observers, screen, photo, unseen>>
      /\ replies' \subseteq replies /\ TypeOK
  BY DEF SessionInv, Reply
<1>2. CASE late' = TRUE /\ UNCHANGED <<user, posts, silent>>
  <2>1. TypeOK'
    BY <1>1, <1>2 DEF TypeOK, link, Histories
  <2> QED
    BY <1>1, <1>2, <2>1 DEF SessionInv, CountOK, OneSynchronizer, ObserversOK, EndWaiting,
       ScreenNotice, link, InGroup, ShouldGoOn
<1>3. ASSUME NEW data \in {r.group, NoGroup},
             user' = [user EXCEPT !.info = data, !.groupOK = TRUE],
             Notify(~user.groupOK),
             late' = (late \/ Overtakes(r.id, replies \union {t \in tasks : ~t.made})),
             silent' = (silent \/ (user.groupOK /\ data # user.info))
      PROVE  SessionInv'
  <2>1. data \in MaybeGroup
    BY <1>1, <1>3 DEF TypeOK, Synchronizer, MaybeGroup
  <2>2. user \in [groupId : MaybeGroup, synchronizer : SUBSET Synchronizer, info : MaybeGroup,
                  groupOK : BOOLEAN, ended : BOOLEAN]
    BY <1>1 DEF TypeOK
  <2>3. /\ user' \in [groupId : MaybeGroup, synchronizer : SUBSET Synchronizer, info : MaybeGroup,
                      groupOK : BOOLEAN, ended : BOOLEAN]
        /\ user'.groupId = user.groupId /\ user'.synchronizer = user.synchronizer
        /\ user'.info = data /\ user'.ended = user.ended
    BY <1>3, <2>1, <2>2
  <2>4. /\ posts' \in [Kinds -> Nat]
        /\ \A k \in Kinds : posts[k] \in Nat /\ posts'[k] >= posts[k]
        /\ \A k \in observers : ~user.groupOK => posts'[k] > 0
    BY <1>1, <1>3, <2>2, Notified
  <2>5. TypeOK'
    <3>1. late' \in BOOLEAN /\ silent' \in BOOLEAN
      BY <1>1, <1>3 DEF TypeOK, Histories, Overtakes
    <3> QED
      BY <1>1, <2>3, <2>4, <3>1 DEF TypeOK, link, Histories
  <2>6. OneSynchronizer' /\ ObserversOK' /\ CountOK'
    BY <1>1, <2>3 DEF SessionInv, OneSynchronizer, ObserversOK, CountOK, link, InGroup
  <2>7. EndWaiting'
    BY <1>1, <2>3, <2>4 DEF SessionInv, EndWaiting
  <2>8. ScreenNotice'
    <3> SUFFICES ASSUME screen.at = "shown", posts'[screen.kind] = 0, ~user.ended
                 PROVE  /\ ShouldGoOn(screen.kind)
                        /\ (screen.kind = "group" /\ ~silent') => screen.shown = data
      BY <1>1, <2>3 DEF ScreenNotice, ShouldGoOn, InGroup
    <3>1. screen.kind \in observers /\ screen.kind \in Kinds
      BY <1>1 DEF SessionInv, ObserversOK, TypeOK
    <3>2. posts[screen.kind] = 0 /\ user.groupOK
      BY <2>4, <3>1
    <3> QED
      BY <1>1, <1>3, <3>2 DEF SessionInv, ScreenNotice
  <2> QED
    BY <2>5, <2>6, <2>7, <2>8 DEF SessionInv
<1> QED
  BY <1>2, <1>3 DEF Reply

\* The end of the session: those who observe are told.
LEMMA StopPreserves ==
    ASSUME SessionInv, AuthLost \/ End
    PROVE  SessionInv'
<1>1. /\ UNCHANGED <<pointer, changes, seen, pool, listening, observers, photo, late, silent>>
      /\ Stop /\ TypeOK
      /\ \/ UNCHANGED screen /\ MainFree
         \/ screen' = [screen EXCEPT !.at = "login"]
  BY DEF SessionInv, AuthLost, End
<1>2. user \in [groupId : MaybeGroup, synchronizer : SUBSET Synchronizer, info : MaybeGroup,
                groupOK : BOOLEAN, ended : BOOLEAN]
  BY <1>1 DEF TypeOK
<1>3. /\ user' \in [groupId : MaybeGroup, synchronizer : SUBSET Synchronizer, info : MaybeGroup,
                    groupOK : BOOLEAN, ended : BOOLEAN]
      /\ user'.groupId = user.groupId /\ user'.synchronizer = user.synchronizer
      /\ user'.ended = TRUE
  BY <1>1, <1>2 DEF Stop
<1>4. /\ posts' \in [Kinds -> Nat]
      /\ \A k \in Kinds : posts[k] \in Nat /\ posts'[k] >= posts[k]
      /\ \A k \in observers : ~user.ended => posts'[k] > 0
  BY <1>1, <1>2, Notified DEF Stop
<1>5. /\ screen' \in [kind : Kinds, at : Ats, shown : MaybeGroup] /\ screen'.kind = screen.kind
      /\ screen'.at \in {screen.at, "login"} /\ screen'.at # "login" => UNCHANGED screen /\ MainFree
  BY <1>1 DEF TypeOK, Ats
<1>6. TypeOK'
  <2>1. attached' \in BOOLEAN /\ unseen' \in BOOLEAN
    BY <1>1 DEF Stop, TypeOK, Histories
  <2> QED
    BY <1>1, <1>3, <1>4, <1>5, <2>1 DEF TypeOK, pool, Histories
<1>7. CountOK' /\ OneSynchronizer' /\ ObserversOK' /\ ScreenNotice'
  BY <1>1, <1>3, <1>5 DEF SessionInv, Stop, CountOK, OneSynchronizer, ObserversOK, ScreenNotice,
     InGroup
<1>9. EndWaiting'
  <2> SUFFICES ASSUME ~unseen', screen'.at \notin {"login", "crashed"}
               PROVE  \E k \in Kinds : posts'[k] > 0
    BY DEF EndWaiting
  <2>1. UNCHANGED screen /\ MainFree /\ ~unseen
        /\ ~(observers = {} /\ screen.at \in {"background", "leaving"})
    BY <1>1, <1>5 DEF Stop
  <2>2. CASE user.ended
    BY <1>4, <2>1, <2>2 DEF SessionInv, EndWaiting
  <2>3. CASE ~user.ended
    <3>1. observers # {} /\ observers \subseteq Kinds
      BY <1>1, <2>1 DEF SessionInv, ObserversOK, TypeOK, MainFree, Ats
    <3> QED
      BY <1>4, <2>3, <3>1
  <2> QED
    BY <2>2, <2>3
<1> QED
  BY <1>6, <1>7, <1>9 DEF SessionInv

\* The photo and its two looks at the session.
LEMMA PhotoPreserves ==
    ASSUME SessionInv, InsertPhoto \/ HandPhoto
    PROVE  SessionInv'
<1>1. /\ UNCHANGED <<link, pool, session, observers, posts, history>> /\ TypeOK
      /\ screen' \in {screen, [screen EXCEPT !.at = "crashed"]}
  BY DEF SessionInv, InsertPhoto, HandPhoto
<1>2. /\ screen \in [kind : Kinds, at : Ats, shown : MaybeGroup]
      /\ photo \in [at : {"none", "inserted", "handed"}, album : MaybeGroup, via : MaybeGroup]
      /\ user.groupId \in MaybeGroup
      /\ \A s \in user.synchronizer : s.group \in MaybeGroup
  BY <1>1 DEF TypeOK, Synchronizer, MaybeGroup
<1>3. CASE InsertPhoto
  <2>1. /\ UNCHANGED screen /\ InGroup
        /\ photo' = [photo EXCEPT !.at = "inserted", !.album = user.groupId]
    BY <1>3 DEF InsertPhoto
  <2>2. TypeOK'
    BY <1>1, <1>2, <2>1 DEF TypeOK, link, pool, session, history, Histories
  <2> QED
    BY <1>1, <1>2, <2>1, <2>2 DEF SessionInv, CountOK, OneSynchronizer, ObserversOK, EndWaiting,
       ScreenNotice, link, session, history, InGroup, ShouldGoOn
<1>4. CASE HandPhoto
  <2>1. CASE user.synchronizer = {}
    <3>1. screen' = [screen EXCEPT !.at = "crashed"] /\ UNCHANGED photo /\ photo.at = "inserted"
      BY <1>4, <2>1 DEF HandPhoto
    <3>2. TypeOK'
      BY <1>1, <1>2, <3>1 DEF TypeOK, link, pool, session, history, Histories, Ats
    <3> QED
      BY <1>1, <1>2, <3>1, <3>2 DEF SessionInv, CountOK, OneSynchronizer, ObserversOK,
         EndWaiting, ScreenNotice, link, session, history, InGroup
  <2>2. CASE user.synchronizer # {}
    <3>1. PICK s \in user.synchronizer :
            photo' = [photo EXCEPT !.at = "handed", !.via = s.group]
      BY <1>4, <2>2 DEF HandPhoto
    <3>2. UNCHANGED screen /\ photo.at = "inserted"
      BY <1>4, <2>2 DEF HandPhoto
    <3>3. s.group = user.groupId
      BY <3>1 DEF SessionInv, OneSynchronizer
    <3>4. TypeOK'
      BY <1>1, <1>2, <3>1, <3>2 DEF TypeOK, link, pool, session, history, Histories
    <3> QED
      BY <1>1, <1>2, <3>1, <3>2, <3>3, <3>4 DEF SessionInv, CountOK, OneSynchronizer,
         ObserversOK, EndWaiting, ScreenNotice, link, session, history, InGroup,
         ShouldGoOn
  <2> QED
    BY <2>1, <2>2
<1> QED
  BY <1>3, <1>4

\* Steps of the main thread that only move from one screen to another.
LEMMA ScreenPreserves ==
    ASSUME SessionInv, screen.at # "crashed",
           Open \/ Create \/ Register \/ Check \/ Back \/ Leave \/ Hide \/ Return
    PROVE  SessionInv'
<1>1. UNCHANGED <<Outside, posts, history>> /\ TypeOK
  BY DEF SessionInv, Open, Create, Register, Check, Back, Leave, Hide, Return
<1>2. /\ screen \in [kind : Kinds, at : Ats, shown : MaybeGroup] /\ observers \subseteq Kinds
      /\ user.info \in MaybeGroup /\ NoGroup \in MaybeGroup
  BY <1>1 DEF TypeOK, MaybeGroup
<1>3. /\ UNCHANGED <<link, pool, session, photo, posts, history>>
      /\ InGroup' = InGroup /\ \A k \in Kinds : ShouldGoOn(k)' = ShouldGoOn(k)
  BY <1>1 DEF Outside, session, InGroup, ShouldGoOn
<1> DEFINE Goal == /\ screen' \in [kind : Kinds, at : Ats, shown : MaybeGroup]
                   /\ observers' \subseteq Kinds
                   /\ ObserversOK' /\ ScreenNotice'
<1>4. ASSUME Open PROVE Goal
  <2>1. /\ screen'.kind = IF InGroup THEN "group" ELSE "management"
        /\ screen' = [kind |-> screen'.kind, at |-> "opening", shown |-> NoGroup]
        /\ observers' = {"main"}
    BY <1>4 DEF SessionInv, ObserversOK, Open
  <2> QED
    BY <1>2, <1>3, <2>1 DEF SessionInv, ObserversOK, ScreenNotice, Kinds, Ats,
       session, history
<1>5. ASSUME Create PROVE Goal
  <2>1. /\ screen.at = "opening" /\ observers' = observers
        /\ IF screen.kind = "group" /\ ~InGroup THEN screen' = [screen EXCEPT !.at = "crashed"]
           ELSE screen' = [screen EXCEPT !.at = "starting"]
    BY <1>5 DEF Create
  <2> QED
    BY <1>2, <1>3, <2>1 DEF SessionInv, ObserversOK, ScreenNotice, Ats,
       session, history
<1>6. ASSUME Register PROVE Goal
  BY <1>2, <1>3, <1>6 DEF SessionInv, ObserversOK, ScreenNotice, Ats, Register,
     session, history
<1>7. ASSUME Check PROVE Goal
  <2>1. /\ screen.at = "registered" /\ screen.kind \in observers
        /\ observers' = {screen.kind}
        /\ screen'.kind = screen.kind
        /\ screen'.at = IF ShouldGoOn(screen.kind) THEN "shown" ELSE "leaving"
        /\ screen'.shown = IF screen.kind = "group" THEN user.info ELSE screen.shown
        /\ screen' = [screen EXCEPT !.at = screen'.at, !.shown = screen'.shown]
    BY <1>2, <1>7 DEF SessionInv, ObserversOK, Check, Look
  <2> QED
    BY <1>2, <1>3, <2>1 DEF SessionInv, ObserversOK, ScreenNotice, Ats,
       session, history
<1>8. ASSUME Back PROVE Goal
  BY <1>2, <1>3, <1>8 DEF SessionInv, ObserversOK, ScreenNotice, Ats, Back,
     session, history
<1>9. ASSUME Leave PROVE Goal
  <2>1. ShouldGoOn("main")' /\ "main" \in Kinds
    BY DEF ShouldGoOn, Kinds
  <2> QED
    BY <1>2, <1>3, <1>9, <2>1 DEF SessionInv, ObserversOK, ScreenNotice, Ats, Leave,
       session, history
<1>10. ASSUME Hide PROVE Goal
  BY <1>2, <1>3, <1>10 DEF SessionInv, ObserversOK, ScreenNotice, Ats, Hide,
     session, history
<1>11. ASSUME Return PROVE Goal
  BY <1>2, <1>3, <1>11 DEF SessionInv, ObserversOK, ScreenNotice, Ats, Return,
     session, history
<1>12. Goal
  BY <1>4, <1>5, <1>6, <1>7, <1>8, <1>9, <1>10, <1>11
<1>13. TypeOK'
  BY <1>1, <1>3, <1>12 DEF TypeOK, link, pool, session, history, Histories
<1>14. CountOK' /\ OneSynchronizer'
  BY <1>3 DEF SessionInv, CountOK, OneSynchronizer, link, session
<1>15. EndWaiting'
  BY <1>1, <1>2 DEF SessionInv, EndWaiting, ObserversOK, Open, Create, Register, Check, Look, Back,
     Leave, Hide, Return, Outside, session, history
<1> QED
  BY <1>12, <1>13, <1>14, <1>15 DEF SessionInv

\* A posted update, perhaps that of a screen left long ago.
LEMMA UpdatePreserves ==
    ASSUME SessionInv, screen.at # "crashed", NEW k \in Kinds, Update(k)
    PROVE  SessionInv'
<1>1. UNCHANGED <<Outside, observers, history>> /\ TypeOK /\ MainFree /\ posts[k] > 0
  BY DEF SessionInv, Update
<1>2. /\ screen \in [kind : Kinds, at : Ats, shown : MaybeGroup] /\ user.info \in MaybeGroup
      /\ posts \in [Kinds -> Nat]
  BY <1>1 DEF TypeOK
<1>3. /\ posts' \in [Kinds -> Nat] /\ \A j \in Kinds : j # k => posts'[j] = posts[j]
  <2>1. posts[k] - 1 \in Nat
    BY <1>1, <1>2
  <2> QED
    BY <1>2, <2>1 DEF Update
<1>4. screen' \in [kind : Kinds, at : Ats, shown : MaybeGroup]
  BY <1>2 DEF Update, Look, Ats
<1>5. TypeOK'
  BY <1>1, <1>3, <1>4 DEF TypeOK, Outside, link, pool, session, history, Histories
<1>6. CountOK' /\ OneSynchronizer'
  BY <1>1 DEF SessionInv, CountOK, OneSynchronizer, Outside, link, session, InGroup
<1>7. CASE user.ended
  <2>1. screen'.at = "login" /\ UNCHANGED <<user, photo>>
    BY <1>1, <1>2, <1>7 DEF Update, Outside, session, history
  <2>2. ObserversOK' /\ EndWaiting' /\ ScreenNotice'
    BY <1>7, <2>1 DEF ObserversOK, EndWaiting, ScreenNotice
  <2> QED
    BY <1>5, <1>6, <2>2 DEF SessionInv
<1>8. CASE ~user.ended
  <2>1. screen.at # "login" /\ Look(k)
    BY <1>8 DEF SessionInv, ObserversOK, Update
  <2>2. /\ screen'.kind = screen.kind
        /\ screen'.at = IF ShouldGoOn(k) THEN screen.at ELSE "leaving"
        /\ screen'.shown = IF k = "group" /\ k = screen.kind THEN user.info ELSE screen.shown
    BY <1>1, <1>2, <2>1 DEF Look, MainFree
  <2>3. ObserversOK' /\ EndWaiting'
    BY <1>1, <1>8, <2>1, <2>2 DEF SessionInv, ObserversOK, EndWaiting, Outside, session,
       history, InGroup
  <2>4. ScreenNotice'
    BY <1>1, <1>2, <1>3, <2>2 DEF SessionInv, ScreenNotice, ShouldGoOn, InGroup, Outside, session,
       history
  <2> QED
    BY <1>5, <1>6, <2>3, <2>4 DEF SessionInv
<1> QED
  BY <1>7, <1>8

LEMMA SessionInductive == SessionInv /\ [Next]_vars => SessionInv'
<1> SUFFICES ASSUME SessionInv, [Next]_vars PROVE SessionInv'
  OBVIOUS
<1>1. CASE UNCHANGED vars
  BY <1>1 DEF SessionInv, vars, link, pool, session, history, TypeOK, CountOK, OneSynchronizer,
     ObserversOK, EndWaiting, ScreenNotice, Histories, InGroup, ShouldGoOn
<1>2. CASE Next
  <2>1. ASSUME PoolStep PROVE SessionInv'
    BY <2>1, SwapPreserves, PreparePreserves, ReplyPreserves, PhotoPreserves DEF PoolStep
  <2>2. ASSUME MainStep, screen.at # "crashed" PROVE SessionInv'
    BY <2>2, ScreenPreserves, UpdatePreserves DEF MainStep
  <2>3. ASSUME UserStep, screen.at # "crashed" PROVE SessionInv'
    BY <2>3, ScreenPreserves, StopPreserves DEF UserStep
  <2> QED
    BY <1>2, <2>1, <2>2, <2>3, LinkPreserves, StopPreserves DEF Next
<1> QED
  BY <1>1, <1>2

\* The strengthened invariant holds however pool threads overtake each other.
THEOREM SessionInvariant == Spec => []SessionInv
BY SessionStart, SessionInductive, PTL DEF Spec

\* The types.
THEOREM SessionTypes == Spec => []TypeOK
<1>1. SessionInv => TypeOK
  BY DEF SessionInv
<1> QED
  BY <1>1, SessionInvariant, PTL

\* Exactly the synchronizer of the session's group listens.
THEOREM SynchronizerIsOne == Spec => []OneSynchronizer
<1>1. SessionInv => OneSynchronizer
  BY DEF SessionInv
<1> QED
  BY <1>1, SessionInvariant, PTL

\* A screen without a waiting update belongs to the session's state.
THEOREM ScreensNotice == Spec => []ScreenNotice
<1>1. SessionInv => ScreenNotice
  BY DEF SessionInv
<1> QED
  BY <1>1, SessionInvariant, PTL

\* The end of a session in the foreground is noticed.
THEOREM EndsAreNoticed == Spec => []EndNoticed
<1>1. SessionInv => EndNoticed
  BY DEF SessionInv, EndWaiting, EndNoticed
<1> QED
  BY <1>1, SessionInvariant, PTL

-----------------------------------------------------------------------------
(***************************************************************************)
(* The strengthening of SessionFollows: while nothing is late, the value   *)
(* the listener was given last is the last one whose task takes the lock,  *)
(* and the last one whose data are asked for and answered.                 *)
(***************************************************************************)
\* What the data of the session's group still wait for.
Unanswered == replies \union {t \in tasks : ~t.made}

OfSeen(x) == x.id <= seen.count /\ (x.id = seen.count => x.group = seen.group)

Done(S) == \A x \in S : x.id # seen.count

Following ==
    /\ \A t \in tasks : OfSeen(t)
    /\ \A r \in replies : OfSeen(r)
    /\ ~late /\ Done(tasks) => tasks = {} /\ user.groupId = seen.group
    /\ ~late /\ Done(Unanswered) /\ seen.group # NoGroup =>
         Unanswered = {} /\ user.info \in {seen.group, NoGroup}

LEMMA FollowingStart == Init => Following
BY DEF Init, Following, Unanswered

\* Neither the screens nor the end of the session touch what Following is about.
LEMMA FollowingKept ==
    ASSUME Following, UNCHANGED <<seen, pool, late>>,
           user'.groupId = user.groupId, user'.info = user.info
    PROVE  Following'
BY DEF Following, OfSeen, Done, Unanswered, pool

\* A new value is waited for.
LEMMA HandOverFollows ==
    ASSUME SessionInv, Following, NEW g, HandOver(g)
    PROVE  Following'
<1> DEFINE t == [id |-> seen.count + 1, group |-> g, made |-> FALSE]
<1>1. /\ seen'.count = seen.count + 1 /\ seen'.group = g
      /\ tasks' = tasks \union {t} /\ UNCHANGED <<replies, user, late>>
  BY DEF HandOver, session, history
<1>2. /\ seen.count \in Nat /\ (\A x \in tasks : x.id \in Nat) /\ \A x \in replies : x.id \in Nat
  BY SessionAssumption DEF SessionInv, TypeOK, Task, Synchronizer, Ids
<1>3. t.id = seen'.count /\ t.group = g /\ ~t.made
  BY <1>1
<1> HIDE DEF t
<1>4. \A x \in tasks' : OfSeen(x)'
  BY <1>1, <1>2, <1>3 DEF Following, OfSeen
<1>5. \A x \in replies' : OfSeen(x)'
  BY <1>1, <1>2 DEF Following, OfSeen
<1>6. ~Done(tasks)' /\ ~Done(Unanswered)'
  BY <1>1, <1>3 DEF Done, Unanswered
<1> QED
  BY <1>4, <1>5, <1>6 DEF Following

\* What a task asks for is waited for in its place.
LEMMA PrepareFollows ==
    ASSUME SessionInv, Following, NEW t \in tasks, Prepare(t)
    PROVE  Following'
<1> DEFINE made == [t EXCEPT !.made = TRUE]
           ask == [id |-> t.id, group |-> t.group]
<1>1. /\ tasks' = (tasks \ {t}) \union {made} /\ ~t.made /\ UNCHANGED <<seen, user, late>>
      /\ replies' = IF t.group = NoGroup THEN replies ELSE replies \union {ask}
  BY DEF Prepare, link, session, history
<1>2. /\ made.id = t.id /\ made.group = t.group /\ made.made
      /\ ask.id = t.id /\ ask.group = t.group
  BY DEF SessionInv, TypeOK, Task
<1> HIDE DEF made, ask
<1>3. OfSeen(t)
  BY DEF Following
<1>4. (\A x \in tasks' : OfSeen(x)') /\ \A x \in replies' : OfSeen(x)'
  BY <1>1, <1>2, <1>3 DEF Following, OfSeen
<1>5. ~late' /\ Done(tasks)' => tasks' = {} /\ user'.groupId = seen'.group
  BY <1>1, <1>2 DEF Following, Done
<1>6. ~late' /\ Done(Unanswered)' /\ seen'.group # NoGroup => FALSE
  <2> SUFFICES ASSUME ~late, Done(Unanswered)', seen.group # NoGroup PROVE FALSE
    BY <1>1
  <2>1. t.id # seen.count
    BY <1>1, <1>2, <1>3 DEF Done, Unanswered, OfSeen
  <2>2. Done(Unanswered)
    BY <1>1, <1>2, <2>1 DEF Done, Unanswered
  <2> QED
    BY <1>1, <2>2 DEF Following, Unanswered
<1> QED
  BY <1>4, <1>5, <1>6 DEF Following

\* The last value is swapped in when no other is left, or something is late.
LEMMA SwapFollows ==
    ASSUME SessionInv, Following, NEW t \in tasks, Swap(t)
    PROVE  Following'
<1>1. /\ tasks' = tasks \ {t} /\ t.made /\ UNCHANGED <<seen, replies>>
      /\ late' = (late \/ Overtakes(t.id, tasks))
  BY DEF Swap, link
<1>2. user'.groupId = t.group /\ user'.info = user.info
  BY DEF Swap, SessionInv, TypeOK, session
<1>3. /\ seen.count \in Nat /\ \A x \in tasks : x.id \in Nat /\ OfSeen(x)
  BY SessionAssumption DEF SessionInv, TypeOK, Task, Ids, Following
<1>4. (\A x \in tasks' : OfSeen(x)') /\ \A x \in replies' : OfSeen(x)'
  BY <1>1 DEF Following, OfSeen
<1>5. ASSUME ~late', Done(tasks)' PROVE tasks' = {} /\ user'.groupId = seen'.group
  <2>1. ~late /\ tasks # {}
    BY <1>1, <1>5
  <2>2. t.id = seen.count
    BY <1>1, <1>5, <2>1 DEF Following, Done
  <2>3. \A x \in tasks : x.id = seen.count
    <3>1. ~Overtakes(t.id, tasks)
      BY <1>1, <1>5
    <3>2. \A x \in tasks : ~(x.id < seen.count)
      BY <2>2, <3>1 DEF Overtakes
    <3> QED
      BY <1>3, <3>2 DEF OfSeen
  <2> QED
    BY <1>1, <1>2, <1>3, <1>5, <2>2, <2>3 DEF Done, OfSeen
<1>6. Unanswered' = Unanswered
  BY <1>1 DEF Unanswered
<1>7. ASSUME ~late', Done(Unanswered)', seen'.group # NoGroup
      PROVE  Unanswered' = {} /\ user'.info \in {seen'.group, NoGroup}
  <2>1. ~late /\ Done(Unanswered)
    BY <1>1, <1>6, <1>7 DEF Done
  <2> QED
    BY <1>1, <1>2, <1>6, <1>7, <2>1 DEF Following
<1> QED
  BY <1>4, <1>5, <1>7 DEF Following

\* The last answer comes when no other is waited for, or something is late.
LEMMA ReplyFollows ==
    ASSUME SessionInv, Following, NEW r \in replies, Reply(r)
    PROVE  Following'
<1>1. /\ replies' = replies \ {r} /\ UNCHANGED <<seen, tasks>>
      /\ \/ /\ user'.info \in {r.group, NoGroup} /\ user'.groupId = user.groupId
            /\ late' = (late \/ Overtakes(r.id, replies \union {t \in tasks : ~t.made}))
         \/ late' = TRUE
  BY DEF Reply, link, SessionInv, TypeOK
<1>2. /\ seen.count \in Nat /\ (\A x \in tasks : x.id \in Nat /\ OfSeen(x))
      /\ \A x \in replies : x.id \in Nat /\ OfSeen(x)
  BY SessionAssumption DEF SessionInv, TypeOK, Task, Synchronizer, Ids, Following
<1>3. (\A x \in tasks' : OfSeen(x)') /\ \A x \in replies' : OfSeen(x)'
  BY <1>1 DEF Following, OfSeen
<1>4. ~late' /\ Done(tasks)' => tasks' = {} /\ user'.groupId = seen'.group
  BY <1>1 DEF Following, Done
<1>5. ASSUME ~late', Done(Unanswered)', seen'.group # NoGroup
      PROVE  Unanswered' = {} /\ user'.info \in {seen'.group, NoGroup}
  <2>1. ~late /\ r \in Unanswered /\ Unanswered' = replies' \union {t \in tasks : ~t.made}
    BY <1>1, <1>5 DEF Unanswered
  <2>2. r.id = seen.count
    <3>1. ~Done(Unanswered)
      BY <1>1, <1>5, <2>1 DEF Following
    <3> QED
      BY <1>1, <1>5, <3>1 DEF Done, Unanswered
  <2>3. \A x \in Unanswered : x.id = seen.count
    <3>1. ~Overtakes(r.id, Unanswered)
      BY <1>1, <1>5 DEF Unanswered
    <3>2. \A x \in Unanswered : ~(x.id < seen.count)
      BY <2>2, <3>1 DEF Overtakes
    <3> QED
      BY <1>2, <3>2 DEF OfSeen, Unanswered
  <2> QED
    BY <1>1, <1>2, <1>5, <2>2, <2>3 DEF Done, OfSeen, Unanswered
<1> QED
  BY <1>3, <1>4, <1>5 DEF Following

LEMMA FollowingInductive == SessionInv /\ Following /\ [Next]_vars => Following'
<1> SUFFICES ASSUME SessionInv, Following, [Next]_vars PROVE Following'
  OBVIOUS
<1>1. CASE UNCHANGED vars
  BY <1>1, FollowingKept DEF vars, link, pool, session, history
<1>2. ASSUME (\E g \in MaybeGroup : Point(g)) \/ Deliver \/ Cancel PROVE Following'
  BY <1>2, HandOverFollows, FollowingKept DEF Point, Deliver, Cancel, session, history
<1>3. ASSUME AuthLost \/ End PROVE Following'
  BY <1>3, FollowingKept DEF AuthLost, End, Stop, SessionInv, TypeOK
<1>4. ASSUME PoolStep PROVE Following'
  BY <1>4, PrepareFollows, SwapFollows, ReplyFollows, FollowingKept
     DEF PoolStep, InsertPhoto, HandPhoto, link, session, history
<1>5. ASSUME \/ MainStep
             \/ Open \/ Back \/ Hide \/ Return
      PROVE  Following'
  BY <1>5, FollowingKept DEF MainStep, Create, Register, Check, Leave, Update, Open, Back, Hide,
     Return, Outside, link, session, history
<1> QED
  BY <1>1, <1>2, <1>3, <1>4, <1>5 DEF Next, UserStep

\* While nothing is late, values are swapped in and answered in the order the
\* listener was given them.
THEOREM FollowingInvariant == Spec => []Following
BY FollowingStart, FollowingInductive, SessionInvariant, PTL DEF Spec

\* When all values have been handled in their order the session is in the group of the
\* pointer and shows the data of no other group.
THEOREM SessionFollowsPointer == Spec => []SessionFollows
<1>1. Following => SessionFollows
  <2> SUFFICES ASSUME Following, seen.group = pointer, tasks = {}, ~late
               PROVE  /\ user.groupId = pointer
                      /\ (replies = {} /\ InGroup) => user.info \in {user.groupId, NoGroup}
    BY DEF SessionFollows
  <2> QED
    BY DEF Following, Done, Unanswered, InGroup
<1> QED
  BY <1>1, FollowingInvariant, PTL

==============================================================================
