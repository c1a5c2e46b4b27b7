--------------------------- MODULE PhotoSyncProofs ---------------------------
(***************************************************************************)
(* Safety of the synchronizer, for any number of synchronisations, runs,   *)
(* names and failures and any levels: the types, the file shown, the name  *)
(* published, no upload of another's photo, and the refinement of the      *)
(* lock.  Devices with another member's photo (DownloadInv) and that of    *)
(* the photographer (UploadInv) are two inductions.                        *)
(***************************************************************************)
EXTENDS PhotoSync, TLAPS

\* Scaling to a natural size gives a natural size.
LEMMA RoundedType == ASSUME NEW p \in Nat, NEW q \in Nat, q > 0 PROVE Rounded(p, q) \in Nat
<1>1. 2 * p + q \in Nat /\ 2 * q \in Nat /\ 2 * q > 0
  OBVIOUS
<1>2. ASSUME NEW a \in Nat, NEW b \in Nat, b > 0 PROVE a \div b \in Nat
  BY <1>2
<1> QED
  BY <1>1, <1>2 DEF Rounded

\* The versions of an image that has a width have natural dimensions.
LEMMA VersionsTyped ==
    ASSUME NEW w \in Nat, NEW h \in Nat, w > 0
    PROVE  lowVersion(<<w, h>>) \in Nat \X Nat /\ highVersion(<<w, h>>) \in Nat \X Nat
<1>1. ASSUME NEW a \in Nat, NEW b \in Nat PROVE Resized(<<w, h>>, <<a, b>>) \in Nat \X Nat
  <2>1. h * a \in Nat /\ w * b \in Nat
    OBVIOUS
  <2>2. CASE w * b >= h * a
    <3>1. Rounded(h * a, w) \in Nat
      BY <2>1, RoundedType
    <3> QED
      BY <2>2, <3>1 DEF Resized
  <2>3. CASE ~(w * b >= h * a)
    <3>1. h > 0
      <4>1. h = 0 => h * a = 0
        BY SMT
      <4> QED
        BY <2>1, <2>3, <4>1
    <3>2. Rounded(w * b, h) \in Nat
      BY <2>1, <3>1, RoundedType
    <3> QED
      BY <2>3, <3>2 DEF Resized
  <2> QED
    BY <2>2, <2>3
<1> QED
  BY <1>1 DEF lowVersion, highVersion

\* A version of the photo has natural dimensions.
LEMMA VersionType == \A v \in Levels : Version(v) \in Nat \X Nat
<1>1. PICK w \in Nat, h \in Nat : w > 0 /\ Original = <<w, h>>
  BY PhotoAssumption
<1>2. lowVersion(Original) \in Nat \X Nat /\ highVersion(Original) \in Nat \X Nat
  BY <1>1, VersionsTyped
<1> QED
  BY <1>1, <1>2 DEF Version

\* Both measures give every width one of the three resolutions.
LEMMA Measured == \A n \in Nat : calculateResolution(n) \in 1 .. 3 /\ publishedResolution(n) \in 1 .. 3
BY DEF calculateResolution, publishedResolution, SIZE_LOW, SIZE_HIGH

\* Invalidation and collection of garbage keep the fields of the objects in use.
LEMMA ObjectsKept ==
    ASSUME NEW ts \in [Tasks -> Task], NEW rs \in [Runs -> Run]
    PROVE  /\ Blank \in Task
           /\ Invalidated(ts) \in [Tasks -> Task]
           /\ \A t \in Tasks : /\ Invalidated(ts)[t].file = ts[t].file
                               /\ Invalidated(ts)[t].claim = ts[t].claim
           /\ Collected(ts, rs) \in [Tasks -> Task]
           /\ \A t \in Tasks : Collected(ts, rs)[t] \in {ts[t], Blank}
           /\ \A r \in Runs : rs[r].task \in Tasks => Collected(ts, rs)[rs[r].task] = ts[rs[r].task]
<1>1. Blank \in Task
  BY DEF Blank, Task, MaxPending, NoFile, Resolutions
<1>2. /\ Invalidated(ts) \in [Tasks -> Task]
      /\ \A t \in Tasks : /\ Invalidated(ts)[t].file = ts[t].file
                          /\ Invalidated(ts)[t].claim = ts[t].claim
  <2>1. ASSUME NEW x \in Task, NEW b \in BOOLEAN
        PROVE  /\ [x EXCEPT !.dirty = b] \in Task
               /\ [x EXCEPT !.dirty = b].file = x.file /\ [x EXCEPT !.dirty = b].claim = x.claim
    BY DEF Task
  <2>2. \A t \in Tasks : (ts[t].dirty \/ ts[t].observing) \in BOOLEAN
    BY DEF Task
  <2> QED
    BY <2>1, <2>2 DEF Invalidated
<1>3. /\ Collected(ts, rs) \in [Tasks -> Task]
      /\ \A t \in Tasks : Collected(ts, rs)[t] \in {ts[t], Blank}
  BY <1>1 DEF Collected
<1>4. \A r \in Runs : rs[r].task \in Tasks => Collected(ts, rs)[rs[r].task] = ts[rs[r].task]
  BY DEF Collected
<1> QED
  BY <1>1, <1>2, <1>3, <1>4

\* A run that is not under way.
LEMMA IdleRunType == IdleRun \in Run /\ IdleRun.at = "idle"
BY DEF IdleRun, Run, NoFile, Nothing, Levels, Resolutions

\* A start puts its object in the place of a blank one.
LEMMA StartedType ==
    ASSUME TypeOK, NEW t \in Tasks, NEW kind \in {"up", "down"}, Start(t, kind)
    PROVE  /\ tasks' \in [Tasks -> Task]
           /\ \A u \in Tasks : tasks'[u].file = tasks[u].file /\ tasks'[u].claim = tasks[u].claim
<1> DEFINE new == [Blank EXCEPT !.kind = kind, !.observing = TRUE, !.dirty = TRUE]
<1>1. new \in Task /\ new.file = Blank.file /\ new.claim = Blank.claim
  <2>1. Blank \in Task
    BY ObjectsKept DEF TypeOK
  <2> HIDE DEF Blank
  <2> QED
    BY <2>1 DEF Task
<1> HIDE DEF new
<1>2. tasks' = [tasks EXCEPT ![t] = new] /\ tasks[t] = Blank
  BY DEF Start, Free, new
<1> QED
  BY <1>1, <1>2 DEF TypeOK

\* The steps of an object between two runs: the lock is taken for a run that was free, or
\* nothing happens to runs and lock.
LEMMA TaskStepShape ==
    ASSUME TypeOK, NEW t \in Tasks, TaskStep(t)
    PROVE  /\ UNCHANGED <<level, local, events, remote, failures>>
           /\ tasks' \in [Tasks -> Task]
           /\ \A u \in Tasks : tasks'[u].claim \in {tasks[u].claim, 0}
           /\ \A r \in Runs : runs[r].task \in Tasks => tasks'[runs[r].task].file = VolatileFile(r)
           /\ \/ UNCHANGED <<locked, runs>>
              \/ /\ ~locked /\ locked' = TRUE
                 /\ \A u \in Tasks : tasks'[u].file = tasks[u].file
                 /\ \E r \in Runs, y \in Run :
                      /\ runs[r] = IdleRun /\ runs' = [runs EXCEPT ![r] = y]
                      /\ y.task = t /\ y.at \in {"up run", "down run"}
<1>0. /\ runs \in [Runs -> Run] /\ tasks \in [Tasks -> Task] /\ tasks[t] \in Task
      /\ UNCHANGED <<level, local, events, remote, failures>>
  BY DEF TypeOK, TaskStep, Compute, Deliver, TryStart
<1>1. ASSUME NEW x \in Task, x.file = tasks[t].file, x.claim = tasks[t].claim,
             \/ tasks' = [tasks EXCEPT ![t] = x]
             \/ tasks' = Collected([tasks EXCEPT ![t] = x], runs)
      PROVE  /\ tasks' \in [Tasks -> Task]
             /\ \A u \in Tasks : tasks'[u].claim \in {tasks[u].claim, 0}
             /\ \A r \in Runs : runs[r].task \in Tasks => tasks'[runs[r].task].file = VolatileFile(r)
  <2> DEFINE ts == [tasks EXCEPT ![t] = x]
  <2>1. /\ ts \in [Tasks -> Task]
        /\ \A u \in Tasks : ts[u].file = tasks[u].file /\ ts[u].claim = tasks[u].claim
    BY <1>0, <1>1
  <2>2. tasks' = ts \/ tasks' = Collected(ts, runs)
    BY <1>1
  <2> HIDE DEF ts
  <2>3. /\ Collected(ts, runs) \in [Tasks -> Task]
        /\ \A u \in Tasks : Collected(ts, runs)[u] \in {ts[u], Blank}
        /\ \A r \in Runs : runs[r].task \in Tasks => Collected(ts, runs)[runs[r].task] = ts[runs[r].task]
    BY <1>0, <2>1, ObjectsKept
  <2>4. tasks' \in [Tasks -> Task]
    BY <2>1, <2>2, <2>3
  <2>5. \A u \in Tasks : tasks'[u].claim \in {tasks[u].claim, 0}
    BY <2>1, <2>2, <2>3 DEF Blank
  <2>6. \A r \in Runs : runs[r].task \in Tasks => tasks'[runs[r].task].file = VolatileFile(r)
    BY <2>1, <2>2, <2>3 DEF VolatileFile
  <2> QED
    BY <2>4, <2>5, <2>6
<1>2. CASE Compute(t)
  <2> DEFINE x == [tasks[t] EXCEPT !.dirty = FALSE, !.posted = IF locked THEN "held" ELSE "free"]
  <2>1. x \in Task /\ x.file = tasks[t].file /\ x.claim = tasks[t].claim
    BY <1>0 DEF Task
  <2>2. tasks' = [tasks EXCEPT ![t] = x] /\ UNCHANGED <<locked, runs>>
    BY <1>0, <1>2 DEF Compute
  <2> QED
    BY <1>0, <1>1, <2>1, <2>2
<1>3. CASE Deliver(t)
  <2> DEFINE x == [tasks[t] EXCEPT
               !.posted = "none",
               !.pending = IF tasks[t].posted = "free" THEN @ + 1 ELSE @,
               !.observing = ~tasks[t].last,
               !.dirty = @ /\ ~tasks[t].last]
  <2>1. x \in Task /\ x.file = tasks[t].file /\ x.claim = tasks[t].claim
    <3>1. (tasks[t].dirty /\ ~tasks[t].last) \in BOOLEAN /\ (~tasks[t].last) \in BOOLEAN
      OBVIOUS
    <3>2. (IF tasks[t].posted = "free" THEN tasks[t].pending + 1 ELSE tasks[t].pending) \in 0 .. MaxPending
      BY <1>0, <1>3 DEF Task, Deliver, MaxPending
    <3> QED
      BY <1>0, <3>1, <3>2 DEF Task
  <2>2. tasks' = Collected([tasks EXCEPT ![t] = x], runs) /\ UNCHANGED <<locked, runs>>
    BY <1>0, <1>3 DEF Deliver
  <2> QED
    BY <1>0, <1>1, <2>1, <2>2
<1>4. CASE TryStart(t)
  <2> DEFINE x == [tasks[t] EXCEPT !.pending = @ - 1]
  <2>1. x \in Task /\ x.file = tasks[t].file /\ x.claim = tasks[t].claim
    <3>1. tasks[t].pending - 1 \in 0 .. MaxPending
      BY <1>0, <1>4 DEF Task, TryStart, MaxPending
    <3> QED
      BY <1>0, <3>1 DEF Task
  <2>2. CASE ~LockFree
    <3>1. tasks' = Collected([tasks EXCEPT ![t] = x], runs) /\ UNCHANGED <<locked, runs>>
      BY <1>4, <2>2 DEF TryStart
    <3> QED
      BY <1>0, <1>1, <2>1, <3>1
  <2>3. CASE LockFree
    <3>1. PICK r \in Runs :
            /\ runs[r] = IdleRun
            /\ runs' = [runs EXCEPT ![r] = [IdleRun EXCEPT
                 !.task = t, !.at = IF tasks[t].kind = "up" THEN "up run" ELSE "down run"]]
      BY <1>4, <2>3 DEF TryStart
    <3>2. /\ locked' = TRUE /\ ~locked
          /\ tasks' = Invalidated([tasks EXCEPT ![t] = Unobserved(x)])
      BY <1>4, <2>3 DEF TryStart, LockFree
    <3>3. Unobserved(x) \in Task /\ Unobserved(x).file = x.file /\ Unobserved(x).claim = x.claim
      <4> HIDE DEF x
      <4> QED
        BY <2>1 DEF Unobserved, Task
    <3> DEFINE ts == [tasks EXCEPT ![t] = Unobserved(x)]
               y == [IdleRun EXCEPT
                 !.task = t, !.at = IF tasks[t].kind = "up" THEN "up run" ELSE "down run"]
    <3>4. /\ ts \in [Tasks -> Task] /\ tasks' = Invalidated(ts)
          /\ \A u \in Tasks : ts[u].file = tasks[u].file /\ ts[u].claim = tasks[u].claim
      BY <1>0, <2>1, <3>2, <3>3
    <3>5. IdleRun \in Run
      BY IdleRunType
    <3>6. y \in Run /\ y.task = t /\ y.at \in {"up run", "down run"}
      BY <3>5 DEF Run, UploadSteps, DownloadSteps, IdleRun
    <3> HIDE DEF x, y, ts
    <3>7. runs' = [runs EXCEPT ![r] = y]
      BY <3>1 DEF y
    <3>8. /\ tasks' \in [Tasks -> Task]
          /\ \A u \in Tasks : tasks'[u].file = tasks[u].file /\ tasks'[u].claim = tasks[u].claim
      BY <1>0, <3>4, ObjectsKept
    <3>9. \A s \in Runs : runs[s].task \in Tasks => tasks'[runs[s].task].file = VolatileFile(s)
      BY <3>8 DEF VolatileFile
    <3> QED
      BY <1>0, <3>1, <3>2, <3>6, <3>7, <3>8, <3>9
  <2> QED
    BY <2>2, <2>3
<1> QED
  BY <1>2, <1>3, <1>4 DEF TaskStep

-----------------------------------------------------------------------------
\* A step that leaves the row, the disk, the lock and the runs alone, and the files
\* of the objects that have a run.
LEMMA OutsideStep ==
    ASSUME DownloadInv, UNCHANGED <<local, locked, runs>>,
           level' \in LevelChoices, tasks' \in [Tasks -> Task], events' \subseteq Node,
           node' \in Node, functions' \subseteq Function, failures' \in 0 .. MaxFailures,
           bucket' \in [Levels \X Uploads -> Nat \X Nat],
           \A f \in Levels \X Uploads : bucket'[f] \in {Nothing, Version(f[1])},
           \A r \in Runs : runs[r].task \in Tasks => tasks'[runs[r].task].file = VolatileFile(r)
    PROVE  DownloadInv'
<1>1. TypeOK'
  BY DEF DownloadInv, TypeOK, local
<1>2. OneDownload' /\ OnlineCovers'
  BY DEF DownloadInv, OneDownload, OnlineCovers, Busy, At, local
<1>3. FilesShowVersions' /\ ShownFile'
  BY DEF DownloadInv, FilesShowVersions, ShownFile, local
<1>4. ASSUME NEW r \in Runs PROVE DownloadOK(r)'
  <2>1. DownloadOK(r)
    BY DEF DownloadInv
  <2> QED
    BY <2>1 DEF DownloadOK, At, VolatileFile, local
<1> QED
  BY <1>1, <1>2, <1>3, <1>4 DEF DownloadInv, local

\* The end of the only run: nothing is left to be said of it.
LEMMA EndStep ==
    ASSUME DownloadInv, NEW r \in Runs, runs[r].at # "idle", End(r),
           UNCHANGED <<level, events, remote>>, failures' \in 0 .. MaxFailures,
           row' \in Row, disk' \in [Files -> Nat \X Nat],
           \A f \in Files : disk'[f] \in {Nothing, Version(f[1])},
           ShownFile', row'.local <= row'.online,
           ~row'.known => row'.file = NoFile /\ row'.local = -1
    PROVE  DownloadInv'
<1>1. /\ runs' = [runs EXCEPT ![r] = IdleRun]
      /\ locked' = FALSE
      /\ tasks' = Collected(Released(tasks), runs')
  BY DEF End, Release
<1>2. IdleRun \in Run /\ IdleRun.at = "idle"
  BY IdleRunType
<1>3. runs' \in [Runs -> Run] /\ \A s \in Runs : runs'[s].at = "idle"
  <2>1. \A s \in Runs : s # r => runs[s].at = "idle"
    BY DEF DownloadInv, OneDownload, Busy
  <2>2. runs \in [Runs -> Run]
    BY DEF DownloadInv, TypeOK
  <2> HIDE DEF IdleRun, Run
  <2> QED
    BY <1>1, <1>2, <2>1, <2>2
<1>4. tasks' \in [Tasks -> Task]
  <2>1. Released(tasks) \in [Tasks -> Task]
    BY ObjectsKept, <1>3 DEF DownloadInv, TypeOK, Released
  <2> QED
    BY <1>1, <1>3, <2>1, ObjectsKept
<1>5. TypeOK'
  BY <1>1, <1>3, <1>4 DEF DownloadInv, TypeOK, remote
<1>6. OneDownload' /\ OnlineCovers'
  BY <1>1, <1>3 DEF OneDownload, OnlineCovers, Busy
<1>7. FilesShowVersions'
  BY DEF DownloadInv, FilesShowVersions, remote
<1>8. \A s \in Runs : DownloadOK(s)'
  BY <1>3 DEF DownloadOK, At, DownloadSteps
<1> QED
  BY <1>5, <1>6, <1>7, <1>8 DEF DownloadInv

\* A step of the only run, which goes on.
LEMMA RunGoesOn ==
    ASSUME DownloadInv, NEW r \in Runs, NEW x \in Run,
           locked' = TRUE, runs' = [runs EXCEPT ![r] = x],
           runs[r].at # "idle" \/ ~locked,
           x.at \in DownloadSteps \union {"up run"},
           UNCHANGED <<level, events, remote, failures>>,
           tasks' \in [Tasks -> Task], row' \in Row, disk' \in [Files -> Nat \X Nat],
           \A f \in Files : disk'[f] \in {Nothing, Version(f[1])},
           ShownFile', row'.local <= row'.online \/ (x.at = "down finish" /\ row'.local <= x.res),
           ~row'.known => row'.file = NoFile /\ row'.local = -1,
           DownloadOK(r)'
    PROVE  DownloadInv'
<1>1. runs' \in [Runs -> Run] /\ runs'[r] = x
  BY DEF DownloadInv, TypeOK
<1>2. \A s \in Runs : s # r => runs'[s].at = "idle"
  BY DEF DownloadInv, TypeOK, OneDownload, Busy
<1>3. TypeOK'
  BY <1>1 DEF DownloadInv, TypeOK, remote
<1>4. x.at # "idle"
  BY DEF DownloadSteps
<1>5. OneDownload'
  BY <1>1, <1>2, <1>4 DEF OneDownload, Busy
<1>6. OnlineCovers'
  BY <1>1 DEF OnlineCovers, At
<1>7. FilesShowVersions'
  BY DEF DownloadInv, FilesShowVersions, remote
<1>8. \A s \in Runs : DownloadOK(s)'
  BY <1>2 DEF DownloadOK, At, DownloadSteps
<1> QED
  BY <1>3, <1>5, <1>6, <1>7, <1>8 DEF DownloadInv

\* At first nothing is known, held or stored.
LEMMA DownloadStart == ASSUME ~OwnPhoto, Init PROVE DownloadInv
<1>1. row \in Row /\ row.known = FALSE /\ row.file = NoFile /\ row.local = -1 /\ row.online = 0
  <2>1. row = [known |-> FALSE, file |-> NoFile, local |-> -1, online |-> 0]
    BY DEF Init, NewRow
  <2> HIDE DEF NoFile
  <2>2. -1 \in -1 .. 3 /\ 0 \in Resolutions
    BY DEF Resolutions
  <2> QED
    BY <2>1, <2>2 DEF Row
<1>2. EmptyNode \in Node
  BY DEF EmptyNode, Node, Resolutions
<1>3. IdleRun \in Run /\ IdleRun.at = "idle" /\ Blank \in Task /\ Nothing \in Nat \X Nat
  BY ObjectsKept DEF IdleRun, Run, NoFile, Nothing, Levels, Resolutions, Blank, Task, MaxPending
<1>4. TypeOK
  <2>1. disk \in [Files -> Nat \X Nat] /\ bucket \in [Levels \X Uploads -> Nat \X Nat]
    BY <1>3 DEF Init
  <2>2. tasks \in [Tasks -> Task] /\ runs \in [Runs -> Run]
    BY <1>3 DEF Init
  <2>3. events \subseteq Node /\ node \in Node /\ functions \subseteq Function
    BY <1>2 DEF Init
  <2>4. level \in LevelChoices /\ locked \in BOOLEAN
    BY DEF Init
  <2>5. failures \in 0 .. MaxFailures
    BY PhotoAssumption DEF Init
  <2> QED
    BY <1>1, <2>1, <2>2, <2>3, <2>4, <2>5 DEF TypeOK
<1>5. OneDownload /\ OnlineCovers /\ \A r \in Runs : DownloadOK(r)
  <2>1. \A r \in Runs : runs[r].at = "idle"
    BY <1>3 DEF Init
  <2>2. Busy = {} /\ locked = FALSE
    BY <2>1 DEF Busy, Init
  <2>3. OneDownload
    BY <2>1, <2>2 DEF OneDownload
  <2>4. OnlineCovers
    BY <1>1 DEF OnlineCovers
  <2>5. \A r \in Runs : DownloadOK(r)
    BY <2>1 DEF DownloadOK, At, DownloadSteps
  <2> QED
    BY <2>3, <2>4, <2>5
<1>6. FilesShowVersions /\ ShownFile
  BY <1>1 DEF Init, FilesShowVersions, ShownFile
<1> QED
  BY <1>1, <1>4, <1>5, <1>6 DEF DownloadInv

-----------------------------------------------------------------------------
(* One lemma per group of actions *)

\* The timer only starts objects.
LEMMA TimerPreserves ==
    ASSUME DownloadInv, NEW t \in Tasks, TimerDownload(t) \/ TimerUpload(t)
    PROVE  DownloadInv'
<1>1. tasks' \in [Tasks -> Task] /\ \A u \in Tasks : tasks'[u].file = tasks[u].file
  BY StartedType DEF TimerDownload, TimerUpload, DownloadInv
<1>2. UNCHANGED <<level, local, locked, runs, events, remote, failures>>
  BY DEF TimerDownload, TimerUpload
<1> QED
  BY <1>1, <1>2, OutsideStep DEF DownloadInv, TypeOK, FilesShowVersions, VolatileFile, remote

\* Other devices and the functions store versions of the original only.
LEMMA EnvironmentPreserves ==
    ASSUME DownloadInv,
           (\E n \in Uploads : RemoteUpload(n)) \/ (\E l \in LevelChoices : SetLevel(l))
             \/ FunctionStep \/ FunctionFailure
    PROVE  DownloadInv'
<1>0. /\ runs \in [Runs -> Run] /\ tasks \in [Tasks -> Task] /\ node \in Node
      /\ events \subseteq Node /\ functions \subseteq Function /\ failures \in 0 .. MaxFailures
      /\ level \in LevelChoices /\ bucket \in [Levels \X Uploads -> Nat \X Nat]
      /\ \A f \in Levels \X Uploads : bucket[f] \in {Nothing, Version(f[1])}
  BY DEF DownloadInv, TypeOK, FilesShowVersions
<1>1. CASE \E n \in Uploads : RemoteUpload(n)
  <2> PICK n \in Uploads : RemoteUpload(n)
    BY <1>1
  <2>1. UNCHANGED <<level, local, sync, failures>>
    BY DEF RemoteUpload
  <2>2. [node EXCEPT !.full = n] \in Node
    BY <1>0 DEF Node
  <2>3. node' \in Node /\ events' \subseteq Node
    BY <1>0, <2>2 DEF RemoteUpload, Publish
  <2>4. functions' \subseteq Function
    BY <1>0 DEF RemoteUpload, Function
  <2>5. Original \in Nat \X Nat /\ Original = Version("full")
    BY PhotoAssumption DEF Version
  <2>6. bucket' = [bucket EXCEPT ![<<"full", n>>] = Original]
    BY DEF RemoteUpload
  <2>7. /\ bucket' \in [Levels \X Uploads -> Nat \X Nat]
        /\ \A f \in Levels \X Uploads : bucket'[f] \in {Nothing, Version(f[1])}
    <3> DEFINE k == <<"full", n>>
    <3>1. k \in Levels \X Uploads /\ k[1] = "full"
      BY DEF Levels
    <3> HIDE DEF k
    <3>2. bucket' = [bucket EXCEPT ![k] = Original]
      BY <2>6 DEF k
    <3> QED
      BY <1>0, <2>5, <3>1, <3>2
  <2> QED
    BY <1>0, <2>1, <2>3, <2>4, <2>7, OutsideStep DEF sync, VolatileFile
<1>2. CASE \E l \in LevelChoices : SetLevel(l)
  BY <1>0, <1>2, OutsideStep DEF SetLevel, sync, remote, VolatileFile
<1>3. CASE FunctionStep
  <2> PICK f \in functions : \/ Resize(f) \/ ResizeNothing(f) \/ WriteResolution(f)
                           \/ WriteLow(f) \/ WriteHigh(f)
    BY <1>3 DEF FunctionStep
  <2>0. f.name \in Uploads /\ f \in Function
    BY <1>0 DEF Function
  <2>1. UNCHANGED <<level, local, sync, failures>>
    BY <1>3 DEF FunctionStep, Resize, ResizeNothing, WriteResolution, WriteLow, WriteHigh
  <2>2. functions' \subseteq Function
    <3>1. \A at \in {"resize", "resolution", "low", "high"} : [f EXCEPT !.at = at] \in Function
      BY <2>0 DEF Function
    <3> QED
      BY <1>0, <3>1 DEF Resize, ResizeNothing, WriteResolution, WriteLow, WriteHigh
  <2>3. node' \in Node /\ events' \subseteq Node
    <3>1. CASE Resize(f) \/ ResizeNothing(f)
      BY <1>0, <3>1 DEF Resize, ResizeNothing
    <3>2. CASE WriteResolution(f)
      <4>1. bucket[<<"full", f.name>>][1] \in Nat
        BY <1>0, <2>0 DEF Levels
      <4>2. publishedResolution(bucket[<<"full", f.name>>][1]) \in Resolutions
        BY <4>1, Measured DEF Resolutions
      <4>3. \A p \in Resolutions : [node EXCEPT !.resolution = p] \in Node
        BY <1>0 DEF Node
      <4> QED
        BY <1>0, <3>2, <4>2, <4>3 DEF WriteResolution, Publish
    <3>3. CASE WriteLow(f) \/ WriteHigh(f)
      <4>1. [node EXCEPT !.low = f.name] \in Node /\ [node EXCEPT !.high = f.name] \in Node
        BY <1>0, <2>0 DEF Node
      <4> QED
        BY <1>0, <3>3, <4>1 DEF WriteLow, WriteHigh, Publish
    <3> QED
      BY <3>1, <3>2, <3>3
  <2>4. /\ bucket' \in [Levels \X Uploads -> Nat \X Nat]
        /\ \A g \in Levels \X Uploads : bucket'[g] \in {Nothing, Version(g[1])}
    <3>1. CASE Resize(f)
      <4>1. bucket[<<"full", f.name>>] = Original
        BY <1>0, <2>0, <3>1 DEF Resize, Version, Levels
      <4>2. bucket' = [bucket EXCEPT ![<<"low", f.name>>] = Version("low"),
                                     ![<<"high", f.name>>] = Version("high")]
        BY <3>1, <4>1 DEF Resize, Version
      <4>3. Version("low") \in Nat \X Nat /\ Version("high") \in Nat \X Nat
        BY VersionType DEF Levels
      <4> DEFINE k == <<"low", f.name>>
                 h == <<"high", f.name>>
      <4>4. /\ k \in Levels \X Uploads /\ k[1] = "low"
            /\ h \in Levels \X Uploads /\ h[1] = "high"
        BY <2>0 DEF Levels
      <4> HIDE DEF k, h
      <4>5. bucket' = [bucket EXCEPT ![k] = Version("low"), ![h] = Version("high")]
        BY <4>2 DEF k, h
      <4> QED
        BY <1>0, <4>3, <4>4, <4>5
    <3>2. CASE UNCHANGED bucket
      BY <1>0, <3>2
    <3> QED
      BY <3>1, <3>2 DEF ResizeNothing, WriteResolution, WriteLow, WriteHigh
  <2> QED
    BY <1>0, <2>1, <2>2, <2>3, <2>4, OutsideStep DEF sync, VolatileFile
<1>4. CASE FunctionFailure
  <2> PICK f \in functions : FunctionDies(f)
    BY <1>4 DEF FunctionFailure
  <2>1. failures' \in 0 .. MaxFailures
    BY <1>0, PhotoAssumption DEF FunctionDies
  <2> QED
    BY <1>0, <1>4, <2>1, OutsideStep DEF FunctionFailure, FunctionDies, sync, VolatileFile
<1> QED
  BY <1>1, <1>2, <1>3, <1>4

\* An event leaves the file and its resolution alone and never makes the photo look
\* less available than it did.
LEMMA EventPreserves ==
    ASSUME DownloadInv, NEW s \in events, HandleEvent(s)
    PROVE  DownloadInv'
<1> DEFINE added == IF ~row.known /\ s = EmptyNode THEN NewRow ELSE row
<1>0. /\ row \in Row /\ s \in Node /\ (~row.known => row.file = NoFile /\ row.local = -1)
      /\ UNCHANGED <<level, disk, locked, runs, remote, failures>>
  BY DEF DownloadInv, TypeOK, HandleEvent
<1>1. /\ added \in Row /\ added.file = row.file /\ added.local = row.local
      /\ (row.known => added = row)
  <2>1. NewRow \in Row /\ NewRow.file = NoFile /\ NewRow.local = -1
    <3>1. -1 \in -1 .. 3 /\ 0 \in Resolutions
      BY DEF Resolutions
    <3> HIDE DEF NoFile
    <3> QED
      BY <3>1 DEF NewRow, Row
  <2> QED
    BY <1>0, <2>1
<1> HIDE DEF added
<1>2. row' = IF added.known /\ s.resolution # 0
               THEN improvePhotoOnlineResolution(added, s.resolution) ELSE added
  BY DEF HandleEvent, added
<1>3. /\ row' \in Row /\ row'.file = row.file /\ row'.local = row.local
      /\ row'.known = added.known /\ row'.online >= added.online
  BY <1>0, <1>1, <1>2 DEF Row, Node, improvePhotoOnlineResolution, Greatest, Resolutions
<1>4. row.local <= row.online => row'.local <= row'.online
  BY <1>0, <1>1, <1>3 DEF Row, Resolutions
<1>5. tasks' \in [Tasks -> Task] /\ \A u \in Tasks : tasks'[u].file = tasks[u].file
  <2>1. CASE UNCHANGED tasks
    BY <2>1 DEF DownloadInv, TypeOK
  <2>2. CASE \E t \in Tasks : Start(t, "down")
    BY <2>2, StartedType DEF DownloadInv
  <2> QED
    BY <2>1, <2>2 DEF HandleEvent
<1>6. TypeOK'
  BY <1>0, <1>3, <1>5 DEF DownloadInv, TypeOK, HandleEvent, remote
<1>7. OneDownload' /\ FilesShowVersions'
  BY <1>0 DEF DownloadInv, OneDownload, Busy, FilesShowVersions, remote
<1>8. ShownFile'
  BY <1>0, <1>3 DEF DownloadInv, ShownFile
<1>9. OnlineCovers'
  BY <1>0, <1>3, <1>4 DEF DownloadInv, OnlineCovers, At
<1>10. ASSUME NEW r \in Runs PROVE DownloadOK(r)'
  <2>1. DownloadOK(r)
    BY DEF DownloadInv
  <2>2. row.known => row'.known
    BY <1>1, <1>3
  <2> QED
    BY <1>0, <1>3, <1>5, <2>1, <2>2 DEF DownloadOK, At, VolatileFile
<1>11. ~row'.known => row'.file = NoFile /\ row'.local = -1
  BY <1>0, <1>1, <1>3
<1> QED
  BY <1>6, <1>7, <1>8, <1>9, <1>10, <1>11 DEF DownloadInv

\* The lock is taken only when no run has it.
LEMMA TaskPreserves ==
    ASSUME DownloadInv, NEW t \in Tasks, TaskStep(t)
    PROVE  DownloadInv'
<1>0. /\ UNCHANGED <<level, local, events, remote, failures>> /\ tasks' \in [Tasks -> Task]
      /\ \A r \in Runs : runs[r].task \in Tasks => tasks'[runs[r].task].file = VolatileFile(r)
  BY TaskStepShape DEF DownloadInv
<1>1. CASE UNCHANGED <<locked, runs>>
  BY <1>0, <1>1, OutsideStep DEF DownloadInv, TypeOK, FilesShowVersions, remote
<1>2. CASE ~locked /\ locked' = TRUE /\ \E r \in Runs, y \in Run :
             /\ runs[r] = IdleRun /\ runs' = [runs EXCEPT ![r] = y]
             /\ y.task = t /\ y.at \in {"up run", "down run"}
  <2>1. PICK r \in Runs, y \in Run :
          /\ runs' = [runs EXCEPT ![r] = y]
          /\ y.task = t /\ y.at \in {"up run", "down run"}
    BY <1>2
  <2>2. runs'[r] = y
    BY <2>1 DEF DownloadInv, TypeOK
  <2>3. DownloadOK(r)'
    BY <2>1, <2>2 DEF DownloadOK, At, DownloadSteps
  <2>4. row.local <= row.online
    BY <1>2 DEF DownloadInv, OnlineCovers, OneDownload, Busy, At
  <2>5. /\ row' \in Row /\ disk' \in [Files -> Nat \X Nat] /\ ShownFile'
        /\ \A f \in Files : disk'[f] \in {Nothing, Version(f[1])}
        /\ row'.local <= row'.online
        /\ ~row'.known => row'.file = NoFile /\ row'.local = -1
    BY <1>0, <2>4 DEF DownloadInv, TypeOK, FilesShowVersions, ShownFile, local
  <2>6. y.at \in DownloadSteps \union {"up run"}
    BY <2>1 DEF DownloadSteps
  <2> QED
    BY <1>0, <1>2, <2>1, <2>3, <2>5, <2>6, RunGoesOn
<1> QED
  BY <1>1, <1>2, TaskStepShape DEF DownloadInv

\* While a run is under way but not finishing a download, what is shown is online.
LEMMA Covered ==
    ASSUME DownloadInv, NEW r \in Runs, runs[r].at \notin {"idle", "down finish"}
    PROVE  row.local <= row.online
<1>1. ASSUME NEW s \in Runs, runs[s].at = "down finish" PROVE FALSE
  <2>1. r \in Busy /\ s \in Busy
    BY <1>1 DEF Busy
  <2>2. r = s
    BY <2>1 DEF DownloadInv, OneDownload
  <2> QED
    BY <1>1, <2>2
<1> QED
  BY <1>1 DEF DownloadInv, OnlineCovers, At

\* A level lets nothing through that is better than the photo.
LEMMA LevelLimits ==
    \A l \in Levels, n \in Int : sourceResolution(l, n) \in Int /\ sourceResolution(l, n) <= n
<1>1. ASSUME NEW n \in Int, NEW m \in Int PROVE Least(m, n) \in Int /\ Least(m, n) <= n
  BY DEF Least
<1>2. getResolution("low") \in Int /\ getResolution("high") \in Int /\ getResolution("full") \in Int
  <2>1. MAX_VALUE \in Int
    BY SMT DEF MAX_VALUE
  <2> QED
    BY <2>1 DEF getResolution
<1>3. \A l \in Levels : getResolution(l) \in Int
  BY <1>2 DEF Levels
<1> QED
  BY <1>1, <1>3 DEF sourceResolution

\* An upload does not get past its check under the lock.
LEMMA CheckFails ==
    ASSUME DownloadInv, row.local <= row.online
    PROVE  ~shouldUpload(row)
<1> DEFINE source == sourceResolution(level, row.local)
<1>1. row.local <= row.online
  OBVIOUS
<1>2. row.local \in Int /\ row.online \in Int
  BY DEF DownloadInv, TypeOK, Row, Resolutions
<1>3. level \in Levels
  BY PhotoAssumption DEF DownloadInv, TypeOK
<1>4. source \in Int /\ source <= row.local
  BY <1>2, <1>3, LevelLimits
<1> HIDE DEF source
<1>5. ASSUME NEW a \in Int, NEW b \in Int, NEW c \in Int, a <= b, b <= c PROVE ~(a > c)
  BY <1>5
<1>6. ~(source > row.online)
  BY <1>1, <1>2, <1>4, <1>5
<1> QED
  BY <1>6 DEF shouldUpload, source

\* A run that ends without having changed anything.
LEMMA PlainEnd ==
    ASSUME DownloadInv, NEW r \in Runs, runs[r].at \notin {"idle", "down finish"}, End(r),
           UNCHANGED <<level, local, events, remote>>, failures' \in 0 .. MaxFailures
    PROVE  DownloadInv'
<1>1. row.local <= row.online
  BY Covered
<1>2. /\ row' \in Row /\ disk' \in [Files -> Nat \X Nat] /\ ShownFile'
      /\ \A f \in Files : disk'[f] \in {Nothing, Version(f[1])}
      /\ row'.local <= row'.online
      /\ ~row'.known => row'.file = NoFile /\ row'.local = -1
  BY <1>1 DEF DownloadInv, TypeOK, FilesShowVersions, ShownFile, local
<1> QED
  BY <1>2, EndStep

\* The only step of an upload is the check that fails, and a failed transfer just ends.
LEMMA UploadPreserves ==
    ASSUME DownloadInv, NEW r \in Runs, UploadStep(r) \/ TransferFails(r)
    PROVE  DownloadInv'
<1>1. runs[r].at \in DownloadSteps \union {"idle", "up run"} /\ failures \in 0 .. MaxFailures
  BY DEF DownloadInv, OneDownload, TypeOK
<1>2. CASE UploadStep(r)
  <2>1. UploadRun(r)
    BY <1>1, <1>2 DEF UploadStep, UploadPut, UploadSent, UploadAcked, At, DownloadSteps
  <2>2. ~shouldUpload(row) /\ runs[r].at = "up run"
    BY <2>1, Covered, CheckFails DEF UploadRun, At
  <2> QED
    BY <1>1, <2>1, <2>2, PlainEnd DEF UploadRun, At, local, remote
<1>3. CASE TransferFails(r)
  <2>1. /\ failures < MaxFailures /\ failures' = failures + 1
        /\ runs[r].at \notin {"idle", "down finish"} /\ End(r)
        /\ UNCHANGED <<level, local, events, remote>>
    BY <1>3 DEF TransferFails
  <2>2. failures' \in 0 .. MaxFailures
    <3>1. MaxFailures \in Nat
      BY PhotoAssumption
    <3>2. ASSUME NEW n \in 0 .. MaxFailures, n < MaxFailures PROVE n + 1 \in 0 .. MaxFailures
      BY <3>1, <3>2
    <3> QED
      BY <1>1, <2>1, <3>2
  <2> QED
    BY <2>1, <2>2, PlainEnd
<1> QED
  BY <1>2, <1>3

\* A step of a download that leaves the row alone and goes on.
LEMMA DownloadGoesOn ==
    ASSUME DownloadInv, NEW r \in Runs, NEW x \in Run,
           runs[r].at \notin {"idle", "down finish"},
           runs' = [runs EXCEPT ![r] = x], x.at \in DownloadSteps,
           UNCHANGED <<level, row, locked, events, remote, failures>>,
           tasks' \in [Tasks -> Task], disk' \in [Files -> Nat \X Nat],
           \A f \in Files : disk'[f] = disk[f] \/ (disk'[f] = Version(f[1]) /\ disk'[f] # Nothing),
           DownloadOK(r)'
    PROVE  DownloadInv'
<1>1. locked' = TRUE
  BY DEF DownloadInv, OneDownload, Busy, TypeOK
<1>2. row.local <= row.online
  BY Covered
<1>3. \A f \in Files : disk'[f] \in {Nothing, Version(f[1])}
  BY DEF DownloadInv, FilesShowVersions
<1>4. ShownFile'
  <2>1. row.file # NoFile => row.file \in Files
    BY DEF DownloadInv, TypeOK, Row
  <2>2. row.file # NoFile => disk'[row.file] = disk[row.file]
    BY <2>1 DEF DownloadInv, ShownFile, FilesShowVersions
  <2> QED
    BY <2>2 DEF DownloadInv, ShownFile
<1>5. row' \in Row /\ (~row'.known => row'.file = NoFile /\ row'.local = -1)
  BY DEF DownloadInv, TypeOK
<1> QED
  BY <1>1, <1>2, <1>3, <1>4, <1>5, RunGoesOn

\* The check of a download: it goes on with a photo that is known, or ends.
LEMMA DownloadRunPreserves ==
    ASSUME DownloadInv, NEW r \in Runs, DownloadRun(r)
    PROVE  DownloadInv'
<1>0. /\ runs[r].at = "down run" /\ runs[r] \in Run /\ failures \in 0 .. MaxFailures
      /\ UNCHANGED <<level, row, disk, events, remote, failures>>
  BY DEF DownloadInv, TypeOK, DownloadRun, At, local
<1>1. CASE shouldDownload(row)
  <2>1. PICK l \in LevelChoices :
          runs' = [runs EXCEPT ![r] = [runs[r] EXCEPT !.at = "down pull", !.level = l]]
    BY <1>1 DEF DownloadRun
  <2>2. UNCHANGED <<locked, tasks>> /\ row.known
    BY <1>1 DEF DownloadRun, shouldDownload
  <2> DEFINE x == [runs[r] EXCEPT !.at = "down pull", !.level = l]
  <2>3. x \in Run /\ x.at = "down pull" /\ x.task = runs[r].task
    BY <1>0, PhotoAssumption DEF Run, DownloadSteps
  <2> HIDE DEF x
  <2>4. runs' = [runs EXCEPT ![r] = x] /\ runs'[r] = x
    BY <2>1 DEF x, DownloadInv, TypeOK
  <2>5. runs[r].task \in Tasks
    BY <1>0 DEF DownloadInv, DownloadOK
  <2>6. DownloadOK(r)'
    BY <1>0, <2>2, <2>3, <2>4, <2>5 DEF DownloadOK, At
  <2>7. x.at \in DownloadSteps
    BY <2>3 DEF DownloadSteps
  <2>8. tasks' \in [Tasks -> Task] /\ disk' \in [Files -> Nat \X Nat]
    BY <1>0, <2>2 DEF DownloadInv, TypeOK
  <2> QED
    BY <1>0, <2>2, <2>3, <2>4, <2>6, <2>7, <2>8, DownloadGoesOn
<1>2. CASE ~shouldDownload(row)
  <2>1. End(r)
    BY <1>2 DEF DownloadRun
  <2> QED
    BY <1>0, <2>1, PlainEnd DEF local
<1> QED
  BY <1>1, <1>2

\* The name read from the node becomes the file of the run and of its object.
LEMMA DownloadPullPreserves ==
    ASSUME DownloadInv, NEW r \in Runs, DownloadPull(r)
    PROVE  DownloadInv'
<1> DEFINE file == <<runs[r].level, node[runs[r].level]>>
<1>0. /\ runs[r].at = "down pull" /\ runs[r] \in Run /\ failures \in 0 .. MaxFailures
      /\ runs \in [Runs -> Run] /\ tasks \in [Tasks -> Task]
      /\ runs[r].task \in Tasks /\ row.known
      /\ UNCHANGED <<level, row, disk, events, remote, failures>>
  BY DEF DownloadInv, TypeOK, DownloadOK, DownloadSteps, DownloadPull, At, local
<1>1. CASE file[2] = NoName
  <2>1. End(r)
    BY <1>1 DEF DownloadPull
  <2> QED
    BY <1>0, <2>1, PlainEnd DEF local
<1>2. CASE file[2] # NoName
  <2>1. /\ tasks' = [tasks EXCEPT ![runs[r].task].file = file]
        /\ runs' = [runs EXCEPT ![r] = [runs[r] EXCEPT !.at = "down get", !.file = file]]
        /\ UNCHANGED locked
    BY <1>2 DEF DownloadPull
  <2>2. file \in Levels \X Uploads
    <3>1. runs[r].level \in Levels /\ node \in Node
      BY <1>0 DEF Run, DownloadInv, TypeOK
    <3>2. node[runs[r].level] \in Uploads \union {NoName}
      BY <3>1 DEF Node, Levels
    <3> QED
      BY <1>2, <3>1, <3>2
  <2> HIDE DEF file
  <2>3. file \in Files \union {NoFile}
    BY <2>2 DEF Files
  <2> DEFINE x == [runs[r] EXCEPT !.at = "down get", !.file = file]
             o == [tasks[runs[r].task] EXCEPT !.file = file]
  <2>4. x \in Run /\ x.at = "down get" /\ x.task = runs[r].task /\ x.file = file
    BY <1>0, <2>3 DEF Run, DownloadSteps
  <2>5. o \in Task /\ o.file = file
    <3>1. tasks[runs[r].task] \in Task
      BY <1>0
    <3> HIDE DEF NoFile
    <3> QED
      BY <2>3, <3>1 DEF Task
  <2>6. tasks' = [tasks EXCEPT ![runs[r].task] = o]
    BY <2>1 DEF o
  <2>7. runs' = [runs EXCEPT ![r] = x]
    BY <2>1 DEF x
  <2> HIDE DEF x, o
  <2>8. runs'[r] = x /\ tasks'[runs[r].task] = o /\ tasks' \in [Tasks -> Task]
    BY <1>0, <2>5, <2>6, <2>7
  <2>9. DownloadOK(r)'
    BY <1>0, <2>2, <2>4, <2>5, <2>8 DEF DownloadOK, At, VolatileFile
  <2>10. x.at \in DownloadSteps
    BY <2>4 DEF DownloadSteps
  <2>11. disk' \in [Files -> Nat \X Nat]
    BY <1>0 DEF DownloadInv, TypeOK
  <2> QED
    BY <1>0, <2>1, <2>4, <2>7, <2>8, <2>9, <2>10, <2>11, DownloadGoesOn
<1> QED
  BY <1>1, <1>2

\* The file that arrives shows its version.
LEMMA DownloadGetPreserves ==
    ASSUME DownloadInv, NEW r \in Runs, DownloadGet(r)
    PROVE  DownloadInv'
<1> DEFINE file == runs[r].file
<1>0. /\ runs[r].at = "down get" /\ runs[r] \in Run /\ failures \in 0 .. MaxFailures
      /\ runs \in [Runs -> Run] /\ tasks \in [Tasks -> Task] /\ disk \in [Files -> Nat \X Nat]
      /\ runs[r].task \in Tasks /\ row.known
      /\ UNCHANGED <<level, row, events, remote, failures>>
  BY DEF DownloadInv, TypeOK, DownloadOK, DownloadSteps, DownloadGet, At
<1>1. file \in Levels \X Uploads /\ VolatileFile(r) = file
  BY <1>0 DEF DownloadInv, DownloadOK
<1>2. CASE bucket[file] = Nothing
  <2>1. End(r) /\ UNCHANGED disk
    BY <1>2 DEF DownloadGet
  <2> QED
    BY <1>0, <2>1, PlainEnd DEF local
<1>3. CASE bucket[file] # Nothing
  <2>1. /\ disk' = [disk EXCEPT ![file] = bucket[file]]
        /\ runs' = [runs EXCEPT ![r] = [runs[r] EXCEPT !.at = "down update"]]
        /\ UNCHANGED <<locked, tasks>>
    BY <1>3 DEF DownloadGet, Goto
  <2>2. bucket[file] = Version(file[1]) /\ bucket[file] \in Nat \X Nat
    BY <1>1, <1>3 DEF DownloadInv, TypeOK, FilesShowVersions
  <2> DEFINE x == [runs[r] EXCEPT !.at = "down update"]
  <2>3. x \in Run /\ x.at = "down update" /\ x.task = runs[r].task /\ x.file = file
    BY <1>0 DEF Run, DownloadSteps
  <2> HIDE DEF x
  <2>4. runs' = [runs EXCEPT ![r] = x]
    BY <2>1 DEF x
  <2> HIDE DEF file
  <2>5. runs'[r] = x
    BY <1>0, <2>4
  <2>6. file \in Files
    BY <1>1 DEF Files
  <2>7. /\ disk' \in [Files -> Nat \X Nat] /\ disk'[file] # Nothing
        /\ \A f \in Files : disk'[f] = disk[f] \/ (disk'[f] = Version(f[1]) /\ disk'[f] # Nothing)
    BY <1>0, <1>3, <2>1, <2>2, <2>6
  <2>8. DownloadOK(r)'
    BY <1>0, <1>1, <2>1, <2>3, <2>5, <2>7 DEF DownloadOK, At, VolatileFile
  <2>9. x.at \in DownloadSteps
    BY <2>3 DEF DownloadSteps
  <2> QED
    BY <1>0, <2>1, <2>3, <2>4, <2>7, <2>8, <2>9, DownloadGoesOn
<1> QED
  BY <1>2, <1>3

\* The row takes the better of two files, and the other one becomes waste.
LEMMA DownloadUpdatePreserves ==
    ASSUME DownloadInv, NEW r \in Runs, DownloadUpdate(r)
    PROVE  DownloadInv'
<1> DEFINE file == VolatileFile(r)
           res == calculateResolution(disk[file][1])
           waste == wasteFile(file, res)
           x == [runs[r] EXCEPT !.at = "down finish", !.waste = waste, !.res = res]
<1>0. /\ runs[r].at = "down update" /\ runs[r] \in Run /\ row \in Row /\ row.known
      /\ runs \in [Runs -> Run] /\ tasks \in [Tasks -> Task] /\ disk \in [Files -> Nat \X Nat]
      /\ runs[r].task \in Tasks
      /\ UNCHANGED <<level, disk, locked, tasks, events, remote, failures>>
  BY DEF DownloadInv, TypeOK, DownloadOK, DownloadSteps, DownloadUpdate, At
<1>1. file \in Files /\ disk[file] # Nothing
  BY <1>0 DEF DownloadInv, DownloadOK, At, Files
<1>2. /\ row' = IF res > row.local THEN [row EXCEPT !.file = file, !.local = res] ELSE row
      /\ runs' = [runs EXCEPT ![r] = x]
  BY DEF DownloadUpdate
<1>3. res \in 1 .. 3
  <2>1. disk[file][1] \in Nat
    BY <1>0, <1>1
  <2> QED
    BY <2>1, Measured
<1>4. locked' = TRUE /\ row.local <= row.online
  BY <1>0, Covered DEF DownloadInv, OneDownload, Busy
<1>5. res = calculateResolution(disk[file][1])
  OBVIOUS
<1> HIDE DEF file, res
<1>6. row.file \in Files \union {NoFile} /\ file \in Files \union {NoFile}
  BY <1>0, <1>1 DEF Row
<1>7. waste \in Files \union {NoFile}
  BY <1>6 DEF wasteFile
<1> HIDE DEF waste
<1>8. /\ x \in Run /\ x.at = "down finish" /\ x.task = runs[r].task
      /\ x.waste = waste /\ x.res = res
  <2>1. res \in Resolutions
    BY <1>3 DEF Resolutions
  <2> HIDE DEF NoFile
  <2> QED
    BY <1>0, <1>7, <2>1 DEF Run, DownloadSteps
<1> HIDE DEF x
<1>9. runs'[r] = x /\ x.at \in DownloadSteps \union {"up run"}
  BY <1>0, <1>2, <1>8 DEF DownloadSteps
<1>10. /\ row' \in Row /\ row'.known /\ ShownFile'
       /\ (row'.local <= row'.online \/ row'.local <= res)
       /\ waste \in {NoFile} \union (Files \ {row'.file})
  <2>1. CASE res > row.local
    <3>1. res \in -1 .. 3
      BY <1>3
    <3> HIDE DEF NoFile
    <3>2. row' \in Row /\ row'.known /\ row'.file = file /\ row'.local = res
      BY <1>0, <1>2, <1>6, <2>1, <3>1 DEF Row
    <3>3. ShownFile'
      BY <1>0, <1>1, <1>5, <3>2 DEF ShownFile
    <3>4. waste = IF file = row.file THEN NoFile ELSE row.file
      BY <2>1 DEF waste, wasteFile
    <3>5. res <= res
      BY <1>3
    <3> QED
      BY <1>6, <3>2, <3>3, <3>4, <3>5
  <2>2. CASE ~(res > row.local)
    <3>1. UNCHANGED row
      BY <1>2, <2>2
    <3>2. ShownFile'
      BY <1>0, <3>1 DEF DownloadInv, ShownFile
    <3>3. waste = IF file = row.file THEN NoFile ELSE file
      BY <2>2 DEF waste, wasteFile
    <3> QED
      BY <1>0, <1>1, <1>4, <3>1, <3>2, <3>3
  <2> QED
    BY <2>1, <2>2
<1>11. DownloadOK(r)'
  BY <1>0, <1>8, <1>9, <1>10 DEF DownloadOK, At
<1>12. \A f \in Files : disk'[f] \in {Nothing, Version(f[1])}
  BY <1>0 DEF DownloadInv, FilesShowVersions
<1> QED
  BY <1>0, <1>2, <1>4, <1>8, <1>9, <1>10, <1>11, <1>12, RunGoesOn

\* What is deleted is not what is shown, and what was shown becomes online.
LEMMA DownloadFinishPreserves ==
    ASSUME DownloadInv, NEW r \in Runs, DownloadFinish(r)
    PROVE  DownloadInv'
<1> DEFINE waste == runs[r].waste
           res == runs[r].res
<1>0. /\ runs[r].at = "down finish" /\ runs[r] \in Run /\ row \in Row /\ row.known
      /\ disk \in [Files -> Nat \X Nat] /\ failures' \in 0 .. MaxFailures
      /\ End(r) /\ UNCHANGED <<level, events, remote>>
  BY DEF DownloadInv, TypeOK, DownloadOK, DownloadSteps, DownloadFinish, At
<1>1. waste \in {NoFile} \union (Files \ {row.file}) /\ res \in Resolutions
  BY <1>0 DEF DownloadInv, DownloadOK, At, Run
<1>2. /\ row' = [row EXCEPT !.online = Greatest(row.online, res)]
      /\ disk' = IF waste = NoFile THEN disk ELSE [disk EXCEPT ![waste] = Nothing]
  BY DEF DownloadFinish, improvePhotoOnlineResolution
<1>3. row.local <= row.online \/ row.local <= res
  <2>1. ASSUME NEW s \in Runs, runs[s].at = "down finish" PROVE s = r
    BY <1>0, <2>1 DEF DownloadInv, OneDownload, Busy
  <2> QED
    BY <2>1 DEF DownloadInv, OnlineCovers, At
<1> HIDE DEF waste, res
<1>4. row.local \in Int /\ row.online \in Resolutions
  <2>1. row.local \in -1 .. 3 /\ row.online \in Resolutions
    BY <1>0 DEF Row
  <2>2. \A n \in -1 .. 3 : n \in Int
    OBVIOUS
  <2> QED
    BY <2>1, <2>2
<1>5. Greatest(row.online, res) \in Resolutions /\ row.local <= Greatest(row.online, res)
  BY <1>1, <1>3, <1>4 DEF Greatest, Resolutions
<1>6. /\ row' \in Row /\ row'.known /\ row'.file = row.file /\ row'.local = row.local
      /\ row'.local <= row'.online
  <2> HIDE DEF NoFile
  <2> QED
    BY <1>0, <1>2, <1>5 DEF Row
<1>7. \A f \in Files : disk'[f] = disk[f] \/ (disk'[f] = Nothing /\ f # row.file)
  BY <1>0, <1>1, <1>2
<1>8. disk' \in [Files -> Nat \X Nat]
  BY <1>0, <1>2 DEF Nothing
<1>9. \A f \in Files : disk'[f] \in {Nothing, Version(f[1])}
  BY <1>7 DEF DownloadInv, FilesShowVersions
<1>10. ShownFile'
  <2>1. row.file # NoFile => row.file \in Files
    BY <1>0 DEF Row
  <2>2. row.file # NoFile => disk'[row.file] = disk[row.file]
    BY <1>7, <2>1
  <2> QED
    BY <1>6, <2>2 DEF DownloadInv, ShownFile
<1> QED
  BY <1>0, <1>6, <1>8, <1>9, <1>10, EndStep

\* Every step of a device with another member's photo keeps the invariant.
LEMMA DownloadInductive == ASSUME ~OwnPhoto, DownloadInv, [Next]_vars PROVE DownloadInv'
<1>1. CASE \E t \in Tasks : TakePhoto(t) \/ TaskStep(t)
  BY <1>1, TaskPreserves DEF TakePhoto
<1>2. CASE \E r \in Runs : RunStep(r) \/ TransferFails(r)
  BY <1>2, UploadPreserves, DownloadRunPreserves, DownloadPullPreserves, DownloadGetPreserves,
     DownloadUpdatePreserves, DownloadFinishPreserves DEF RunStep, DownloadStep
<1>3. CASE \/ \E n \in Uploads : RemoteUpload(n)
           \/ \E l \in LevelChoices : SetLevel(l)
           \/ FunctionStep \/ FunctionFailure
  BY <1>3, EnvironmentPreserves
<1>4. CASE Timer
  BY <1>4, TimerPreserves DEF Timer
<1>5. CASE Listener
  BY <1>5, EventPreserves DEF Listener
<1>6. CASE UNCHANGED vars
  <2>1. UNCHANGED <<level, local, locked, tasks, runs, events, node, bucket, functions, failures>>
    BY <1>6 DEF vars, sync, remote
  <2> QED
    BY <2>1, OutsideStep DEF DownloadInv, TypeOK, FilesShowVersions, VolatileFile
<1> QED
  BY <1>1, <1>2, <1>3, <1>4, <1>5, <1>6 DEF Next

\* A step moves one run at most.
LEMMA OneRunMoves ==
    ASSUME DownloadInv, [Next]_vars
    PROVE  \A r, s \in Runs : runs'[r] # runs[r] /\ runs'[s] # runs[s] => r = s
<1>0. runs \in [Runs -> Run]
  BY DEF DownloadInv, TypeOK
<1>1. ASSUME NEW r \in Runs, NEW x, runs' = [runs EXCEPT ![r] = x]
      PROVE  \A s \in Runs : s # r => runs'[s] = runs[s]
  BY <1>0, <1>1
<1>2. CASE \E r \in Runs : RunStep(r) \/ TransferFails(r)
  <2> PICK r \in Runs : RunStep(r) \/ TransferFails(r)
    BY <1>2
  <2>1. UNCHANGED runs \/ \E x : runs' = [runs EXCEPT ![r] = x]
    <3>1. CASE UploadStep(r)
      BY <3>1 DEF UploadStep, UploadRun, UploadPut, UploadSent, UploadAcked, End, Release, Goto
    <3>2. CASE DownloadStep(r)
      BY <3>2 DEF DownloadStep, DownloadRun, DownloadPull, DownloadGet, DownloadUpdate,
        DownloadFinish, End, Release, Goto
    <3>3. CASE TransferFails(r)
      BY <3>3 DEF TransferFails, End, Release
    <3> QED
      BY <3>1, <3>2, <3>3 DEF RunStep
  <2> QED
    BY <1>1, <2>1
<1>3. CASE \E t \in Tasks : TaskStep(t)
  <2>1. UNCHANGED runs \/ \E r \in Runs : \E x : runs' = [runs EXCEPT ![r] = x]
    BY <1>3 DEF TaskStep, Compute, Deliver, TryStart
  <2> QED
    BY <1>1, <2>1
<1>4. CASE ~(\E r \in Runs : RunStep(r) \/ TransferFails(r)) /\ ~(\E t \in Tasks : TaskStep(t))
  <2>1. UNCHANGED runs
    BY <1>4 DEF Next, vars, sync, TakePhoto, RemoteUpload, SetLevel, Timer, TimerDownload,
      TimerUpload, Listener, HandleEvent, FunctionStep, FunctionFailure
  <2> QED
    BY <2>1
<1> QED
  BY <1>2, <1>3, <1>4

\* With one run at a time and one run that moves, the lock is taken when it is free or
\* given back by the run that has it.
LEMMA LockStep ==
    ASSUME DownloadInv, DownloadInv', [Next]_vars
    PROVE  [Lock!Next]_<<locked, Busy>>
<1>1. /\ \A r, s \in Busy : r = s
      /\ locked = (Busy # {})
      /\ \A r, s \in Busy' : r = s
      /\ locked' = (Busy' # {})
  BY DEF DownloadInv, OneDownload
<1>2. Busy \subseteq Runs /\ Busy' \subseteq Runs
  BY DEF Busy
<1>3. CASE Busy = {} /\ Busy' # {}
  <2>1. PICK r \in Runs : Busy' = {r}
    BY <1>1, <1>2, <1>3
  <2>2. Lock!Acquire(r)
    BY <1>1, <1>3, <2>1 DEF Lock!Acquire
  <2> QED
    BY <2>2 DEF Lock!Next
<1>4. CASE Busy # {} /\ Busy' = {}
  <2>1. PICK r \in Runs : Busy = {r}
    BY <1>1, <1>2, <1>4
  <2>2. Lock!Release(r)
    BY <1>1, <1>4, <2>1 DEF Lock!Release
  <2> QED
    BY <2>2 DEF Lock!Next
<1>5. CASE Busy = {} /\ Busy' = {}
  BY <1>1, <1>5
<1>6. CASE Busy # {} /\ Busy' # {}
  <2>1. PICK r \in Busy, s \in Busy' : TRUE
    BY <1>6
  <2>2. r = s
    <3>1. ASSUME r # s PROVE FALSE
      <4>1. r \notin Busy' /\ s \notin Busy
        BY <1>1, <2>1, <3>1
      <4>2. runs'[r] # runs[r] /\ runs'[s] # runs[s]
        BY <1>2, <2>1, <4>1 DEF Busy
      <4> QED
        BY <1>2, <2>1, <3>1, <4>2, OneRunMoves
    <3> QED
      BY <3>1
  <2> QED
    BY <1>1, <1>6, <2>1, <2>2
<1> QED
  BY <1>3, <1>4, <1>5, <1>6

-----------------------------------------------------------------------------
(***************************************************************************)
(* The device of the photographer (OwnPhoto).  Nothing that is online is   *)
(* better than the photo, so no download passes its check, and the row and *)
(* its file stay as they are.                                              *)
(***************************************************************************)

\* The photo measures 1, 2 or 3, and nothing narrower measures more.
LEMMA BestBounds ==
    /\ Original[1] \in Nat /\ Original[1] > 0 /\ Original # Nothing
    /\ Best \in 1 .. 3
    /\ \A n \in Nat : n <= Original[1] =>
         calculateResolution(n) <= Best /\ publishedResolution(n) <= Best
<1>1. Original[1] \in Nat /\ Original[1] > 0
  BY PhotoAssumption
<1>2. Original # Nothing
  BY <1>1 DEF Nothing
<1> QED
  BY <1>1, <1>2 DEF Best, calculateResolution, publishedResolution, SIZE_LOW, SIZE_HIGH

\* The camera's file is none that was ever uploaded.
LEMMA PhotoApart == Photo \in Files /\ Photo # NoFile /\ Photo \notin Levels \X Uploads
BY PhotoAssumption DEF Photo, Files, NoFile, Levels

\* What is decoded for an upload is an image no wider than the photo.
LEMMA DecodedFits ==
    ASSUME OwnPhoto, NEW l \in Levels, NEW dims \in Decoded(Original, getSize(l))
    PROVE  dims \in Nat \X Nat /\ dims[1] \in 1 .. Original[1]
<1> DEFINE w == Original[1]
           h == Original[2]
           size == getSize(l)
           p == sampleSize(w, size)
<1>1. /\ w \in Nat /\ h \in Nat /\ w > 0 /\ w <= 20480
      /\ size \in {640, 1280, 2147483647}
  BY PhotoAssumption DEF getSize, Levels, SIZE_LOW, SIZE_HIGH, MAX_VALUE
<1>2. dims \in {<<w \div p, h \div p>>, <<(w + p - 1) \div p, (h + p - 1) \div p>>}
  BY DEF Decoded
<1> HIDE DEF w, h, size
<1>3. p \in PowersOfTwo /\ p <= w
  <2>1. CASE w <= size
    BY <1>1, <2>1 DEF sampleSize, PowersOfTwo
  <2>2. CASE ~(w <= size)
    <3>1. \E q \in PowersOfTwo : w <= size * q /\ size * q < w * 2
      <4>1. CASE size = 640
        BY <1>1, <2>2, <4>1 DEF PowersOfTwo
      <4>2. CASE size = 1280
        BY <1>1, <2>2, <4>2 DEF PowersOfTwo
      <4> QED
        BY <1>1, <2>2, <4>1, <4>2
    <3>2. p = CHOOSE q \in PowersOfTwo : w <= size * q /\ size * q < w * 2
      BY <2>2 DEF sampleSize
    <3> HIDE DEF p
    <3>3. p \in PowersOfTwo /\ size * p < w * 2
      BY <3>1, <3>2
    <3> QED
      BY <1>1, <2>2, <3>3 DEF PowersOfTwo
  <2> QED
    BY <2>1, <2>2
<1> HIDE DEF p
<1>4. ASSUME NEW n \in Nat
      PROVE  n \div p \in Nat /\ (n + p - 1) \div p \in Nat
  BY <1>3 DEF PowersOfTwo
<1>5. w \div p \in 1 .. w /\ (w + p - 1) \div p \in 1 .. w
  BY <1>1, <1>3 DEF PowersOfTwo
<1> QED
  BY <1>1, <1>2, <1>4, <1>5 DEF w

\* No download of a photo that is known passes its check.
LEMMA NothingToDownload == ASSUME UploadInv PROVE ~shouldDownload(row)
<1> SUFFICES ASSUME row.known PROVE ~(sourceResolution(level, row.online) > row.local)
  BY DEF shouldDownload
<1>1. row.online \in Int /\ row.local = Best /\ row.online <= Best /\ Best \in Int
  BY BestBounds DEF UploadInv, OwnRow, TypeOK, Row, Resolutions
<1>2. level \in Levels
  BY PhotoAssumption DEF UploadInv, TypeOK
<1>3. sourceResolution(level, row.online) \in Int /\ sourceResolution(level, row.online) <= row.online
  BY <1>1, <1>2, LevelLimits
<1> QED
  BY <1>1, <1>3

\* What an upload claims to put online is no more than the photo has.
LEMMA ClaimFits ==
    ASSUME UploadInv, row.known, NEW l \in Levels
    PROVE  sourceResolution(l, row.local) \in Resolutions /\ sourceResolution(l, row.local) <= Best
<1>1. row.local = Best /\ Best \in 1 .. 3
  BY BestBounds DEF UploadInv, OwnRow
<1>2. getResolution(l) \in {1, 2, 2147483647}
  BY DEF getResolution, Levels, MAX_VALUE
<1> QED
  BY <1>1, <1>2 DEF sourceResolution, Least, Resolutions

\* A step that leaves the runs alone, and the full files with their names.
LEMMA UploadOutside ==
    ASSUME UploadInv, UNCHANGED <<locked, runs>>, level' \in LevelChoices,
           row' \in Row, disk' \in [Files -> Nat \X Nat], OwnRow', row.known => row'.known,
           tasks' \in [Tasks -> Task], \A t \in Tasks : tasks'[t].claim <= Best,
           \A r \in Runs : runs[r].task \in Tasks => tasks'[runs[r].task].file = VolatileFile(r),
           events' \subseteq Node, node' \in Node, functions' \subseteq Function,
           node'.full = node.full, node'.resolution <= Best,
           \A s \in events' : s.resolution <= Best,
           bucket' \in [Levels \X Uploads -> Nat \X Nat],
           \A f \in Uploaded : bucket'[f] = bucket[f],
           failures' \in 0 .. MaxFailures, failures' = 0 => failures = 0
    PROVE  UploadInv'
<1>1. TypeOK'
  BY DEF UploadInv, TypeOK
<1>2. NothingBetter'
  BY DEF UploadInv, NothingBetter
<1>3. ASSUME NEW r \in Runs PROVE UploadOK(r)'
  <2>1. UploadOK(r)
    BY DEF UploadInv
  <2> QED
    <3>1. runs' = runs /\ (row.known => row'.known)
      OBVIOUS
    <3>2. runs[r].task \in Tasks => VolatileFile(r)' = VolatileFile(r)
      BY DEF VolatileFile
    <3>3. runs[r].at \in UploadSteps => runs[r].at # "idle"
      BY DEF UploadSteps
    <3> QED
      BY <2>1, <3>1, <3>2, <3>3, Zenon DEF UploadOK, At
<1>4. ASSUME NEW f \in Uploaded, Arriving(f) PROVE Arriving(f)'
  BY <1>4 DEF Arriving
<1>5. ASSUME failures' = 0 PROVE NamesArrive'
  <2>1. NamesArrive
    BY <1>5 DEF UploadInv
  <2>2. ASSUME node.full # NoName PROVE Arriving(<<"full", node.full>>)'
    <3>1. <<"full", node.full>> \in Uploaded
      BY <2>2 DEF UploadInv, TypeOK, Node, Uploaded
    <3> QED
      BY <2>1, <2>2, <3>1, <1>4 DEF NamesArrive
  <2>3. ASSUME NEW r \in Runs, runs[r].at \in {"up put", "up send"}
        PROVE  Arriving(VolatileFile(r))' /\ VolatileFile(r)' = VolatileFile(r)
    <3>1. VolatileFile(r) \in Uploaded /\ runs[r].task \in Tasks
      BY <2>3 DEF UploadInv, UploadOK, UploadSteps
    <3> PICK f \in Uploaded : f = VolatileFile(r)
      BY <3>1
    <3>2. VolatileFile(r)' = f
      BY <3>1 DEF VolatileFile
    <3>3. Arriving(f)
      BY <2>1, <2>3 DEF NamesArrive
    <3>4. Arriving(f)'
      BY <1>4, <3>3
    <3> QED
      BY <3>2, <3>4, Zenon DEF Arriving
  <2> QED
    BY <2>2, <2>3 DEF NamesArrive
<1> QED
  BY <1>1, <1>2, <1>3, <1>5 DEF UploadInv

\* A step of one run that leaves the bucket alone: while nothing fails, an upload
\* that is on its way to the bucket stays so.
LEMMA UploadMoves ==
    ASSUME UploadInv, NEW r \in Runs, NEW x \in Run, runs' = [runs EXCEPT ![r] = x],
           UNCHANGED <<level, disk, events, remote>>, locked' \in BOOLEAN,
           row' \in Row, OwnRow', row.known => row'.known,
           tasks' \in [Tasks -> Task], \A t \in Tasks : tasks'[t].claim <= Best,
           \A s \in Runs : runs'[s].task \in Tasks =>
               tasks'[runs'[s].task].file = tasks[runs'[s].task].file,
           UploadOK(r)',
           x.at \in {"up put", "up send"} =>
               runs[r].at \in {"up put", "up send"} /\ x.task = runs[r].task,
           failures' \in 0 .. MaxFailures,
           failures' = 0 =>
               /\ failures = 0
               /\ runs[r].at \in {"up put", "up send"} =>
                    x.at \in {"up put", "up send"} /\ x.file = runs[r].file
    PROVE  UploadInv'
<1>0. /\ runs' \in [Runs -> Run] /\ runs'[r] = x /\ \A s \in Runs : s # r => runs'[s] = runs[s]
      /\ UNCHANGED <<node, bucket, functions>>
  BY DEF UploadInv, TypeOK, remote
<1>1. TypeOK'
  BY <1>0 DEF UploadInv, TypeOK
<1>2. NothingBetter'
  BY <1>0 DEF UploadInv, NothingBetter
<1>3. ASSUME NEW s \in Runs, s # r PROVE UploadOK(s)'
  <2>1. UploadOK(s) /\ runs'[s] = runs[s]
    BY <1>0, <1>3 DEF UploadInv
  <2>2. row.known => row'.known
    OBVIOUS
  <2>3. runs[s].task \in Tasks => VolatileFile(s)' = VolatileFile(s)
    BY <2>1 DEF VolatileFile
  <2>4. runs[s].at \in UploadSteps => runs[s].at # "idle"
    BY DEF UploadSteps
  <2> QED
    BY <2>1, <2>2, <2>3, <2>4, Zenon DEF UploadOK, At
<1>4. ASSUME failures' = 0 PROVE NamesArrive'
  <2>1. NamesArrive
    BY <1>4 DEF UploadInv
  <2>2. ASSUME NEW f \in Uploaded, Arriving(f) PROVE Arriving(f)'
    <3>1. ASSUME NEW s \in Runs, runs[s].at \in {"up put", "up send"}, runs[s].file = f
          PROVE  runs'[s].at \in {"up put", "up send"} /\ runs'[s].file = f
      <4>1. CASE s = r
        BY <1>0, <1>4, <3>1, <4>1
      <4>2. CASE s # r
        BY <1>0, <3>1, <4>2
      <4> QED
        BY <4>1, <4>2
    <3> QED
      BY <1>0, <2>2, <3>1, Zenon DEF Arriving
  <2>3. ASSUME node'.full # NoName PROVE Arriving(<<"full", node.full>>)'
    <3>1. <<"full", node.full>> \in Uploaded /\ node' = node
      BY <1>0, <2>3 DEF UploadInv, TypeOK, Node, Uploaded
    <3>2. PICK f \in Uploaded : f = <<"full", node.full>>
      BY <3>1
    <3>3. Arriving(f)'
      BY <2>1, <2>2, <2>3, <3>1, <3>2 DEF NamesArrive
    <3> QED
      BY <3>1, <3>2, <3>3
  <2>4. ASSUME NEW s \in Runs, runs'[s].at \in {"up put", "up send"}
        PROVE  Arriving(VolatileFile(s))'
    <3>1. runs[s].at \in {"up put", "up send"} /\ runs'[s].task = runs[s].task
      <4>1. CASE s = r
        BY <1>0, <2>4, <4>1
      <4>2. CASE s # r
        BY <1>0, <2>4, <4>2
      <4> QED
        BY <4>1, <4>2
    <3>2. VolatileFile(s) \in Uploaded /\ runs[s].task \in Tasks
      BY <3>1 DEF UploadInv, UploadOK, UploadSteps
    <3> PICK f \in Uploaded : f = VolatileFile(s)
      BY <3>2
    <3>3. VolatileFile(s)' = f
      BY <3>1, <3>2 DEF VolatileFile
    <3>4. Arriving(f)
      BY <2>1, <3>1 DEF NamesArrive
    <3>5. Arriving(f)'
      BY <2>2, <3>4
    <3> QED
      BY <3>3, <3>5, Zenon DEF Arriving
  <2> QED
    BY <2>3, <2>4 DEF NamesArrive
<1> QED
  BY <1>1, <1>2, <1>3, <1>4 DEF UploadInv

\* The release of the lock keeps the files of the objects that have a run.
LEMMA ReleaseKeeps ==
    ASSUME UploadInv, NEW rs \in [Runs -> Run], Release(rs)
    PROVE  /\ locked' = FALSE /\ runs' = rs
           /\ tasks' \in [Tasks -> Task] /\ \A t \in Tasks : tasks'[t].claim <= Best
           /\ \A s \in Runs : rs[s].task \in Tasks =>
                tasks'[rs[s].task].file = tasks[rs[s].task].file
<1>1. /\ Released(tasks) \in [Tasks -> Task]
      /\ \A t \in Tasks : /\ Released(tasks)[t].file = tasks[t].file
                          /\ Released(tasks)[t].claim = tasks[t].claim
  BY ObjectsKept DEF UploadInv, TypeOK, Released
<1> DEFINE ts == Released(tasks)
<1>2. locked' = FALSE /\ runs' = rs /\ tasks' = Collected(ts, rs)
  BY DEF Release
<1> HIDE DEF ts
<1>3. /\ tasks' \in [Tasks -> Task]
      /\ \A t \in Tasks : tasks'[t] \in {ts[t], Blank}
      /\ \A s \in Runs : rs[s].task \in Tasks => tasks'[rs[s].task] = ts[rs[s].task]
  BY <1>1, <1>2, ObjectsKept DEF ts
<1>4. \A t \in Tasks : tasks[t].claim <= Best
  BY DEF UploadInv, NothingBetter
<1>5. Blank.claim <= Best
  BY BestBounds DEF Blank
<1> QED
  BY <1>1, <1>2, <1>3, <1>4, <1>5 DEF ts

\* A run that ends and leaves nothing on its way, unless its transfer failed.
LEMMA UploadEnds ==
    ASSUME UploadInv, NEW r \in Runs, End(r), UNCHANGED <<level, disk, events, remote>>,
           row' \in Row, OwnRow', row.known => row'.known,
           failures' \in 0 .. MaxFailures,
           failures' = 0 => failures = 0 /\ runs[r].at \notin {"up put", "up send"}
    PROVE  UploadInv'
<1> DEFINE rs == [runs EXCEPT ![r] = IdleRun]
<1>1. IdleRun \in Run /\ IdleRun.at = "idle"
  BY IdleRunType
<1>2. rs \in [Runs -> Run] /\ rs[r] = IdleRun /\ Release(rs)
  BY <1>1 DEF UploadInv, TypeOK, End
<1> HIDE DEF rs
<1>3. /\ locked' = FALSE /\ runs' = rs
      /\ tasks' \in [Tasks -> Task] /\ \A t \in Tasks : tasks'[t].claim <= Best
      /\ \A s \in Runs : rs[s].task \in Tasks =>
           tasks'[rs[s].task].file = tasks[rs[s].task].file
  BY <1>2, ReleaseKeeps
<1>4. UploadOK(r)'
  <2>1. runs'[r].at = "idle"
    BY <1>1, <1>2, <1>3
  <2> QED
    BY <2>1 DEF UploadOK, UploadSteps, At
<1>5. runs' = [runs EXCEPT ![r] = IdleRun]
  BY <1>3 DEF rs
<1> HIDE DEF IdleRun
<1> QED
  BY <1>1, <1>3, <1>4, <1>5, UploadMoves

\* At first there is no photo, and nothing is heard of it.
LEMMA UploadStart == ASSUME OwnPhoto, Init PROVE UploadInv
<1>1. row \in Row /\ ~row.known /\ row.file = NoFile
  <2>1. row = [known |-> FALSE, file |-> NoFile, local |-> -1, online |-> 0]
    BY DEF Init, NewRow
  <2> HIDE DEF NoFile
  <2>2. -1 \in -1 .. 3 /\ 0 \in Resolutions
    BY DEF Resolutions
  <2> QED
    BY <2>1, <2>2 DEF Row
<1>2. EmptyNode \in Node /\ EmptyNode.full = NoName /\ EmptyNode.resolution = 0
  BY DEF EmptyNode, Node, Resolutions
<1>3. Blank \in Task /\ Blank.claim = 0 /\ Nothing \in Nat \X Nat /\ Nothing[1] = 0
  BY DEF Nothing, Blank, Task, MaxPending, NoFile, Resolutions
<1>4. TypeOK
  <2>1. disk \in [Files -> Nat \X Nat] /\ bucket \in [Levels \X Uploads -> Nat \X Nat]
    BY <1>3 DEF Init
  <2>2. tasks \in [Tasks -> Task] /\ runs \in [Runs -> Run]
    BY <1>3, IdleRunType DEF Init
  <2>3. events \subseteq Node /\ node \in Node /\ functions \subseteq Function
    BY <1>2 DEF Init
  <2>4. level \in LevelChoices /\ locked \in BOOLEAN
    BY DEF Init
  <2>5. failures \in 0 .. MaxFailures
    BY PhotoAssumption DEF Init
  <2> QED
    BY <1>1, <2>1, <2>2, <2>3, <2>4, <2>5 DEF TypeOK
<1>5. OwnRow
  BY <1>1 DEF Init, OwnRow
<1>6. NothingBetter
  <2>1. 0 <= Best /\ 0 <= Original[1]
    BY BestBounds
  <2>2. node.resolution <= Best /\ (\A s \in events : s.resolution <= Best)
    BY <1>2, <2>1 DEF Init
  <2>3. \A t \in Tasks : tasks[t].claim <= Best
    BY <1>3, <2>1 DEF Init
  <2>4. \A f \in Uploaded : bucket[f] = Nothing
    BY DEF Init, Uploaded, Levels
  <2> QED
    BY <2>2, <2>3, <2>4 DEF NothingBetter
<1>7. \A r \in Runs : runs[r].at = "idle"
  BY IdleRunType DEF Init
<1>8. \A r \in Runs : UploadOK(r)
  BY <1>7 DEF UploadOK, UploadSteps, At
<1>9. NamesArrive
  BY <1>2, <1>7 DEF Init, NamesArrive
<1> QED
  BY <1>4, <1>5, <1>6, <1>8, <1>9 DEF UploadInv

\* What starts a synchronisation, and the level, leave all that is under way alone.
LEMMA StartsKeepUploads ==
    ASSUME UploadInv,
           \/ \E t \in Tasks : TakePhoto(t) \/ TimerDownload(t) \/ TimerUpload(t)
           \/ \E l \in LevelChoices : SetLevel(l)
    PROVE  UploadInv'
<1>0. /\ level \in LevelChoices /\ row \in Row /\ disk \in [Files -> Nat \X Nat]
      /\ tasks \in [Tasks -> Task] /\ (\A t \in Tasks : tasks[t].claim <= Best)
      /\ events \subseteq Node /\ node \in Node /\ functions \subseteq Function
      /\ node.resolution <= Best /\ (\A s \in events : s.resolution <= Best)
      /\ bucket \in [Levels \X Uploads -> Nat \X Nat] /\ failures \in 0 .. MaxFailures
      /\ OwnRow /\ TypeOK
  BY DEF UploadInv, TypeOK, NothingBetter
<1>1. ASSUME NEW t \in Tasks, TakePhoto(t) PROVE UploadInv'
  <2>1. /\ ~row.known /\ disk' = [disk EXCEPT ![Photo] = Original]
        /\ events' = events \union {EmptyNode} /\ Start(t, "up")
        /\ UNCHANGED <<level, locked, runs, node, bucket, functions, failures>>
    BY <1>1 DEF TakePhoto, remote, Photo
  <2>2. row' \in Row /\ row'.known /\ row'.file = Photo /\ row'.local = Best /\ row'.online = 0
    <3>1. row' = [known |-> TRUE, file |-> Photo, local |-> Best, online |-> 0]
      BY <1>1 DEF TakePhoto, NewRow, Photo, Best
    <3>2. Photo \in Files \union {NoFile} /\ Best \in -1 .. 3 /\ 0 \in Resolutions
      BY PhotoApart, BestBounds DEF Resolutions
    <3> HIDE DEF NoFile
    <3> QED
      BY <3>1, <3>2 DEF Row
  <2>3. disk' \in [Files -> Nat \X Nat] /\ disk'[Photo] = Original
    BY <1>0, <2>1, PhotoApart, PhotoAssumption
  <2>4. OwnRow'
    BY <2>2, <2>3, BestBounds DEF OwnRow
  <2>5. EmptyNode \in Node /\ EmptyNode.resolution <= Best
    BY BestBounds DEF EmptyNode, Node, Resolutions
  <2>6. events' \subseteq Node /\ \A s \in events' : s.resolution <= Best
    BY <1>0, <2>1, <2>5
  <2>7. /\ tasks' \in [Tasks -> Task] /\ \A u \in Tasks : tasks'[u].claim <= Best
        /\ \A r \in Runs : runs[r].task \in Tasks => tasks'[runs[r].task].file = VolatileFile(r)
    BY <1>0, <2>1, StartedType DEF VolatileFile
  <2> QED
    BY <1>0, <2>1, <2>2, <2>3, <2>4, <2>6, <2>7, UploadOutside
<1>2. ASSUME NEW t \in Tasks, TimerDownload(t) \/ TimerUpload(t) PROVE UploadInv'
  <2>1. /\ UNCHANGED <<level, row, disk, locked, runs, events, node, bucket, functions, failures>>
        /\ Start(t, "down") \/ Start(t, "up")
    BY <1>2 DEF TimerDownload, TimerUpload, local, remote
  <2>2. /\ tasks' \in [Tasks -> Task] /\ \A u \in Tasks : tasks'[u].claim <= Best
        /\ \A r \in Runs : runs[r].task \in Tasks => tasks'[runs[r].task].file = VolatileFile(r)
    BY <1>0, <2>1, StartedType DEF VolatileFile
  <2>3. OwnRow'
    BY <1>0, <2>1 DEF OwnRow
  <2> QED
    BY <1>0, <2>1, <2>2, <2>3, UploadOutside
<1>3. ASSUME NEW l \in LevelChoices, SetLevel(l) PROVE UploadInv'
  <2>1. /\ UNCHANGED <<row, disk, locked, tasks, runs, events, node, bucket, functions, failures>>
        /\ level' \in LevelChoices
    BY <1>3 DEF SetLevel, local, sync, remote
  <2>2. OwnRow'
    BY <1>0, <2>1 DEF OwnRow
  <2> QED
    BY <1>0, <2>1, <2>2, UploadOutside DEF VolatileFile
<1> QED
  BY <1>1, <1>2, <1>3

\* An event raises the online resolution to what the photo has, at most.
LEMMA EventKeepsUploads ==
    ASSUME UploadInv, NEW s \in events, HandleEvent(s)
    PROVE  UploadInv'
<1>0. /\ level \in LevelChoices /\ row \in Row /\ disk \in [Files -> Nat \X Nat]
      /\ tasks \in [Tasks -> Task] /\ (\A t \in Tasks : tasks[t].claim <= Best)
      /\ events \subseteq Node /\ node \in Node /\ functions \subseteq Function
      /\ node.resolution <= Best /\ (\A q \in events : q.resolution <= Best)
      /\ bucket \in [Levels \X Uploads -> Nat \X Nat] /\ failures \in 0 .. MaxFailures
      /\ OwnRow /\ TypeOK
  BY DEF UploadInv, TypeOK, NothingBetter
<1>1. /\ UNCHANGED <<level, disk, locked, runs, node, bucket, functions, failures>>
      /\ events' = events \ {s} /\ row.known
      /\ row' = row \/ row' = improvePhotoOnlineResolution(row, s.resolution)
  BY <1>0 DEF HandleEvent, remote, OwnRow
<1>2. row.online \in Resolutions /\ s.resolution \in Resolutions /\ s.resolution <= Best
      /\ row.online <= Best
  BY <1>0, <1>1 DEF Row, Node, OwnRow
<1>3. Greatest(row.online, s.resolution) \in Resolutions /\ Greatest(row.online, s.resolution) <= Best
  BY <1>2 DEF Greatest
<1>4. /\ row' \in Row /\ row'.known /\ row'.file = row.file /\ row'.local = row.local
      /\ row'.online <= Best
  <2>1. CASE row' = row
    BY <1>0, <1>1, <1>2, <2>1
  <2>2. CASE row' = [row EXCEPT !.online = Greatest(row.online, s.resolution)]
    <3> HIDE DEF NoFile
    <3> QED
      BY <1>0, <1>1, <1>3, <2>2 DEF Row
  <2> QED
    BY <1>1, <2>1, <2>2 DEF improvePhotoOnlineResolution
<1>5. OwnRow'
  BY <1>0, <1>1, <1>4 DEF OwnRow
<1>6. /\ tasks' \in [Tasks -> Task] /\ \A u \in Tasks : tasks'[u].claim <= Best
      /\ \A r \in Runs : runs[r].task \in Tasks => tasks'[runs[r].task].file = VolatileFile(r)
  <2>1. CASE UNCHANGED tasks
    BY <1>0, <2>1 DEF VolatileFile
  <2>2. CASE \E t \in Tasks : Start(t, "down")
    BY <1>0, <2>2, StartedType DEF VolatileFile
  <2> QED
    BY <2>1, <2>2 DEF HandleEvent
<1> QED
  BY <1>0, <1>1, <1>4, <1>5, <1>6, UploadOutside

\* An object that takes the lock starts at its check.
LEMMA TaskKeepsUploads ==
    ASSUME UploadInv, NEW t \in Tasks, TaskStep(t)
    PROVE  UploadInv'
<1>0. /\ UNCHANGED <<level, row, disk, events, node, bucket, functions, failures>>
      /\ tasks' \in [Tasks -> Task]
      /\ \A u \in Tasks : tasks'[u].claim \in {tasks[u].claim, 0}
      /\ \A r \in Runs : runs[r].task \in Tasks => tasks'[runs[r].task].file = VolatileFile(r)
  BY TaskStepShape DEF UploadInv, local, remote
<1>1. \A u \in Tasks : tasks'[u].claim <= Best
  BY <1>0, BestBounds DEF UploadInv, NothingBetter
<1>2. OwnRow'
  BY <1>0 DEF UploadInv, OwnRow
<1>3. CASE UNCHANGED <<locked, runs>>
  BY <1>0, <1>1, <1>2, <1>3, UploadOutside DEF UploadInv, TypeOK, NothingBetter
<1>4. CASE /\ ~locked /\ locked' = TRUE
           /\ \A u \in Tasks : tasks'[u].file = tasks[u].file
           /\ \E r \in Runs, y \in Run :
                /\ runs[r] = IdleRun /\ runs' = [runs EXCEPT ![r] = y]
                /\ y.task = t /\ y.at \in {"up run", "down run"}
  <2>1. PICK r \in Runs, y \in Run :
          /\ runs[r] = IdleRun /\ runs' = [runs EXCEPT ![r] = y]
          /\ y.task = t /\ y.at \in {"up run", "down run"}
    BY <1>4
  <2>2. runs'[r] = y /\ runs[r].at = "idle"
    BY <2>1, IdleRunType DEF UploadInv, TypeOK
  <2>3. UploadOK(r)'
    BY <2>1, <2>2 DEF UploadOK, UploadSteps, At
  <2>4. y.at \notin {"up put", "up send"} /\ runs[r].at \notin {"up put", "up send"}
    BY <2>1, <2>2
  <2>5. \A s \in Runs : runs'[s].task \in Tasks =>
          tasks'[runs'[s].task].file = tasks[runs'[s].task].file
    BY <1>4
  <2>6. /\ row' \in Row /\ (row.known => row'.known) /\ failures' \in 0 .. MaxFailures
        /\ failures' = failures /\ locked' \in BOOLEAN
    BY <1>0, <1>4 DEF UploadInv, TypeOK
  <2> QED
    BY <1>0, <1>1, <1>2, <2>1, <2>3, <2>4, <2>5, <2>6, UploadMoves DEF remote
<1> QED
  BY <1>3, <1>4, TaskStepShape DEF UploadInv

\* The functions write versions and names of a file that was published, and its
\* resolution, which is the photo's at most.
LEMMA FunctionsKeepUploads ==
    ASSUME UploadInv, FunctionStep \/ FunctionFailure
    PROVE  UploadInv'
<1>0. /\ level \in LevelChoices /\ row \in Row /\ disk \in [Files -> Nat \X Nat]
      /\ tasks \in [Tasks -> Task] /\ (\A t \in Tasks : tasks[t].claim <= Best)
      /\ events \subseteq Node /\ node \in Node /\ functions \subseteq Function
      /\ node.resolution <= Best /\ (\A s \in events : s.resolution <= Best)
      /\ bucket \in [Levels \X Uploads -> Nat \X Nat] /\ failures \in 0 .. MaxFailures
      /\ OwnRow
  BY DEF UploadInv, TypeOK, NothingBetter
<1>1. UNCHANGED <<level, row, disk, locked, tasks, runs>>
  BY DEF FunctionStep, FunctionFailure, local, sync
<1>2. ASSUME NEW f \in functions PROVE row.known /\ f \in Function /\ f.name \in Uploads
  BY <1>0, <1>2 DEF OwnRow, Function
<1>3. ASSUME row.known PROVE OwnRow'
  BY <1>0, <1>1, <1>3 DEF OwnRow
<1>4. CASE FunctionStep
  <2> PICK f \in functions : \/ Resize(f) \/ ResizeNothing(f) \/ WriteResolution(f)
                           \/ WriteLow(f) \/ WriteHigh(f)
    BY <1>4 DEF FunctionStep
  <2>1. failures' = failures
    BY DEF Resize, ResizeNothing, WriteResolution, WriteLow, WriteHigh
  <2>2. functions' \subseteq Function
    <3>1. \A at \in {"resize", "resolution", "low", "high"} : [f EXCEPT !.at = at] \in Function
      BY <1>2 DEF Function
    <3> QED
      BY <1>0, <3>1 DEF Resize, ResizeNothing, WriteResolution, WriteLow, WriteHigh
  <2>3. /\ node' \in Node /\ node'.full = node.full /\ node'.resolution <= Best
        /\ events' \subseteq Node /\ \A s \in events' : s.resolution <= Best
    <3>1. ASSUME NEW n \in Node, n.full = node.full, n.resolution <= Best, Publish(n)
          PROVE  /\ node' \in Node /\ node'.full = node.full /\ node'.resolution <= Best
                 /\ events' \subseteq Node /\ \A s \in events' : s.resolution <= Best
      BY <1>0, <3>1 DEF Publish
    <3>2. CASE Resize(f) \/ ResizeNothing(f)
      BY <1>0, <3>2 DEF Resize, ResizeNothing
    <3>3. CASE WriteResolution(f)
      <4> DEFINE p == publishedResolution(bucket[<<"full", f.name>>][1])
      <4>1. <<"full", f.name>> \in Uploaded /\ <<"full", f.name>> \in Levels \X Uploads
        BY <1>2 DEF Uploaded, Levels
      <4>2. bucket[<<"full", f.name>>][1] \in Nat /\ bucket[<<"full", f.name>>][1] <= Original[1]
        <5>1. bucket[<<"full", f.name>>] \in Nat \X Nat
          BY <1>0, <4>1
        <5>2. \/ bucket[<<"full", f.name>>] = Nothing
              \/ bucket[<<"full", f.name>>][1] \in 1 .. Original[1]
          BY <4>1 DEF UploadInv, NothingBetter
        <5> QED
          BY <5>1, <5>2, BestBounds DEF Nothing
      <4>3. p \in Resolutions /\ p <= Best
        BY <4>2, Measured, BestBounds DEF Resolutions
      <4> HIDE DEF p
      <4>4. /\ [node EXCEPT !.resolution = p] \in Node
            /\ [node EXCEPT !.resolution = p].full = node.full
            /\ [node EXCEPT !.resolution = p].resolution = p
        BY <1>0, <4>3 DEF Node
      <4>5. Publish([node EXCEPT !.resolution = p])
        BY <3>3 DEF WriteResolution, p
      <4> QED
        BY <3>1, <4>3, <4>4, <4>5
    <3>4. CASE WriteLow(f) \/ WriteHigh(f)
      <4>1. PICK n : /\ Publish(n)
                     /\ n \in {[node EXCEPT !.low = f.name], [node EXCEPT !.high = f.name]}
        BY <3>4 DEF WriteLow, WriteHigh
      <4>2. n \in Node /\ n.full = node.full /\ n.resolution = node.resolution
        BY <1>0, <1>2, <4>1 DEF Node
      <4> QED
        BY <1>0, <3>1, <4>1, <4>2
    <3> QED
      BY <3>2, <3>3, <3>4
  <2>4. /\ bucket' \in [Levels \X Uploads -> Nat \X Nat]
        /\ \A g \in Uploaded : bucket'[g] = bucket[g]
    <3>1. CASE Resize(f)
      <4> DEFINE full == bucket[<<"full", f.name>>]
                 k == <<"low", f.name>>
                 h == <<"high", f.name>>
      <4>1. /\ k \in Levels \X Uploads /\ h \in Levels \X Uploads
            /\ k \notin Uploaded /\ h \notin Uploaded
        BY <1>2 DEF Levels, Uploaded
      <4>2. full \in Nat \X Nat /\ full[1] > 0
        <5>1. <<"full", f.name>> \in Uploaded /\ <<"full", f.name>> \in Levels \X Uploads
          BY <1>2 DEF Uploaded, Levels
        <5>2. full # Nothing
          BY <3>1 DEF Resize
        <5>3. full[1] \in 1 .. Original[1]
          BY <5>1, <5>2 DEF UploadInv, NothingBetter
        <5> QED
          BY <1>0, <5>1, <5>3, BestBounds
      <4>3. lowVersion(full) \in Nat \X Nat /\ highVersion(full) \in Nat \X Nat
        <5> PICK a \in Nat, b \in Nat : full = <<a, b>>
          BY <4>2
        <5> QED
          BY <4>2, VersionsTyped
      <4>4. bucket' = [bucket EXCEPT ![k] = lowVersion(full), ![h] = highVersion(full)]
        BY <3>1 DEF Resize
      <4> HIDE DEF full, k, h
      <4>5. bucket' \in [Levels \X Uploads -> Nat \X Nat]
        BY <1>0, <4>3, <4>4
      <4>6. \A g \in Uploaded : g \in Levels \X Uploads /\ g # k /\ g # h
        BY <4>1 DEF Uploaded, Levels
      <4>7. \A g \in Uploaded : bucket'[g] = bucket[g]
        BY <1>0, <4>4, <4>6
      <4> QED
        BY <4>5, <4>7
    <3>2. CASE UNCHANGED bucket
      BY <1>0, <3>2
    <3> QED
      BY <3>1, <3>2 DEF ResizeNothing, WriteResolution, WriteLow, WriteHigh
  <2> QED
    BY <1>0, <1>1, <1>2, <1>3, <2>1, <2>2, <2>3, <2>4, UploadOutside DEF VolatileFile
<1>5. CASE FunctionFailure
  <2> PICK f \in functions : FunctionDies(f)
    BY <1>5 DEF FunctionFailure
  <2>1. /\ failures < MaxFailures /\ failures' = failures + 1 /\ functions' \subseteq functions
        /\ UNCHANGED <<node, bucket, events>>
    BY DEF FunctionDies
  <2>2. failures' \in 0 .. MaxFailures /\ failures' # 0
    BY <1>0, <2>1, PhotoAssumption
  <2>3. functions' \subseteq Function
    BY <1>0, <2>1
  <2> QED
    BY <1>0, <1>1, <1>2, <1>3, <2>1, <2>2, <2>3, UploadOutside DEF VolatileFile
<1> QED
  BY <1>4, <1>5

\* What is forgotten leaves no file behind.
LEMMA ForgottenType ==
    ASSUME NEW D, NEW files \in [D -> Nat \X Nat], NEW n
    PROVE  Forgotten(files, n) \in [D -> Nat \X Nat]
<1>1. Nothing \in Nat \X Nat
  BY DEF Nothing
<1>2. \A k \in D : (IF k[2] = n THEN Nothing ELSE files[k]) \in Nat \X Nat
  BY <1>1
<1>3. Forgotten(files, n) = [k \in D |-> IF k[2] = n THEN Nothing ELSE files[k]]
  BY DEF Forgotten
<1> QED
  BY <1>2, <1>3

\* An upload that passes its check draws a name that nothing refers to, so that no
\* file is lost to it, and puts the photo on its way under this name.
LEMMA CheckKeepsUploads ==
    ASSUME UploadInv, NEW r \in Runs, UploadRun(r), shouldUpload(row)
    PROVE  UploadInv'
<1> PICK n \in Uploads, l \in LevelChoices :
      /\ ~InUse(n)
      /\ bucket' = Forgotten(bucket, n)
      /\ disk' = Forgotten(disk, n)
      /\ tasks' = [tasks EXCEPT ![runs[r].task] =
           [@ EXCEPT !.file = <<"full", n>>, !.claim = sourceResolution(l, row.local)]]
      /\ runs' = [runs EXCEPT ![r] =
           [@ EXCEPT !.at = "up put", !.level = l, !.file = <<"full", n>>, !.source = row.file]]
      /\ UNCHANGED locked
  BY DEF UploadRun
<1> DEFINE t == runs[r].task
           f == <<"full", n>>
           claim == sourceResolution(l, row.local)
           o == [tasks[t] EXCEPT !.file = f, !.claim = claim]
           x == [runs[r] EXCEPT !.at = "up put", !.level = l, !.file = f, !.source = row.file]
<1>0. /\ UNCHANGED <<level, row, events, node, functions, failures>>
      /\ runs[r].at = "up run" /\ t \in Tasks /\ runs[r] \in Run /\ row \in Row
      /\ runs \in [Runs -> Run] /\ tasks \in [Tasks -> Task] /\ tasks[t] \in Task
      /\ bucket \in [Levels \X Uploads -> Nat \X Nat] /\ disk \in [Files -> Nat \X Nat]
      /\ node \in Node
  BY DEF UploadInv, TypeOK, UploadOK, UploadRun, At
<1>1. /\ row.known /\ row.file = Photo /\ disk[Photo] = Original /\ l \in Levels
      /\ \A k \in Tasks : tasks[k].claim <= Best
  BY PhotoAssumption DEF shouldUpload, UploadInv, OwnRow, NothingBetter
<1>2. /\ f \in Uploaded /\ f \in Files /\ f # NoFile /\ f \in Levels \X Uploads
      /\ f[1] = "full" /\ f[2] = n
  BY PhotoAssumption DEF Uploaded, Files, Levels, NoFile
<1>3. claim \in Resolutions /\ claim <= Best
  BY <1>1, ClaimFits
<1> HIDE DEF f, claim
<1>4. o \in Task /\ o.file = f /\ o.claim = claim
  <2>1. f \in Files \union {NoFile}
    BY <1>2
  <2> HIDE DEF NoFile, t
  <2> QED
    BY <1>0, <1>3, <2>1 DEF Task
<1>5. /\ x \in Run /\ x.at = "up put" /\ x.file = f /\ x.source = Photo /\ x.task = t
  <2>1. f \in Files \union {NoFile} /\ Photo \in Files \union {NoFile}
    BY <1>2, PhotoApart
  <2> HIDE DEF NoFile
  <2> QED
    BY <1>0, <1>1, <2>1 DEF Run, UploadSteps
<1>6. tasks' = [tasks EXCEPT ![t] = o] /\ runs' = [runs EXCEPT ![r] = x]
  BY DEF f, claim
<1>7. \A k \in DOMAIN bucket : bucket'[k] = IF k[2] = n THEN Nothing ELSE bucket[k]
  BY DEF Forgotten
<1>8. \A k \in DOMAIN disk : disk'[k] = IF k[2] = n THEN Nothing ELSE disk[k]
  BY DEF Forgotten
<1>9. DOMAIN bucket' = DOMAIN bucket /\ DOMAIN disk' = DOMAIN disk
  BY DEF Forgotten
<1>10. bucket' \in [Levels \X Uploads -> Nat \X Nat] /\ disk' \in [Files -> Nat \X Nat]
  BY <1>0, ForgottenType
<1> HIDE DEF o, x, t
<1>11. /\ tasks' \in [Tasks -> Task] /\ tasks'[t] = o
       /\ \A k \in Tasks : k # t => tasks'[k] = tasks[k]
  BY <1>0, <1>4, <1>6
<1>12. /\ runs' \in [Runs -> Run] /\ runs'[r] = x
       /\ \A s \in Runs : s # r => runs'[s] = runs[s]
  <2>1. x \in Run /\ runs \in [Runs -> Run] /\ runs' = [runs EXCEPT ![r] = x]
    BY <1>0, <1>5, <1>6
  <2> QED
    BY <2>1
<1>13. TypeOK'
  BY <1>0, <1>10, <1>11, <1>12 DEF UploadInv, TypeOK
<1>14. OwnRow'
  <2>1. disk'[Photo] = Original
    <3>1. Photo[2] # n
      BY PhotoAssumption DEF Photo
    <3> QED
      BY <1>0, <1>1, <1>8, <3>1, PhotoApart
  <2> QED
    BY <1>0, <1>1, <2>1 DEF UploadInv, OwnRow
<1>15. NothingBetter'
  <2>1. \A k \in Uploaded : k \in Levels \X Uploads
    BY DEF Uploaded, Levels
  <2>2. \A k \in Uploaded : bucket'[k] = Nothing \/ bucket'[k][1] \in 1 .. Original[1]
    BY <1>0, <1>7, <2>1 DEF UploadInv, NothingBetter
  <2>3. \A k \in Tasks : tasks'[k].claim <= Best
    BY <1>1, <1>3, <1>4, <1>11
  <2> QED
    BY <1>0, <2>2, <2>3 DEF UploadInv, NothingBetter
<1>16. ASSUME NEW s \in Runs PROVE UploadOK(s)'
  <2>1. UploadOK(s) /\ row'.known
    BY <1>0, <1>1 DEF UploadInv
  <2>2. CASE s = r
    <3>1. VolatileFile(s)' = f
      BY <1>4, <1>5, <1>11, <1>12, <2>2 DEF VolatileFile
    <3>2. x.at \in UploadSteps
      BY <1>5 DEF UploadSteps
    <3>3. UploadOK(r)'
      BY <1>0, <1>2, <1>5, <1>12, <2>1, <2>2, <3>1, <3>2 DEF UploadOK, At
    <3> QED
      BY <2>2, <3>3
  <2>3. CASE s # r
    <3>1. runs'[s] = runs[s]
      BY <1>12, <2>3
    <3>2. VolatileFile(s) \in Uploaded /\ runs[s].task \in Tasks => VolatileFile(s)' \in Uploaded
      BY <1>2, <1>4, <1>11, <3>1 DEF VolatileFile
    <3>3. runs[s].at \in UploadSteps => runs[s].at # "idle"
      BY DEF UploadSteps
    <3>4. Uploaded' = Uploaded /\ row'.known
      BY <2>1 DEF Uploaded
    <3> QED
      BY <2>1, <3>1, <3>2, <3>3, <3>4, Zenon DEF UploadOK, At
  <2> QED
    BY <2>2, <2>3
<1>17. ASSUME failures' = 0 PROVE NamesArrive'
  <2>1. NamesArrive
    BY <1>0, <1>17 DEF UploadInv
  <2>2. ASSUME NEW k \in Uploaded, Arriving(k), k[2] # n PROVE Arriving(k)'
    <3>1. bucket'[k] = bucket[k]
      BY <1>0, <1>7, <2>2 DEF Uploaded, Levels
    <3>2. ASSUME NEW s \in Runs, runs[s].at \in {"up put", "up send"}
          PROVE  runs'[s] = runs[s]
      BY <1>0, <1>12, <3>2
    <3> QED
      BY <2>2, <3>1, <3>2, Zenon DEF Arriving
  <2>3. Arriving(f)'
    BY <1>5, <1>12 DEF Arriving
  <2>4. ASSUME node'.full # NoName PROVE Arriving(<<"full", node.full>>)' /\ node' = node
    <3>1. node.full # n /\ node' = node
      BY <1>0 DEF InUse
    <3> PICK k \in Uploaded : k = <<"full", node.full>>
      BY <1>0, <2>4 DEF Node, Uploaded
    <3>2. Arriving(k) /\ k[2] # n
      BY <2>1, <2>4, <3>1 DEF NamesArrive
    <3> QED
      BY <2>2, <3>1, <3>2
  <2>5. ASSUME NEW s \in Runs, runs'[s].at \in {"up put", "up send"}
        PROVE  Arriving(VolatileFile(s))'
    <3>1. CASE s = r \/ (s # r /\ runs[s].task = t)
      <4>1. VolatileFile(s)' = f
        BY <1>4, <1>5, <1>11, <1>12, <3>1 DEF VolatileFile
      <4> QED
        BY <2>3, <4>1, Zenon DEF Arriving
    <3>2. CASE s # r /\ runs[s].task # t
      <4>1. runs'[s] = runs[s]
        BY <1>12, <3>2
      <4>2. runs[s].task \in Tasks /\ VolatileFile(s) \in Uploaded
        BY <2>5, <4>1 DEF UploadInv, UploadOK, UploadSteps
      <4> PICK k \in Uploaded : k = VolatileFile(s)
        BY <4>2
      <4>3. VolatileFile(s)' = k
        BY <1>11, <3>2, <4>1, <4>2 DEF VolatileFile
      <4>4. Arriving(k)
        BY <2>1, <2>5, <4>1 DEF NamesArrive
      <4>5. k[2] # n
        BY <4>2 DEF InUse, VolatileFile
      <4>6. Arriving(k)'
        BY <2>2, <4>4, <4>5
      <4> QED
        BY <4>3, <4>6, Zenon DEF Arriving
    <3> QED
      BY <3>1, <3>2
  <2> QED
    BY <2>4, <2>5 DEF NamesArrive
<1> QED
  BY <1>13, <1>14, <1>15, <1>16, <1>17 DEF UploadInv

\* The photo is handed over as it is or made smaller, still under the drawn name.
LEMMA PutKeepsUploads ==
    ASSUME OwnPhoto, UploadInv, NEW r \in Runs, UploadPut(r)
    PROVE  UploadInv'
<1>1. /\ UNCHANGED <<level, row, disk, events, node, bucket, functions, failures>>
      /\ runs[r].at = "up put" /\ runs[r].task \in Tasks /\ runs[r] \in Run
      /\ runs \in [Runs -> Run] /\ level \in Levels /\ runs[r].source = Photo /\ row.known
      /\ runs[r].file \in Uploaded /\ VolatileFile(r) \in Uploaded
  BY PhotoAssumption DEF UploadInv, TypeOK, UploadOK, UploadPut, UploadSteps, At, local, remote
<1>2. disk[Photo] = Original
  BY <1>1 DEF UploadInv, OwnRow
<1> PICK d \in Decoded(Original, getSize(level)) :
      Release([runs EXCEPT ![r] = [@ EXCEPT
        !.at = "up send", !.source = NoFile,
        !.dims = IF runs[r].level = "full" THEN Original ELSE d]])
  BY <1>1, <1>2 DEF UploadPut
<1> DEFINE dims == IF runs[r].level = "full" THEN Original ELSE d
           x == [runs[r] EXCEPT !.at = "up send", !.source = NoFile, !.dims = dims]
           rs == [runs EXCEPT ![r] = x]
<1>3. dims \in Nat \X Nat /\ dims[1] \in 1 .. Original[1]
  <2>1. level \in Levels
    BY <1>1
  <2>2. d \in Nat \X Nat /\ d[1] \in 1 .. Original[1]
    BY <2>1, DecodedFits
  <2> QED
    BY <2>2, BestBounds, PhotoAssumption
<1> HIDE DEF dims
<1>4. /\ x \in Run /\ x.at = "up send" /\ x.file = runs[r].file /\ x.dims = dims
      /\ x.task = runs[r].task
  <2> HIDE DEF NoFile
  <2> QED
    BY <1>1, <1>3 DEF Run, UploadSteps
<1>5. Release(rs)
  BY <1>1 DEF dims
<1> HIDE DEF x
<1>6. rs \in [Runs -> Run] /\ rs[r] = x
  <2>1. x \in Run
    BY <1>4
  <2> QED
    BY <1>1, <2>1
<1>7. /\ locked' = FALSE /\ runs' = rs
      /\ tasks' \in [Tasks -> Task] /\ \A t \in Tasks : tasks'[t].claim <= Best
      /\ \A s \in Runs : rs[s].task \in Tasks =>
           tasks'[rs[s].task].file = tasks[rs[s].task].file
  BY <1>5, <1>6, ReleaseKeeps
<1>8. VolatileFile(r)' = VolatileFile(r)
  BY <1>1, <1>4, <1>6, <1>7 DEF VolatileFile
<1>9. UploadOK(r)'
  <2>1. runs'[r] = x
    BY <1>6, <1>7
  <2>2. x.at \in UploadSteps /\ x.at # "up put" /\ x.at # "idle" /\ Uploaded' = Uploaded
    BY <1>4 DEF UploadSteps, Uploaded
  <2>3. x.task \in Tasks /\ x.file \in Uploaded /\ VolatileFile(r)' \in Uploaded
    BY <1>1, <1>4, <1>8
  <2>4. x.dims[1] \in 1 .. Original[1] /\ row'.known
    BY <1>1, <1>3, <1>4
  <2> QED
    BY <2>1, <2>2, <2>3, <2>4, Zenon DEF UploadOK, At
<1>10. runs' = [runs EXCEPT ![r] = x]
  BY <1>7
<1>11. row' \in Row /\ OwnRow' /\ (row.known => row'.known) /\ failures' \in 0 .. MaxFailures
       /\ failures' = failures
  BY <1>1 DEF UploadInv, TypeOK, OwnRow
<1>12. \A s \in Runs : runs'[s].task \in Tasks =>
         tasks'[runs'[s].task].file = tasks[runs'[s].task].file
  BY <1>7
<1>13. x.at \in {"up put", "up send"} /\ runs[r].at \in {"up put", "up send"}
  BY <1>1, <1>4
<1>14. UNCHANGED <<level, disk, events, remote>> /\ locked' \in BOOLEAN
  BY <1>1, <1>7 DEF remote
<1> HIDE DEF rs
<1> QED
  BY <1>4, <1>7, <1>9, <1>10, <1>11, <1>12, <1>13, <1>14, UploadMoves

\* The file reaches the bucket under its name; the name that is published is that of
\* a file which is there or on its way.
LEMMA SentKeepsUploads ==
    ASSUME UploadInv, NEW r \in Runs, UploadSent(r)
    PROVE  UploadInv'
<1> DEFINE f == runs[r].file
           d == runs[r].dims
           name == VolatileFile(r)[2]
           n == [node EXCEPT !.full = name]
           g == [name |-> name, at |-> "resize"]
           x == [runs[r] EXCEPT !.at = "up ack"]
<1>1. /\ UNCHANGED <<level, row, disk, locked, tasks, failures>>
      /\ bucket' = [bucket EXCEPT ![f] = d]
      /\ node' = n /\ events' = events \union {n}
      /\ functions' = functions \union {g}
      /\ runs' = [runs EXCEPT ![r] = x]
  BY DEF UploadSent, Publish, local, Goto
<1>2. /\ runs[r].at = "up send" /\ runs[r].task \in Tasks /\ runs[r] \in Run /\ row.known
      /\ f \in Uploaded /\ VolatileFile(r) \in Uploaded /\ d[1] \in 1 .. Original[1]
      /\ runs \in [Runs -> Run] /\ bucket \in [Levels \X Uploads -> Nat \X Nat]
      /\ node \in Node /\ events \subseteq Node /\ functions \subseteq Function
  BY DEF UploadInv, TypeOK, UploadOK, UploadSent, UploadSteps, At
<1>3. name \in Uploads /\ VolatileFile(r) = <<"full", name>>
  <2>1. VolatileFile(r) \in Uploaded
    BY <1>2
  <2> QED
    BY <2>1 DEF Uploaded
<1>4. f \in Levels \X Uploads /\ d \in Nat \X Nat /\ d # Nothing
  <2>1. f \in Uploaded /\ d[1] \in 1 .. Original[1]
    BY <1>2
  <2>2. d \in Nat \X Nat
    BY <1>2 DEF Run
  <2> QED
    BY <2>1, <2>2 DEF Uploaded, Levels, Nothing
<1>5. n \in Node /\ n.full = name /\ n.resolution = node.resolution /\ g \in Function
  BY <1>2, <1>3 DEF Node, Function
<1>6. x \in Run
  BY <1>2 DEF Run, UploadSteps
<1>7. x.at = "up ack" /\ x.task = runs[r].task /\ x.file = runs[r].file
  BY <1>2 DEF Run
<1> HIDE DEF f, d, name, n, g, x
<1>8. /\ bucket' \in [Levels \X Uploads -> Nat \X Nat] /\ bucket'[f] = d
      /\ \A k \in Levels \X Uploads : k # f => bucket'[k] = bucket[k]
  BY <1>1, <1>2, <1>4
<1>9. runs' \in [Runs -> Run] /\ runs'[r] = x /\ \A s \in Runs : s # r => runs'[s] = runs[s]
  BY <1>1, <1>2, <1>6
<1>10. TypeOK'
  BY <1>1, <1>2, <1>5, <1>8, <1>9 DEF UploadInv, TypeOK
<1>11. OwnRow'
  BY <1>1, <1>2 DEF UploadInv, OwnRow
<1>12. NothingBetter'
  <2>1. \A k \in Uploaded : bucket'[k] = Nothing \/ bucket'[k][1] \in 1 .. Original[1]
    <3>1. \A k \in Uploaded : k \in Levels \X Uploads
      BY DEF Uploaded, Levels
    <3> QED
      BY <1>2, <1>8, <3>1 DEF UploadInv, NothingBetter, d
  <2> QED
    BY <1>1, <1>5, <2>1 DEF UploadInv, NothingBetter
<1>13. ASSUME NEW s \in Runs PROVE UploadOK(s)'
  <2>1. UploadOK(s) /\ row'.known /\ Uploaded' = Uploaded
    BY <1>1, <1>2 DEF UploadInv, Uploaded
  <2>2. CASE s = r
    <3>1. VolatileFile(r)' = VolatileFile(r)
      BY <1>1, <1>7, <1>9 DEF VolatileFile
    <3>2. x.at \in UploadSteps /\ x.at \notin {"up put", "up send"}
      BY <1>7 DEF UploadSteps
    <3>3. x.task \in Tasks /\ x.file \in Uploaded /\ VolatileFile(r)' \in Uploaded
      BY <1>2, <1>7, <3>1 DEF f
    <3>4. UploadOK(r)'
      BY <1>9, <2>1, <3>2, <3>3, Zenon DEF UploadOK, At
    <3> QED
      BY <2>2, <3>4
  <2>3. CASE s # r
    <3>1. runs'[s] = runs[s]
      BY <1>9, <2>3
    <3>2. VolatileFile(s)' = VolatileFile(s)
      BY <1>1, <3>1 DEF VolatileFile
    <3> QED
      BY <2>1, <3>1, <3>2, Zenon DEF UploadOK, At
  <2> QED
    BY <2>2, <2>3
<1>14. ASSUME failures' = 0 PROVE NamesArrive'
  <2>1. NamesArrive
    BY <1>1, <1>14 DEF UploadInv
  <2>2. ASSUME NEW k \in Uploaded, Arriving(k) PROVE Arriving(k)'
    <3>1. CASE k = f
      <4>1. bucket'[k] # Nothing
        BY <1>4, <1>8, <3>1
      <4> QED
        BY <4>1, Zenon DEF Arriving
    <3>2. CASE k # f
      <4>1. bucket'[k] = bucket[k]
        BY <1>8, <3>2 DEF Uploaded, Levels
      <4>2. ASSUME NEW s \in Runs, runs[s].file = k PROVE runs'[s] = runs[s]
        BY <1>9, <3>2, <4>2 DEF f
      <4> QED
        BY <2>2, <4>1, <4>2, Zenon DEF Arriving
    <3> QED
      BY <3>1, <3>2
  <2>3. ASSUME node'.full # NoName PROVE Arriving(<<"full", node.full>>)'
    <3>1. PICK k \in Uploaded : k = VolatileFile(r)
      BY <1>2
    <3>2. k = <<"full", node'.full>>
      BY <1>1, <1>3, <1>5, <3>1
    <3>3. Arriving(k)
      BY <1>2, <2>1, <3>1 DEF NamesArrive
    <3>4. Arriving(k)'
      BY <2>2, <3>3
    <3> QED
      BY <3>2, <3>4, Zenon DEF Arriving
  <2>4. ASSUME NEW s \in Runs, runs'[s].at \in {"up put", "up send"}
        PROVE  Arriving(VolatileFile(s))'
    <3>1. s # r
      BY <1>7, <1>9, <2>4
    <3>2. runs'[s] = runs[s]
      BY <1>9, <3>1
    <3> PICK k \in Uploaded : k = VolatileFile(s)
      BY <2>4, <3>2 DEF UploadInv, UploadOK, UploadSteps
    <3>3. VolatileFile(s)' = k
      BY <1>1, <3>2 DEF VolatileFile
    <3>4. Arriving(k)
      BY <2>1, <2>4, <3>2 DEF NamesArrive
    <3>5. Arriving(k)'
      BY <2>2, <3>4
    <3> QED
      BY <3>3, <3>5, Zenon DEF Arriving
  <2> QED
    BY <2>3, <2>4, Zenon DEF NamesArrive
<1> QED
  BY <1>10, <1>11, <1>12, <1>13, <1>14 DEF UploadInv

\* An upload that is through, one that fails its check and one whose transfer fails:
\* only the last leaves a name without a file, and it counts as a failure.
LEMMA EndsKeepUploads ==
    ASSUME UploadInv, NEW r \in Runs,
           \/ UploadAcked(r)
           \/ UploadRun(r) /\ ~shouldUpload(row)
           \/ DownloadStep(r)
           \/ TransferFails(r)
    PROVE  UploadInv'
<1>0. /\ row \in Row /\ OwnRow /\ failures \in 0 .. MaxFailures
      /\ runs[r].at \in UploadSteps \union {"idle", "down run"}
  BY DEF UploadInv, TypeOK, UploadOK
<1>1. CASE UploadAcked(r)
  <2> DEFINE c == tasks[runs[r].task].claim
  <2>1. /\ row' = [row EXCEPT !.online = Greatest(row.online, c)] /\ End(r)
        /\ UNCHANGED <<level, disk, events, remote, failures>> /\ runs[r].at = "up ack"
    BY <1>1 DEF UploadAcked, improvePhotoOnlineResolution, At
  <2>2. runs[r].task \in Tasks /\ row.known
    BY <2>1 DEF UploadInv, UploadOK, UploadSteps
  <2>3. c \in Resolutions /\ c <= Best
    BY <2>2 DEF UploadInv, NothingBetter, TypeOK, Task
  <2>4. row.online \in Resolutions /\ row.online <= Best
    BY <1>0, <2>2 DEF Row, OwnRow
  <2> HIDE DEF c
  <2>5. Greatest(row.online, c) \in Resolutions /\ Greatest(row.online, c) <= Best
    BY <2>3, <2>4 DEF Greatest
  <2>6. row' = [row EXCEPT !.online = Greatest(row.online, c)]
    BY <2>1
  <2>7. /\ row' \in Row /\ row'.known = row.known /\ row'.file = row.file
        /\ row'.local = row.local /\ row'.online <= Best
    <3> HIDE DEF NoFile
    <3> QED
      BY <1>0, <2>5, <2>6 DEF Row
  <2>8. disk' = disk
    BY <2>1
  <2>9. OwnRow'
    BY <1>0, <2>2, <2>7, <2>8 DEF OwnRow
  <2>10. runs[r].at \notin {"up put", "up send"}
    BY <2>1
  <2> QED
    BY <1>0, <2>1, <2>7, <2>9, <2>10, UploadEnds
<1>2. ASSUME End(r), UNCHANGED <<level, local, events, remote>>,
             failures' \in 0 .. MaxFailures,
             failures' = 0 => failures = 0 /\ runs[r].at \notin {"up put", "up send"}
      PROVE  UploadInv'
  <2>1. UNCHANGED <<row, disk, functions, events>> /\ UNCHANGED <<level, disk, events, remote>>
    BY <1>2 DEF local, remote
  <2>2. row' \in Row /\ OwnRow' /\ (row.known => row'.known)
    BY <1>0, <2>1 DEF OwnRow
  <2> QED
    BY <1>2, <2>1, <2>2, UploadEnds
<1>3. CASE UploadRun(r) /\ ~shouldUpload(row)
  <2>1. End(r) /\ UNCHANGED <<level, local, events, remote, failures>> /\ runs[r].at = "up run"
    BY <1>3 DEF UploadRun, At, local, remote
  <2>2. runs[r].at \notin {"up put", "up send"}
    BY <2>1
  <2> QED
    BY <1>0, <1>2, <2>1, <2>2
<1>4. CASE DownloadStep(r)
  <2>1. DownloadRun(r) /\ runs[r].at = "down run"
    BY <1>0, <1>4, Zenon DEF DownloadStep, DownloadRun, DownloadPull, DownloadGet, DownloadUpdate,
       DownloadFinish, At, UploadSteps
  <2>2. End(r) /\ UNCHANGED <<level, local, events, remote, failures>>
    BY <2>1, NothingToDownload DEF DownloadRun
  <2>3. runs[r].at \notin {"up put", "up send"}
    BY <2>1
  <2> QED
    BY <1>0, <1>2, <2>2, <2>3
<1>5. CASE TransferFails(r)
  <2>1. /\ failures < MaxFailures /\ failures' = failures + 1
        /\ End(r) /\ UNCHANGED <<level, local, events, remote>>
    BY <1>5 DEF TransferFails
  <2>2. failures' \in 0 .. MaxFailures /\ failures' # 0
    <3>1. MaxFailures \in Nat
      BY PhotoAssumption
    <3>2. ASSUME NEW n \in 0 .. MaxFailures, n < MaxFailures
          PROVE  n + 1 \in 0 .. MaxFailures /\ n + 1 # 0
      BY <3>1, <3>2
    <3> QED
      BY <1>0, <2>1, <3>2
  <2> QED
    BY <1>2, <2>1, <2>2
<1> QED
  BY <1>1, <1>3, <1>4, <1>5

\* Every step on the device of the photographer keeps the invariant.
LEMMA UploadInductive == ASSUME OwnPhoto, UploadInv, [Next]_vars PROVE UploadInv'
<1>1. CASE \E t \in Tasks : TakePhoto(t) \/ TaskStep(t)
  BY <1>1, StartsKeepUploads, TaskKeepsUploads
<1>2. CASE \E r \in Runs : RunStep(r) \/ TransferFails(r)
  BY <1>2, CheckKeepsUploads, PutKeepsUploads, SentKeepsUploads, EndsKeepUploads
     DEF RunStep, UploadStep
<1>3. CASE \E n \in Uploads : RemoteUpload(n)
  BY <1>3 DEF RemoteUpload
<1>4. CASE (\E l \in LevelChoices : SetLevel(l)) \/ Timer
  BY <1>4, StartsKeepUploads DEF Timer
<1>5. CASE Listener
  BY <1>5, EventKeepsUploads DEF Listener
<1>6. CASE FunctionStep \/ FunctionFailure
  BY <1>6, FunctionsKeepUploads
<1>7. CASE UNCHANGED vars
  <2>1. UNCHANGED <<level, row, disk, locked, tasks, runs, events, node, bucket, functions, failures>>
    BY <1>7 DEF vars, local, sync, remote
  <2>2. OwnRow'
    BY <2>1 DEF UploadInv, OwnRow
  <2> QED
    BY <2>1, <2>2, UploadOutside DEF UploadInv, TypeOK, NothingBetter, VolatileFile
<1> QED
  BY <1>1, <1>2, <1>3, <1>4, <1>5, <1>6, <1>7 DEF Next

-----------------------------------------------------------------------------
\* On a device with another member's photo, the file comes before its name, and no step
\* takes it away: uploads end at their check, and functions write other versions.
LEMMA StoredStays ==
    ASSUME ~OwnPhoto, DownloadInv, NodeStored, [Next]_vars PROVE NodeStored'
<1>0. bucket \in [Levels \X Uploads -> Nat \X Nat] /\ node \in Node /\ functions \subseteq Function
  BY DEF DownloadInv, TypeOK
<1>1. CASE UNCHANGED <<node, bucket>>
  BY <1>1 DEF NodeStored
<1>2. ASSUME NEW n \in Uploads, RemoteUpload(n) PROVE NodeStored'
  <2>1. bucket' = [bucket EXCEPT ![<<"full", n>>] = Original] /\ node' = [node EXCEPT !.full = n]
    BY <1>2 DEF RemoteUpload, Publish
  <2>2. <<"full", n>> \in Levels \X Uploads
    BY DEF Levels
  <2>3. bucket'[<<"full", n>>] = Original /\ node'.full = n
    BY <1>0, <2>1, <2>2 DEF Node
  <2> QED
    BY <2>3, BestBounds DEF NodeStored
<1>3. CASE FunctionStep
  <2> PICK f \in functions : \/ Resize(f) \/ ResizeNothing(f) \/ WriteResolution(f)
                           \/ WriteLow(f) \/ WriteHigh(f)
    BY <1>3 DEF FunctionStep
  <2>1. CASE Resize(f)
    <3>1. node' = node
      BY <2>1 DEF Resize
    <3>2. ASSUME NEW n \in Uploads PROVE bucket'[<<"full", n>>] = bucket[<<"full", n>>]
      BY <1>0, <2>1 DEF Resize, Levels
    <3>3. node.full \in Uploads \union {NoName}
      BY <1>0 DEF Node
    <3> QED
      BY <3>1, <3>2, <3>3 DEF NodeStored
  <2>2. CASE ResizeNothing(f) \/ WriteResolution(f) \/ WriteLow(f) \/ WriteHigh(f)
    <3>1. bucket' = bucket /\ node'.full = node.full
      BY <1>0, <2>2 DEF ResizeNothing, WriteResolution, WriteLow, WriteHigh, Publish, Node
    <3> QED
      BY <3>1 DEF NodeStored
  <2> QED
    BY <2>1, <2>2
<1>4. ASSUME NEW r \in Runs, RunStep(r) \/ TransferFails(r) PROVE UNCHANGED <<node, bucket>>
  <2>1. CASE DownloadStep(r) \/ TransferFails(r)
    BY <2>1 DEF DownloadStep, DownloadRun, DownloadPull, DownloadGet, DownloadUpdate,
       DownloadFinish, TransferFails, remote
  <2>2. CASE UploadStep(r)
    <3>1. runs[r].at \in DownloadSteps \union {"idle", "up run"}
      BY DEF DownloadInv, OneDownload
    <3>2. UploadRun(r)
      BY <2>2, <3>1 DEF UploadStep, UploadPut, UploadSent, UploadAcked, At, DownloadSteps
    <3>3. ~shouldUpload(row)
      BY <3>2, Covered, CheckFails DEF UploadRun, At
    <3> QED
      BY <3>2, <3>3 DEF UploadRun
  <2> QED
    BY <1>4, <2>1, <2>2 DEF RunStep
<1>5. CASE \E t \in Tasks : TakePhoto(t) \/ TaskStep(t)
  BY <1>1, <1>5 DEF TakePhoto, TaskStep, Compute, Deliver, TryStart, remote
<1>6. CASE (\E l \in LevelChoices : SetLevel(l)) \/ Timer \/ Listener
  BY <1>1, <1>6 DEF SetLevel, Timer, TimerDownload, TimerUpload, Listener, HandleEvent, remote
<1>7. CASE FunctionFailure
  BY <1>1, <1>7 DEF FunctionFailure, FunctionDies
<1>8. CASE UNCHANGED vars
  BY <1>1, <1>8 DEF vars, remote
<1> QED
  BY <1>1, <1>2, <1>3, <1>4, <1>5, <1>6, <1>7, <1>8 DEF Next

-----------------------------------------------------------------------------
\* All a device with another member's photo does keeps the invariant.
THEOREM DownloadSafe == ASSUME ~OwnPhoto PROVE Spec => []DownloadInv
<1>1. Init => DownloadInv
  BY DownloadStart
<1>2. DownloadInv /\ [Next]_vars => DownloadInv'
  BY DownloadInductive
<1> QED
  BY <1>1, <1>2, PTL DEF Spec

\* All the photographer's device does keeps the other invariant: its row stays that of
\* the photo as it was taken, no download gets past its check, and as long as nothing has
\* failed every name that is published is that of a file in the bucket or on its way.
THEOREM UploadSafe == ASSUME OwnPhoto PROVE Spec => []UploadInv
<1>1. Init => UploadInv
  BY UploadStart
<1>2. UploadInv /\ [Next]_vars => UploadInv'
  BY UploadInductive
<1> QED
  BY <1>1, <1>2, PTL DEF Spec

\* Rows, files, objects, runs and the node keep their types, whatever the order of
\* wake-ups, events and transfers.
THEOREM PhotoTypes == Spec => []TypeOK
<1>1. DownloadInv => TypeOK
  BY DEF DownloadInv
<1>2. UploadInv => TypeOK
  BY DEF UploadInv
<1>3. CASE OwnPhoto
  BY <1>2, <1>3, UploadSafe, PTL
<1>4. CASE ~OwnPhoto
  BY <1>1, <1>4, DownloadSafe, PTL
<1> QED
  BY <1>3, <1>4

\* The row always names a file that is on the device, and tells its resolution: no
\* download deletes the file that is shown, and no upload changes it.
THEOREM ShownFileStays == Spec => []ShownFile
<1>1. DownloadInv => ShownFile
  BY DEF DownloadInv
<1>2. UploadInv => ShownFile
  <2> SUFFICES ASSUME UploadInv, row.file # NoFile PROVE ShownFile
    BY DEF ShownFile
  <2>1. row.file = Photo /\ disk[Photo] = Original /\ row.local = Best
    BY DEF UploadInv, OwnRow
  <2> QED
    BY <2>1, BestBounds DEF ShownFile, Best
<1>3. CASE OwnPhoto
  BY <1>2, <1>3, UploadSafe, PTL
<1>4. CASE ~OwnPhoto
  BY <1>1, <1>4, DownloadSafe, PTL
<1> QED
  BY <1>3, <1>4

\* When no synchronisation is under way and nothing has failed, the name in files/full is
\* that of a file in the bucket, although uploads publish a name that another run of the
\* same object may have overwritten.
THEOREM PublishedStays == Spec => []PublishedExists
<1>1. UploadInv => PublishedExists
  <2> SUFFICES ASSUME UploadInv, Busy = {}, failures = 0, node.full # NoName
               PROVE  bucket[<<"full", node.full>>] # Nothing
    BY DEF PublishedExists
  <2>1. Arriving(<<"full", node.full>>)
    BY DEF UploadInv, NamesArrive
  <2>2. ASSUME NEW r \in Runs PROVE runs[r].at = "idle"
    BY DEF Busy
  <2>3. "idle" \notin {"up put", "up send"}
    BY Zenon
  <2> QED
    BY <2>1, <2>2, <2>3, Zenon DEF Arriving
<1>2. NodeStored => PublishedExists
  BY DEF NodeStored, PublishedExists
<1>3. Init => NodeStored
  BY DEF Init, EmptyNode, NodeStored
<1>4. ASSUME ~OwnPhoto PROVE DownloadInv /\ NodeStored /\ [Next]_vars => NodeStored'
  BY <1>4, StoredStays
<1>5. CASE OwnPhoto
  BY <1>1, <1>5, UploadSafe, PTL
<1>6. CASE ~OwnPhoto
  BY <1>2, <1>3, <1>4, <1>6, DownloadSafe, PTL DEF Spec
<1> QED
  BY <1>5, <1>6

\* A photo that was only downloaded is never uploaded: the check under the lock fails.
THEOREM NeverReuploaded == Spec => []NoReupload
<1>1. ASSUME OwnPhoto PROVE NoReupload
  BY <1>1 DEF NoReupload
<1>2. DownloadInv => NoReupload
  <2> SUFFICES ASSUME DownloadInv, NEW r \in Runs, runs[r].at \in UploadSteps
               PROVE  At(r, "up run") /\ ~shouldUpload(row)
    BY DEF NoReupload
  <2>1. runs[r].at = "up run"
    BY DEF DownloadInv, OneDownload, DownloadSteps, UploadSteps
  <2>2. row.local <= row.online
    BY <2>1, Covered
  <2> QED
    BY <2>1, <2>2, CheckFails DEF At
<1>3. CASE OwnPhoto
  BY <1>1, <1>3, PTL
<1>4. CASE ~OwnPhoto
  BY <1>2, <1>4, DownloadSafe, PTL
<1> QED
  BY <1>3, <1>4

\* The rows of PhotoSyncLock implement the lock that PhotoLock specifies: one
\* synchronisation has the photo from its check to its end, and frees it itself.
THEOREM LockImplemented == ASSUME ~OwnPhoto PROVE Spec => LockSpec
<1>1. Init => Lock!Init
  <2> SUFFICES ASSUME Init PROVE Lock!Init
    OBVIOUS
  <2>1. \A r \in Runs : runs[r].at = "idle"
    BY DEF Init, IdleRun
  <2> QED
    BY <2>1 DEF Init, Lock!Init, Busy
<1>2. DownloadInv /\ DownloadInv' /\ [Next]_vars => [Lock!Next]_<<locked, Busy>>
  BY LockStep
<1> QED
  BY <1>1, <1>2, DownloadSafe, PTL DEF Spec, LockSpec, Lock!Spec

==============================================================================
