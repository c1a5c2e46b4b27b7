------------------------------ MODULE PhotoSync ------------------------------
(***************************************************************************)
(* The photo synchronizer of one device and one photo of its group, with   *)
(* the photo's node, its files in the bucket, and the cloud function       *)
(* createResolutions that a write of files/full starts.                    *)
(*                                                                         *)
(* Rows, locks and PhotoSync objects are all kept per photo and no step    *)
(* looks at two photos, so one photo is enough.  What runs on a pool       *)
(* thread or in a Firebase callback is an action; the order of two         *)
(* callbacks is arbitrary except where the main thread's queue fixes it.   *)
(***************************************************************************)
EXTENDS ResolutionTools, FiniteSets

CONSTANTS
    Tasks,          \* PhotoSync objects that live at a time (a bound)
    Runs,           \* executions of run() under way at a time (a bound)
    Uploads,        \* names of uploaded files in use at a time (a bound)
    Camera,         \* the name of the file the camera wrote
    NoTask,
    NoName,
    Original,       \* <<width, height>> of the photo as it was taken
    OwnPhoto,       \* TRUE: taken on this device; FALSE: on another member's
    LevelChoices,   \* the levels that settings and network give here
    MaxFailures     \* bound: transfers that fail, functions that die

ASSUME PhotoAssumption ==
    /\ Camera \notin Uploads
    /\ NoName \notin Uploads \union {Camera}
    /\ NoTask \notin Tasks
    /\ Original \in Nat \X Nat
    /\ Original[1] > 0 /\ Original[2] > 0
    /\ OwnPhoto \in BOOLEAN
    /\ OwnPhoto => Original[1] <= 32 * SIZE_LOW    \* as far as PowersOfTwo reaches
    /\ LevelChoices \subseteq Levels
    /\ MaxFailures \in Nat

VARIABLES
    level,          \* getCurrentResolution()
    row,            \* the photo's row in the local gallery
    disk,           \* the files in the app's picture directory
    locked,         \* the photo has a row in PhotoSyncLock
    tasks,          \* the PhotoSync objects
    runs,           \* executions of their run() and its callbacks
    events,         \* snapshots of the node that wait for a pool thread
    node,           \* photos/<group>/<photo>
    bucket,         \* the files of the photo in images/<group>
    functions,      \* invocations of createResolutions
    failures

local == <<row, disk>>
sync == <<locked, tasks, runs>>
remote == <<node, bucket, functions>>
vars == <<level, local, sync, events, remote, failures>>

Files == Levels \X (Uploads \union {Camera})
NoFile == <<"full", NoName>>
Nothing == <<0, 0>>                 \* the dimensions of a file that is not there

Resolutions == 0 .. 3

EmptyNode == [full |-> NoName, low |-> NoName, high |-> NoName, resolution |-> 0]
Node == [full : Uploads \union {NoName}, low : Uploads \union {NoName},
         high : Uploads \union {NoName}, resolution : Resolutions]

\* resolution_local of a photo that another member took starts at -1.
NewRow == [known |-> TRUE, file |-> NoFile, local |-> -1, online |-> 0]
Row == [known : BOOLEAN, file : Files \union {NoFile}, local : -1 .. 3, online : Resolutions]

\* file and claim are the volatile fields of a PhotoUpload or PhotoDownload; the
\* rest is the LiveData it observes: whether its value must be computed again,
\* the value posted to the main thread, whether removeObserver is queued behind
\* that post, and how many calls of onChangedAsync(null) the pool has.
Blank == [kind |-> "none", observing |-> FALSE, dirty |-> FALSE, posted |-> "none",
          last |-> FALSE, pending |-> 0, file |-> NoFile, claim |-> 0]
MaxPending == 2                     \* bound
Task == [kind : {"none", "up", "down"}, observing : BOOLEAN, dirty : BOOLEAN,
         posted : {"none", "free", "held"}, last : BOOLEAN, pending : 0 .. MaxPending,
         file : Files \union {NoFile}, claim : Resolutions]

UploadSteps == {"up run", "up put", "up send", "up ack"}
DownloadSteps == {"down run", "down pull", "down get", "down update", "down finish"}

\* file is what the run transfers, source what an upload reads, waste what a
\* download is about to delete.
IdleRun == [task |-> NoTask, at |-> "idle", level |-> "full", file |-> NoFile,
            source |-> NoFile, dims |-> Nothing, waste |-> NoFile, res |-> 0]
Run == [task : Tasks \union {NoTask}, at : UploadSteps \union DownloadSteps \union {"idle"},
        level : Levels, file : Files \union {NoFile}, source : Files \union {NoFile},
        dims : Nat \X Nat, waste : Files \union {NoFile}, res : Resolutions]

Function == [name : Uploads, at : {"resize", "resolution", "low", "high"}]

TypeOK ==
    /\ level \in LevelChoices
    /\ row \in Row
    /\ disk \in [Files -> Nat \X Nat]
    /\ locked \in BOOLEAN
    /\ tasks \in [Tasks -> Task]
    /\ runs \in [Runs -> Run]
    /\ events \subseteq Node
    /\ node \in Node
    /\ bucket \in [Levels \X Uploads -> Nat \X Nat]
    /\ functions \subseteq Function
    /\ failures \in 0 .. MaxFailures

\* Another member's photo is announced by its node; one's own by TakePhoto.
Init ==
    /\ level \in LevelChoices
    /\ row = [NewRow EXCEPT !.known = FALSE]
    /\ disk = [f \in Files |-> Nothing]
    /\ locked = FALSE
    /\ tasks = [t \in Tasks |-> Blank]
    /\ runs = [r \in Runs |-> IdleRun]
    /\ node = EmptyNode
    /\ events = IF OwnPhoto THEN {} ELSE {EmptyNode}
    /\ bucket = [f \in Levels \X Uploads |-> Nothing]
    /\ functions = {}
    /\ failures = 0

-----------------------------------------------------------------------------
(* The local gallery *)

Greatest(a, b) == IF a >= b THEN a ELSE b

shouldDownload(r) == r.known /\ sourceResolution(level, r.online) > r.local

shouldUpload(r) == r.known /\ sourceResolution(level, r.local) > r.online

\* Mutant: the online resolution is left as it is.
improveForgotten(r, res) == r
improvePhotoOnlineResolution(r, res) == [r EXCEPT !.online = Greatest(@, res)]

-----------------------------------------------------------------------------
(* PhotoSync objects and their lock *)

Free(t) == tasks[t] = Blank

\* A write to the PhotoSyncLock table invalidates the LiveData of all observers.
Invalidated(ts) == [t \in Tasks |-> [ts[t] EXCEPT !.dirty = @ \/ ts[t].observing]]

\* An object that nothing refers to any more is garbage.
Collected(ts, rs) == [t \in Tasks |->
    IF ~ts[t].observing /\ ts[t].pending = 0 /\ ts[t].posted = "none"
         /\ \A r \in Runs : rs[r].task # t
      THEN Blank ELSE ts[t]]

\* new PhotoUpload(photoId).start(), new PhotoDownload(photoId).start()
Start(t, kind) ==
    /\ Free(t)
    /\ tasks' = [tasks EXCEPT ![t] =
         [Blank EXCEPT !.kind = kind, !.observing = TRUE, !.dirty = TRUE]]

\* Room reads the row of the lock again, outside the main thread, and posts it.
Compute(t) ==
    /\ tasks[t].dirty
    /\ tasks' = [tasks EXCEPT ![t].dirty = FALSE,
                              ![t].posted = IF locked THEN "held" ELSE "free"]
    /\ UNCHANGED <<level, local, locked, runs, events, remote, failures>>

\* The main thread calls onChanged, which hands the value to the pool; a row
\* other than null is ignored there.
Deliver(t) ==
    /\ tasks[t].posted # "none"
    /\ tasks[t].pending < MaxPending
    /\ tasks' = Collected([tasks EXCEPT ![t] = [tasks[t] EXCEPT
           !.posted = "none",
           !.pending = IF tasks[t].posted = "free" THEN @ + 1 ELSE @,
           !.observing = ~tasks[t].last,
           !.dirty = @ /\ ~tasks[t].last]], runs)
    /\ UNCHANGED <<level, local, locked, runs, events, remote, failures>>

\* removeFrom(observable): the removal is queued on the main thread, behind a
\* value that is already posted and before any later one.
Unobserved(task) ==
    IF task.posted = "none" THEN [task EXCEPT !.observing = FALSE, !.dirty = FALSE]
                            ELSE [task EXCEPT !.last = TRUE]

\* Mutant: the lock is taken whether it is there or not.
LockLeft == TRUE
LockFree == ~locked

\* onChangedAsync(null): tryStart and, when it succeeds, run().
TryStart(t) ==
    /\ tasks[t].pending > 0
    /\ \/ /\ LockFree
          /\ locked' = TRUE
          /\ \E r \in Runs :
               /\ runs[r] = IdleRun
               /\ runs' = [runs EXCEPT ![r] = [IdleRun EXCEPT
                    !.task = t,
                    !.at = IF tasks[t].kind = "up" THEN "up run" ELSE "down run"]]
          /\ tasks' = Invalidated([tasks EXCEPT ![t] =
                        Unobserved([tasks[t] EXCEPT !.pending = @ - 1])])
       \/ /\ ~LockFree
          /\ tasks' = Collected([tasks EXCEPT ![t] = [tasks[t] EXCEPT !.pending = @ - 1]], runs)
          /\ UNCHANGED <<locked, runs>>
    /\ UNCHANGED <<level, local, events, remote, failures>>

\* Mutant: the observers do not notice that the row is gone.
ReleasedUnnoticed(ts) == ts

\* release(): deletes the row, whoever inserted it.
Released(ts) == IF locked THEN Invalidated(ts) ELSE ts
Release(rs) ==
    /\ locked' = FALSE
    /\ runs' = rs
    /\ tasks' = Collected(Released(tasks), rs)

End(r) == Release([runs EXCEPT ![r] = IdleRun])

TaskStep(t) == Compute(t) \/ Deliver(t) \/ TryStart(t)

-----------------------------------------------------------------------------
(* Changes of the node; every one reaches the device's listener *)

Publish(n) == node' = n /\ events' = events \union {n}

\* A name nothing refers to any more stands for a fresh one.
InUse(n) ==
    \/ n \in {node.full, node.low, node.high}
    \/ \E s \in events : n \in {s.full, s.low, s.high}
    \/ \E f \in functions : f.name = n
    \/ n = row.file[2]
    \/ \E r \in Runs : n \in {runs[r].file[2], runs[r].source[2], runs[r].waste[2]}
    \/ \E t \in Tasks : n = tasks[t].file[2]

Forgotten(files, n) == [f \in DOMAIN files |-> IF f[2] = n THEN Nothing ELSE files[f]]

\* PhotoUpload on the device of another member who took the photo.
RemoteUpload(n) ==
    /\ ~OwnPhoto
    /\ ~InUse(n) /\ node.full = NoName
    /\ bucket' = [bucket EXCEPT ![<<"full", n>>] = Original]
    /\ Publish([node EXCEPT !.full = n])
    /\ functions' = functions \union {[name |-> n, at |-> "resize"]}
    /\ UNCHANGED <<level, local, sync, failures>>

(* createResolutions *)

Resize(f) ==
    /\ f.at = "resize"
    /\ LET full == bucket[<<"full", f.name>>]
       IN  /\ full # Nothing
           /\ bucket' = [bucket EXCEPT ![<<"low", f.name>>] = lowVersion(full),
                                       ![<<"high", f.name>>] = highVersion(full)]
    /\ functions' = (functions \ {f}) \union {[f EXCEPT !.at = "resolution"]}
    /\ UNCHANGED <<node, events, failures>>

\* The name was published before its file was there: the failed download is logged and
\* the chain ends at the conversion, for want of a tempFile.
ResizeNothing(f) ==
    /\ f.at = "resize"
    /\ bucket[<<"full", f.name>>] = Nothing
    /\ functions' = functions \ {f}
    /\ UNCHANGED <<node, bucket, events, failures>>

WriteResolution(f) ==
    /\ f.at = "resolution"
    /\ Publish([node EXCEPT !.resolution = publishedResolution(bucket[<<"full", f.name>>][1])])
    /\ functions' = (functions \ {f}) \union {[f EXCEPT !.at = "low"]}
    /\ UNCHANGED <<bucket, failures>>

WriteLow(f) ==
    /\ f.at = "low"
    /\ Publish([node EXCEPT !.low = f.name])
    /\ functions' = (functions \ {f}) \union {[f EXCEPT !.at = "high"]}
    /\ UNCHANGED <<bucket, failures>>

WriteHigh(f) ==
    /\ f.at = "high"
    /\ Publish([node EXCEPT !.high = f.name])
    /\ functions' = functions \ {f}
    /\ UNCHANGED <<bucket, failures>>

FunctionDies(f) ==
    /\ failures < MaxFailures
    /\ failures' = failures + 1
    /\ functions' = functions \ {f}
    /\ UNCHANGED <<node, bucket, events>>

FunctionStep ==
    /\ \E f \in functions :
         Resize(f) \/ ResizeNothing(f) \/ WriteResolution(f) \/ WriteLow(f) \/ WriteHigh(f)
    /\ UNCHANGED <<level, local, sync>>

FunctionFailure ==
    /\ \E f \in functions : FunctionDies(f)
    /\ UNCHANGED <<level, local, sync>>

-----------------------------------------------------------------------------
(* What starts a synchronisation *)

\* onActivityResult: the node is pushed, the row inserted and filled, and
\* uploadPhoto called.
TakePhoto(t) ==
    /\ OwnPhoto /\ ~row.known
    /\ row' = [NewRow EXCEPT !.file = <<"full", Camera>>,
                             !.local = calculateResolution(Original[1])]
    /\ disk' = [disk EXCEPT ![<<"full", Camera>>] = Original]
    /\ events' = events \union {EmptyNode}
    /\ Start(t, "up")
    /\ UNCHANGED <<level, locked, runs, remote, failures>>

\* onChildAddedAsync, of the node as it was pushed, and onChildChangedAsync, which
\* does nothing when it overtakes the former on the pool: there is no row yet.  The
\* level is asked for twice here, as in the two run(): any level may be the other.
HandleEvent(s) ==
    /\ s \in events
    /\ events' = events \ {s}
    /\ LET added == IF ~row.known /\ s = EmptyNode THEN NewRow ELSE row
           new == IF added.known /\ s.resolution # 0
                    THEN improvePhotoOnlineResolution(added, s.resolution) ELSE added
       IN  /\ row' = new
           /\ \E l \in LevelChoices :
                IF s[l] # NoName /\ shouldDownload(new)
                  THEN \E t \in Tasks : Start(t, "down")
                  ELSE UNCHANGED tasks
    /\ UNCHANGED <<level, disk, locked, runs, remote, failures>>

\* downloadAllImprovablePhotos and uploadAllImprovablePhotos, every 30 seconds.
TimerDownload(t) ==
    /\ row.known
    /\ row.online > row.local /\ row.local < getResolution(level)
    /\ shouldDownload(row)
    /\ Start(t, "down")
    /\ UNCHANGED <<level, local, locked, runs, events, remote, failures>>

TimerUpload(t) ==
    /\ row.known
    /\ row.local > row.online /\ row.online < getResolution(level)
    /\ shouldUpload(row)
    /\ Start(t, "up")
    /\ UNCHANGED <<level, local, locked, runs, events, remote, failures>>

\* The network or the settings change.
SetLevel(l) ==
    /\ l \in LevelChoices \ {level}
    /\ level' = l
    /\ UNCHANGED <<local, sync, events, remote, failures>>

-----------------------------------------------------------------------------
At(r, step) == runs[r].at = step
Goto(r, step) == [runs EXCEPT ![r].at = step]
VolatileFile(r) == tasks[runs[r].task].file

(* PhotoUpload.run and its callbacks *)

\* Mutant: the upload's name is made before the check.
UploadRunNamed(r) ==
    /\ At(r, "up run")
    /\ \E n \in Uploads, l \in LevelChoices :
         LET named == [tasks EXCEPT ![runs[r].task] =
               [@ EXCEPT !.file = <<"full", n>>, !.claim = sourceResolution(l, row.local)]]
         IN  /\ ~InUse(n)
             /\ bucket' = Forgotten(bucket, n)
             /\ disk' = Forgotten(disk, n)
             /\ runs' = [runs EXCEPT ![r] = IF shouldUpload(row)
                  THEN [@ EXCEPT !.at = "up put", !.level = l,
                                 !.file = <<"full", n>>, !.source = row.file]
                  ELSE IdleRun]
             /\ locked' = (locked /\ shouldUpload(row))
             /\ tasks' = Collected(IF shouldUpload(row) THEN named ELSE Released(named), runs')
    /\ UNCHANGED <<level, row, events, node, functions, failures>>

UploadRun(r) ==
    /\ At(r, "up run")
    /\ IF shouldUpload(row)
         THEN \E n \in Uploads, l \in LevelChoices :
                /\ ~InUse(n)
                /\ bucket' = Forgotten(bucket, n)
                /\ disk' = Forgotten(disk, n)
                /\ tasks' = [tasks EXCEPT ![runs[r].task] =
                     [@ EXCEPT !.file = <<"full", n>>,
                               !.claim = sourceResolution(l, row.local)]]
                /\ runs' = [runs EXCEPT ![r] =
                     [@ EXCEPT !.at = "up put", !.level = l,
                               !.file = <<"full", n>>, !.source = row.file]]
                /\ UNCHANGED locked
         ELSE End(r) /\ UNCHANGED <<disk, bucket>>
    /\ UNCHANGED <<level, row, events, node, functions, failures>>

\* decodeFile asks for the current level again.  run() releases the lock while
\* the upload goes on.
UploadPut(r) ==
    /\ At(r, "up put")
    /\ \E dims \in Decoded(disk[runs[r].source], getSize(level)) :
         Release([runs EXCEPT ![r] = [@ EXCEPT
           !.at = "up send", !.source = NoFile,
           !.dims = IF runs[r].level = "full" THEN disk[runs[r].source] ELSE dims]])
    /\ UNCHANGED <<level, local, events, remote, failures>>

\* The file is in the bucket; FileUploadListener publishes the volatile name.
UploadSent(r) ==
    /\ At(r, "up send")
    /\ bucket' = [bucket EXCEPT ![runs[r].file] = runs[r].dims]
    /\ LET name == VolatileFile(r)[2]
       IN  /\ Publish([node EXCEPT !.full = name])
           /\ functions' = functions \union {[name |-> name, at |-> "resize"]}
    /\ runs' = Goto(r, "up ack")
    /\ UNCHANGED <<level, local, locked, tasks, failures>>

\* FilenamePushListener.onSuccess
UploadAcked(r) ==
    /\ At(r, "up ack")
    /\ row' = improvePhotoOnlineResolution(row, tasks[runs[r].task].claim)
    /\ End(r)
    /\ UNCHANGED <<level, disk, events, remote, failures>>

(* PhotoDownload.run and its callbacks *)

DownloadRun(r) ==
    /\ At(r, "down run")
    /\ IF shouldDownload(row)
         THEN /\ \E l \in LevelChoices :
                   runs' = [runs EXCEPT ![r] = [@ EXCEPT !.at = "down pull", !.level = l]]
              /\ UNCHANGED <<locked, tasks>>
         ELSE End(r)
    /\ UNCHANGED <<level, local, events, remote, failures>>

\* Mutant: when the version is missing, the early return keeps the lock.
DownloadPullKept(r) ==
    /\ At(r, "down pull")
    /\ LET file == <<runs[r].level, node[runs[r].level]>>
       IN  /\ tasks' = [tasks EXCEPT ![runs[r].task].file =
                          IF file[2] = NoName THEN @ ELSE file]
           /\ runs' = [runs EXCEPT ![r] =
                IF file[2] = NoName THEN IdleRun ELSE [@ EXCEPT !.at = "down get", !.file = file]]
    /\ UNCHANGED <<level, local, locked, events, remote, failures>>

\* FilenamePullListener
DownloadPull(r) ==
    /\ At(r, "down pull")
    /\ LET file == <<runs[r].level, node[runs[r].level]>>
       IN  IF file[2] = NoName
             THEN End(r)
             ELSE /\ tasks' = [tasks EXCEPT ![runs[r].task].file = file]
                  /\ runs' = [runs EXCEPT ![r] = [@ EXCEPT !.at = "down get", !.file = file]]
                  /\ UNCHANGED locked
    /\ UNCHANGED <<level, local, events, remote, failures>>

DownloadGet(r) ==
    /\ At(r, "down get")
    /\ IF bucket[runs[r].file] # Nothing
         THEN /\ disk' = [disk EXCEPT ![runs[r].file] = bucket[runs[r].file]]
              /\ runs' = Goto(r, "down update")
              /\ UNCHANGED <<locked, tasks>>
         ELSE End(r) /\ UNCHANGED disk
    /\ UNCHANGED <<level, row, events, remote, failures>>

\* Mutant: the comparison is the other way round for the file that is dropped.
wasteFileSwapped(file, res) == IF res > row.local THEN file ELSE row.file

\* The file tryUpdatePhotoFile leaves without use.
wasteFile(file, res) ==
    IF file = row.file THEN NoFile
    ELSE IF res > row.local THEN row.file ELSE file

\* FileDownloadListener: the file is measured, and tryUpdatePhotoFile decides.
DownloadUpdate(r) ==
    /\ At(r, "down update")
    /\ LET file == VolatileFile(r)
           res == calculateResolution(disk[file][1])
       IN  /\ row' = IF res > row.local
                       THEN [row EXCEPT !.file = file, !.local = res] ELSE row
           /\ runs' = [runs EXCEPT ![r] = [@ EXCEPT
                !.at = "down finish", !.waste = wasteFile(file, res), !.res = res]]
    /\ UNCHANGED <<level, disk, locked, tasks, events, remote, failures>>

DownloadFinish(r) ==
    /\ At(r, "down finish")
    /\ disk' = IF runs[r].waste = NoFile THEN disk
               ELSE [disk EXCEPT ![runs[r].waste] = Nothing]
    /\ row' = improvePhotoOnlineResolution(row, runs[r].res)
    /\ End(r)
    /\ UNCHANGED <<level, events, remote, failures>>

\* A transfer or a write to the database fails: the listeners release the lock.
TransferFails(r) ==
    /\ runs[r].at \in {"up send", "down pull", "down get"}
    /\ failures < MaxFailures
    /\ failures' = failures + 1
    /\ End(r)
    /\ UNCHANGED <<level, local, events, remote>>

UploadStep(r) == UploadRun(r) \/ UploadPut(r) \/ UploadSent(r) \/ UploadAcked(r)
DownloadStep(r) ==
    \/ DownloadRun(r) \/ DownloadPull(r) \/ DownloadGet(r)
    \/ DownloadUpdate(r) \/ DownloadFinish(r)
RunStep(r) == UploadStep(r) \/ DownloadStep(r)

-----------------------------------------------------------------------------
Timer == \E t \in Tasks : TimerDownload(t) \/ TimerUpload(t)
Listener == \E s \in events : HandleEvent(s)

Next ==
    \/ \E t \in Tasks : TakePhoto(t) \/ TaskStep(t)
    \/ \E r \in Runs : RunStep(r) \/ TransferFails(r)
    \/ \E n \in Uploads : RemoteUpload(n)
    \/ \E l \in LevelChoices : SetLevel(l)
    \/ Timer \/ Listener \/ FunctionStep \/ FunctionFailure

Spec == Init /\ [][Next]_vars

\* Pool threads, the main thread, transfers, the timer and functions go on.
Fairness ==
    /\ \A t \in Tasks : WF_vars(TaskStep(t))
    /\ \A r \in Runs : WF_vars(RunStep(r))
    /\ WF_vars(\E t \in Tasks : TimerDownload(t))
    /\ WF_vars(\E t \in Tasks : TimerUpload(t))
    /\ WF_vars(Listener)
    /\ WF_vars(FunctionStep)

FairSpec == Spec /\ Fairness

-----------------------------------------------------------------------------
\* The photo's row names a file that is on the device, and its resolution is that
\* of the file, whatever downloads of other versions write and delete meanwhile.
ShownFile == row.file # NoFile =>
    disk[row.file] # Nothing /\ row.local = calculateResolution(disk[row.file][1])

\* Between tryStart and release a synchronisation has the photo for itself.  For
\* downloads the whole run is meant.
Busy == {r \in Runs : runs[r].at # "idle"}
Lock == INSTANCE PhotoLock WITH holders <- Busy
LockSpec == Lock!Spec

\* A device never uploads a photo it has only downloaded: the check under the
\* lock sees the online resolution the download has recorded, also when the
\* timer found the photo improvable between two steps of the download.
NoReupload == ~OwnPhoto =>
    \A r \in Runs : runs[r].at \in UploadSteps => At(r, "up run") /\ ~shouldUpload(row)

\* Between uploads, files/full names a file that is in the bucket.  The name is
\* published from a volatile field, which a second run of the same object may have
\* overwritten with the name of a file that is still under way.
PublishedExists == Busy = {} /\ failures = 0 /\ node.full # NoName =>
    bucket[<<"full", node.full>>] # Nothing

\* For a device whose level is "full": once the photo is in the bucket, every start()
\* comes to run(); no wake-up of the lock's observers is lost.
EveryStartRuns == \A t \in Tasks :
    tasks[t].observing /\ node.full # NoName ~> ~tasks[t].observing

\* For such a device: another member's photo arrives in the resolution it has, although
\* the device may handle the node's changes in another order and drop some.
PhotoArrives == node.full # NoName ~> row.local = calculateResolution(Original[1])

\* doc/resolution.txt: a client that believes a better resolution is available
\* downloads "the same image files again and again".
DownloadsEnd == <>[](\A r \in Runs : runs[r].at # "down get")

-----------------------------------------------------------------------------
(***************************************************************************)
(* The strengthening of ShownFile and NoReupload that every step preserves *)
(* on a device with another member's photo (~OwnPhoto).                    *)
(***************************************************************************)
\* What a file of a version shows: the photo as taken or made smaller.
Version(v) == IF v = "full" THEN Original
              ELSE IF v = "low" THEN lowVersion(Original) ELSE highVersion(Original)

\* No run gets past the check of an upload, and the lock is that of the only run.
OneDownload ==
    /\ \A r \in Runs : runs[r].at \in DownloadSteps \union {"idle", "up run"}
    /\ \A r, s \in Busy : r = s
    /\ locked = (Busy # {})

FilesShowVersions ==
    /\ \A f \in Levels \X Uploads : bucket[f] \in {Nothing, Version(f[1])}
    /\ \A f \in Files : disk[f] \in {Nothing, Version(f[1])}

\* What is shown is no better than what is known to be online, but between the
\* update of the row and the end of the download.
OnlineCovers ==
    \/ row.local <= row.online
    \/ \E r \in Runs : At(r, "down finish") /\ row.local <= runs[r].res

\* What a download has found out when it comes to each of its steps.
DownloadOK(r) ==
    /\ runs[r].at # "idle" => runs[r].task \in Tasks
    /\ runs[r].at \in DownloadSteps \ {"down run"} => row.known
    /\ runs[r].at \in {"down get", "down update"} =>
         runs[r].file \in Levels \X Uploads /\ VolatileFile(r) = runs[r].file
    /\ At(r, "down update") => disk[runs[r].file] # Nothing
    /\ At(r, "down finish") => runs[r].waste \in {NoFile} \union (Files \ {row.file})

DownloadInv ==
    /\ TypeOK /\ OneDownload /\ FilesShowVersions /\ ShownFile /\ OnlineCovers
    /\ ~row.known => row.file = NoFile /\ row.local = -1
    /\ \A r \in Runs : DownloadOK(r)

(***************************************************************************)
(* The strengthening of PublishedExists on the device of the photographer  *)
(* (OwnPhoto).                                                             *)
(***************************************************************************)
Photo == <<"full", Camera>>
Best == calculateResolution(Original[1])
Uploaded == {"full"} \X Uploads

\* The row stays that of the photo as it was taken, and nothing is heard of the photo
\* before.
OwnRow ==
    /\ row.known => /\ row.file = Photo /\ disk[Photo] = Original
                    /\ row.local = Best /\ row.online <= Best
    /\ ~row.known => row.file = NoFile /\ events = {} /\ functions = {}

\* Nothing online measures more than the photo, so no download gets past its check.
NothingBetter ==
    /\ node.resolution <= Best
    /\ \A s \in events : s.resolution <= Best
    /\ \A t \in Tasks : tasks[t].claim <= Best
    /\ \A f \in Uploaded : bucket[f] = Nothing \/ bucket[f][1] \in 1 .. Original[1]

\* What an upload has found out when it comes to each of its steps.
UploadOK(r) ==
    /\ runs[r].at \in UploadSteps \union {"idle", "down run"}
    /\ runs[r].at # "idle" => runs[r].task \in Tasks
    /\ runs[r].at \in UploadSteps \ {"up run"} =>
         row.known /\ runs[r].file \in Uploaded /\ VolatileFile(r) \in Uploaded
    /\ At(r, "up put") => runs[r].source = Photo
    /\ At(r, "up send") => runs[r].dims[1] \in 1 .. Original[1]

\* The file is in the bucket, or a run is about to put it there.
Arriving(f) ==
    \/ bucket[f] # Nothing
    \/ \E r \in Runs : runs[r].at \in {"up put", "up send"} /\ runs[r].file = f

\* Every name that is or will be published is that of such a file.
NamesArrive ==
    /\ node.full # NoName => Arriving(<<"full", node.full>>)
    /\ \A r \in Runs : runs[r].at \in {"up put", "up send"} => Arriving(VolatileFile(r))

UploadInv ==
    /\ TypeOK /\ OwnRow /\ NothingBetter
    /\ \A r \in Runs : UploadOK(r)
    /\ failures = 0 => NamesArrive

\* On any other device: nobody deletes the file that was published.
NodeStored == node.full # NoName => bucket[<<"full", node.full>>] # Nothing

==============================================================================
