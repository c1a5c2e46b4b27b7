---------------------------- MODULE CloudFunctions ----------------------------
(***************************************************************************)
(* The two cloud functions of index.js, for one photo: createResolutions   *)
(* makes its smaller versions, measures it and publishes both in the       *)
(* photo's node, detectFaces publishes whether there are people on it.     *)
(*                                                                         *)
(* The app sends a file and publishes a name in files/full when it has     *)
(* arrived, which need not be the name of that file.  A write of           *)
(* files/full starts each function, at least once and in any order with    *)
(* respect to other writes.  An instance serves one invocation at a time   *)
(* and keeps its /tmp between them.  A rejected promise ends the chain     *)
(* where it stands; nothing retries it.                                    *)
(***************************************************************************)
EXTENDS ResolutionTools, FiniteSets

CONSTANTS
    Sides,          \* widths and heights of photos to look at
    Followed,       \* the sizes of photos whose uploads are followed (a bound)
    UploadLevels,   \* of each upload, the levels at which it may be (a bound)
    Names,          \* names of uploads of the photo (a bound)
    NoName,
    Instances,      \* instances of createResolutions (a bound)
    Duplicated,     \* the functions that a write of a name may start twice (a bound)
    Removable,      \* the files that may be deleted (a bound)
    MaxDisturbances \* bound: kinds of failure and deletion in one behaviour

\* At most 32 * SIZE_LOW: the largest sample size PowersOfTwo has.
ASSUME SidesAssumption == \A s \in Sides : s \in Nat /\ 0 < s /\ s <= 20480
ASSUME FunctionsAssumption ==
    /\ NoName \notin Names
    /\ UploadLevels \in [Names -> SUBSET Levels]
    /\ Removable \subseteq Levels \X Names
    /\ MaxDisturbances \in Nat

VARIABLES
    d,              \* <<width, height>> of the photo on the device that took it
    size,           \* the size of each upload's image, from when its name is drawn
    volatile,       \* of each upload, the name its PhotoUpload holds: volatileFileInfo
    sent,           \* the uploads whose file is on its way or was lost
    arrived,        \* the uploads whose onSuccess is to come
    content,        \* of each file in the bucket, the upload whose image it shows
    node,           \* photos/<group>/<photo>; people names the upload looked at
    pending,        \* invocations of createResolutions to come, per name
    faces,          \* invocations of detectFaces to come, per name
    instance,       \* what the instances of createResolutions are doing
    seen,           \* the disturbances that have occurred (history)
    failed,         \* the names one of whose invocations could not download (history)
    removed         \* the files that have been deleted (history)

app == <<d, size, volatile, sent, arrived>>
store == <<content, node>>
history == <<seen, failed, removed>>
vars == <<app, store, pending, faces, instance, history>>

Nothing == <<0, 0>>
NoNode == [full |-> NoName, low |-> NoName, high |-> NoName, people |-> NoName, resolution |-> 0]
Node == [full : Names \union {NoName}, low : Names \union {NoName}, high : Names \union {NoName},
         people : Names \union {NoName}, resolution : 0 .. 3]

ChainSteps == {"download", "convert", "upload low", "upload high", "resolution",
               "low", "high", "unlink"}

\* temp is the upload whose image /tmp/tempFile shows, and from it the versions the
\* chain has made in /tmp.
Cold == [at |-> "idle", name |-> NoName, temp |-> NoName]
Instance == [at : ChainSteps \union {"idle"}, name : Names \union {NoName},
             temp : Names \union {NoName}]

Disturbances == {"early", "download failed", "rejected", "deleted", "no faces"}

TypeOK ==
    /\ d \in Sides \X Sides
    /\ size \in [Names -> Nat \X Nat]
    /\ volatile \in [Names -> Names]
    /\ sent \subseteq Names
    /\ arrived \subseteq Names
    /\ content \in [Levels \X Names -> Names \union {NoName}]
    /\ node \in Node
    /\ pending \in [Names -> Nat]
    /\ faces \in [Names -> Nat]
    /\ instance \in [Instances -> Instance]
    /\ seen \subseteq Disturbances
    /\ failed \subseteq Names
    /\ removed \subseteq Levels \X Names

Init ==
    /\ d \in Sides \X Sides
    /\ size = [n \in Names |-> Nothing]
    /\ volatile = [n \in Names |-> n]
    /\ sent = {}
    /\ arrived = {}
    /\ content = [f \in Levels \X Names |-> NoName]
    /\ node = NoNode
    /\ pending = [n \in Names |-> 0]
    /\ faces = [n \in Names |-> 0]
    /\ instance = [i \in Instances |-> Cold]
    /\ seen = {}
    /\ failed = {}
    /\ removed = {}

-----------------------------------------------------------------------------
Stored(version, n) == content[<<version, n>>] # NoName
Made(version, n) == Stored(version, n) \/ <<version, n>> \in removed
Sees(what) == seen' = seen \union {what}
MayFail(what) == what \notin seen /\ Cardinality(seen \ {"early"}) < MaxDisturbances

Quiet ==
    /\ \A n \in Names : pending[n] = 0 /\ faces[n] = 0
    /\ \A i \in Instances : instance[i].at = "idle"

(* The app and the backend *)

\* The names that have been drawn.
Drawn == {n \in Names : size[n] # Nothing}

\* PhotoUpload.run draws a name and sends the image.  Its object is a new one or one
\* that has drawn names before: those uploads too publish the new name from now on.
Upload(n, level, dims) ==
    /\ d \in Followed
    /\ level \in UploadLevels[n]
    /\ n \notin Drawn
    /\ dims \in Decoded(d, getSize(level))
    /\ size' = [size EXCEPT ![n] = dims]
    /\ \E held \in {n} \union {volatile[m] : m \in Drawn} :
         volatile' = [m \in Names |-> IF volatile[m] = held THEN n ELSE volatile[m]]
    /\ sent' = sent \union {n}
    /\ UNCHANGED <<d, arrived, store, pending, faces, instance, history>>

\* The file is in the bucket; of one that is lost, onFailure tells the node nothing.
FileArrives(n) ==
    /\ n \in sent
    /\ content' = [content EXCEPT ![<<"full", n>>] = n]
    /\ sent' = sent \ {n}
    /\ arrived' = arrived \union {n}
    /\ UNCHANGED <<d, size, volatile, node, pending, faces, instance, history>>

\* How often a write of the name starts a function: not at all, perhaps, when it is
\* there already.
Starts(function, n) ==
    (IF node.full = n THEN 0 ELSE 1) .. (IF <<function, n>> \in Duplicated THEN 2 ELSE 1)

\* FileUploadListener.onSuccess publishes the name the object holds by then, whose file
\* may not be there.  It is early when it is not, or when the functions are not done.
Publish(n) ==
    /\ n \in arrived
    /\ arrived' = arrived \ {n}
    /\ LET m == volatile[n]
       IN  /\ node' = [node EXCEPT !.full = m]
           /\ \E k \in Starts("createResolutions", m) : pending' = [pending EXCEPT ![m] = @ + k]
           /\ \E k \in Starts("detectFaces", m) : faces' = [faces EXCEPT ![m] = @ + k]
           /\ seen' = IF Quiet /\ Stored("full", m) THEN seen ELSE seen \union {"early"}
    /\ UNCHANGED <<d, size, volatile, sent, content, instance, failed, removed>>

\* The file manager deletes a file, or the removal of the group one file after the
\* other.  The removal of files/full starts the functions too: they see that it does
\* not exist and end.
DeleteFile(f) ==
    /\ content[f] # NoName
    /\ "deleted" \in seen \/ MayFail("deleted")
    /\ content' = [content EXCEPT ![f] = NoName]
    /\ removed' = removed \union {f}
    /\ Sees("deleted")
    /\ UNCHANGED <<app, node, pending, faces, instance, failed>>

RemoveNode ==
    /\ node # NoNode
    /\ "deleted" \in seen \/ MayFail("deleted")
    /\ node' = NoNode
    /\ Sees("deleted")
    /\ UNCHANGED <<app, content, pending, faces, instance, failed, removed>>

-----------------------------------------------------------------------------
(* createResolutions *)

At(i, step) == instance[i].at = step
Goto(i, step) == instance' = [instance EXCEPT ![i].at = step]
Unchained == UNCHANGED <<app, pending, faces, removed>>

\* The chain ends; what is in /tmp stays.
Reject(i) == instance' = [instance EXCEPT ![i] = [Cold EXCEPT !.temp = instance[i].temp]]

\* A warm instance has the /tmp of the invocations before, a new one an empty one.
Invoke(i, n) ==
    /\ At(i, "idle")
    /\ pending[n] > 0
    /\ pending' = [pending EXCEPT ![n] = @ - 1]
    /\ \E t \in {instance[i].temp, NoName} :
         instance' = [instance EXCEPT ![i] = [Cold EXCEPT !.at = "download", !.name = n, !.temp = t]]
    /\ UNCHANGED <<app, store, faces, history>>

\* Mutant: a file that is there is not downloaded again.
DownloadCached(i) ==
    /\ At(i, "download")
    /\ instance' = [instance EXCEPT ![i].at = "convert",
         ![i].temp = IF @ # NoName THEN @ ELSE content[<<"full", instance[i].name>>]]
    /\ UNCHANGED <<store, seen, failed>>
    /\ Unchained

\* A failure is logged and the chain goes on with the tempFile there is.
Download(i) ==
    /\ At(i, "download")
    /\ \/ /\ Stored("full", instance[i].name)
          /\ instance' = [instance EXCEPT ![i].at = "convert",
                                          ![i].temp = content[<<"full", instance[i].name>>]]
          /\ UNCHANGED <<seen, failed>>
       \/ /\ Stored("full", instance[i].name) => MayFail("download failed")
          /\ Goto(i, "convert")
          /\ Sees("download failed")
          /\ failed' = failed \union {instance[i].name}
    /\ UNCHANGED store
    /\ Unchained

\* Both versions; ImageMagick fails when there is no tempFile.
Convert(i) ==
    /\ At(i, "convert")
    /\ IF instance[i].temp = NoName
         THEN Reject(i)
         ELSE Goto(i, "upload low")
    /\ UNCHANGED <<store, seen, failed>>
    /\ Unchained

UploadVersion(i, at, version, to) ==
    /\ At(i, at)
    /\ content' = [content EXCEPT ![<<version, instance[i].name>>] = instance[i].temp]
    /\ Goto(i, to)
    /\ UNCHANGED <<node, seen, failed>>
    /\ Unchained

\* Mutant: the chain does not wait for the file, which then fails to arrive.
UploadHighUnawaited(i) ==
    /\ At(i, "upload high")
    /\ Goto(i, "resolution")
    /\ UNCHANGED <<store, seen, failed>>
    /\ Unchained

UploadLow(i) == UploadVersion(i, "upload low", "low", "upload high")
UploadHigh(i) == UploadVersion(i, "upload high", "high", "resolution")

\* A write of a child of the node, whether the node is still there or not.
WriteNode(i, at, new, to) ==
    /\ At(i, at)
    /\ node' = new
    /\ Goto(i, to)
    /\ UNCHANGED <<content, seen, failed>>
    /\ Unchained

\* Mutant: the low version is measured.
WriteResolutionOfLow(i) == WriteNode(i, "resolution",
    [node EXCEPT !.resolution = publishedResolution(lowVersion(size[instance[i].temp])[1])], "low")

WriteResolution(i) == WriteNode(i, "resolution",
    [node EXCEPT !.resolution = publishedResolution(size[instance[i].temp][1])], "low")

\* Mutant: the chain ends with the first name.
WriteLowLast(i) == WriteNode(i, "low", [node EXCEPT !.low = instance[i].name], "unlink")
WriteLow(i) == WriteNode(i, "low", [node EXCEPT !.low = instance[i].name], "high")
WriteHigh(i) == WriteNode(i, "high", [node EXCEPT !.high = instance[i].name], "unlink")

Unlink(i) ==
    /\ At(i, "unlink")
    /\ instance' = [instance EXCEPT ![i] = Cold]
    /\ UNCHANGED <<store, seen, failed>>
    /\ Unchained

\* Any step but the download may be rejected, and an instance may be stopped.
Rejected(i) ==
    /\ instance[i].at \in ChainSteps
    /\ MayFail("rejected")
    /\ Reject(i)
    /\ Sees("rejected")
    /\ UNCHANGED <<store, failed>>
    /\ Unchained

Chain(i) ==
    \/ Download(i) \/ Convert(i) \/ UploadLow(i) \/ UploadHigh(i)
    \/ WriteResolution(i) \/ WriteLow(i) \/ WriteHigh(i) \/ Unlink(i)

-----------------------------------------------------------------------------
(* detectFaces *)

\* The Vision service looks at the file, and the answer may be older than its deletion.
\* Of a file that is not there, and now and then of one that is, there is no answer, and
\* the invocation ends.
DetectFaces(n) ==
    /\ faces[n] > 0
    /\ faces' = [faces EXCEPT ![n] = @ - 1]
    /\ \/ /\ n \notin sent
          /\ node' = [node EXCEPT !.people = n]
          /\ UNCHANGED seen
       \/ /\ Stored("full", n) => MayFail("no faces")
          /\ Sees("no faces")
          /\ UNCHANGED node
    /\ UNCHANGED <<app, content, pending, instance, failed, removed>>

-----------------------------------------------------------------------------
Environment ==
    \/ \E n \in Names, level \in Levels : \E dims \in Decoded(d, getSize(level)) :
         Upload(n, level, dims)
    \/ \E n \in Names : FileArrives(n) \/ Publish(n)
    \/ \E f \in Removable : DeleteFile(f)
    \/ RemoveNode

CreateResolutions(i) == (\E n \in Names : Invoke(i, n)) \/ Chain(i)

Next ==
    \/ Environment
    \/ \E i \in Instances : CreateResolutions(i) \/ Rejected(i)
    \/ \E n \in Names : DetectFaces(n)

Spec == Init /\ [][Next]_vars

\* Invocations are delivered and go on; nobody has to upload or delete anything.
Fairness ==
    /\ \A i \in Instances : WF_vars(CreateResolutions(i))
    /\ \A n \in Names : WF_vars(DetectFaces(n))

FairSpec == Spec /\ Fairness

-----------------------------------------------------------------------------
\* doc/resolution.txt: "it is important that frontend and backend understand the
\* concept of resolution in the same way": the app measures a file as the cloud
\* function does.
SameMeasure == calculateResolution(d[1]) = publishedResolution(d[1])

\* What an app uploads for a level is as wide as the level allows at most, and
\* is not shrunk to less than half of it: no level is overshot or wasted.
UploadFitsLevel == \A level \in {"low", "high"} : \A e \in Decoded(d, getSize(level)) :
    /\ e[1] <= getSize(level)
    /\ d[1] >= getSize(level) => 2 * e[1] >= getSize(level)

\* The documented resolutions of the versions hold for every photo that is wider
\* than a low version and at least as wide as 4:3; for other photos they do not, and
\* DownloadsEnd of PhotoSync shows what comes of it.
Landscape(dims) == dims[1] > SIZE_LOW /\ 3 * dims[1] >= 4 * dims[2]
LandscapeVersions == Landscape(d) => VersionsAsDocumented(d)

\* A smaller version is named in the node only when its file is in the bucket, or has
\* been deleted there, or a client would wait for a file that never comes: whatever
\* name the app publishes, and however instances overlap and fail.
NamedIsStored == \A version \in {"low", "high"} :
    node[version] # NoName => Made(version, node[version])

\* A smaller version shows the upload it is named for, although a warm instance starts
\* with the tempFile of an invocation that was rejected.  Only a download that failed
\* for that very name breaks it: the chain then goes on with that tempFile.
FilesMatchNames == \A version \in {"low", "high"}, n \in Names \ failed :
    content[<<version, n>>] \in {n, NoName}

\* When each name is published with its file there and the functions done with the one
\* before, nothing fails and nothing is deleted, the node speaks of the last upload in
\* all its parts once the functions are done, however often they were invoked for it;
\* and of a landscape photo a client measures in the versions what the node promises.
SettledNode == Quiet /\ seen = {} /\ node.full # NoName =>
    LET n == node.full
        dims == size[n]
    IN  /\ node.low = n /\ node.high = n /\ node.people = n
        /\ node.resolution = publishedResolution(dims[1])
        /\ content[<<"low", n>>] = n /\ content[<<"high", n>>] = n
        /\ Landscape(dims) =>
             /\ calculateResolution(lowVersion(dims)[1]) = sourceResolution("low", node.resolution)
             /\ calculateResolution(highVersion(dims)[1]) = sourceResolution("high", node.resolution)

\* Of an upload that nothing disturbs, both versions are published in the end.
VersionsArrive ==
    node.full # NoName ~> seen # {} \/ (node.low = node.full /\ node.high = node.full)

-----------------------------------------------------------------------------
(***************************************************************************)
(* The strengthening of NamedIsStored and FilesMatchNames that every step  *)
(* preserves: what a chain has stored, and what its tempFile shows, when   *)
(* it comes to the step that relies on it.                                 *)
(***************************************************************************)
AfterHigh == {"resolution", "low", "high", "unlink"}
AfterLow == AfterHigh \union {"upload high"}
AfterConvert == AfterLow \union {"upload low"}

ChainOK(c) ==
    /\ c.at \in ChainSteps => c.name \in Names
    /\ c.at \in AfterConvert => c.temp # NoName
    /\ c.at \in AfterConvert \union {"convert"} /\ c.name \notin failed => c.temp = c.name
    /\ c.at \in AfterLow => Made("low", c.name)
    /\ c.at \in AfterHigh => Made("high", c.name)

\* The full files are their own uploads', and the histories agree.
StoreOK ==
    /\ \A n \in Names : content[<<"full", n>>] \in {n, NoName}
    /\ failed # {} => "download failed" \in seen
    /\ removed # {} => "deleted" \in seen

FunctionsInv ==
    /\ TypeOK
    /\ StoreOK
    /\ NamedIsStored
    /\ FilesMatchNames
    /\ \A i \in Instances : ChainOK(instance[i])

(***************************************************************************)
(* The strengthening of SettledNode: while nothing has disturbed, all that *)
(* is under way is about the last upload, and what the node does not say   *)
(* of it yet is still to come.                                             *)
(***************************************************************************)
BeforeResolution == {"download", "convert", "upload low", "upload high", "resolution"}
BeforeLow == BeforeResolution \union {"low"}
BeforeHigh == BeforeLow \union {"high"}

ToCome(n, steps) == pending[n] > 0 \/ \E i \in Instances : instance[i].at \in steps

OnlyAbout(n) ==
    /\ \A m \in Names : pending[m] > 0 \/ faces[m] > 0 => m = n
    /\ \A i \in Instances : instance[i].at \in ChainSteps => instance[i].name = n

SaidOrToCome(n) ==
    /\ node.people = n \/ faces[n] > 0
    /\ node.resolution = publishedResolution(size[n][1]) \/ ToCome(n, BeforeResolution)
    /\ node.low = n \/ ToCome(n, BeforeLow)
    /\ node.high = n \/ ToCome(n, BeforeHigh)

\* What is sent or published has been drawn.
DrawnOK ==
    /\ sent \union arrived \subseteq Drawn
    /\ \A n \in Names : volatile[n] \in (IF n \in Drawn THEN Drawn ELSE {n})
    /\ node.full \in Drawn \union {NoName}

Settling == seen = {} =>
    /\ OnlyAbout(node.full)
    /\ node.full # NoName => SaidOrToCome(node.full)

==============================================================================
