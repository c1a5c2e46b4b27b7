# Verification of the photo organizer

The photo organizer lets the members of a group share photos for a limited
time. This directory models the parts of it whose correctness depends on order,
on concurrency and on failures, checks the models with TLC on small instances
and proves what matters most with TLAPS for instances of every size.

    tlc -workers 2 -config RegistryConcurrent.cfg MCGroupRegistry.tla
    tlapm GroupRegistryProofs.tla

## The system

| Component | Source | State it keeps | Operations |
|---|---|---|---|
| Group registry | `backend/groups.py`, `main.py`, `request_validators.py` | `users/<u>/group`, `groups/<g>` (name, creator, start/end time, token, members), `photos/<g>` in the Firebase database; `images/<g>/` in the bucket | create, join (`update`), delete or leave (`delete`) |
| Housekeeping | `groups.py`, `cron.yaml` | the same | a round every minute: `housekeeper_cron`, `batch_delete` |
| Web file manager | `main.py` login/delete, `groups.get_download_url`, `delete_specific_file` | the Flask session (user, group, token), files under `temp/` | login, list, delete a file |
| Cloud functions | `firebase-functions/functions/index.js` | `/tmp/tempFile` of the instance; `people`, `resolution`, `files/low`, `files/high` of a photo | `detectFaces`, `createResolutions`, on every write of `files/full` |
| Photo synchronizer | `PhotoSynchronizer.java`, `GalleryDao.java`, `AsyncObserver.java`, `ResolutionTools.java` | a lock per photo, the local gallery (file and resolution of a photo, best resolution known online) | upload, download, improve in either direction every 30 s |
| User session | `User.java`, `UserSensitiveActivity.java`, `MainActivity.java` | the user's group, its name, expiry and author, the synchronizer, state flags | group changed, group data arrived, end |
| Member list | `GroupActivity.java` | the list on screen | child added, child removed |
| Notifier | `Notifier.java` | counters per album | notify, cancel |
| Views, forms, settings | the other activities and adapters | what is on screen | |
| Face detection proxy, authentication | `detect_image.py`, `google_service.py`, `users.py` | none | one remote call each |

How they interact. The app sends create, join and delete requests to the
backend. The backend and the app share nothing but the Firebase database and the
storage bucket: the backend writes `users/<u>/group`, the app's session listens
to it and starts a photo synchronizer for the group; the synchronizer pushes
`photos/<g>/<p>`, uploads the file and writes `files/full`, which triggers the
cloud functions, whose writes come back to every member's synchronizer as
events. Housekeeping removes the group from under all of them.

What is hard in it:

* No operation on the shared store is a transaction. Handlers run in gunicorn
  workers of several instances and interleave call by call; a read is used
  several calls later (token, members list, creator, end time).
* Any remote call may raise, and a worker may be killed: a handler stops where it
  is, with its writes half done. Only `batch_delete` is ever retried.
* In the app, callbacks run on a cached thread pool, so they may be reordered;
  per-photo locks are taken through an observer that fires asynchronously.
* Cloud functions are delivered at least once and in any order.

What makes each component correct:

* Group registry: a user is in at most one active group; a token admits one user;
  who points to a group is listed in it; the creator stays listed; a group is
  destroyed only when expired or by its creator; a deleted group leaves nothing.
* Housekeeping: every expired group goes away, whatever fails on the way.
* Photo synchronizer: one synchronisation of a photo at a time; the local and the
  online resolution never get worse; the file shown exists; no photo is
  downloaded for ever; an improvable photo is improved in the end.
* User session: in the end the session is in the group the database says, and the
  name and author shown are those of that group; one synchronizer is alive.
* Cloud functions: in the end resolution, low and high belong to the last `full`.

## Modules

| Module | Models |
|---|---|
| `GroupRegistry` | group registry and housekeeping |
| `Backend` (extends `GroupRegistry`) | the whole backend: with the web file manager on the same workers and bucket |
| `ResolutionTools` | the levels, both measures of a photo, the versions made of it |
| `CloudFunctions` (extends `ResolutionTools`) | `createResolutions` and `detectFaces` for one photo, with several instances |
| `PhotoSync` (extends `ResolutionTools`) | one device's synchronizer, the photo's node and files, the functions' writes |
| `PhotoLock` | the lock of a photo, which `PhotoSync` refines for downloads |
| `UserSession` | the user's session in the app and the screens that depend on it |
| `MemberList` | the list of members on the group screen, over the array the backend writes |
| `GroupRegistryProofs`, `BackendProofs`, `BackendStoreProofs`, `ResolutionProofs`, `CloudFunctionsProofs`, `UserSessionProofs`, `PhotoSyncProofs`, `MemberListProofs` | the theorems |
| `MCGroupRegistry`, `MCBackend`, `MCCloudFunctions`, `MCPhotoSync`, `MCUserSession`, `MCMemberList` | the instances TLC checks |

The compositions are those in which components share state call by call: the file
manager with the registry (`Backend`), the functions with the synchronizer
(`PhotoSync` has the functions' steps in a form reduced to one tempFile per
invocation, which `CloudFunctions` justifies with `FilesMatchNames`), the backend's
joins and leaves with the screen (`MemberList`). The session meets the backend only
in the value of `users/<u>/group`, which `UserSession` lets change at any time.

### GroupRegistry

`pointer[u]` is `users/<u>/group`; `groups[g]` the record; `photos` and `images`
the groups with a photo node or a file; `expired` the groups whose `end_time`
has passed; `job[w]` what worker `w` is executing and its local variables.

One action is one remote call and the local code up to the next:

| Code | Actions |
|---|---|
| `create` | `CreateStart` (reads the user's pointer), `CreateCheck`, `CreatePush`, `CreatePoint`, `CreateKeep` |
| `update` (join) | `JoinStart` (reads the token), `JoinRead`, `JoinCheck`, `JoinPatch`, `JoinPoint`, `JoinRotate`, `JoinMembers`, `JoinWrite` |
| `delete` by the creator | `DeleteStart`, `OwnerUnpoint`, `OwnerPhotos`, `OwnerMembers`, `OwnerClear` per member, `OwnerRemove`, `OwnerImages` |
| `delete` by a member | `DeleteStart`, `LeaveUnpoint`, `LeaveMembers`, `LeaveWrite` |
| `housekeeper_cron`, `batch_delete` | `RoundStart`, `RoundNext`, `BatchPhotos`, `BatchMembers`, `BatchClear`, `BatchFinish`, `RoundEnd` |
| a call raises, a worker dies | `Fail`; inside `batch_delete`, which catches it, `BatchFail` |
| time, the app | `Expire`, `PushPhoto`, `UploadFile` |

Choices of the model:

* A Firebase node without children does not exist, so a removed record is the
  record with no fields, an empty members list is an absent one, and a late write
  of a single field resurrects the node without an end time, as in the database.
* `database...group.update(group_id)` passes a string where the client wants an
  object (`groups.py:82`); the model allows both outcomes, stored and refused.
* `validity` is a number of minutes that may be 0, so a group may expire at any
  time. Tokens are distinct (uuid4). `push` never returns an id twice.
* All files of a group are one: `images` tells whether some file is there. The
  removal loop over the bucket is one action; a failure in its middle is a failure
  before it as far as the properties can see, since files then remain.
* App Engine starts a round of a cron job only when the last one has ended, so at
  most one worker is in a round.
* The app takes photos into the group its user points to. The upload runs on in the
  background and does not look at the pointer again: with `LateUploads` it may end at any
  time, also when the group and its files are gone.
* Only the app's requests arrive: a join presents the current token of a group
  (any other is refused without effect), which for a group that has none any more, or not
  yet, is null: the handler only compares the two. A delete names the group the user is in
  or, with `StaleRequests`, one that still lists the user.
* A request the validators refuse changes nothing and is left out. A round starts
  only when the cron service asks for it; the route would serve anybody's request.

### Backend

`session[u]` is the cookie of `u`'s browser: the group the user pointed to at login;
`web[w]` the request of the file manager that worker `w` serves.

| Code | Actions |
|---|---|
| `login`, `logout`, `delete` of `main.py` | `Login`, `Logout`, `DeleteFile` |
| `delete_specific_file` | `Find`, `Remove` |
| `get_download_url` | `List`, `Get`, `Put` |
| a call raises, a worker dies | `WebFail` |

* A worker serves one request at a time: a step of the registry that starts a request
  wants a worker without one of the file manager (`RegistryStep`).
* `images` only tells whether a group has files, which may be several: a deletion may or
  may not take the last, a listing may go on with the next one. A handler that removes the
  files one by one raises at a file that another one of its kind, or the file manager, is
  removing too (`Raise`): `delete` then ends, a round takes the next group.
* Two histories name what the code does not exclude. `disturbed`: groups that two workers
  served at once, or of which a join began without the record or failed half-way.
  `strewn`: groups whose delete was cut off between record and files, and those that got a
  file late, with the record gone or about to go.
* `session` is the cookie the browser has. `login` clears the old session and sends the
  new one with any response, that of a failed listing included; a worker that dies
  sends none. Signing in always succeeds.

### ResolutionTools

Operators only, named as in the code: `calculateResolution`, `getResolution`,
`getSize` and `sourceResolution` (the `getResolution` of two arguments) of
`ResolutionTools.java`; `publishedResolution`, `lowVersion`, `highVersion` of
`createResolutions`; `sampleSize` and `Decoded` of `decodeFile`. `Resized` is
ImageMagick's `-resize WxH`, which keeps the aspect ratio and fits the box, also
upwards. The sample size is
`2^ceil(log2(required/width))` in integers; `decodeFile` computes the exponent with doubles.
Over all widths from 1 to 20480 and both sizes the double expression gives the same
exponent: at a power of two the quotient of the logarithms is exact, elsewhere it is at
least 7e-5 from an integer. This was computed outside of the models.

### CloudFunctions

`d` is the size of the photo on the device, `size[n]` that of upload `n`'s image,
`volatile[n]` the name in the `volatileFileInfo` of the object that made the upload,
`sent` the files on their way and `arrived` those whose `onSuccess` is to come,
`content[<<version, n>>]` the upload whose image that file of the bucket shows,
`node` the photo's node, `pending` and `faces` the invocations to come, `instance[i]`
the chain an instance is in and the upload whose image its `/tmp/tempFile` shows.

| Code | Actions |
|---|---|
| `PhotoUpload.run`, the transfer, `FileUploadListener.onSuccess` | `Upload`, `FileArrives`, `Publish` |
| start of `createResolutions` in a new or a warm instance | `Invoke` |
| its chain of promises | `Download`, `Convert`, `UploadLow`, `UploadHigh`, `WriteResolution`, `WriteLow`, `WriteHigh`, `Unlink` |
| a promise is rejected, the instance is stopped | `Rejected` |
| `detectFaces`, answered or not | `DetectFaces` |
| the file manager, the removal of the group | `DeleteFile`, `RemoveNode` |

* An upload publishes the name its object holds when the file has arrived, which may be
  that of a later run of the same object whose file is still on its way, or was lost.
  Uploads overlap in any order, at any level.
* A name that is published starts both functions, once or twice, and not at all, perhaps,
  when `files/full` has it already. Each invocation of `detectFaces` may get no answer.
* Files are deleted one by one, the group's removal being many such steps.
* An instance serves one invocation at a time and keeps `/tmp` when a chain is
  rejected; a failed download is caught and the chain goes on, as in the code.
* `people` names the upload that was looked at, not what was seen on it.
* The size of the photo ranges over `Sides` in both dimensions, which is what
  `SameMeasure`, `UploadFitsLevel` and `LandscapeVersions` are about; uploads are
  followed for the sizes in `Followed`.
* `seen` records which kinds of disturbance have occurred: a failed download, a rejection,
  a deletion, no answer about the people, and "early", a name published without its file
  or before the functions are done with the one before. `failed` and `removed` record the
  names and the files concerned, so that the properties except no more than these.

### UserSession

`pointer` is `users/<u>/group`, `tasks` the calls of `setGroupId` on the pool,
`replies` the reads of the group's data on their way, `user` the fields of the object
`User`, `listening` the synchronizers that listen, `observers` and `posts` the screens
that observe the session and the updates posted to them, `screen` the screen on top,
`photo` a photo between being taken and being handed to the synchronizer.

| Code | Actions |
|---|---|
| `groupListener`, `AsyncValueEventListener` | `Deliver`, `Cancel` |
| `setGroupId` before and under the lock | `Prepare`, `Swap` |
| `initGroup`'s callbacks | `Reply` |
| `authStateListener`, `User.end`, `stop` | `AuthLost`, `End` |
| main menu, back, home and recents | `Open`, `Back`, `Hide`, `Return` |
| `onCreate`, `onStart`, `onStop` | `Create`, `Register`, `Check`, `Leave` |
| `ObserverInMainThread`, `updateInternal` | `Update` |
| `onActivityResult` | `InsertPhoto`, `HandPhoto` |
| the backend | `Point` |

* The main thread runs one message at a time (`MainFree`): a screen's registration and
  its first look belong to one message, and only pool threads come between them.
* The screens are the main one, the group one and the management one; the
  other activities only show things or send a request, and lead back.
* `late`, `silent` and `unseen` are history variables for the premises.

### MemberList

`children` is the array `groups/<g>/members`, `read[r]` the copy a join or leave is
about to write back, `news` the arrays on their way to the listener of the screen,
`told` the children it has told the adapter of, `list` the adapter's list, `lookups` the
names it has asked for. Actions: `Read`, `Join`, `Leave`, `Clear` of the backend, `Start`,
`Stop`, `Answer`, `Refuse` of the screen, `Callback` of the listener. Arrays reach the
listener late, all of them, and in the order of the writes; each is told callback by
callback: positions that are gone (`Removed`, `onChildRemoved`), then new ones (`Added`,
`onChildAdded`), then those that changed, which the adapter ignores (`Changed`,
`onChildChanged`). The database names the children of an array by position, so a shorter
array removes its last positions whatever left the group. Answers and writes may come
between any two callbacks: more interleavings than the main thread has. `shifted` and
`refused` are history variables for the premises.

### PhotoSync

`row` is the photo's row in the gallery, `disk` and `bucket` the dimensions of its
files here and in storage, `node` the photo's node, `events` the snapshots of the
node that wait for a pool thread, `locked` the row in `PhotoSyncLock`, `tasks` the
`PhotoUpload` and `PhotoDownload` objects with the state of their lock observer,
`runs` the executions of `run()` and of the callbacks it sets off, `functions` the
invocations of `createResolutions`.

| Code | Actions |
|---|---|
| `PhotoSync.start`, `AsyncObserver`, `tryStart`, `release` | `Start`, `Compute` (Room reads the lock's row), `Deliver` (main thread), `TryStart` (pool thread), `Release` |
| `PhotoUpload` | `UploadRun`, `UploadPut`, `UploadSent`, `UploadAcked` |
| `PhotoDownload` | `DownloadRun`, `DownloadPull`, `DownloadGet`, `DownloadUpdate`, `DownloadFinish` |
| their failure callbacks | `TransferFails` |
| `PhotoEventListener`, the timer, `onActivityResult` | `HandleEvent`, `TimerDownload`, `TimerUpload`, `TakePhoto` |
| `createResolutions` | `Resize`, `ResizeNothing`, `WriteResolution`, `WriteLow`, `WriteHigh`, `FunctionDies` |
| settings and network, another member's device | `SetLevel`, `RemoteUpload` |

Choices of the model:

* One photo: rows, locks and objects are kept per photo. One device: other members
  appear as the one `RemoteUpload` of the photo's owner, which stores and publishes the
  original in one step. That uploads overlap, publish another's name and are repeated at a
  better level is modelled on the owner's own device (`photo_published`).
* A `start()` posted to the main thread is taken at once; the delay is that of the
  first `Compute`, and `run()` checks again under the lock.
* An object that waits is told of every change of the lock's row. `Unobserved` keeps
  the order of the main thread's queue: a value posted before the removal of the
  observer is still delivered, one after it is not. So one object may run twice.
* The level is asked for afresh at each place where the code does; between two
  questions in one step any level of `LevelChoices` may come.
* Pool threads reorder `events`; a change handled before the node's addition finds no
  row and is dropped.
* Taking a photo is one action. In the code the listener may insert the row first, and
  the insertion of `onActivityResult` is then ignored; a download started in that gap
  finds no file name and ends.
* A function starts once per write of `files/full`; a function that fails stops, also when
  the full file is not there (`ResizeNothing`: a tempFile left by another photo's
  invocation is outside of the model of one photo; `CloudFunctions` has the one left by
  another upload).
* The name of an uploaded file is drawn again when nothing refers to it any more. What
  a partly downloaded file looks like, and users who delete files, are left out.

## Runs

| Run | Instance | Checks | Result |
|---|---|---|---|
| `registry_concurrent` | 2 users, 1 group, 2 workers, 1 failure anywhere, fairness | `TypeOK`, `CreatorIsMember`, `OnlyExpiryOrCreatorDestroys`, `ExpiredReclaimed` | hold; 460 k states |
| `registry_token` | 3 users, 1 group, 2 workers | `OneTimeToken` | violated |
| `registry_two_groups` | 2 users, 3 groups, 1 worker | `OneActiveGroup` | violated |
| `registry_delete_crash` | 2 users, 1 group, 1 worker, 1 failure in `delete` | `DeletedFilesGone` | violated |
| `backend_concurrent` | 2 users, 1 of them with a browser, 1 group, 2 workers, 2 tokens, 1 failure anywhere, late uploads | `WebOK`, `NoDanglingPointer`, `NoOrphanFiles`, `RightfulDestruction` | hold; 0.6 M states |
| `cloud_functions` | 38 sides in both dimensions; 2 uploads of 2 sizes, 2 instances, one name delivered up to twice, 1 file that may be deleted, 1 kind of failure besides early names, fairness | `TypeOK`, `SameMeasure`, `UploadFitsLevel`, `LandscapeVersions`, `NamedIsStored`, `FilesMatchNames`, `SettledNode`, `VersionsArrive` | hold; 0.5 M states |
| `photo_downloads` | another's photo; 2 objects, 2 runs, levels low and full, 1 failure | `TypeOK`, `ShownFile`, `NoReupload`, `LockSpec` | hold; 1.2 M states |
| `photo_published` | own photo; 2 objects, 2 runs, 3 names, level full | `PublishedExists` | holds; 335 k states |
| `photo_arrival` | another's photo; 2 objects, 1 run, level full, fairness | `EveryStartRuns`, `PhotoArrives` | hold; 78 k states |
| `photo_cycle` | another's photo of 1440x2560; 1 object, level high, fairness | `DownloadsEnd` | violated |
| `user_session` | 2 groups, 1 change of the pointer besides the initial value | `TypeOK`, `OneSynchronizer`, `SessionFollows`, `ScreenNotice`, `EndNoticed` | hold; 0.8 M states |
| `member_list` | 3 members, 2 requests at a time, 4 writes | `ListShowsMembers`, `CountMatches` | hold; 2.1 M states |

Bounds of the registry. Two workers are the least at which handlers interleave, and
every race found in the code is between two. Three tokens are those of a creation and
two joins; `backend_concurrent` has two, for one join, in time or too late, beside leaves,
deletes, rounds and the file manager: two joins, which disturb the group, are in
`registry_concurrent`. A handler that draws a token or pushes a group starts
only when one is left, so the bounds never cut one off in its middle. Symmetry is
used for safety only. One group suffices where groups do not meet (a user's pointer is
where they do, and `registry_two_groups` has three). The safety properties of
`registry_concurrent` and those of `backend_concurrent` are proved for all sizes below.

What `backend_concurrent` says, and where it stops. Two workers interleave call by call,
every call may fail, files come late. Under these conditions the code does leave pointers
and files behind, and the properties name the causes, so that they say that there are no
others:

* `NoDanglingPointer`: a join that reads the members list before another's write back, or
  that ends between its write of the pointer and that of the list (`groups.py:84-98`),
  leaves a user who points to a group that does not list the user, and who can neither
  leave properly nor be cleaned up. It is stated for groups that no two workers served at
  once and none of whose joins failed there (`disturbed`). What remains is not little: a
  leave, a removal or a round of the group may fail at any call and be repeated, while
  handlers of other groups move and clear the same users' pointers.
* `NoOrphanFiles`: a delete cut off after the record (`groups.py:113`, the subject of
  `registry_delete_crash`), an upload that ends late (`PhotoSynchronizer.java:399`) and a
  page that puts back what it has listed (`groups.py:206`) leave files without a record
  (`strewn`). Nothing else does: not a failing round, however often, nor two removals and
  the file manager at work on the same files. No other premise, no bound on workers.

Fairness of the registry (`registry_concurrent`). `WF` of each worker's steps: a handler
under way goes on, or fails. `SF` of a round's start: `cron.yaml` asks every minute and
some worker is idle again and again; weak fairness would not do, as requests may keep
taking the idle workers in turn. No fairness for users' requests or for time.

Bounds of the functions. Two instances and two uploads are the least at which chains
overlap and a warm instance has another upload's tempFile; one upload is at level low, the
other at level full, and either may be drawn, arrive and be published first, under either's
name. One kind of failure at a time suffices, in addition to early names: the properties
except only the names and files that were themselves hit. The file that may be deleted is
a smaller one, the only kind `NamedIsStored` speaks of; to the functions the deletion of a
full one is a download that fails, and the theorems cover all. The
sides are every boundary of the code with its neighbours and common camera formats;
the properties of sizes are proved for all. `CHECK_DEADLOCK` is off: photos need not
be uploaded for ever.

Fairness of the functions. `WF` of each instance's invocations and steps, and of
`detectFaces`: Cloud Functions delivers an event at least once and runs the function.
None for uploads, deletions and failures.

What the functions' run says, and where it stops. `NamedIsStored` has no premise: it speaks
of the smaller versions only, since `files/full` may name a file that never comes, and of a
file deleted after it was stored it says that it was this very file. `FilesMatchNames`
excepts the names whose own download failed, since the chain then publishes what
`/tmp/tempFile` shows. `SettledNode` and `VersionsArrive` do have the premise that nothing
disturbed: when uploads overlap, the resolution written last may be that of the first, and
when a function fails nothing retries it.

Bounds of the session. Two groups and the null pointer let the pointer change between
groups, to and from none; one change gives two tasks and two replies that may overtake
each other, and a revoked listener adds a null. All properties of the run
are proved for any number of changes. What the run does not say: when
a task overtook another (`late`), the session may stay in the group the user left, and
when the app was in the background at the end (`unseen`) no screen learns of it before
the next change. Between the check of the group and its use in a later message (the group
screen, `GroupActivity.java:48`; a photo, `MainActivity.java:184-186`) the pool may change it:
the code does not exclude that the app crashes then, or hands the photo to another group's
synchronizer, so no property does, and both are reachable (`Create`, `HandPhoto`). `CHECK_DEADLOCK` is off in `user_session` and `member_list`: an app
that has crashed or is at the login screen stops.

Bounds of the member list. Three members are a creator, one who leaves and one whose
position that changes; two requests overwrite each other's array; four writes make a
member join, leave and join again, and four arrays may be on their way at once.

Bounds of the synchronizer. Two objects contend for the lock, and two runs are what
an exclusive lock must keep apart; with a single run slot (`photo_arrival`) an object
that gets the lock can always run, as downloads exclude each other. `MaxPending`: two
values of the lock's row may wait for the pool per object, enough for one to run twice.
Three names let an upload draw one while two others are in use.
`CHECK_DEADLOCK` is off: a device whose photo is complete has nothing left to do.

What the synchronizer's runs say, and where they stop. `LockSpec` is checked on a
device that only downloads: `PhotoUpload.run` releases the lock while the transfer is
under way and its callbacks release it again. `PublishedExists` assumes that no
transfer fails: the name published is read from a field which a second run of the same
object may have overwritten, and if the second file then fails to arrive, `files/full`
names a file that is not there. `PhotoArrives` and `EveryStartRuns` are checked at a
fixed level `full`; at a lower level a dropped change leaves the device content with
the version it has.

Fairness (`photo_arrival`, `photo_cycle`). `WF` of every object's steps (Room, main
thread and pool go on), of every run's steps (transfers end), of the listener and of
the functions, and of each kind of timer tick (the timer fires every 30 seconds while
its condition lasts). None for the level, failures or other members.

The violated runs:

* `photo_cycle`: "the clients may download the same image files again and again"
  (`doc/resolution.txt:6`). The high version of a portrait photo is fitted into
  1280x960 by its height (`index.js:89`) and measured by its width
  (`ResolutionTools.java:29`): it is 540 wide, a 1, and the node promises more.

* `registry_token`: "Invalid one time token" (`groups.py:69`). Two joins read the
  same token (lines 66-68) before the first replaces it (line 87): both users get in.
* `registry_two_groups`: "user is part of another active group and not allowed to
  create a new group" (`groups.py:52`). A member of an expired group creates or joins
  a new one; housekeeping then removes the pointer of every member of the old group
  (`groups.py:153-154`), which is the pointer to the new one; the user can enter a
  second active group. One worker suffices: this is no race.
* `registry_delete_crash`: "Delete the group and images" (`main.py:86`). The record
  goes before the images (`groups.py:113-121`); after a failure between the two no
  request and no round finds them.

## Proofs

`GroupRegistryProofs` proves for every finite or infinite set of users and groups
and any number of workers, tokens and failures:

* `TypeCorrectness`: `Spec => []TypeOK`;
* `CreatorStaysMember`: `Spec => []CreatorIsMember`;
* `OnlyRightfulDestruction`: `Spec => OnlyExpiryOrCreatorDestroys`.

The assumptions are those of `GroupRegistry` (`RegistryAssumption`: the null values
are none of the users or groups, the bounds are natural numbers). The argument
rests on `RegistryInv`. `CreatorIsMember` alone is not inductive: a join writes back
a members list it read some calls ago. What makes this safe is in `JobOK`: the list a
handler is about to write has the creator the record has now, since `push` never
returns an id twice (`OnlyPushed`: nothing is stored of a group not yet pushed), and
so the creator of a group can be forgotten but never change; a member that leaves is
not the creator for the same reason. The two destructive paths are covered by the
remaining parts: a handler on `delete`'s first branch works for the creator, and a
handler in `batch_delete` on an expired group. Each action has a lemma, each
conjunct it can disturb a step.

`BackendProofs` shows that `RegistryInv` stays inductive with the file manager, together
with `WebOK` (`BackendInvariant`), and from it `WebCorrectness`,
`CreatorStaysMemberInBackend` and `BackendRightfulDestruction`. A step of the registry is
one of `GroupRegistry`'s `Next`, so its lemmas are used again; what is new is that the file
manager changes only the bucket and may end a handler that removes files
(`InterruptionPreserves`). `WebOK` needs `PushedGrows`: a session outlives its group, but
a group that was once created stays so.

`BackendStoreProofs` proves `PointersStay` (`BackendSpec => []NoDanglingPointer`) and
`FilesAreOwned` (`BackendSpec => []NoOrphanFiles`) for any number of users, browsers, groups,
workers, tokens and failures of any call. `NoDanglingPointer` speaks of the moments between a
group's requests, so the induction has to say what holds inside of them, group by group,
for those not `disturbed` (`GroupSound`). `Alone`: one worker at most serves the group, as
two would have disturbed it; this is where a join cut short and an overlap leave the
induction. `PointersSound`: who points to the group is listed there, unless the join under way
has just pointed the user there (`Admitting`). `HandlerSound`: what the handler of the
group has read is still so, since handlers of other groups write only pointers, and these
either away from this group or to their own; so a member list that is written back loses no
one, and when the group is removed the pointers to it are gone. For the files `Emptied`
suffices on top of `NoOrphanFiles`: a round that is about to remove the record has removed the
files, unless one came late since. This is why a round may fail at any call and `delete` may
not: a round removes the files before the record. The lemmas follow the phases of the
handlers.

`ResolutionProofs` proves, for every set of sides up to 20480 pixels
(`SidesAssumption`: as far as `PowersOfTwo` reaches), `MeasuresAgree`,
`PhotoMeasuredAlike` (`Spec => []SameMeasure`),
`LandscapeAsDocumented` (`Spec => []LandscapeVersions`) and `UploadsFit`
(`Spec => []UploadFitsLevel`). The lemmas bound the width of a resized version from
the choice of the limiting side, and the sample size between two powers of two.

`CloudFunctionsProofs` proves `FunctionsTypes`, `NamesAreStored` and `FilesShowTheirUpload`
for any number of uploads, instances and disturbances. The inductive `FunctionsInv` adds
what each chain has reached (`ChainOK`): from `upload high` on its low version was made (it is
stored, or was itself deleted), from `resolution` on the high one too; and from `convert` on
its tempFile shows the upload it was invoked for, unless a download for this name failed.
Nothing in it depends on what the apps publish. `NodeSettles`
(`Spec => []SettledNode`) takes a second induction on top, `Settling`: while every name is
published with its file there and the functions done, and nothing
fails or is deleted, all invocations and all chains are about the last upload (`OnlyAbout`),
and each part of the node already speaks of it, or an invocation or a chain that has not
passed the step that writes this part is still there (`SaidOrToCome`); `DrawnOK` adds that only what was drawn is sent, held or published. When all is quiet
nothing can be there any more, so the node says it; that the versions it names show the upload
is `NamedIsStored` with `FilesMatchNames`, and what they measure is `LandscapeMeasures` of
`ResolutionProofs`.

`UserSessionProofs` proves `SessionTypes`, `SynchronizerIsOne`,
`ScreensNotice` and `EndsAreNoticed`. The inductive `SessionInv` adds what
makes a lost wake-up impossible: a screen that is shown observes the session, and from
its registration on every change of what it shows has been posted to it. Each action has
its step; those of the screens that leave the session alone share a lemma.
`SessionFollowsPointer` (`Spec => []SessionFollows`) rests on a second invariant, `Following`:
while no task overtook another, the value the listener was given last is that of a task that
has still to take the lock, or the session has it; the same for the group's data, which wait
in a task or as a reply (`Unanswered`). Values are numbered as they come, and what
finishes while something with a lower number waits sets `late`.

`PhotoSyncProofs` proves, for any number of objects, runs, names, levels and failures and
any size of the photo, `PhotoTypes` (`Spec => []TypeOK`), `ShownFileStays`
(`Spec => []ShownFile`), `PublishedStays` (`Spec => []PublishedExists`) and
`NeverReuploaded` (`Spec => []NoReupload`) on every device, and `LockImplemented`
(`Spec => LockSpec`, the refinement of `PhotoLock`) on those that have another member's photo
(`~OwnPhoto`). The two kinds of device are two inductions.

With another member's photo (`DownloadSafe`) all depends on each other and is one induction,
over `DownloadInv`: an upload starts only when the row's resolution exceeds the online one
(`OnlineCovers` excludes it, but between the update of the row and the end of its download,
when the lock is taken); so the only runs past their check are downloads, which have the
lock until their end (`OneDownload`); so the file a download measures is the one it wrote
(`DownloadOK`: no second run overwrites the volatile field), and the file it deletes is not the
one shown. `FilesShowVersions` says that all files show versions of the original, whose
dimensions are natural numbers. The lock's refinement needs one fact more: a step moves one
run at most (`OneRunMoves`). That the published file is there (`NodeStored`) is a short
induction on top: no step takes it away.

On the photographer's device (`UploadSafe`) `OneDownload` fails: an upload releases the lock while
its transfer is under way, so several run at once, some of one `PhotoUpload` object and with
one volatile field. The induction is over `UploadInv`. The row stays that of the photo as it was taken
(`OwnRow`), since nothing online, claimed or announced measures more (`NothingBetter`), so that no
download gets past its check; `decodeFile` never makes an upload wider than the photo
(`DecodedFits`). The name an upload draws is one that nothing refers to, so no file is lost to it
(`CheckKeepsUploads`). While nothing has failed, the published name and the volatile name of every upload
under way are names of files that are in the bucket or on their way there (`NamesArrive`):
a transfer that ends stores its file under the name its own run has drawn, even when it
publishes another. Once no run is left, on their way is out. What this device needs of the
constants beyond `PhotoAssumption`'s other parts is that its photo is at most 20480 pixels wide, as far
as `PowersOfTwo` in the model of `decodeFile` reaches.

`MemberListProofs` proves `ListShowsThem` (`Spec => []ListShowsMembers`) and `CountStays`
(`Spec => []CountMatches`) for every finite set of members and any number of requests and
writes. Neither is inductive: both speak of the moments at which nothing is on its way.
`ListInv` compares the list with what was told instead of with what is stored. `NewsEnd`:
the last array on its way is the one stored, or what was told is. `Counted`: every child
told is an entry or a name to come, whether or not members were shifted. `Matched`: as long
as none was, nobody is told, shown or asked for twice, so that the entry `onChildRemoved`
looks for is there and is the only one, and who goes is gone. The lemmas before the steps
say what `Append`, `RemoveAt` and `RemoveFirst` do to the elements of a sequence without
repetitions.

Model-checked only: the liveness properties, which are out of the prover's reach:
`ExpiredReclaimed`, `VersionsArrive`, `EveryStartRuns`, `PhotoArrives`. Every other property
of a passing run is stated by a theorem.

## Not modelled

* The name and the ID token of the user, which are set once and only read; the second
  session of a process that `User.set` would start.
* People and author of a photo, several devices of one user, photos deleted by a user:
  `PhotoSync` follows one photo of one device.
* The `Notifier`: it counts new photos per album for a notification, under one lock, and no
  other part reads it.
* Rendering, forms and settings, which keep no state beyond what they show.
* The face detection proxy and authentication, which keep no state.
* The dead `stream_group_message`; deployment scripts, templates and the vendored
  `backend/lib`, which is most of the lines of the repository and not its own code.
