------------------------- MODULE CloudFunctionsProofs -------------------------
(***************************************************************************)
(* Safety of the cloud functions for any number of uploads, instances,     *)
(* duplicated invocations and disturbances.                                *)
(***************************************************************************)
EXTENDS ResolutionProofs

\* What an app uploads has natural dimensions.
LEMMA DecodedType ==
    ASSUME d \in Sides \X Sides, NEW level \in Levels, NEW e \in Decoded(d, getSize(level))
    PROVE  e \in Nat \X Nat /\ e # Nothing
<1> DEFINE w == d[1]
           h == d[2]
           p == sampleSize(w, getSize(level))
<1>0. w \in Sides /\ h \in Sides
  OBVIOUS
<1>1. e \in {<<w \div p, h \div p>>, <<(w + p - 1) \div p, (h + p - 1) \div p>>}
  BY DEF Decoded
<1> HIDE DEF w, h
<1>2. w \in Nat /\ 0 < w /\ w <= 20480 /\ h \in Nat
  BY <1>0, SidesAssumption
<1>3. p \in PowersOfTwo /\ (p = 1 \/ 320 * p < w)
  <2>1. CASE level = "full"
    BY <1>2, <2>1 DEF getSize, MAX_VALUE, sampleSize, PowersOfTwo
  <2>2. CASE level # "full"
    <3> DEFINE wide == getSize(level)
    <3>1. wide \in {SIZE_LOW, SIZE_HIGH}
      BY <2>2 DEF getSize, Levels
    <3>2. p \in PowersOfTwo /\ (w > wide => wide * p < 2 * w) /\ (w <= wide => p = 1)
      <4>1. w <= wide => p = 1
        BY DEF sampleSize
      <4> QED
        BY <1>2, <3>1, <4>1, SampleSizeBounds
    <3> HIDE DEF p, wide
    <3> QED
      BY <1>2, <3>1, <3>2 DEF PowersOfTwo, SIZE_LOW, SIZE_HIGH
  <2> QED
    BY <2>1, <2>2
<1> HIDE DEF p
<1>4. w \div p > 0 /\ (w + p - 1) \div p > 0
  BY <1>2, <1>3 DEF PowersOfTwo
<1> QED
  BY <1>1, <1>2, <1>3, <1>4 DEF PowersOfTwo, Nothing

\* Every width is given one of the three resolutions.
LEMMA PublishedType == \A w \in Nat : publishedResolution(w) \in 0 .. 3
BY DEF publishedResolution

\* A write of a new name starts each function at least once.
LEMMA StartsType ==
    ASSUME NEW m \in Names, NEW function \in {"createResolutions", "detectFaces"},
           NEW k \in Starts(function, m)
    PROVE  k \in Nat /\ (node.full # m => k > 0)
<1> DEFINE most == IF <<function, m>> \in Duplicated THEN 2 ELSE 1
<1>1. most \in Nat
  OBVIOUS
<1>2. k \in (IF node.full = m THEN 0 ELSE 1) .. most
  BY DEF Starts
<1> HIDE DEF most
<1> QED
  BY <1>1, <1>2

\* What a step that deletes nothing of the bucket keeps.
Keeps ==
    /\ \A version \in {"low", "high"}, n \in Names : Made(version, n) => Made(version, n)'
    /\ failed \subseteq failed'

\* What an instance relies on stays.
LEMMA ChainStays ==
    ASSUME Keeps, NEW c \in Instance, ChainOK(c)
    PROVE  ChainOK(c)'
<1>1. c.at \in AfterConvert \union {"convert"} => c.at \in ChainSteps
  BY DEF AfterConvert, AfterLow, AfterHigh, ChainSteps
<1>2. c.at \in AfterLow \union AfterHigh => c.at \in AfterConvert
  BY DEF AfterConvert, AfterLow
<1>3. c.at \in AfterLow \union AfterHigh => c.name \in Names
  BY <1>1, <1>2 DEF ChainOK
<1> QED
  BY <1>3 DEF ChainOK, Keeps

\* A step that changes the state of one instance, and otherwise only adds to the
\* bucket, the node and the histories.
LEMMA ChainStep ==
    ASSUME FunctionsInv, NEW i \in Instances, NEW x \in Instance,
           instance' = [instance EXCEPT ![i] = x],
           UNCHANGED <<app, faces, removed>>,
           pending' \in [Names -> Nat],
           content' \in [Levels \X Names -> Names \union {NoName}],
           node' \in Node,
           seen' \subseteq Disturbances, failed' \subseteq Names, StoreOK',
           Keeps, ChainOK(x)', NamedIsStored', FilesMatchNames'
    PROVE  FunctionsInv'
<1>1. /\ instance' \in [Instances -> Instance]
      /\ \A j \in Instances : instance'[j] = IF j = i THEN x ELSE instance[j]
  BY DEF FunctionsInv, TypeOK
<1>2. TypeOK'
  BY <1>1 DEF FunctionsInv, TypeOK, app
<1>3. ASSUME NEW j \in Instances PROVE ChainOK(instance[j])'
  <2>1. instance[j] \in Instance /\ ChainOK(instance[j])
    BY DEF FunctionsInv, TypeOK
  <2>2. CASE j = i
    BY <1>1, <2>2 DEF ChainOK, Made, Stored
  <2>3. CASE j # i
    <3>1. PICK c \in Instance : c = instance[j] /\ ChainOK(c)
      BY <2>1 DEF ChainOK, Made, Stored
    <3>2. ChainOK(c)'
      BY <3>1, ChainStays
    <3> QED
      BY <1>1, <2>3, <3>1, <3>2 DEF ChainOK, Made, Stored
  <2> QED
    BY <2>2, <2>3
<1> QED
  BY <1>2, <1>3 DEF FunctionsInv

\* An instance that turns to another step, and writes nothing.
LEMMA SilentStep ==
    ASSUME FunctionsInv, NEW i \in Instances, NEW x \in Instance,
           instance' = [instance EXCEPT ![i] = x],
           UNCHANGED <<app, faces, store, removed>>,
           pending' \in [Names -> Nat],
           seen \subseteq seen', seen' \subseteq Disturbances,
           failed \subseteq failed', failed' \subseteq Names,
           failed' = failed \/ "download failed" \in seen',
           ChainOK(x)'
    PROVE  FunctionsInv'
<1>1. NamedIsStored' /\ FilesMatchNames'
  BY DEF FunctionsInv, NamedIsStored, FilesMatchNames, Made, Stored, store
<1>2. /\ content' \in [Levels \X Names -> Names \union {NoName}]
      /\ node' \in Node
      /\ Keeps
  BY DEF FunctionsInv, TypeOK, store, Keeps, Made, Stored
<1>3. StoreOK'
  BY DEF FunctionsInv, StoreOK, store
<1> QED
  BY <1>1, <1>2, <1>3, ChainStep

\* The end of a chain: nothing is promised of an idle instance.
LEMMA RejectOK ==
    ASSUME FunctionsInv, NEW i \in Instances
    PROVE  /\ [Cold EXCEPT !.temp = instance[i].temp] \in Instance
           /\ ChainOK([Cold EXCEPT !.temp = instance[i].temp])'
           /\ Cold \in Instance /\ ChainOK(Cold)'
<1>1. instance[i].temp \in Names \union {NoName}
  BY DEF FunctionsInv, TypeOK, Instance
<1>2. Cold \in Instance /\ [Cold EXCEPT !.temp = instance[i].temp] \in Instance
  BY <1>1 DEF Cold, Instance
<1> QED
  BY <1>2 DEF Cold, ChainOK, ChainSteps, AfterConvert, AfterLow, AfterHigh

\* Moving on to another step keeps the name and the tempFile.
LEMMA GotoShape ==
    ASSUME FunctionsInv, NEW i \in Instances, NEW step \in ChainSteps, Goto(i, step)
    PROVE  /\ instance[i] \in Instance /\ ChainOK(instance[i])
           /\ \E x \in Instance : /\ instance' = [instance EXCEPT ![i] = x]
                                 /\ x.name = instance[i].name /\ x.temp = instance[i].temp
                                 /\ x.at = step
<1>1. instance[i] \in Instance /\ ChainOK(instance[i])
  BY DEF FunctionsInv, TypeOK
<1> DEFINE y == [instance[i] EXCEPT !.at = step]
<1>2. y \in Instance /\ y.name = instance[i].name /\ y.temp = instance[i].temp /\ y.at = step
  BY <1>1 DEF Instance
<1>3. instance' = [instance EXCEPT ![i] = y]
  BY DEF FunctionsInv, TypeOK, Goto
<1> QED
  BY <1>1, <1>2, <1>3

\* The names of a node are those of files that were made.
NamesMade(new) == \A version \in {"low", "high"} :
    new[version] # NoName => Made(version, new[version])

\* A write of the node, at a step at which the file that is named was made.
LEMMA WriteStep ==
    ASSUME FunctionsInv, NEW i \in Instances, NEW to \in {"low", "high", "unlink"},
           NEW at \in {"resolution", "low", "high"}, NEW new \in Node,
           WriteNode(i, at, new, to), NamesMade(new)
    PROVE  FunctionsInv'
<1>9. to \in ChainSteps /\ Goto(i, to)
  BY DEF WriteNode, ChainSteps
<1>0. instance[i] \in Instance /\ ChainOK(instance[i])
  BY <1>9, GotoShape
<1>1. PICK x \in Instance : /\ instance' = [instance EXCEPT ![i] = x]
                           /\ x.name = instance[i].name /\ x.temp = instance[i].temp
                           /\ x.at = to
  BY <1>9, GotoShape
<1>2. /\ UNCHANGED <<content, seen, failed, removed, app, pending, faces>> /\ node' = new
      /\ instance[i].at \in AfterHigh
  BY DEF WriteNode, Unchained, At, AfterHigh
<1>3. ChainOK(x)'
  <2>1. x.at \in AfterHigh
    BY <1>1 DEF AfterHigh
  <2> QED
    BY <1>0, <1>1, <1>2, <2>1
       DEF ChainOK, ChainSteps, AfterConvert, AfterLow, AfterHigh, Made, Stored
<1>4. NamedIsStored' /\ FilesMatchNames' /\ StoreOK' /\ Keeps
  BY <1>2 DEF NamedIsStored, NamesMade, FilesMatchNames, StoreOK, Keeps, Made, Stored, FunctionsInv
<1> QED
  BY <1>1, <1>2, <1>3, <1>4, ChainStep DEF FunctionsInv, TypeOK

LEMMA UploadStep ==
    ASSUME FunctionsInv, NEW i \in Instances, UploadLow(i) \/ UploadHigh(i)
    PROVE  FunctionsInv'
<1>1. PICK at \in {"upload low", "upload high"}, version \in {"low", "high"},
           to \in {"upload high", "resolution"} :
        /\ UploadVersion(i, at, version, to)
        /\ \/ at = "upload low" /\ version = "low" /\ to = "upload high"
           \/ at = "upload high" /\ version = "high" /\ to = "resolution"
  BY DEF UploadLow, UploadHigh
<1> DEFINE f == <<version, instance[i].name>>
<1>10. to \in ChainSteps /\ Goto(i, to)
  BY <1>1 DEF UploadVersion, ChainSteps
<1>0. PICK x \in Instance : /\ instance' = [instance EXCEPT ![i] = x]
                           /\ x.name = instance[i].name /\ x.temp = instance[i].temp
                           /\ x.at = to
  BY <1>10, GotoShape
<1>2. instance[i] \in Instance /\ ChainOK(instance[i])
  BY <1>10, GotoShape
<1>3. /\ UNCHANGED <<node, seen, failed, removed, app, pending, faces>>
      /\ content' = [content EXCEPT ![f] = instance[i].temp]
      /\ instance[i].at = at
  BY <1>1 DEF UploadVersion, Unchained, At
<1>4. /\ instance[i].name \in Names /\ instance[i].temp \in Names
      /\ instance[i].name \notin failed => instance[i].temp = instance[i].name
  BY <1>1, <1>2, <1>3 DEF ChainOK, ChainSteps, AfterConvert, AfterLow, AfterHigh, Instance
<1>5. /\ content' \in [Levels \X Names -> Names \union {NoName}]
      /\ \A e \in Levels \X Names : content'[e] = IF e = f THEN instance[i].temp ELSE content[e]
      /\ f \in Levels \X Names
  BY <1>3, <1>4 DEF FunctionsInv, TypeOK, Levels
<1>6. \A e \in Levels \X Names : content[e] # NoName => content'[e] # NoName
  BY <1>4, <1>5, FunctionsAssumption
<1>20. Keeps
  BY <1>3, <1>6 DEF Keeps, Made, Stored, Levels
<1>7. ChainOK(x)'
  <2>1. Made(version, x.name)'
    BY <1>0, <1>4, <1>5, FunctionsAssumption DEF Made, Stored
  <2>2. at = "upload high" => Made("low", x.name)'
    BY <1>0, <1>2, <1>3, <1>4, <1>20 DEF ChainOK, AfterLow, Keeps
  <2> QED
    BY <1>0, <1>1, <1>2, <1>3, <1>4, <2>1, <2>2, FunctionsAssumption
       DEF ChainOK, ChainSteps, AfterConvert, AfterLow, AfterHigh
<1>8. NamedIsStored'
  <2>1. node \in Node
    BY DEF FunctionsInv, TypeOK
  <2> QED
    BY <1>3, <1>20, <2>1 DEF NamedIsStored, Keeps, FunctionsInv, Node, Levels
<1>9. FilesMatchNames' /\ StoreOK'
  BY <1>1, <1>3, <1>4, <1>5 DEF FilesMatchNames, StoreOK, FunctionsInv, Levels
<1> HIDE DEF f
<1> QED
  BY <1>0, <1>2, <1>3, <1>5, <1>7, <1>8, <1>9, <1>20, ChainStep DEF FunctionsInv, TypeOK

\* The download replaces the tempFile by the file the invocation is for, or is
\* seen to have failed.
LEMMA DownloadStep ==
    ASSUME FunctionsInv, NEW i \in Instances, Download(i)
    PROVE  FunctionsInv'
<1>1. /\ UNCHANGED <<app, faces, store, pending, removed>>
      /\ instance[i] \in Instance /\ ChainOK(instance[i]) /\ instance[i].at = "download"
      /\ instance[i].name \in Names
  BY DEF Download, Unchained, At, FunctionsInv, TypeOK, ChainOK, ChainSteps
<1>2. pending' \in [Names -> Nat]
  BY <1>1 DEF FunctionsInv, TypeOK
<1>3. CASE /\ Stored("full", instance[i].name)
           /\ instance' = [instance EXCEPT ![i].at = "convert",
                                           ![i].temp = content[<<"full", instance[i].name>>]]
           /\ UNCHANGED <<seen, failed>>
  <2> DEFINE n == instance[i].name
             t == content[<<"full", n>>]
  <2>1. t = n
    BY <1>1, <1>3 DEF Stored, FunctionsInv, StoreOK
  <2>2. PICK x \in Instance : /\ x.at = "convert" /\ x.name = n /\ x.temp = t
                              /\ instance' = [instance EXCEPT ![i] = x]
    <3> DEFINE y == [instance[i] EXCEPT !.at = "convert", !.temp = t]
    <3>1. y \in Instance /\ y.at = "convert" /\ y.name = n /\ y.temp = t
      BY <1>1, <2>1 DEF Instance, ChainSteps
    <3>2. instance' = [instance EXCEPT ![i] = y]
      BY <1>3 DEF FunctionsInv, TypeOK
    <3> QED
      BY <3>1, <3>2
  <2>3. ChainOK(x)'
    BY <1>1, <1>3, <2>1, <2>2 DEF ChainOK, AfterConvert, AfterLow, AfterHigh
  <2> QED
    BY <1>1, <1>2, <1>3, <2>2, <2>3, SilentStep DEF FunctionsInv, TypeOK
<1>4. CASE Goto(i, "convert") /\ Sees("download failed") /\ failed' = failed \union {instance[i].name}
  <2>1. "convert" \in ChainSteps
    BY DEF ChainSteps
  <2>2. PICK x \in Instance : /\ instance' = [instance EXCEPT ![i] = x]
                              /\ x.name = instance[i].name /\ x.temp = instance[i].temp
                              /\ x.at = "convert"
    BY <1>4, <2>1, GotoShape
  <2>3. ChainOK(x)'
    BY <1>1, <1>4, <2>2 DEF ChainOK, AfterConvert, AfterLow, AfterHigh
  <2>4. /\ seen \subseteq seen' /\ seen' \subseteq Disturbances /\ "download failed" \in seen'
        /\ failed \subseteq failed' /\ failed' \subseteq Names
    BY <1>1, <1>4 DEF Sees, Disturbances, FunctionsInv, TypeOK
  <2> QED
    BY <1>1, <1>2, <2>2, <2>3, <2>4, SilentStep
<1> QED
  BY <1>3, <1>4 DEF Download

\* The other steps that write nothing: an invocation starts, converts, ends or is
\* rejected.
LEMMA OtherSteps ==
    ASSUME FunctionsInv, NEW i \in Instances,
           (\E n \in Names : Invoke(i, n)) \/ Convert(i) \/ Unlink(i) \/ Rejected(i)
    PROVE  FunctionsInv'
<1>0. /\ instance[i] \in Instance /\ ChainOK(instance[i])
      /\ pending \in [Names -> Nat] /\ seen \subseteq Disturbances /\ failed \subseteq Names
  BY DEF FunctionsInv, TypeOK
<1>1. ASSUME NEW n \in Names, Invoke(i, n) PROVE FunctionsInv'
  <2>1. PICK t \in Names \union {NoName} :
          instance' = [instance EXCEPT ![i] =
                         [Cold EXCEPT !.at = "download", !.name = n, !.temp = t]]
    BY <1>0, <1>1 DEF Invoke, Instance
  <2> DEFINE x == [Cold EXCEPT !.at = "download", !.name = n, !.temp = t]
  <2>2. x \in Instance /\ x.at = "download" /\ x.name = n
    BY DEF Cold, Instance, ChainSteps
  <2>3. instance' = [instance EXCEPT ![i] = x]
    BY <2>1
  <2> HIDE DEF x
  <2>4. pending' \in [Names -> Nat] /\ UNCHANGED <<app, faces, store, history>>
    <3>1. pending[n] - 1 \in Nat
      <4>1. pending[n] \in Nat /\ pending[n] > 0
        BY <1>0, <1>1 DEF Invoke
      <4> QED
        BY <4>1
    <3>2. /\ pending' = [pending EXCEPT ![n] = pending[n] - 1]
          /\ UNCHANGED <<app, faces, store, history>>
      BY <1>1 DEF Invoke
    <3> QED
      BY <1>0, <3>1, <3>2
  <2>5. ChainOK(x)'
    BY <2>2, <2>4 DEF ChainOK, AfterConvert, AfterLow, AfterHigh
  <2> QED
    BY <1>0, <2>2, <2>3, <2>4, <2>5, SilentStep DEF history
<1>2. ASSUME Reject(i), UNCHANGED <<app, faces, store, pending, failed, removed>>,
             seen \subseteq seen', seen' \subseteq Disturbances
      PROVE  FunctionsInv'
  <2>1. PICK x \in Instance : x = [Cold EXCEPT !.temp = instance[i].temp]
    BY RejectOK
  <2>2. ChainOK(x)'
    BY <2>1 DEF Cold, ChainOK, ChainSteps, AfterConvert, AfterLow, AfterHigh
  <2>3. instance' = [instance EXCEPT ![i] = x]
    BY <1>2, <2>1 DEF Reject
  <2> QED
    BY <1>0, <1>2, <2>2, <2>3, SilentStep
<1>3. CASE Convert(i)
  <2>1. CASE instance[i].temp = NoName
    BY <1>0, <1>2, <1>3, <2>1 DEF Convert, Unchained
  <2>2. CASE instance[i].temp # NoName
    <3>1. "upload low" \in ChainSteps /\ Goto(i, "upload low")
      BY <1>3, <2>2 DEF Convert, ChainSteps
    <3>2. PICK x \in Instance : /\ instance' = [instance EXCEPT ![i] = x]
                                /\ x.name = instance[i].name /\ x.temp = instance[i].temp
                                /\ x.at = "upload low"
      BY <3>1, GotoShape
    <3>3. instance[i].at = "convert" /\ UNCHANGED <<store, seen, failed, removed, app, pending, faces>>
      BY <1>3 DEF Convert, At, Unchained
    <3>4. ChainOK(x)'
      BY <1>0, <2>2, <3>2, <3>3 DEF ChainOK, ChainSteps, AfterConvert, AfterLow, AfterHigh
    <3> QED
      BY <1>0, <3>2, <3>3, <3>4, SilentStep
  <2> QED
    BY <2>1, <2>2
<1>4. CASE Unlink(i)
  BY <1>0, <1>4, RejectOK, SilentStep DEF Unlink, Unchained
<1>5. CASE Rejected(i)
  <2>1. seen \subseteq seen' /\ seen' \subseteq Disturbances
    BY <1>0, <1>5 DEF Rejected, Sees, Disturbances
  <2> QED
    BY <1>2, <1>5, <2>1 DEF Rejected, Unchained
<1> QED
  BY <1>1, <1>3, <1>4, <1>5

\* The writes of the node.
LEMMA WriteSteps ==
    ASSUME FunctionsInv, NEW i \in Instances,
           WriteResolution(i) \/ WriteLow(i) \/ WriteHigh(i)
    PROVE  FunctionsInv'
<1> DEFINE n == instance[i].name
<1>0. /\ instance[i] \in Instance /\ ChainOK(instance[i])
      /\ node \in Node /\ size \in [Names -> Nat \X Nat] /\ NamesMade(node)
  BY DEF FunctionsInv, TypeOK, NamedIsStored, NamesMade
<1>1. instance[i].at \in AfterHigh => /\ n \in Names /\ instance[i].temp \in Names
                                      /\ Made("low", n) /\ Made("high", n)
  BY <1>0 DEF ChainOK, ChainSteps, AfterConvert, AfterLow, AfterHigh, Instance
<1>2. CASE WriteResolution(i)
  <2> DEFINE r == publishedResolution(size[instance[i].temp][1])
  <2>1. r \in 0 .. 3
    BY <1>0, <1>1, <1>2, PublishedType DEF WriteResolution, WriteNode, At, AfterHigh
  <2> HIDE DEF r
  <2>2. [node EXCEPT !.resolution = r] \in Node /\ NamesMade([node EXCEPT !.resolution = r])
    BY <1>0, <2>1 DEF Node, NamesMade
  <2>3. WriteNode(i, "resolution", [node EXCEPT !.resolution = r], "low")
    BY <1>2 DEF WriteResolution, r
  <2>4. PICK new \in Node : new = [node EXCEPT !.resolution = r]
    BY <2>2
  <2> QED
    BY <2>2, <2>3, <2>4, WriteStep
<1>3. CASE WriteLow(i)
  <2>1. n \in Names /\ Made("low", n)
    BY <1>1, <1>3 DEF WriteLow, WriteNode, At, AfterHigh
  <2>2. [node EXCEPT !.low = n] \in Node /\ NamesMade([node EXCEPT !.low = n])
    BY <1>0, <2>1 DEF Node, NamesMade
  <2>3. PICK new \in Node : new = [node EXCEPT !.low = n]
    BY <2>2
  <2> QED
    BY <1>3, <2>2, <2>3, WriteStep DEF WriteLow
<1>4. CASE WriteHigh(i)
  <2>1. n \in Names /\ Made("high", n)
    BY <1>1, <1>4 DEF WriteHigh, WriteNode, At, AfterHigh
  <2>2. [node EXCEPT !.high = n] \in Node /\ NamesMade([node EXCEPT !.high = n])
    BY <1>0, <2>1 DEF Node, NamesMade
  <2>3. PICK new \in Node : new = [node EXCEPT !.high = n]
    BY <2>2
  <2> QED
    BY <1>4, <2>2, <2>3, WriteStep DEF WriteHigh
<1> QED
  BY <1>2, <1>3, <1>4

\* A step of the others: the instances stay, and a file that was made is still stored
\* or has been deleted.
LEMMA OutsideStep ==
    ASSUME FunctionsInv, UNCHANGED instance, TypeOK', StoreOK', NamedIsStored', FilesMatchNames',
           Keeps
    PROVE  FunctionsInv'
<1>1. ASSUME NEW i \in Instances PROVE ChainOK(instance[i])'
  <2>1. PICK c \in Instance : c = instance[i] /\ ChainOK(c)
    BY DEF FunctionsInv, TypeOK
  <2>2. ChainOK(c)'
    BY <2>1, ChainStays
  <2> QED
    BY <2>1, <2>2 DEF ChainOK, Made, Stored
<1> QED
  BY <1>1 DEF FunctionsInv

\* Uploads and deletions by the app and the backend.
LEMMA EnvironmentPreserves ==
    ASSUME FunctionsInv, Environment
    PROVE  FunctionsInv'
<1>0. TypeOK /\ StoreOK /\ NamedIsStored /\ FilesMatchNames /\ node \in Node
  BY DEF FunctionsInv, TypeOK
<1>1. ASSUME NEW n \in Names, NEW level \in Levels, NEW dims \in Decoded(d, getSize(level)),
             Upload(n, level, dims)
      PROVE  FunctionsInv'
  <2>1. dims \in Nat \X Nat
    BY <1>0, DecodedType DEF TypeOK
  <2>2. /\ size' = [size EXCEPT ![n] = dims] /\ sent' = sent \union {n}
        /\ UNCHANGED <<d, arrived, content, node, pending, faces, instance, seen, failed, removed>>
    BY <1>1 DEF Upload, store, history
  <2>3. volatile' \in [Names -> Names]
    BY <1>0, <1>1 DEF Upload, TypeOK
  <2>4. TypeOK'
    BY <1>0, <2>1, <2>2, <2>3 DEF TypeOK
  <2>5. StoreOK' /\ NamedIsStored' /\ FilesMatchNames' /\ Keeps
    BY <1>0, <2>2 DEF StoreOK, NamedIsStored, FilesMatchNames, Keeps, Made, Stored
  <2> QED
    BY <2>2, <2>4, <2>5, OutsideStep
<1>2. ASSUME NEW n \in Names, FileArrives(n) PROVE FunctionsInv'
  <2>1. /\ content' = [content EXCEPT ![<<"full", n>>] = n]
        /\ sent' = sent \ {n} /\ arrived' = arrived \union {n}
        /\ UNCHANGED <<d, size, volatile, node, pending, faces, instance, seen, failed, removed>>
    BY <1>2 DEF FileArrives, history
  <2>2. \A f \in Levels \X Names : content'[f] = IF f = <<"full", n>> THEN n ELSE content[f]
    BY <1>0, <2>1 DEF TypeOK
  <2>3. TypeOK'
    BY <1>0, <2>1 DEF TypeOK
  <2>4. StoreOK'
    BY <1>0, <2>1, <2>2 DEF StoreOK, Levels
  <2>5. \A version \in {"low", "high"}, m \in Names :
          content'[<<version, m>>] = content[<<version, m>>]
    BY <2>2 DEF Levels
  <2>6. Keeps /\ FilesMatchNames'
    BY <1>0, <2>1, <2>5 DEF Keeps, FilesMatchNames, Made, Stored
  <2>7. NamedIsStored'
    BY <1>0, <2>1, <2>6 DEF NamedIsStored, Keeps, Node
  <2> QED
    BY <2>1, <2>3, <2>4, <2>6, <2>7, OutsideStep
<1>3. ASSUME NEW n \in Names, Publish(n) PROVE FunctionsInv'
  <2>1. PICK m \in Names : m = volatile[n]
    BY <1>0 DEF TypeOK
  <2>2. /\ arrived' = arrived \ {n} /\ node' = [node EXCEPT !.full = m]
        /\ seen' \subseteq seen \union {"early"} /\ seen \subseteq seen'
        /\ UNCHANGED <<d, size, volatile, sent, content, instance, failed, removed>>
    BY <1>3, <2>1 DEF Publish
  <2>4. pending' \in [Names -> Nat]
    <3>1. PICK k \in Nat : pending' = [pending EXCEPT ![m] = pending[m] + k]
      BY <1>3, <2>1, StartsType DEF Publish
    <3>2. pending[m] + k \in Nat
      BY <1>0 DEF TypeOK
    <3> QED
      BY <1>0, <3>1, <3>2 DEF TypeOK
  <2>5. faces' \in [Names -> Nat]
    <3>1. PICK k \in Nat : faces' = [faces EXCEPT ![m] = faces[m] + k]
      BY <1>3, <2>1, StartsType DEF Publish
    <3>2. faces[m] + k \in Nat
      BY <1>0 DEF TypeOK
    <3> QED
      BY <1>0, <3>1, <3>2 DEF TypeOK
  <2>6. node' \in Node /\ node'.low = node.low /\ node'.high = node.high
    BY <1>0, <2>2 DEF Node
  <2>7. TypeOK'
    BY <1>0, <2>2, <2>4, <2>5, <2>6 DEF TypeOK, Disturbances
  <2>8. StoreOK' /\ NamedIsStored' /\ FilesMatchNames' /\ Keeps
    <3>1. NamedIsStored' /\ FilesMatchNames' /\ Keeps
      BY <1>0, <2>2, <2>6 DEF NamedIsStored, FilesMatchNames, Keeps, Made, Stored
    <3>2. StoreOK'
      BY <1>0, <2>2 DEF StoreOK
    <3> QED
      BY <3>1, <3>2
  <2> QED
    BY <2>2, <2>7, <2>8, OutsideStep
<1>4. ASSUME NEW f \in Levels \X Names, DeleteFile(f) PROVE FunctionsInv'
  <2>1. /\ content' = [content EXCEPT ![f] = NoName] /\ removed' = removed \union {f}
        /\ seen' = seen \union {"deleted"}
        /\ UNCHANGED <<app, node, pending, faces, instance, failed>>
    BY <1>4 DEF DeleteFile, Sees
  <2>2. \A e \in Levels \X Names : content'[e] = IF e = f THEN NoName ELSE content[e]
    BY <1>0, <2>1 DEF TypeOK
  <2>3. TypeOK'
    BY <1>0, <2>1 DEF TypeOK, Disturbances, app
  <2>8. FilesMatchNames'
    BY <1>0, <2>1, <2>2 DEF FilesMatchNames, Levels
  <2>4. StoreOK'
    <3>1. \A n \in Names : content'[<<"full", n>>] \in {n, NoName}
      BY <1>0, <2>2 DEF StoreOK, Levels
    <3>2. /\ failed' # {} => "download failed" \in seen'
          /\ "deleted" \in seen'
      BY <1>0, <2>1 DEF StoreOK
    <3> QED
      BY <3>1, <3>2 DEF StoreOK
  <2>5. Keeps
    BY <2>1, <2>2 DEF Keeps, Made, Stored, Levels
  <2>6. NamedIsStored'
    BY <1>0, <2>1, <2>5 DEF NamedIsStored, Keeps, Node
  <2> QED
    BY <2>1, <2>3, <2>4, <2>5, <2>6, <2>8, OutsideStep
<1>5. CASE RemoveNode
  <2>1. /\ node' = NoNode /\ seen' = seen \union {"deleted"}
        /\ UNCHANGED <<app, content, pending, faces, instance, failed, removed>>
    BY <1>5 DEF RemoveNode, Sees
  <2>2. NoNode \in Node /\ NoNode.low = NoName /\ NoNode.high = NoName
    BY DEF NoNode, Node
  <2>3. TypeOK'
    BY <1>0, <2>1, <2>2 DEF TypeOK, Disturbances, app
  <2>4. StoreOK' /\ NamedIsStored' /\ FilesMatchNames' /\ Keeps
    BY <1>0, <2>1, <2>2 DEF StoreOK, NamedIsStored, FilesMatchNames, Keeps, Made, Stored
  <2> QED
    BY <2>1, <2>3, <2>4, OutsideStep
<1> QED
  BY <1>1, <1>2, <1>3, <1>4, <1>5, FunctionsAssumption DEF Environment

\* detectFaces writes nothing but whether there are people.
LEMMA FacesPreserve ==
    ASSUME FunctionsInv, NEW n \in Names, DetectFaces(n)
    PROVE  FunctionsInv'
<1>0. TypeOK /\ StoreOK /\ NamedIsStored /\ FilesMatchNames
  BY DEF FunctionsInv
<1>1. /\ UNCHANGED <<app, content, pending, instance, failed, removed>>
      /\ seen \subseteq seen' /\ seen' \subseteq Disturbances
      /\ node' \in Node
      /\ node'.full = node.full /\ node'.low = node.low /\ node'.high = node.high
  BY <1>0 DEF DetectFaces, TypeOK, Node, Sees, Disturbances
<1>2. faces' \in [Names -> Nat]
  <2>1. faces' = [faces EXCEPT ![n] = faces[n] - 1] /\ faces[n] > 0
    BY DEF DetectFaces
  <2>2. faces[n] - 1 \in Nat
    BY <1>0, <2>1 DEF TypeOK
  <2> QED
    BY <1>0, <2>1, <2>2 DEF TypeOK
<1>3. TypeOK'
  BY <1>0, <1>1, <1>2 DEF TypeOK, app
<1>4. StoreOK' /\ NamedIsStored' /\ FilesMatchNames' /\ Keeps
  BY <1>0, <1>1 DEF StoreOK, NamedIsStored, FilesMatchNames, Keeps, Made, Stored
<1> QED
  BY <1>1, <1>3, <1>4, OutsideStep

LEMMA FunctionsInductive == FunctionsInv /\ [Next]_vars => FunctionsInv'
<1> SUFFICES ASSUME FunctionsInv, [Next]_vars PROVE FunctionsInv'
  OBVIOUS
<1>1. ASSUME NEW i \in Instances, CreateResolutions(i) \/ Rejected(i) PROVE FunctionsInv'
  BY <1>1, DownloadStep, OtherSteps, UploadStep, WriteSteps DEF CreateResolutions, Chain
<1>2. CASE UNCHANGED vars
  <2>1. TypeOK'
    BY <1>2 DEF FunctionsInv, TypeOK, vars, app, store, history
  <2>2. StoreOK' /\ NamedIsStored' /\ FilesMatchNames' /\ Keeps
    BY <1>2 DEF FunctionsInv, StoreOK, NamedIsStored, FilesMatchNames, Keeps, Made, Stored,
                vars, store, history
  <2> QED
    BY <1>2, <2>1, <2>2, OutsideStep DEF vars
<1> QED
  BY <1>1, <1>2, EnvironmentPreserves, FacesPreserve DEF Next

LEMMA FunctionsStart == Init => FunctionsInv
<1> SUFFICES ASSUME Init PROVE FunctionsInv
  OBVIOUS
<1>1. TypeOK
  BY DEF Init, TypeOK, NoNode, Node, Cold, Instance, Nothing
<1>2. NamedIsStored /\ FilesMatchNames /\ StoreOK
  BY DEF Init, NamedIsStored, FilesMatchNames, StoreOK, NoNode, Levels
<1>3. \A i \in Instances : ChainOK(instance[i])
  BY DEF Init, ChainOK, Cold, ChainSteps, AfterConvert, AfterLow, AfterHigh
<1> QED
  BY <1>1, <1>2, <1>3 DEF FunctionsInv

\* The strengthened invariant holds whatever the app publishes, and however
\* invocations overlap and fail.
THEOREM FunctionsInvariant == Spec => []FunctionsInv
BY FunctionsStart, FunctionsInductive, PTL DEF Spec

\* The types.
THEOREM FunctionsTypes == Spec => []TypeOK
<1>1. FunctionsInv => TypeOK
  BY DEF FunctionsInv
<1> QED
  BY <1>1, FunctionsInvariant, PTL

\* A smaller version that the node names is in the bucket, or was deleted there.
THEOREM NamesAreStored == Spec => []NamedIsStored
<1>1. FunctionsInv => NamedIsStored
  BY DEF FunctionsInv
<1> QED
  BY <1>1, FunctionsInvariant, PTL

\* A smaller version shows the upload it is named for, unless a download of that very
\* upload failed.
THEOREM FilesShowTheirUpload == Spec => []FilesMatchNames
<1>1. FunctionsInv => FilesMatchNames
  BY DEF FunctionsInv
<1> QED
  BY <1>1, FunctionsInvariant, PTL

-----------------------------------------------------------------------------
\* A step of a chain for the last upload: each part of the node is said, or the chain
\* that moved or another one has it still before it.
LEMMA ChainSettles ==
    ASSUME FunctionsInv, Settling, seen = {}, NEW n, node.full = n, NEW i \in Instances, NEW x,
           instance' = [instance EXCEPT ![i] = x], UNCHANGED <<size, pending, faces>>,
           instance[i].at \in ChainSteps, x.at \in ChainSteps => x.name = n,
           node'.full = n, node'.people = node.people,
           \/ node'.resolution = node.resolution
                /\ (instance[i].at \in BeforeResolution => x.at \in BeforeResolution)
           \/ node'.resolution = publishedResolution(size[n][1]),
           \/ node'.low = node.low /\ (instance[i].at \in BeforeLow => x.at \in BeforeLow)
           \/ node'.low = n,
           \/ node'.high = node.high /\ (instance[i].at \in BeforeHigh => x.at \in BeforeHigh)
           \/ node'.high = n
    PROVE  Settling'
<1>0. TypeOK /\ OnlyAbout(n)
  BY DEF FunctionsInv, Settling
<1>1. \A j \in Instances : instance'[j] = IF j = i THEN x ELSE instance[j]
  BY <1>0 DEF TypeOK
<1>2. OnlyAbout(n)'
  BY <1>0, <1>1 DEF OnlyAbout
<1>3. ASSUME n # NoName PROVE SaidOrToCome(n)'
  <2>1. SaidOrToCome(n)
    BY <1>3 DEF Settling
  <2>2. node'.people = n \/ faces'[n] > 0
    BY <2>1 DEF SaidOrToCome
  <2>3. node'.resolution = publishedResolution(size'[n][1]) \/ ToCome(n, BeforeResolution)'
    BY <1>1, <2>1 DEF ToCome, SaidOrToCome, BeforeResolution
  <2>4. node'.low = n \/ ToCome(n, BeforeLow)'
    BY <1>1, <2>1 DEF ToCome, SaidOrToCome, BeforeLow, BeforeResolution
  <2>5. node'.high = n \/ ToCome(n, BeforeHigh)'
    BY <1>1, <2>1 DEF ToCome, SaidOrToCome, BeforeHigh, BeforeLow, BeforeResolution
  <2> QED
    BY <2>2, <2>3, <2>4, <2>5 DEF SaidOrToCome
<1> QED
  BY <1>2, <1>3 DEF Settling

\* The steps of the chain, undisturbed.
LEMMA InstanceSettles ==
    ASSUME FunctionsInv, Settling, seen = {}, seen' = {}, NEW i \in Instances,
           CreateResolutions(i) \/ Rejected(i)
    PROVE  Settling'
<1> USE DEF store, app
<1> DEFINE c == instance[i]
<1>0. /\ TypeOK /\ instance \in [Instances -> Instance] /\ c \in Instance /\ ChainOK(c)
      /\ node \in Node /\ pending \in [Names -> Nat]
  BY DEF FunctionsInv, TypeOK
<1>1. PICK n \in Names \union {NoName} : n = node.full
  BY <1>0 DEF Node
<1>2. OnlyAbout(n) /\ (n # NoName => SaidOrToCome(n))
  BY <1>1 DEF Settling
<1>3. ~Rejected(i)
  BY DEF Rejected, Sees
<1>20. failed = {}
  BY DEF FunctionsInv, StoreOK
<1>4. ASSUME NEW m \in Names, Invoke(i, m) PROVE Settling'
  <2>1. m = n /\ c.at = "idle" /\ UNCHANGED <<size, node, faces>>
        /\ pending' = [pending EXCEPT ![m] = pending[m] - 1]
    BY <1>0, <1>2, <1>4 DEF Invoke, OnlyAbout, At
  <2>2. PICK t : instance' = [instance EXCEPT ![i] =
                   [Cold EXCEPT !.at = "download", !.name = n, !.temp = t]]
    BY <1>4, <2>1 DEF Invoke
  <2> DEFINE x == [Cold EXCEPT !.at = "download", !.name = n, !.temp = t]
  <2>3. x.at = "download" /\ x.name = n
    BY DEF Cold
  <2> HIDE DEF x, c
  <2>4. instance'[i] = x /\ \A j \in Instances \ {i} : instance'[j] = instance[j]
    BY <1>0, <2>2 DEF x
  <2>5. \A k \in Names : pending'[k] > 0 => pending[k] > 0
    BY <1>0, <2>1
  <2>6. OnlyAbout(n)'
    BY <1>2, <2>1, <2>3, <2>4, <2>5 DEF OnlyAbout
  <2>7. \A steps : "download" \in steps => ToCome(n, steps)'
    BY <2>3, <2>4 DEF ToCome
  <2>8. n # NoName => SaidOrToCome(n)'
    BY <1>2, <2>1, <2>7 DEF SaidOrToCome, BeforeHigh, BeforeLow, BeforeResolution
  <2> QED
    BY <1>1, <2>1, <2>6, <2>8 DEF Settling
<1>5. ASSUME Chain(i) PROVE c.at \in ChainSteps /\ c.name = n
  <2>1. c.at \in ChainSteps
    BY <1>5 DEF Chain, Download, Convert, UploadLow, UploadHigh, UploadVersion, WriteResolution,
                WriteLow, WriteHigh, WriteNode, Unlink, At, ChainSteps
  <2> QED
    BY <1>2, <2>1 DEF OnlyAbout
<1>6. ASSUME NEW to \in BeforeResolution, Goto(i, to), c.name = n, c.at \in ChainSteps,
             UNCHANGED <<size, pending, faces, node>>
      PROVE  Settling'
  <2> DEFINE x == [c EXCEPT !.at = to]
  <2>1. instance' = [instance EXCEPT ![i] = x]
    BY <1>6 DEF Goto
  <2>2. x.at = to /\ x.name = n
    BY <1>0, <1>6 DEF Instance
  <2> HIDE DEF x
  <2> QED
    BY <1>1, <1>6, <2>1, <2>2, ChainSettles DEF BeforeHigh, BeforeLow
<1>7. CASE Download(i)
  <2>1. c.at \in ChainSteps /\ c.name = n /\ UNCHANGED <<size, pending, faces, node>>
    BY <1>5, <1>7 DEF Chain, Download, Unchained
  <2> DEFINE x == [c EXCEPT !.at = "convert", !.temp = content[<<"full", c.name>>]]
  <2>2. instance' = [instance EXCEPT ![i] = x]
    BY <1>0, <1>7 DEF Download, Sees
  <2>3. x.at = "convert" /\ x.name = n
    BY <1>0, <2>1 DEF Instance
  <2> HIDE DEF x
  <2> QED
    BY <1>1, <2>1, <2>2, <2>3, ChainSettles DEF BeforeHigh, BeforeLow, BeforeResolution
<1>8. CASE Convert(i) \/ UploadLow(i) \/ UploadHigh(i)
  <2>1. c.at \in ChainSteps /\ c.name = n /\ UNCHANGED <<size, pending, faces, node>>
    BY <1>5, <1>8 DEF Chain, Convert, UploadLow, UploadHigh, UploadVersion, Unchained
  <2>2. c.at = "convert" => c.temp # NoName
    BY <1>0, <1>20, <2>1, FunctionsAssumption DEF ChainOK
  <2>3. Goto(i, "upload low") \/ Goto(i, "upload high") \/ Goto(i, "resolution")
    BY <1>8, <2>2 DEF Convert, UploadLow, UploadHigh, UploadVersion, At
  <2> QED
    BY <1>6, <2>1, <2>3 DEF BeforeResolution
<1>9. CASE WriteResolution(i)
  <2>1. c.at = "resolution" /\ c.name = n /\ UNCHANGED <<size, pending, faces>>
        /\ node' = [node EXCEPT !.resolution = publishedResolution(size[c.temp][1])]
        /\ Goto(i, "low")
    BY <1>5, <1>9 DEF Chain, WriteResolution, WriteNode, Unchained, At
  <2>2. c.temp = n
    BY <1>0, <1>20, <2>1 DEF ChainOK, AfterConvert, AfterLow, AfterHigh
  <2> DEFINE x == [c EXCEPT !.at = "low"]
  <2>3. instance' = [instance EXCEPT ![i] = x] /\ x.at = "low" /\ x.name = n
    BY <1>0, <2>1 DEF Instance, Goto
  <2>4. /\ node'.full = n /\ node'.people = node.people /\ node'.low = node.low
        /\ node'.high = node.high /\ node'.resolution = publishedResolution(size[n][1])
    BY <1>0, <1>1, <2>1, <2>2 DEF Node
  <2> HIDE DEF x
  <2> QED
    BY <1>1, <2>1, <2>3, <2>4, ChainSettles DEF BeforeHigh, BeforeLow, BeforeResolution, ChainSteps
<1>10. CASE WriteLow(i)
  <2>1. c.at = "low" /\ c.name = n /\ UNCHANGED <<size, pending, faces>>
        /\ node' = [node EXCEPT !.low = c.name] /\ Goto(i, "high")
    BY <1>5, <1>10 DEF Chain, WriteLow, WriteNode, Unchained, At
  <2> DEFINE x == [c EXCEPT !.at = "high"]
  <2>2. instance' = [instance EXCEPT ![i] = x] /\ x.at = "high" /\ x.name = n
    BY <1>0, <2>1 DEF Instance, Goto
  <2>3. /\ node'.full = n /\ node'.people = node.people /\ node'.low = n
        /\ node'.high = node.high /\ node'.resolution = node.resolution
    BY <1>0, <1>1, <2>1 DEF Node
  <2> HIDE DEF x
  <2> QED
    BY <1>1, <2>1, <2>2, <2>3, ChainSettles DEF BeforeHigh, BeforeLow, BeforeResolution, ChainSteps
<1>11. CASE WriteHigh(i)
  <2>1. c.at = "high" /\ c.name = n /\ UNCHANGED <<size, pending, faces>>
        /\ node' = [node EXCEPT !.high = c.name] /\ Goto(i, "unlink")
    BY <1>5, <1>11 DEF Chain, WriteHigh, WriteNode, Unchained, At
  <2> DEFINE x == [c EXCEPT !.at = "unlink"]
  <2>2. instance' = [instance EXCEPT ![i] = x] /\ x.at = "unlink" /\ x.name = n
    BY <1>0, <2>1 DEF Instance, Goto
  <2>3. /\ node'.full = n /\ node'.people = node.people /\ node'.low = node.low
        /\ node'.high = n /\ node'.resolution = node.resolution
    BY <1>0, <1>1, <2>1 DEF Node
  <2> HIDE DEF x
  <2> QED
    BY <1>1, <2>1, <2>2, <2>3, ChainSettles DEF BeforeHigh, BeforeLow, BeforeResolution, ChainSteps
<1>12. CASE Unlink(i)
  <2>1. c.at = "unlink" /\ UNCHANGED <<size, pending, faces, node>>
        /\ instance' = [instance EXCEPT ![i] = Cold]
    BY <1>12 DEF Unlink, Unchained, At
  <2>2. Cold.at \notin ChainSteps
    BY DEF Cold, ChainSteps
  <2> QED
    BY <1>1, <2>1, <2>2, ChainSettles DEF BeforeHigh, BeforeLow, BeforeResolution, ChainSteps
<1> QED
  BY <1>3, <1>4, <1>7, <1>8, <1>9, <1>10, <1>11, <1>12 DEF CreateResolutions, Chain

\* A name that is published when the functions are done is the one everything is about;
\* until then an upload concerns nobody.
LEMMA EnvironmentSettles ==
    ASSUME FunctionsInv, DrawnOK, Settling, seen = {}, seen' = {}, Environment
    PROVE  Settling'
<1>0. /\ TypeOK /\ node \in Node /\ pending \in [Names -> Nat] /\ faces \in [Names -> Nat]
      /\ NoName \notin Names
  BY FunctionsAssumption DEF FunctionsInv, TypeOK
<1>1. ASSUME NEW n \in Names, NEW level \in Levels, NEW dims, Upload(n, level, dims)
      PROVE  Settling'
  <2>1. /\ UNCHANGED <<node, pending, faces, instance>>
        /\ size' = [size EXCEPT ![n] = dims] /\ n \notin Drawn
    BY <1>1 DEF Upload, store
  <2>2. OnlyAbout(node.full)'
    BY <2>1 DEF Settling, OnlyAbout
  <2>3. ASSUME node.full # NoName PROVE SaidOrToCome(node.full)'
    <3>1. size'[node.full] = size[node.full]
      BY <1>0, <2>1, <2>3 DEF TypeOK, DrawnOK, Node
    <3> QED
      BY <2>1, <2>3, <3>1 DEF Settling, SaidOrToCome, ToCome
  <2> QED
    BY <2>1, <2>2, <2>3 DEF Settling
<1>2. ASSUME NEW n \in Names, FileArrives(n) PROVE Settling'
  BY <1>2 DEF FileArrives, Settling, OnlyAbout, SaidOrToCome, ToCome
<1>3. ASSUME NEW n \in Names, Publish(n) PROVE Settling'
  <2>1. PICK m \in Names : m = volatile[n]
    BY <1>0 DEF TypeOK
  <2>2. /\ Quiet /\ node' = [node EXCEPT !.full = m] /\ instance' = instance /\ size' = size
    BY <1>3, <2>1 DEF Publish
  <2>4. PICK k \in Nat : /\ pending' = [pending EXCEPT ![m] = pending[m] + k]
                         /\ node.full # m => k > 0
    BY <1>3, <2>1, StartsType DEF Publish
  <2>5. PICK j \in Nat : /\ faces' = [faces EXCEPT ![m] = faces[m] + j]
                         /\ node.full # m => j > 0
    BY <1>3, <2>1, StartsType DEF Publish
  <2>6. \A l \in Names : pending[l] = 0 /\ faces[l] = 0
    BY <2>2 DEF Quiet
  <2>7. /\ \A l \in Names \ {m} : pending'[l] = 0 /\ faces'[l] = 0
        /\ pending'[m] = k /\ faces'[m] = j
    BY <1>0, <2>4, <2>5, <2>6
  <2>8. /\ node'.full = m /\ node'.people = node.people /\ node'.low = node.low
        /\ node'.high = node.high /\ node'.resolution = node.resolution
    BY <1>0, <2>2 DEF Node
  <2>9. \A i \in Instances : instance[i].at \notin ChainSteps
    BY <2>2 DEF Quiet, ChainSteps
  <2>10. OnlyAbout(m)'
    BY <2>2, <2>7, <2>9 DEF OnlyAbout
  <2>11. CASE node.full # m
    BY <2>4, <2>5, <2>7, <2>8, <2>10, <2>11 DEF Settling, SaidOrToCome, ToCome
  <2>12. CASE node.full = m
    <3>1. SaidOrToCome(m)
      BY <1>0, <2>12 DEF Settling
    <3>2. \A steps \in SUBSET ChainSteps : ~ToCome(m, steps)
      BY <2>6, <2>9 DEF ToCome
    <3>3. /\ BeforeResolution \in SUBSET ChainSteps /\ BeforeLow \in SUBSET ChainSteps
          /\ BeforeHigh \in SUBSET ChainSteps
      BY DEF BeforeResolution, BeforeLow, BeforeHigh, ChainSteps
    <3>4. /\ node.people = m /\ node.low = m /\ node.high = m
          /\ node.resolution = publishedResolution(size[m][1])
      BY <2>6, <3>1, <3>2, <3>3 DEF SaidOrToCome
    <3> QED
      BY <2>2, <2>8, <2>10, <3>4 DEF Settling, SaidOrToCome
  <2> QED
    BY <2>11, <2>12
<1> QED
  BY <1>1, <1>2, <1>3 DEF Environment, DeleteFile, RemoveNode, Sees

\* Only what has been drawn is sent, and only that is published.
LEMMA DrawnInductive == FunctionsInv /\ DrawnOK /\ [Next]_vars => DrawnOK'
<1> SUFFICES ASSUME FunctionsInv, DrawnOK, [Next]_vars PROVE DrawnOK'
  OBVIOUS
<1>0. TypeOK /\ node \in Node /\ size \in [Names -> Nat \X Nat] /\ volatile \in [Names -> Names]
  BY DEF FunctionsInv, TypeOK
<1>1. ASSUME NEW n \in Names, NEW level \in Levels, NEW dims \in Decoded(d, getSize(level)),
             Upload(n, level, dims)
      PROVE  DrawnOK'
  <2>1. dims # Nothing
    BY <1>0, DecodedType DEF TypeOK
  <2>2. /\ size' = [size EXCEPT ![n] = dims] /\ sent' = sent \union {n}
        /\ UNCHANGED <<arrived, node>>
    BY <1>1 DEF Upload, store
  <2>3. Drawn' = Drawn \union {n}
    BY <1>0, <2>1, <2>2 DEF Drawn
  <2>4. PICK held \in {n} \union Drawn :
          volatile' = [m \in Names |-> IF volatile[m] = held THEN n ELSE volatile[m]]
    <3>1. Drawn \subseteq Names
      BY DEF Drawn
    <3>3. \A m \in Drawn : volatile[m] \in Drawn
      BY <3>1 DEF DrawnOK
    <3>2. {volatile[m] : m \in Drawn} \subseteq Drawn
      BY <3>3
    <3> QED
      BY <1>1, <3>2 DEF Upload
  <2>5. \A m \in Names : volatile'[m] = IF volatile[m] = held THEN n ELSE volatile[m]
    BY <2>4
  <2>6. n \notin Drawn
    BY <1>1 DEF Upload
  <2>7. \A m \in Names : volatile'[m] \in (IF m \in Drawn' THEN Drawn' ELSE {m})
    <3>1. ASSUME NEW m \in Names, m \in Drawn' PROVE volatile'[m] \in Drawn'
      <4>1. CASE m \in Drawn
        BY <2>3, <2>5, <3>1, <4>1 DEF DrawnOK
      <4>2. CASE m = n
        <5>1. volatile[n] = n
          BY <2>6, <3>1, <4>2 DEF DrawnOK
        <5> QED
          BY <2>3, <2>5, <4>2, <5>1
      <4> QED
        BY <2>3, <3>1, <4>1, <4>2
    <3>2. ASSUME NEW m \in Names, m \notin Drawn' PROVE volatile'[m] = m
      <4>1. m \notin Drawn /\ m # n
        BY <2>3, <3>2
      <4>2. volatile[m] = m
        BY <4>1 DEF DrawnOK
      <4> QED
        BY <2>4, <2>5, <4>1, <4>2
    <3> HIDE DEF Drawn
    <3> QED
      BY <3>1, <3>2
  <2> QED
    BY <2>2, <2>3, <2>7 DEF DrawnOK
<1>2. ASSUME NEW n \in Names, FileArrives(n) PROVE DrawnOK'
  BY <1>2 DEF FileArrives, DrawnOK, Drawn
<1>3. ASSUME NEW n \in Names, Publish(n) PROVE DrawnOK'
  <2>1. node'.full = volatile[n]
    BY <1>0, <1>3 DEF Publish, Node
  <2> QED
    BY <1>3, <2>1 DEF Publish, DrawnOK, Drawn
<1>4. ASSUME UNCHANGED app, node'.full = node.full \/ node'.full = NoName PROVE DrawnOK'
  BY <1>4 DEF app, DrawnOK, Drawn
<1>5. ASSUME NEW f \in Levels \X Names, DeleteFile(f) PROVE DrawnOK'
  BY <1>4, <1>5 DEF DeleteFile
<1>6. CASE RemoveNode
  BY <1>4, <1>6 DEF RemoveNode, NoNode
<1>7. ASSUME NEW i \in Instances, CreateResolutions(i) \/ Rejected(i) PROVE DrawnOK'
  <2>1. UNCHANGED app
    BY <1>7 DEF CreateResolutions, Invoke, Chain, Download, Convert, UploadLow, UploadHigh,
       UploadVersion, WriteResolution, WriteLow, WriteHigh, WriteNode, Unlink, Rejected, Unchained
  <2>2. UNCHANGED node \/ WriteResolution(i) \/ WriteLow(i) \/ WriteHigh(i)
    BY <1>7 DEF CreateResolutions, Invoke, Chain, Download, Convert, UploadLow, UploadHigh,
       UploadVersion, Unlink, Rejected, Unchained, store
  <2>3. node'.full = node.full
    BY <1>0, <2>2 DEF WriteResolution, WriteLow, WriteHigh, WriteNode, Node
  <2> QED
    BY <1>4, <2>1, <2>3
<1>8. ASSUME NEW n \in Names, DetectFaces(n) PROVE DrawnOK'
  BY <1>0, <1>4, <1>8 DEF DetectFaces, Node
<1>9. CASE UNCHANGED vars
  BY <1>4, <1>9 DEF vars, store
<1> QED
  BY <1>1, <1>2, <1>3, <1>5, <1>6, <1>7, <1>8, <1>9, FunctionsAssumption DEF Next, Environment

\* Undisturbed, there is an answer, and it is written.
LEMMA FacesSettle ==
    ASSUME FunctionsInv, Settling, seen = {}, seen' = {}, NEW n \in Names, DetectFaces(n)
    PROVE  Settling'
<1>0. node \in Node /\ n # NoName /\ faces \in [Names -> Nat] /\ UNCHANGED <<size, pending, instance>>
  BY FunctionsAssumption DEF FunctionsInv, TypeOK, DetectFaces, app
<1>1. n = node.full /\ OnlyAbout(n) /\ SaidOrToCome(n)
  BY <1>0 DEF Settling, OnlyAbout, DetectFaces
<1>2. node' = [node EXCEPT !.people = n] /\ faces' = [faces EXCEPT ![n] = faces[n] - 1]
  BY DEF DetectFaces, Sees
<1>3. /\ node'.full = n /\ node'.people = n /\ node'.low = node.low /\ node'.high = node.high
      /\ node'.resolution = node.resolution
  BY <1>0, <1>1, <1>2 DEF Node
<1>4. OnlyAbout(n)'
  <2>1. \A m \in Names \ {n} : faces'[m] = faces[m]
    BY <1>0, <1>2
  <2> QED
    BY <1>0, <1>1, <2>1 DEF OnlyAbout
<1>5. SaidOrToCome(n)'
  BY <1>0, <1>1, <1>3 DEF SaidOrToCome, ToCome
<1> QED
  BY <1>3, <1>4, <1>5 DEF Settling

\* A disturbance is never forgotten.
LEMMA SeenGrows == Next => seen \subseteq seen'
<1>1. Environment => seen \subseteq seen'
  BY DEF Environment, Upload, FileArrives, Publish, DeleteFile, RemoveNode, Sees, history
<1>2. \A i \in Instances : CreateResolutions(i) \/ Rejected(i) => seen \subseteq seen'
  BY DEF CreateResolutions, Invoke, Chain, Download, Convert, UploadLow, UploadHigh,
         UploadVersion, WriteResolution, WriteLow, WriteHigh, WriteNode, Unlink, Rejected, Sees, history
<1>3. \A n \in Names : DetectFaces(n) => seen \subseteq seen'
  BY DEF DetectFaces, Sees
<1> QED
  BY <1>1, <1>2, <1>3 DEF Next

LEMMA SettlingInductive == FunctionsInv /\ DrawnOK /\ Settling /\ [Next]_vars => Settling'
<1> SUFFICES ASSUME FunctionsInv, DrawnOK, Settling, [Next]_vars, seen' = {} PROVE Settling'
  BY DEF Settling
<1>1. CASE Next
  <2>1. seen = {}
    BY <1>1, SeenGrows
  <2> QED
    BY <1>1, <2>1, InstanceSettles, EnvironmentSettles, FacesSettle DEF Next
<1>2. CASE UNCHANGED vars
  BY <1>2 DEF vars, app, store, history, Settling, OnlyAbout, SaidOrToCome, ToCome
<1> QED
  BY <1>1, <1>2

\* Nothing is under way before the first upload.
LEMMA SettlingStart == Init => Settling
<1> SUFFICES ASSUME Init PROVE Settling
  OBVIOUS
<1>1. node.full = NoName /\ \A n \in Names : pending[n] = 0 /\ faces[n] = 0
  BY DEF Init, NoNode
<1>2. \A i \in Instances : instance[i].at \notin ChainSteps
  BY DEF Init, Cold, ChainSteps
<1> QED
  BY <1>1, <1>2 DEF Settling, OnlyAbout

\* While nothing disturbs, all that is under way is about the last upload, and what
\* the node does not say of it is still to come.
THEOREM SettlingInvariant == Spec => [](FunctionsInv /\ Settling)
<1>0. Init => DrawnOK
  BY DEF Init, DrawnOK, Drawn, NoNode
<1>1. Spec => [](DrawnOK /\ Settling)
  BY <1>0, SettlingStart, DrawnInductive, SettlingInductive, FunctionsInvariant, PTL DEF Spec
<1> QED
  BY <1>1, FunctionsInvariant, PTL

\* Once the functions are done, undisturbed, the node speaks of the last upload in all
\* its parts, both versions show it, and those of a landscape photo measure as promised.
THEOREM NodeSettles == Spec => []SettledNode
<1>1. ASSUME FunctionsInv, Settling PROVE SettledNode
  <2> SUFFICES ASSUME Quiet, seen = {}, node.full # NoName PROVE SettledNode
    BY DEF SettledNode
  <2> DEFINE n == node.full
             dims == size[n]
  <2>0. n \in Names /\ dims \in Nat \X Nat
    BY <1>1 DEF FunctionsInv, TypeOK, Node
  <2>1. SaidOrToCome(n)
    BY <1>1 DEF Settling
  <2>2. \A steps \in SUBSET ChainSteps : ~ToCome(n, steps)
    <3>1. pending[n] = 0 /\ \A i \in Instances : instance[i].at \notin ChainSteps
      BY <2>0 DEF Quiet, ChainSteps
    <3> HIDE DEF n
    <3> QED
      BY <3>1 DEF ToCome
  <2>3. /\ BeforeResolution \in SUBSET ChainSteps /\ BeforeLow \in SUBSET ChainSteps
        /\ BeforeHigh \in SUBSET ChainSteps
    BY DEF BeforeResolution, BeforeLow, BeforeHigh, ChainSteps
  <2>4. /\ node.low = n /\ node.high = n /\ node.people = n
        /\ node.resolution = publishedResolution(dims[1])
    <3>1. faces[n] = 0
      BY <2>0 DEF Quiet
    <3> HIDE DEF n, dims
    <3> QED
      BY <2>1, <2>2, <2>3, <3>1 DEF SaidOrToCome, dims
  <2>5. content[<<"low", n>>] = n /\ content[<<"high", n>>] = n
    BY <1>1, <2>0, <2>4 DEF FunctionsInv, StoreOK, NamedIsStored, FilesMatchNames, Made, Stored
  <2>6. ASSUME Landscape(dims) PROVE VersionsAsDocumented(dims)
    BY <2>0, <2>6, LandscapeMeasures DEF Landscape
  <2> HIDE DEF dims
  <2> QED
    BY <2>4, <2>5, <2>6 DEF SettledNode, VersionsAsDocumented, dims
<1> QED
  BY <1>1, SettlingInvariant, PTL

==============================================================================
