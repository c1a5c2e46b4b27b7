--------------------------- MODULE ResolutionProofs ---------------------------
(* What ResolutionTools computes, for photos of every size. *)
EXTENDS CloudFunctions, TLAPS

\* The size of the photo on the device that took it is one of Sides and stays.
LEMMA PhotoSize == Spec => [](d \in Sides \X Sides)
<1>1. Next => d' = d
  <2> USE DEF Unchained, app
  <2>1. Environment => d' = d
    BY DEF Environment, Upload, FileArrives, Publish, DeleteFile, RemoveNode, app
  <2>2. \A i \in Instances : CreateResolutions(i) \/ Rejected(i) => d' = d
    BY DEF CreateResolutions, Invoke, Chain, Download, Convert, UploadLow, UploadHigh,
           UploadVersion, WriteResolution, WriteLow, WriteHigh, WriteNode, Unlink, Rejected
  <2>3. \A n \in Names : DetectFaces(n) => d' = d
    BY DEF DetectFaces
  <2> QED
    BY <2>1, <2>2, <2>3 DEF Next
<1>2. d \in Sides \X Sides /\ [Next]_vars => (d \in Sides \X Sides)'
  BY <1>1 DEF vars, app
<1>3. Init => d \in Sides \X Sides
  BY DEF Init
<1> QED
  BY <1>2, <1>3, PTL DEF Spec

\* A photo that is at least as wide as 4:3 fills its boxes in their width.
LEMMA LandscapeWidth ==
    ASSUME NEW w \in Nat, NEW h \in Nat, 3 * w >= 4 * h
    PROVE  /\ lowVersion(<<w, h>>)[1] = 640
           /\ highVersion(<<w, h>>)[1] = 1280
<1>1. w * 480 >= h * 640 /\ w * 960 >= h * 1280
  OBVIOUS
<1> QED
  BY <1>1 DEF lowVersion, highVersion, Resized

\* The app and the cloud function give every width the same resolution, 1, 2 or 3.
THEOREM MeasuresAgree ==
    \A w \in Nat : /\ calculateResolution(w) = publishedResolution(w)
                   /\ calculateResolution(w) \in 1 .. 3
BY DEF calculateResolution, publishedResolution, SIZE_LOW, SIZE_HIGH

\* "it is important that frontend and backend understand the concept of resolution in
\* the same way": of the photo on the device, too, both take the same measure.
THEOREM PhotoMeasuredAlike == Spec => []SameMeasure
<1>1. ASSUME d \in Sides \X Sides PROVE SameMeasure
  BY <1>1, MeasuresAgree, SidesAssumption DEF SameMeasure
<1> QED
  BY <1>1, PhotoSize, PTL

\* A landscape image wider than a low version has versions of the documented
\* resolutions.
LEMMA LandscapeMeasures ==
    ASSUME NEW dims \in Nat \X Nat, dims[1] > SIZE_LOW, 3 * dims[1] >= 4 * dims[2]
    PROVE  VersionsAsDocumented(dims)
<1>1. PICK w \in Nat, h \in Nat : dims = <<w, h>>
  OBVIOUS
<1>2. lowVersion(<<w, h>>)[1] = 640 /\ highVersion(<<w, h>>)[1] = 1280
  BY <1>1, LandscapeWidth
<1>3. publishedResolution(w) \in {2, 3}
  BY <1>1 DEF publishedResolution, SIZE_LOW
<1> QED
  BY <1>1, <1>2, <1>3 DEF VersionsAsDocumented, calculateResolution, sourceResolution,
    getResolution, Least, SIZE_LOW, SIZE_HIGH

\* Landscape photos wider than a low version have the documented resolutions in
\* all versions.
THEOREM LandscapeAsDocumented == Spec => []LandscapeVersions
<1>1. ASSUME d \in Sides \X Sides PROVE LandscapeVersions
  <2>1. d \in Nat \X Nat
    BY <1>1, SidesAssumption
  <2> QED
    BY <2>1, LandscapeMeasures DEF LandscapeVersions, Landscape
<1> QED
  BY <1>1, PhotoSize, PTL

\* The sample size is the least power of two that brings a width down to the size
\* of a level.
LEMMA SampleSizeBounds ==
    ASSUME NEW w \in Nat, 0 < w, w <= 20480, NEW wide \in {SIZE_LOW, SIZE_HIGH}
    PROVE  /\ sampleSize(w, wide) \in PowersOfTwo
           /\ w <= wide * sampleSize(w, wide)
           /\ w > wide => wide * sampleSize(w, wide) < 2 * w
<1>1. CASE w <= wide
  BY <1>1 DEF sampleSize, PowersOfTwo, SIZE_LOW, SIZE_HIGH
<1>2. CASE w > wide
  <2> DEFINE Fits(p) == w <= wide * p /\ wide * p < w * 2
  <2>1. \E p \in PowersOfTwo : Fits(p)
    BY <1>2 DEF PowersOfTwo, SIZE_LOW, SIZE_HIGH
  <2>2. sampleSize(w, wide) = CHOOSE p \in PowersOfTwo : Fits(p)
    BY <1>2 DEF sampleSize, SIZE_LOW, SIZE_HIGH
  <2> HIDE DEF Fits
  <2>3. sampleSize(w, wide) \in PowersOfTwo /\ Fits(sampleSize(w, wide))
    BY <2>1, <2>2
  <2>4. sampleSize(w, wide) \in Nat
    BY <2>3 DEF PowersOfTwo
  <2> QED
    BY <2>3, <2>4 DEF Fits, SIZE_LOW, SIZE_HIGH
<1> QED
  BY <1>1, <1>2 DEF SIZE_LOW, SIZE_HIGH

\* Every upload fits its level and fills more than half of it.
THEOREM UploadsFit == Spec => []UploadFitsLevel
<1>1. ASSUME d \in Sides \X Sides PROVE UploadFitsLevel
  <2> SUFFICES ASSUME NEW level \in {"low", "high"}, NEW e \in Decoded(d, getSize(level))
               PROVE  /\ e[1] <= getSize(level)
                      /\ d[1] >= getSize(level) => 2 * e[1] >= getSize(level)
    BY DEF UploadFitsLevel
  <2> DEFINE w == d[1]
             wide == getSize(level)
             p == sampleSize(w, wide)
  <2>0. w \in Sides
    BY <1>1
  <2> HIDE DEF w
  <2>1. w \in Nat /\ 0 < w /\ w <= 20480
    BY <2>0, SidesAssumption
  <2>2. wide \in {SIZE_LOW, SIZE_HIGH}
    BY DEF getSize
  <2>3. e[1] = w \div p \/ e[1] = (w + p - 1) \div p
    BY DEF Decoded, w
  <2>4. p \in PowersOfTwo /\ w <= wide * p /\ (w > wide => wide * p < 2 * w)
    BY <2>1, <2>2, SampleSizeBounds
  <2>5. w <= wide => p = 1
    BY DEF sampleSize
  <2> HIDE DEF wide, p
  <2>6. e[1] <= wide /\ (w >= wide => 2 * e[1] >= wide)
    BY <2>1, <2>2, <2>3, <2>4, <2>5 DEF PowersOfTwo, SIZE_LOW, SIZE_HIGH
  <2> QED
    BY <2>6 DEF w, wide
<1> QED
  BY <1>1, PhotoSize, PTL

==============================================================================
