--------------------------- MODULE ResolutionTools ---------------------------
(***************************************************************************)
(* What the app and the cloud functions take a resolution to be, and how   *)
(* they produce the smaller versions of a photo.                           *)
(*                                                                         *)
(* Dimensions are pairs <<width, height>> in pixels.  The app              *)
(* (ResolutionTools.java) and the cloud functions (index.js) measure an    *)
(* image on their own; doc/resolution.txt says why they must agree.        *)
(***************************************************************************)
EXTENDS Integers

SIZE_LOW == 640
SIZE_HIGH == 1280
MAX_VALUE == 2147483647

Levels == {"low", "high", "full"}

Least(a, b) == IF a <= b THEN a ELSE b

\* Mutant: the boundary widths count as the next resolution.
calculateResolutionOpen(w) == CASE w < SIZE_LOW -> 1
                                [] w >= SIZE_LOW /\ w < SIZE_HIGH -> 2
                                [] w >= SIZE_HIGH -> 3

\* The app's measure of a local file.
calculateResolution(w) == CASE w <= SIZE_LOW -> 1
                            [] w > SIZE_LOW /\ w <= SIZE_HIGH -> 2
                            [] w > SIZE_HIGH -> 3

\* Mutant: the levels are counted from one too far.
publishedResolutionShifted(w) == IF w <= 640 THEN 2 ELSE IF w <= 1280 THEN 3 ELSE 4

\* The measure createResolutions publishes as the photo's resolution.
publishedResolution(w) == IF w <= 640 THEN 1 ELSE IF w <= 1280 THEN 2 ELSE 3

\* The best resolution a level asks for, and the size it allows.
getResolution(level) == CASE level = "low" -> 1
                          [] level = "high" -> 2
                          [] level = "full" -> MAX_VALUE

getSize(level) == CASE level = "low" -> SIZE_LOW
                    [] level = "high" -> SIZE_HIGH
                    [] level = "full" -> MAX_VALUE

\* getResolution(level, full): what of a photo the level lets through.
sourceResolution(level, full) == Least(getResolution(level), full)

-----------------------------------------------------------------------------
Rounded(p, q) == (2 * p + q) \div (2 * q)

\* ImageMagick's "-resize WxH": the photo is scaled, down or up, to the largest
\* size that fits into the box and keeps its aspect ratio.
Resized(d, box) ==
    IF d[1] * box[2] >= d[2] * box[1]
      THEN <<box[1], Rounded(d[2] * box[1], d[1])>>
      ELSE <<Rounded(d[1] * box[2], d[2]), box[2]>>

lowVersion(d) == Resized(d, <<640, 480>>)

\* Mutant: the box of the high version is that of the low one.
highVersionLow(d) == Resized(d, <<640, 480>>)
highVersion(d) == Resized(d, <<1280, 960>>)

PowersOfTwo == {1, 2, 4, 8, 16, 32}

\* Mutant: the exponent is rounded down.
sampleSizeFloor(w, size) ==
    IF w <= size THEN 1
    ELSE CHOOSE p \in PowersOfTwo : size * p <= w /\ w < size * p * 2

\* decodeFile: 2 to the power of ceil(log(w / size)), by logarithms of doubles.
sampleSize(w, size) ==
    IF w <= size THEN 1
    ELSE CHOOSE p \in PowersOfTwo : w <= size * p /\ size * p < w * 2

\* The decoder divides both sides by the sample size; whether it rounds up or
\* down depends on the image format.
Decoded(d, size) ==
    LET p == sampleSize(d[1], size)
    IN  {<<d[1] \div p, d[2] \div p>>, <<(d[1] + p - 1) \div p, (d[2] + p - 1) \div p>>}

\* doc/resolution.txt: "The backend should make sure that the following holds
\* for the different versions of any photo": a low version has the resolution of
\* the level low or that of the photo, if less, and so the high version.
VersionsAsDocumented(d) ==
    LET full == publishedResolution(d[1])
    IN  /\ calculateResolution(lowVersion(d)[1]) = sourceResolution("low", full)
        /\ calculateResolution(highVersion(d)[1]) = sourceResolution("high", full)

==============================================================================
