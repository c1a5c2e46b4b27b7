--------------------------- MODULE MCCloudFunctions ---------------------------
(* CloudFunctions on a small instance, and on a sample of photo sizes. *)
EXTENDS CloudFunctions, TLC

\* Every boundary of the code and its neighbours, and common camera formats.
SampleSides == {1, 2, 100, 320, 479, 480, 481, 639, 640, 641, 720, 852, 853, 854,
                959, 960, 961, 1079, 1080, 1279, 1280, 1281, 1440, 1705, 1706, 1707,
                1920, 2448, 2559, 2560, 2561, 2562, 3264, 3840, 4032, 5119, 5120, 5121}

\* Wider than any version.
FollowedSizes == {<<1920, 1080>>}

CONSTANTS n1, n2

\* One upload is made at the level low and one in full, in any order.
LevelOf == (n1 :> {"low"}) @@ (n2 :> {"full"})
StartedTwice == {<<"createResolutions", n2>>}

\* A smaller version of the second upload, which is made last or first.  To the
\* functions the deletion of a full file is one more download that fails.
RemovableFiles == {<<"low", n2>>}

==============================================================================
