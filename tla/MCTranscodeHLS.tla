--------------------------- MODULE MCTranscodeHLS ---------------------------
(* A mandatory and an optional codec, and two qualities of which the       *)
(* source may be too small for one or for both.                            *)
EXTENDS TranscodeHLS

CONSTANTS h264, av1

BothCodecs == <<av1, h264>>
OnlyH264 == <<h264>>
Av1 == {av1}
NoCodec == {}

Ladder == <<"720p", "360p">>
LadderHeight == "720p" :> 720 @@ "360p" :> 360

MCHeights == {0, 240, 400}
OneHeight == {720}
=============================================================================
