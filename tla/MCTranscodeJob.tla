--------------------------- MODULE MCTranscodeJob ---------------------------
(* Two workers, with the same thumbnail settings or with settings of their *)
(* own; an H.264 variant, with or without an AV1 one; an audio stream or   *)
(* none.                                                                   *)
EXTENDS TranscodeJob, TLC

CONSTANTS wA, wB, small, large, h264, av1, aud

Workers == {wA, wB}
BothSettings == {small, large}
OneSetting == {small}
SameSettings == (wA :> small) @@ (wB :> small)
OwnSettings == (wA :> small) @@ (wB :> large)
Variants == {h264, av1}
H264 == {h264}
OneAudio == {aud}
NoAudio == {}

\* Workers with the same settings are interchangeable.
WorkerSymmetry == Permutations(Workers)
=============================================================================
