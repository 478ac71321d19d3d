-------------------------- MODULE MCTranscodeQueue --------------------------
(* Small instances of TranscodeQueue: worker wA has one or two slots, wB   *)
(* has one.                                                                *)
EXTENDS TranscodeQueue, TLC

CONSTANTS wA, wB, a1, a2, b1

Workers == {wA, wB}
OneSlotEach == {a1, b1}
HostOne == (a1 :> wA) @@ (b1 :> wB)
TwoAndOne == {a1, a2, b1}
HostTwoOne == (a1 :> wA) @@ (a2 :> wA) @@ (b1 :> wB)
=============================================================================
