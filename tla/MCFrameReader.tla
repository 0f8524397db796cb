---------------------------- MODULE MCFrameReader ----------------------------
(* Frames of 9, 14, 29, 12 and 56 bytes, whose lengths in base 3 are 0100, *)
(* 0112, 1002, 0110 and 2002: zeros before and behind, digits that all     *)
(* count, and two that differ in the first alone.                          *)
EXTENDS FrameReader
MixedFrames == <<0, 9, 23, 52, 64, 120>>
=============================================================================
