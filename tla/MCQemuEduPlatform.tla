------------------------- MODULE MCQemuEduPlatform -------------------------
(***************************************************************************)
(* Values for QemuEduPlatform's constants that a cfg cannot write.         *)
(***************************************************************************)
EXTENDS QemuEduPlatform

CONSTANTS b1, b2

\* Zero, which is refused, and two masks that share a bit.
MCMasks == {{}, {b1}, {b1, b2}}
=============================================================================
