---------------------------- MODULE MCExecFrames ----------------------------
(* One generator that scripts drive and, where the run is about lv_resume,  *)
(* one that the host drives.                                                *)
EXTENDS ExecFrames

CONSTANTS s1, h1

MCGen == {s1, h1}
MCHostGen == {h1}
=============================================================================
