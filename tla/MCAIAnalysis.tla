---------------------------- MODULE MCAIAnalysis ----------------------------
(* The instance of AIAnalysis for TLC, whose constants the .cfg gives.     *)
EXTENDS AIAnalysis
=============================================================================
