---------------------------- MODULE MCTranscripts ----------------------------
(* Small instances of Transcripts for TLC.                                 *)
EXTENDS Transcripts

CONSTANTS chat, resumed, dull, huge

MCWrites == [f \in Files |-> IF f = resumed THEN 2 ELSE 1]
=============================================================================
