----------------------------- MODULE MCAutoLand -----------------------------
(* Small instances of AutoLand for TLC: fix1 breaks the daemon, fix2 does  *)
(* not build with an edit that it shares no file with, and both share a    *)
(* file with the other edit.                                               *)
EXTENDS AutoLand

CONSTANTS fix1, fix2, edit1, edit2

SharedFiles == {<<fix1, edit1>>, <<fix2, edit1>>}
TypesClash == {{fix2, edit2}}
CrashesAtStart == {{fix1}, {fix2, edit1}}
=============================================================================
