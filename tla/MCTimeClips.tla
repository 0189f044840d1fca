---------------------------- MODULE MCTimeClips -----------------------------
(* A finite instance of TimeClips, and of the Trace it extends, for TLC.   *)
EXTENDS TimeClips

CONSTANTS light, door
TwoTimers == <<<<light, 2>>, <<door, 1>>>>
=============================================================================
