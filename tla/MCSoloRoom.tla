----------------------------- MODULE MCSoloRoom -----------------------------
(* Small instances of SoloRoom for TLC. *)
EXTENDS SoloRoomProperties

\* Long enough for a game timer that lost its handle to see the game saved.
MCCycleTime == <<3, 1, 2, 2>>
MCMinTime == -1
=============================================================================
