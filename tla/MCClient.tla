------------------------------ MODULE MCClient ------------------------------
(* Small instances of Client for TLC. *)
EXTENDS Client

CONSTANTS c1, c2

\* The scripts of the other kinds are parts of these, but for the mode of iface.
LongKinds == {"seekPastEnd", "setLoop", "positionSong", "metadata"}
SomeKinds == {"cached", "positionSong"}
CachedKinds == {"cached"}
NoKinds == {}
=============================================================================
