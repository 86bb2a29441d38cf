------------------------------ MODULE MCMirror ------------------------------
(* Small instances of Mirror for TLC. *)
EXTENDS Mirror

CONSTANTS c1, c2

\* A queue of two songs is played, paused, stopped, cleared; options and
\* volume stay as they are.
Plain == [state |-> "stop", volume |-> 50, repeat |-> FALSE, single |-> FALSE,
          random |-> FALSE, length |-> 0, song |-> None, elapsed |-> None,
          next |-> None]
PlayerStates ==
    {m \in {[Plain EXCEPT !.state = s, !.length = n, !.song = i, !.elapsed = t,
                          !.next = IF i = 1 /\ n = 2 THEN 2 ELSE None] :
                s \in {"play", "pause", "stop"}, n \in {0, 2}, i \in {None, 1, 2},
                t \in {None, 0}} : Consistent(m)}
\* One song stays selected while it is played, paused and stopped.
StopStates == {m \in PlayerStates : m.song = 1 /\ m.length = 2}
\* Only the position of one song moves.
SeekStates ==
    {m \in {[Plain EXCEPT !.state = s, !.length = 1, !.song = 1, !.elapsed = t] :
                s \in {"play", "pause"}, t \in {0, 1, 2}} : Consistent(m)}
\* One song plays or is paused; shuffle changes, and while it plays the volume or the time.
ShuffleStates ==
    {[Plain EXCEPT !.state = p[1], !.length = 1, !.song = 1, !.elapsed = p[2],
                   !.volume = p[3], !.random = x] :
        p \in {<<"pause", 0, 50>>, <<"play", 0, 50>>, <<"play", 0, 51>>, <<"play", 1, 50>>},
        x \in BOOLEAN}

\* One song plays, the next one is paused; the queue is cleared while somebody
\* turns the options and there is no mixer.  Clearing it while paused panics.
Playing == [Plain EXCEPT !.state = "play", !.length = 2, !.song = 1, !.elapsed = 0,
                         !.next = 2]
Paused == [Playing EXCEPT !.state = "pause", !.song = 2, !.next = None]
Cleared == [Playing EXCEPT !.state = "stop", !.length = 0, !.song = None, !.elapsed = None,
                           !.next = None, !.volume = None, !.random = TRUE, !.single = TRUE]
MixedStates == {Playing, Paused, Cleared}

Volumes == {500, 506}
AllSetKinds == {"Volume", "LoopStatus", "Shuffle"}
=============================================================================
