------------------------------- MODULE Player -------------------------------
(***************************************************************************)
(* What the methods of the player interface ask of MPD                     *)
(* (src/dbus/player.rs, src/client/mod.rs).  A method decides on the       *)
(* cached status, then its request is carried out by MPD, perhaps twice    *)
(* and perhaps without an answer: of the connection it relies on what      *)
(* Request promises.  In between MPD plays on and serves other clients.    *)
(* The locks are in Client: the methods that read the cache keep it locked *)
(* until they return, and there is one of these calls at a time.           *)
(*                                                                         *)
(* Times are in milliseconds, what MPD's protocol can express.  Songs are  *)
(* numbered in the order of the queue; a song's id is its number.          *)
(***************************************************************************)
EXTENDS Integers

CONSTANTS
    Duration,       \* the durations of the songs
    Times,          \* what clients seek to or by
    Progress,       \* how far a song can have played
    MaxCalls, MaxOthers     \* bounds: calls, steps of MPD's own

Songs == DOMAIN Duration
None == -1

ASSUME PlayerAssumption ==
    /\ \A s \in Songs : s \in Nat \ {0} /\ 1..s \subseteq Songs /\ Duration[s] \in Nat \ {0}
    /\ Times \subseteq Int /\ Progress \subseteq Nat
    /\ MaxCalls \in Nat /\ MaxOthers \in Nat

VARIABLES
    mpd,        \* state, song (None if none is current), elapsed, len, repeat
    cache,      \* the part of Status the methods read
    call,       \* the call in progress, NoCall between calls
    calls, others
vars == <<mpd, cache, call, calls, others>>

\* Every song of the queue is in it once; what follows the last song depends on
\* "repeat".
Follows(m) == IF m.song = None THEN None
              ELSE IF m.song < m.len THEN m.song + 1
              ELSE IF m.repeat THEN 1 ELSE None

\* The cache after update_status, see Status for how it gets there.
Fetched(m) == [state |-> m.state, song |-> m.song, next |-> Follows(m),
               elapsed |-> IF m.state = "stop" THEN None ELSE m.elapsed,
               duration |-> IF m.state = "stop" THEN None ELSE Duration[m.song],
               len |-> m.len, repeat |-> m.repeat]

(***************************************************************************)
(* MPD                                                                     *)
(***************************************************************************)
Playable(m) == m.state # "stop"
At(m, song, time) == [m EXCEPT !.song = song, !.elapsed = time]
Within(m, time) == IF time < 0 THEN 0 ELSE time

\* The state after a request, in the form <<verb>> or <<verb, number>>; a request
\* that is refused changes nothing.  "pause1" is the command "pause 1".
Refused(m, r) ==
    \/ r[1] \in {"next", "previous", "previous+pause"} /\ ~Playable(m)
    \/ r[1] = "seekid" /\ r[2] > m.len
    \/ r[1] \in {"seekcur", "seekcur+"} /\ ~Playable(m)
    \/ r[1] = "seekcur" /\ Playable(m) /\ r[2] > Duration[m.song]
    \/ r[1] = "seekcur+" /\ Playable(m) /\ m.elapsed + r[2] > Duration[m.song]
Before(m) == IF m.song > 1 THEN m.song - 1 ELSE m.song

Toggled(m) == CASE m.state = "play" -> [m EXCEPT !.state = "pause"]
                [] m.state = "pause" -> [m EXCEPT !.state = "play"]
                [] OTHER -> m
Ended(m) == IF Follows(m) = None THEN [At(m, None, 0) EXCEPT !.state = "stop"]
            ELSE At(m, Follows(m), 0)
Previous(m) == [At(m, Before(m), 0) EXCEPT !.state = "play"]

Done(m, r) ==
    IF Refused(m, r) THEN m
    ELSE CASE r[1] = "seekid" -> [At(m, r[2], 0) EXCEPT !.state = IF @ = "stop" THEN "play" ELSE @]
           [] r[1] = "next" -> Ended(m)
           [] r[1] = "pause1" -> [m EXCEPT !.state = IF @ = "play" THEN "pause" ELSE @]
           [] r[1] = "pause" -> Toggled(m)
           [] r[1] = "stop" -> [m EXCEPT !.state = "stop", !.elapsed = 0]
           [] r[1] = "play" -> IF m.len = 0 THEN m
                               ELSE [m EXCEPT !.state = "play", !.song = IF @ = None THEN 1 ELSE @]
           [] r[1] = "previous" -> Previous(m)
           [] r[1] = "previous+pause" -> Toggled(Previous(m))
           [] r[1] = "seekcur" -> [m EXCEPT !.elapsed = r[2]]
           [] r[1] = "seekcur+" -> [m EXCEPT !.elapsed = Within(m, @ + r[2])]

(***************************************************************************)
(* What the methods ask for; <<>> if nothing                               *)
(***************************************************************************)
\* A time as MPD reads it: secs and milliseconds with a point in between, the
\* milliseconds without leading zeros.
Printed(t) == LET ms == t % 1000
              IN t - ms + (IF ms < 10 THEN 100 * ms ELSE IF ms < 100 THEN 10 * ms ELSE ms)
Magnitude(t) == IF t < 0 THEN -t ELSE t

\* Mutant for NextLandsOnce: MPD's own "next".
NextRequestRelative(c) ==
    IF c.next # None THEN <<"next">> ELSE IF ~c.repeat THEN <<"pause1">> ELSE <<>>

NextRequest(c) ==
    IF c.next # None THEN <<"seekid", c.next>> ELSE IF ~c.repeat THEN <<"pause1">> ELSE <<>>

\* Mutant for PreviousKeepsState: the test of the state is inverted.
PreviousRequestInverted(c) ==
    IF c.len >= 1 THEN IF c.state = "play" THEN <<"previous+pause">> ELSE <<"previous">>
    ELSE IF ~c.repeat THEN <<"stop">> ELSE <<>>

PreviousRequest(c) ==
    IF c.len >= 1 THEN IF c.state # "play" THEN <<"previous+pause">> ELSE <<"previous">>
    ELSE IF ~c.repeat THEN <<"stop">> ELSE <<>>

PlayPauseRequest(c) == IF c.song # None THEN <<"pause">> ELSE <<>>

OrElse(t, default) == IF t = None THEN default ELSE t

\* seek adds the magnitude of the offset, whatever its sign.
SeekTarget(c, t) == OrElse(c.elapsed, 0) + Magnitude(t)
PastEnd(c, t) == c.duration # None /\ SeekTarget(c, t) > c.duration

\* Mutant for SeekedTruthfulForward: the sign that makes it relative is missing.
SeekRequestUnsigned(t) == <<"seekcur", Printed(Magnitude(t))>>

SeekRequest(t) ==
    <<"seekcur+", IF t > 0 THEN Printed(t) ELSE -Printed(Magnitude(t))>>

SetPositionRequest(c, id, t) ==
    IF t < 0 \/ (c.duration # None /\ t > c.duration) \/ c.song # id
    THEN <<>> ELSE <<"seekcur", Printed(t)>>

(***************************************************************************)
(* Calls                                                                   *)
(***************************************************************************)
Diverted == <<"">>      \* seek past the end, on its way to next
NoCall == <<>>

\* time is that of the call, at the cached position it began with; before is MPD's
\* state when it began, fresh whether the cache was what MPD says, and alone that MPD
\* did nothing else since.
Call(method, t, r) ==
    [method |-> method, time |-> t, request |-> r, ran |-> 0, refused |-> FALSE,
     at |-> OrElse(cache.elapsed, 0),
     before |-> mpd, fresh |-> cache = Fetched(mpd), alone |-> TRUE]

Init ==
    /\ mpd \in [state : {"play", "pause", "stop"}, song : Songs, elapsed : Progress,
                len : Songs, repeat : BOOLEAN]
               \cup {[state |-> "stop", song |-> None, elapsed |-> 0, len |-> 0, repeat |-> r] :
                       r \in BOOLEAN}
    /\ mpd.song <= mpd.len /\ (mpd.state = "stop" => mpd.elapsed = 0)
    /\ mpd.song # None => mpd.elapsed <= Duration[mpd.song]
    /\ cache = Fetched(mpd)
    /\ call = NoCall /\ calls = 0 /\ others = 0

Begins(method, t, r) ==
    /\ call = NoCall /\ calls < MaxCalls /\ r # <<>>
    /\ call' = Call(method, t, r) /\ calls' = calls + 1
    /\ UNCHANGED <<mpd, cache, others>>

next == Begins("next", 0, NextRequest(cache))
previous == Begins("previous", 0, PreviousRequest(cache))
play_pause == Begins("play_pause", 0, PlayPauseRequest(cache))
stop == Begins("stop", 0, <<"stop">>)
play == Begins("play", 0, <<"play">>)
\* Also what set_rate does with a rate of 0.
pause == Begins("pause", 0, <<"pause1">>)
seek(t) == Begins("seek", t, IF PastEnd(cache, t) THEN Diverted ELSE SeekRequest(t))
set_position(id, t) == Begins("set_position", t, SetPositionRequest(cache, id, t))

\* seek lets go of the cache before it calls next, which decides anew.
SeekDiverts ==
    /\ call # NoCall /\ call.request = Diverted
    /\ call' = IF NextRequest(cache) = <<>> THEN NoCall
               ELSE [call EXCEPT !.request = NextRequest(cache)]
    /\ UNCHANGED <<mpd, cache, calls, others>>

\* Request!CarryOut: the second time is the repetition after an error.
CarryOut ==
    /\ call # NoCall /\ call.request # Diverted /\ call.ran < 2
    /\ mpd' = Done(mpd, call.request)
    /\ call' = [call EXCEPT !.ran = @ + 1, !.refused = @ \/ Refused(mpd, call.request)]
    /\ UNCHANGED <<cache, calls, others>>

\* Request!Return, and Request!Fail wherever the call is.
Returns ==
    /\ call # NoCall /\ call.request # Diverted /\ call' = NoCall
    /\ UNCHANGED <<mpd, cache, calls, others>>

\* The idle task or a Position call takes over what MPD says, while no call
\* keeps the cache locked.
Update ==
    /\ call # NoCall => call.request = Diverted
    /\ cache' = Fetched(mpd)
    /\ UNCHANGED <<mpd, call, calls, others>>

Alone(c, b) == IF c = NoCall THEN c ELSE [c EXCEPT !.alone = b]

\* MPD plays on, or another client's request is carried out.
MpdMoves ==
    /\ others < MaxOthers /\ others' = others + 1
    /\ call' = Alone(call, FALSE)
    /\ \/ /\ mpd.state = "play"
          /\ \E t \in Progress : /\ t > mpd.elapsed /\ t <= Duration[mpd.song]
                                 /\ mpd' = At(mpd, mpd.song, t)
       \/ mpd.state = "play" /\ mpd' = Ended(mpd)
       \/ mpd.len > 0 /\ \E s \in 1..mpd.len : mpd' = Done(mpd, <<"seekid", s>>)
       \/ \E v \in {"pause", "stop", "play"} : mpd' = Done(mpd, <<v>>)
       \/ mpd' = [mpd EXCEPT !.repeat = ~@]
    /\ UNCHANGED <<cache, calls>>

Methods == \/ next \/ previous \/ play_pause \/ stop \/ play \/ pause
           \/ \E t \in Times : seek(t) \/ \E id \in Songs : set_position(id, t)
Waits == UNCHANGED vars     \* for a call

Next == Methods \/ SeekDiverts \/ CarryOut \/ Returns \/ Update \/ MpdMoves \/ Waits
Spec == Init /\ [][Next]_vars

(***************************************************************************)
(* Properties, of a call that decided on what MPD says and was not         *)
(* disturbed, from the moment MPD has carried its request out              *)
(***************************************************************************)
Settled == call # NoCall /\ call.ran > 0 /\ call.fresh /\ call.alone

\* next, and seek past the end, play the song that follows, and the request being
\* repeated when its answer was lost does not skip another one.
NextLandsOnce ==
    (Settled /\ call.method \in {"next", "seek"} /\ call.request[1] \in {"seekid", "next"}) =>
        mpd.song = Follows(call.before)

\* previous leaves a player paused, playing or stopped as it was, by pausing after
\* MPD's "previous", which starts to play; that too survives the repetition.
PreviousKeepsState ==
    (Settled /\ call.method = "previous") => mpd.state = call.before.state

\* The position Seeked announces.
Announced == IF call.method = "seek" THEN call.at + Magnitude(call.time) ELSE call.time
Seeks == call.request[1] \in {"seekcur", "seekcur+"} /\ ~call.refused

\* A time MPD reads as it was meant.
Exact(t) == Printed(Magnitude(t)) = Magnitude(t)

\* Seeked announces the position MPD has.
SeekedTruthful == (Settled /\ Seeks) => Announced = mpd.elapsed

\* How far ahead of MPD the position is that the announced one was reckoned from: seek
\* adds to the cached one, set_position to none.
Ahead == IF call.method = "seek" THEN call.at - call.before.elapsed ELSE 0

\* However old the cache is, Seeked announces the position MPD has after set_position,
\* and after seek one that is off by no more than the cached one was before it; for an
\* offset forward that is carried out once, if the milliseconds have three digits or
\* are 0, and MPD did nothing else meanwhile.  So while a song plays Seeked is behind
\* by the time since the last update.
SeekedTruthfulForward ==
    (/\ call # NoCall /\ call.ran > 0 /\ call.alone /\ Seeks /\ Exact(call.time)
     /\ call.method = "seek" => (call.time >= 0 /\ call.ran = 1)) =>
        Announced = mpd.elapsed + Ahead
=============================================================================
