------------------------------- MODULE Status -------------------------------
(***************************************************************************)
(* The cached status, how it is built from MPD's answers and which events  *)
(* an update reports (src/client/status.rs), and the D-Bus properties that *)
(* are read from it (src/dbus/player.rs).                                  *)
(*                                                                         *)
(* MPD's side is a record of the facts its "status" answer is printed      *)
(* from.  MPD prints only what applies: no volume without a mixer, no      *)
(* songid without a current song, no elapsed while stopped.  Of a song the *)
(* id is kept, which is all Song's PartialEq compares; its tags, its cover *)
(* and the duration are left out.                                          *)
(***************************************************************************)
EXTENDS Integers, Sequences

None == -1              \* an Option that is None, a line MPD does not print

\* The facts of one answer.
Answers == [state : {"play", "pause", "stop"}, volume : -1..100,
            repeat : BOOLEAN, single : BOOLEAN, random : BOOLEAN, length : Nat,
            song : Nat \cup {None}, elapsed : Nat \cup {None}, next : Nat \cup {None}]

\* What MPD can report.  Ids of songs in its queue start at 1.
Consistent(m) ==
    /\ (m.state = "stop") <=> (m.elapsed = None)
    /\ m.song = None => m.state = "stop" /\ m.next = None
    /\ m.length = 0 => m.song = None
    /\ m.song # 0 /\ m.next # 0

NewStatus == [state |-> "pause", volume |-> 100, repeat |-> "off",
              shuffle |-> FALSE, elapsed |-> None, song |-> None,
              next |-> None, length |-> 0]

\* The status update_status assembles from answer r, with the given song.
FromAnswer(r, song) ==
    [state   |-> r.state,
     volume  |-> IF r.volume = None THEN NewStatus.volume ELSE r.volume,
     repeat  |-> IF r.single THEN "single" ELSE IF r.repeat THEN "on" ELSE "off",
     shuffle |-> r.random,
     elapsed |-> r.elapsed,
     song    |-> song,
     next    |-> r.next,
     length  |-> r.length]

\* Mutant of PartialAnswer: the song is stored before its tags are there.
PartialAnswer_EarlySong(r) ==
    [NewStatus EXCEPT !.state = r.state, !.volume = FromAnswer(r, None).volume,
                      !.shuffle = r.random, !.length = r.length, !.song = r.song]

\* What is left when "currentsong" fails: the lines MPD prints after songid
\* are not read, and "single" is only applied after the loop.
PartialAnswer(r) ==
    [NewStatus EXCEPT !.state = r.state, !.volume = FromAnswer(r, None).volume,
                      !.repeat = IF r.repeat THEN "on" ELSE "off",
                      !.shuffle = r.random, !.length = r.length]

\* Mutant of NeedsSong: only a missing song is asked for.
NeedsSong_OnlyMissing(old, r) == r.song # None /\ old.song = None

\* A song is asked for when the id differs from the cached one; no cached
\* song counts as id 0 (u32::MIN).
NeedsSong(old, r) ==
    r.song # None /\ r.song # (IF old.song = None THEN 0 ELSE old.song)

\* The song kept when none is asked for: the cached one is moved over.
KeptSong(old, r) == IF r.song = None THEN None ELSE old.song

\* Id of the answer to "currentsong": an empty answer gives Song::new().
AnsweredSong(m) == IF m.song = None THEN 0 ELSE m.song

(***************************************************************************)
(* Events                                                                  *)
(***************************************************************************)
EventKinds == {"Position", "PlayState", "Volume", "Repeat", "Shuffle", "Song", "Playlist"}
Events == [kind : EventKinds, prev : BOOLEAN, next : BOOLEAN]
Event(k) == [kind |-> k, prev |-> FALSE, next |-> FALSE]
SongEvent(old, new) ==
    [kind |-> "Song",
     prev |-> old.length # new.length /\ (new.length < 1) # (old.length < 1),
     next |-> old.next # new.next]

Opt(b, e) == IF b THEN <<e>> ELSE <<>>

\* Neither the old nor the new status is playing and the position differs.
PositionJumped(old, new) ==
    old.state # "play" /\ new.state # "play" /\ old.elapsed # new.elapsed

\* status.elapsed.unwrap() before the first event is sent.
Panics(old, new) == PositionJumped(old, new) /\ new.elapsed = None

\* Mutant of ChangeEvents: a new song stands for the other changes too.
ChangeEvents_SongOnly(old, new, songChanged) ==
    IF songChanged THEN <<SongEvent(old, new)>>
    ELSE Opt(PositionJumped(old, new), Event("Position"))
         \o Opt(old.state # new.state, Event("PlayState"))
         \o Opt(old.volume # new.volume, Event("Volume"))

\* Mutant of ChangeEvents: no song before is taken for no change.
ChangeEvents_NoFirstSong(old, new, songChanged) ==
    Opt(PositionJumped(old, new), Event("Position"))
    \o Opt(old.state # new.state, Event("PlayState"))
    \o Opt(songChanged /\ old.song # None, SongEvent(old, new))

ChangeEvents(old, new, songChanged) ==
    Opt(PositionJumped(old, new), Event("Position"))
    \o Opt(old.state # new.state, Event("PlayState"))
    \o Opt(old.volume # new.volume, Event("Volume"))
    \o Opt(old.repeat # new.repeat, Event("Repeat"))
    \o Opt(old.shuffle # new.shuffle, Event("Shuffle"))
    \o Opt(songChanged, SongEvent(old, new))
    \o Opt((old.next = None) # (new.next = None) \/ old.length # new.length,
           Event("Playlist"))

\* The value update_status returns.  Unless a song was asked for, the old
\* status has lost its song to the new one (Option::take).
CouldBeSeeking(old, new, r, songChanged) ==
    LET left == IF r.song # None /\ ~songChanged THEN None ELSE old.song
    IN  left = new.song /\ old.state = new.state /\ new.state = "play"

(***************************************************************************)
(* D-Bus properties                                                        *)
(***************************************************************************)
Properties == {"PlaybackStatus", "Volume", "LoopStatus", "Shuffle", "Metadata",
               "CanGoNext", "CanGoPrevious"}

\* The getters.
Value(s, p) == CASE p = "PlaybackStatus" -> s.state
                 [] p = "Volume" -> s.volume
                 [] p = "LoopStatus" -> s.repeat
                 [] p = "Shuffle" -> s.shuffle
                 [] p = "Metadata" -> s.song
                 [] p = "CanGoNext" -> s.next # None
                 [] OTHER -> s.length > 1

\* The properties whose changed signal send_signals emits for an event, in
\* its order.
Signalled(e) == CASE e.kind = "PlayState" -> <<"PlaybackStatus">>
                  [] e.kind = "Volume" -> <<"Volume">>
                  [] e.kind = "Repeat" -> <<"LoopStatus">>
                  [] e.kind = "Shuffle" -> <<"Shuffle">>
                  [] e.kind = "Song" -> <<"Metadata">> \o Opt(e.prev, "CanGoPrevious")
                                        \o Opt(e.next, "CanGoNext")
                  [] OTHER -> <<>>
=============================================================================
