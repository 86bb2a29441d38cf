---------------------------- MODULE PlayerProofs ----------------------------
(***************************************************************************)
(* What the methods of the player interface promise, for songs of any      *)
(* number and durations, for any times to seek to and by, and for any      *)
(* number of calls and of steps that MPD takes on its own.                 *)
(***************************************************************************)
EXTENDS Player, TLAPS

(***************************************************************************)
(* The inductive invariant                                                 *)
(***************************************************************************)
\* MPD has a current song whenever it plays or is paused, and only one of its queue.
IsMpd(m) ==
    /\ m = [state |-> m.state, song |-> m.song, elapsed |-> m.elapsed, len |-> m.len,
            repeat |-> m.repeat]
    /\ m.state \in {"play", "pause", "stop"} /\ m.song \in Int /\ m.elapsed \in Nat
    /\ m.len \in Nat
    /\ m.song # None => 1 <= m.song /\ m.song <= m.len
    /\ m.state # "stop" => m.song # None

IsCache(c) == /\ c.next # None => c.next \in Nat \ {0}
              /\ c.elapsed \in Int

\* The requests the methods make, and those of other clients.
Plain == {"next", "pause1", "pause", "stop", "play", "previous", "previous+pause"}
IsRequest(r) == \/ r[1] \in Plain
                \/ r[1] = "seekid" /\ r[2] \in Nat \ {0}
                \/ r[1] = "seekcur" /\ r[2] \in Nat
                \/ r[1] = "seekcur+" /\ r[2] \in Int

\* What a method asks for when it sees cache f.
DecidedOn(c, f) ==
    \/ c.method = "next" /\ c.request = NextRequest(f)
    \/ c.method = "previous" /\ c.request = PreviousRequest(f)
    \/ c.method = "seek" /\ c.request \in {Diverted, NextRequest(f), SeekRequest(c.time)}
    \/ /\ c.method = "set_position" /\ c.time >= 0
       /\ c.request = <<"seekcur", Printed(c.time)>>
    \/ /\ c.method \in {"play_pause", "stop", "play", "pause"}
       /\ c.request[1] \in {"pause", "stop", "play", "pause1"}

\* Who seeks within the song, and where to, whatever the cache was.
AsksToSeek(c) ==
    c.request[1] \in {"seekcur", "seekcur+"} =>
        \/ /\ c.method = "set_position" /\ c.time >= 0
           /\ c.request = <<"seekcur", Printed(c.time)>>
        \/ c.method = "seek" /\ c.request = SeekRequest(c.time)

Carried(m, r, n) == IF n = 0 THEN m ELSE IF n = 1 THEN Done(m, r) ELSE Done(Done(m, r), r)

\* Request r was not refused the n times that it was carried out, from m on.
Taken(m, r, n) == /\ n > 0 => ~Refused(m, r)
                  /\ n = 2 => ~Refused(Done(m, r), r)

\* A call like c with some fields of its own.
CallRecord(c, request, ran, refused, alone) ==
    [method |-> c.method, time |-> c.time, request |-> request, ran |-> ran,
     refused |-> refused, at |-> c.at, before |-> c.before, fresh |-> c.fresh,
     alone |-> alone]

IsCall(c) ==
    /\ c = CallRecord(c, c.request, c.ran, c.refused, c.alone)
    /\ c.time \in Int /\ c.ran \in {0, 1, 2} /\ c.refused \in BOOLEAN
    /\ IsMpd(c.before) /\ c.request # <<>>
    /\ c.request = Diverted => c.ran = 0
    /\ c.request # Diverted => IsRequest(c.request)
    /\ c.at \in Int /\ AsksToSeek(c)

\* What is known of a call that decided on what MPD said, while nobody else
\* asked MPD for anything.
Undisturbed(c) ==
    /\ c.alone => /\ mpd = Carried(c.before, c.request, c.ran)
                  /\ ~c.refused => Taken(c.before, c.request, c.ran)
    /\ c.alone /\ c.fresh => /\ cache = Fetched(c.before) /\ DecidedOn(c, cache)
                             /\ c.at = OrElse(cache.elapsed, 0)

IInv ==
    /\ IsMpd(mpd) /\ IsCache(cache)
    /\ call # NoCall => IsCall(call) /\ Undisturbed(call)
(***************************************************************************)
(* The requests                                                            *)
(***************************************************************************)
With(m, state, song, elapsed) ==
    [state |-> state, song |-> song, elapsed |-> elapsed, len |-> m.len, repeat |-> m.repeat]

LEMMA WithIsMpd ==
    ASSUME NEW m, IsMpd(m), NEW state \in {"play", "pause", "stop"}, NEW song \in Int,
           NEW elapsed \in Nat, song # None => 1 <= song /\ song <= m.len,
           state # "stop" => song # None
    PROVE  IsMpd(With(m, state, song, elapsed))
<1> DEFINE n == With(m, state, song, elapsed)
<1>1. /\ n.state = state /\ n.song = song /\ n.elapsed = elapsed /\ n.len = m.len
      /\ n.repeat = m.repeat
      /\ n = [state |-> n.state, song |-> n.song, elapsed |-> n.elapsed, len |-> n.len,
              repeat |-> n.repeat]
  BY DEF With
<1>2. n.song # None => 1 <= n.song /\ n.song <= n.len
  BY <1>1
<1>3. n.len \in Nat
  BY <1>1 DEF IsMpd
<1> HIDE DEF n
<1>4. IsMpd(n)
  BY <1>1, <1>2, <1>3 DEF IsMpd
<1> QED BY <1>4 DEF n

LEMMA Fields == ASSUME NEW m, IsMpd(m)
                PROVE  /\ m = With(m, m.state, m.song, m.elapsed)
                       /\ DOMAIN m = {"state", "song", "elapsed", "len", "repeat"}
<1>1. m = With(m, m.state, m.song, m.elapsed)
  BY DEF IsMpd, With
<1> QED BY <1>1 DEF With

\* Changes of one field or of some.
LEMMA AtIs == ASSUME NEW m, IsMpd(m), NEW x, NEW y PROVE At(m, x, y) = With(m, m.state, x, y)
<1>1. At(m, x, y) = [f \in DOMAIN m |-> IF f = "elapsed" THEN y
                                        ELSE IF f = "song" THEN x ELSE m[f]]
  BY Fields DEF At
<1>2. With(m, m.state, x, y) = [f \in DOMAIN m |-> IF f = "elapsed" THEN y
                                                  ELSE IF f = "song" THEN x ELSE m[f]]
  BY Fields DEF With
<1> QED BY <1>1, <1>2

LEMMA Excepts ==
    ASSUME NEW m, IsMpd(m), NEW x, NEW y
    PROVE  /\ [m EXCEPT !.state = x] = With(m, x, m.song, m.elapsed)
           /\ [m EXCEPT !.elapsed = x] = With(m, m.state, m.song, x)
           /\ [m EXCEPT !.state = x, !.song = y] = With(m, x, y, m.elapsed)
<1>1. DOMAIN m = {"state", "song", "elapsed", "len", "repeat"}
  BY Fields
<1>2. [m EXCEPT !.state = x] = With(m, x, m.song, m.elapsed)
  BY <1>1 DEF With
<1>3. [m EXCEPT !.elapsed = x] = With(m, m.state, m.song, x)
  BY <1>1 DEF With
<1>4. [m EXCEPT !.state = x, !.song = y] = With(m, x, y, m.elapsed)
  <2>1. [m EXCEPT !.state = x, !.song = y]
          = [f \in DOMAIN m |-> IF f = "song" THEN y ELSE IF f = "state" THEN x ELSE m[f]]
    BY <1>1
  <2>2. With(m, x, y, m.elapsed)
          = [f \in DOMAIN m |-> IF f = "song" THEN y ELSE IF f = "state" THEN x ELSE m[f]]
    BY <1>1 DEF With
  <2> QED BY <2>1, <2>2
<1> QED BY <1>2, <1>3, <1>4

LEMMA ExceptsWith ==
    ASSUME NEW m, NEW s, NEW g, NEW t, NEW x
    PROVE  /\ [With(m, s, g, t) EXCEPT !.state = x] = With(m, x, g, t)
           /\ With(m, s, g, t).state = s /\ With(m, s, g, t).song = g
           /\ With(m, s, g, t).elapsed = t /\ With(m, s, g, t).len = m.len
           /\ With(m, s, g, t).repeat = m.repeat
BY DEF With

LEMMA FollowsType ==
    ASSUME NEW m, IsMpd(m)
    PROVE  Follows(m) # None => Follows(m) \in Nat \ {0} /\ Follows(m) <= m.len
<1>1. m.song \in Int /\ m.len \in Nat /\ (m.song # None => 1 <= m.song /\ m.song <= m.len)
  BY DEF IsMpd
<1>2. CASE Follows(m) = None
  BY <1>2
<1>3. CASE m.song # None /\ m.song < m.len /\ Follows(m) = m.song + 1
  BY <1>1, <1>3
<1>4. CASE m.song # None /\ Follows(m) = 1
  BY <1>1, <1>4
<1> QED BY <1>2, <1>3, <1>4 DEF Follows

LEMMA BeforeType ==
    ASSUME NEW m, IsMpd(m), m.song # None
    PROVE  Before(m) \in Int /\ 1 <= Before(m) /\ Before(m) <= m.len /\ Before(m) # None
<1>1. m.song \in Int /\ m.len \in Nat /\ 1 <= m.song /\ m.song <= m.len
  BY DEF IsMpd
<1> QED BY <1>1 DEF Before, None

\* What MPD does with each request that it does not refuse.
LEMMA DoneIs ==
    ASSUME NEW m, IsMpd(m), NEW r, ~Refused(m, r)
    PROVE  /\ r[1] = "seekid" =>
                  Done(m, r) = With(m, IF m.state = "stop" THEN "play" ELSE m.state, r[2], 0)
           /\ r[1] = "next" =>
                  Done(m, r) = IF Follows(m) = None THEN With(m, "stop", None, 0)
                               ELSE With(m, m.state, Follows(m), 0)
           /\ r[1] = "pause1" =>
                  Done(m, r) = With(m, IF m.state = "play" THEN "pause" ELSE m.state,
                                    m.song, m.elapsed)
           /\ r[1] = "pause" =>
                  Done(m, r) = With(m, IF m.state = "play" THEN "pause"
                                       ELSE IF m.state = "pause" THEN "play" ELSE m.state,
                                    m.song, m.elapsed)
           /\ r[1] = "stop" => Done(m, r) = With(m, "stop", m.song, 0)
           /\ r[1] = "play" =>
                  Done(m, r) = IF m.len = 0 THEN m
                               ELSE With(m, "play", IF m.song = None THEN 1 ELSE m.song, m.elapsed)
           /\ r[1] = "previous" => Done(m, r) = With(m, "play", Before(m), 0)
           /\ r[1] = "previous+pause" => Done(m, r) = With(m, "pause", Before(m), 0)
           /\ r[1] = "seekcur" => Done(m, r) = With(m, m.state, m.song, r[2])
           /\ r[1] = "seekcur+" =>
                  Done(m, r) = With(m, m.state, m.song, Within(m, m.elapsed + r[2]))
<1>1. ASSUME r[1] = "seekid"
      PROVE  Done(m, r) = With(m, IF m.state = "stop" THEN "play" ELSE m.state, r[2], 0)
  BY <1>1 DEF Done, IsMpd, With, At
<1>2. ASSUME r[1] = "next"
      PROVE  Done(m, r) = IF Follows(m) = None THEN With(m, "stop", None, 0)
                          ELSE With(m, m.state, Follows(m), 0)
  <2>1. Done(m, r) = Ended(m)
    BY <1>2 DEF Done
  <2>2. /\ At(m, None, 0) = With(m, m.state, None, 0)
        /\ At(m, Follows(m), 0) = With(m, m.state, Follows(m), 0)
    BY AtIs
  <2>3. [With(m, m.state, None, 0) EXCEPT !.state = "stop"] = With(m, "stop", None, 0)
    BY ExceptsWith
  <2> QED BY <2>1, <2>2, <2>3 DEF Ended
<1>3. ASSUME r[1] = "pause1"
      PROVE  Done(m, r) = With(m, IF m.state = "play" THEN "pause" ELSE m.state,
                               m.song, m.elapsed)
  BY <1>3 DEF Done, IsMpd, With
<1>4. ASSUME r[1] = "pause"
      PROVE  Done(m, r) = With(m, IF m.state = "play" THEN "pause"
                                  ELSE IF m.state = "pause" THEN "play" ELSE m.state,
                               m.song, m.elapsed)
  <2>1. Done(m, r) = Toggled(m)
    BY <1>4 DEF Done
  <2>2. /\ [m EXCEPT !.state = "pause"] = With(m, "pause", m.song, m.elapsed)
        /\ [m EXCEPT !.state = "play"] = With(m, "play", m.song, m.elapsed)
        /\ m = With(m, m.state, m.song, m.elapsed)
    BY Excepts, Fields
  <2>3. CASE m.state = "play"
    BY <2>1, <2>2, <2>3 DEF Toggled
  <2>4. CASE m.state = "pause"
    BY <2>1, <2>2, <2>4 DEF Toggled
  <2>5. CASE m.state \notin {"play", "pause"}
    BY <2>1, <2>2, <2>5 DEF Toggled
  <2> QED BY <2>3, <2>4, <2>5
<1>5. ASSUME r[1] = "stop" PROVE Done(m, r) = With(m, "stop", m.song, 0)
  BY <1>5 DEF Done, IsMpd, With
<1>6. ASSUME r[1] = "play"
      PROVE  Done(m, r) = IF m.len = 0 THEN m
                          ELSE With(m, "play", IF m.song = None THEN 1 ELSE m.song, m.elapsed)
  <2>1. Done(m, r) = IF m.len = 0 THEN m
                     ELSE [m EXCEPT !.state = "play", !.song = IF @ = None THEN 1 ELSE @]
    BY <1>6 DEF Done
  <2> DEFINE g == IF m.song = None THEN 1 ELSE m.song
  <2>2. [m EXCEPT !.state = "play", !.song = g] = With(m, "play", g, m.elapsed)
    BY Excepts
  <2> QED BY <2>1, <2>2
<1>7. Previous(m) = With(m, "play", Before(m), 0)
  <2>1. At(m, Before(m), 0) = With(m, m.state, Before(m), 0)
    BY AtIs
  <2>2. [With(m, m.state, Before(m), 0) EXCEPT !.state = "play"] = With(m, "play", Before(m), 0)
    BY ExceptsWith
  <2> QED BY <2>1, <2>2 DEF Previous
<1>8. ASSUME r[1] = "previous" PROVE Done(m, r) = With(m, "play", Before(m), 0)
  BY <1>7, <1>8 DEF Done
<1>9. ASSUME r[1] = "previous+pause" PROVE Done(m, r) = With(m, "pause", Before(m), 0)
  <2>1. Done(m, r) = Toggled(Previous(m))
    BY <1>9 DEF Done
  <2> QED BY <1>7, <2>1, ExceptsWith DEF Toggled
<1>10. ASSUME r[1] = "seekcur" PROVE Done(m, r) = With(m, m.state, m.song, r[2])
  BY <1>10, Excepts DEF Done
<1>11. ASSUME r[1] = "seekcur+"
       PROVE  Done(m, r) = With(m, m.state, m.song, Within(m, m.elapsed + r[2]))
  BY <1>11 DEF Done, IsMpd, With
<1> QED BY <1>1, <1>2, <1>3, <1>4, <1>5, <1>6, <1>8, <1>9, <1>10, <1>11
\* MPD stays well formed, and its queue and its options are as they were.
LEMMA DoneType ==
    ASSUME NEW m, IsMpd(m), NEW r, IsRequest(r)
    PROVE  IsMpd(Done(m, r)) /\ Done(m, r).len = m.len
<1>1. CASE Refused(m, r)
  BY <1>1 DEF Done
<1> DEFINE Fine(n) == IsMpd(n) /\ n.len = m.len
<1>2. ASSUME NEW state \in {"play", "pause", "stop"}, NEW song \in Int, NEW elapsed \in Nat,
             song # None => 1 <= song /\ song <= m.len, state # "stop" => song # None
      PROVE  Fine(With(m, state, song, elapsed))
  BY <1>2, WithIsMpd, ExceptsWith
<1>3. /\ m.state \in {"play", "pause", "stop"} /\ m.song \in Int /\ m.elapsed \in Nat
      /\ m.len \in Nat
      /\ m.song # None => 1 <= m.song /\ m.song <= m.len
      /\ m.state # "stop" => m.song # None
  BY DEF IsMpd
<1> HIDE DEF Fine
<1>4. CASE ~Refused(m, r)
  <2> SUFFICES Fine(Done(m, r))
    BY DEF Fine
  <2> USE <1>4
  <2>1. CASE r[1] = "seekid"
    <3>1. r[2] \in Nat \ {0}
      BY <2>1 DEF IsRequest, Plain
    <3>2. r[2] <= m.len /\ 1 <= r[2] /\ r[2] # None
      BY <1>3, <2>1, <3>1 DEF Refused, None
    <3>3. Fine(With(m, IF m.state = "stop" THEN "play" ELSE m.state, r[2], 0))
      BY <1>2, <1>3, <3>1, <3>2
    <3> QED BY <2>1, <3>3, DoneIs
  <2>2. CASE r[1] = "next"
    <3>1. m.state # "stop" /\ None \in Int
      BY <2>2 DEF Refused, Playable, None
    <3>2. ASSUME Follows(m) = None PROVE Fine(With(m, "stop", None, 0))
      BY <1>2, <3>1
    <3>3. ASSUME Follows(m) # None PROVE Fine(With(m, m.state, Follows(m), 0))
      <4>1. Follows(m) \in Int /\ 1 <= Follows(m) /\ Follows(m) <= m.len
        BY <3>3, FollowsType
      <4> QED BY <1>2, <1>3, <3>3, <4>1
    <3> QED BY <2>2, <3>2, <3>3, DoneIs
  <2>3. CASE r[1] = "pause1"
    <3>1. Fine(With(m, IF m.state = "play" THEN "pause" ELSE m.state, m.song, m.elapsed))
      BY <1>2, <1>3
    <3> QED BY <2>3, <3>1, DoneIs
  <2>4. CASE r[1] = "pause"
    <3>1. Fine(With(m, IF m.state = "play" THEN "pause"
                       ELSE IF m.state = "pause" THEN "play" ELSE m.state, m.song, m.elapsed))
      BY <1>2, <1>3
    <3> QED BY <2>4, <3>1, DoneIs
  <2>5. CASE r[1] = "stop"
    <3>1. Fine(With(m, "stop", m.song, 0))
      BY <1>2, <1>3
    <3> QED BY <2>5, <3>1, DoneIs
  <2>6. CASE r[1] = "play"
    <3>1. Fine(m)
      BY DEF Fine
    <3>2. ASSUME m.len # 0
          PROVE  Fine(With(m, "play", IF m.song = None THEN 1 ELSE m.song, m.elapsed))
      <4>1. CASE m.song = None
        BY <1>2, <1>3, <3>2, <4>1 DEF None
      <4>2. CASE m.song # None
        BY <1>2, <1>3, <3>2, <4>2
      <4> QED BY <4>1, <4>2
    <3> QED BY <2>6, <3>1, <3>2, DoneIs
  <2>7. CASE r[1] \in {"previous", "previous+pause"}
    <3>1. m.song # None
      BY <1>3, <2>7 DEF Refused, Playable
    <3>2. \A state \in {"play", "pause"} : Fine(With(m, state, Before(m), 0))
      BY <1>2, <3>1, BeforeType
    <3> QED BY <2>7, <3>2, DoneIs
  <2>8. CASE r[1] = "seekcur"
    <3>1. r[2] \in Nat
      BY <2>8 DEF IsRequest, Plain
    <3>2. Fine(With(m, m.state, m.song, r[2]))
      BY <1>2, <1>3, <3>1
    <3> QED BY <2>8, <3>2, DoneIs
  <2>9. CASE r[1] = "seekcur+"
    <3>1. r[2] \in Int
      BY <2>9 DEF IsRequest, Plain
    <3>2. Within(m, m.elapsed + r[2]) \in Nat
      BY <1>3, <3>1 DEF Within
    <3>3. Fine(With(m, m.state, m.song, Within(m, m.elapsed + r[2])))
      BY <1>2, <1>3, <3>2
    <3> QED BY <2>9, <3>3, DoneIs
  <2> QED BY <2>1, <2>2, <2>3, <2>4, <2>5, <2>6, <2>7, <2>8, <2>9 DEF IsRequest, Plain
<1> QED BY <1>1, <1>4

LEMMA CarriedType ==
    ASSUME NEW m, IsMpd(m), NEW r, IsRequest(r), NEW n \in {0, 1, 2}
    PROVE  IsMpd(Carried(m, r, n)) /\ Carried(m, r, n).len = m.len
<1>1. IsMpd(Done(m, r)) /\ Done(m, r).len = m.len
  BY DoneType
<1>2. IsMpd(Done(Done(m, r), r)) /\ Done(Done(m, r), r).len = m.len
  BY <1>1, DoneType
<1> QED BY <1>1, <1>2 DEF Carried

\* A time that is not negative is printed as one.
LEMMA PrintedType ==
    ASSUME NEW t \in Int
    PROVE  Printed(t) \in Int /\ (t >= 0 => Printed(t) \in Nat)
           /\ Magnitude(t) \in Nat /\ Printed(Magnitude(t)) \in Int
<1>1. \A u \in Int : Printed(u) \in Int /\ (u >= 0 => Printed(u) \in Nat)
  <2> TAKE u \in Int
  <2> DEFINE ms == u % 1000
  <2>1. ms \in 0..999 /\ (u >= 0 => ms <= u)
    OBVIOUS
  <2> HIDE DEF ms
  <2>2. Printed(u) = u - ms + (IF ms < 10 THEN 100 * ms ELSE IF ms < 100 THEN 10 * ms ELSE ms)
    BY DEF Printed, ms
  <2> QED BY <2>1, <2>2
<1>2. Magnitude(t) \in Nat
  BY DEF Magnitude
<1> QED BY <1>1, <1>2
(***************************************************************************)
(* Steps                                                                   *)
(***************************************************************************)
\* What a method decides on.
CallIsFor(c, method, t, r) ==
    /\ c.method = method /\ c.time = t /\ c.request = r

LEMMA CallIs ==
    ASSUME NEW method, NEW t, NEW r
    PROVE  LET c == Call(method, t, r)
           IN  /\ CallIsFor(c, method, t, r)
               /\ c.ran = 0 /\ c.refused = FALSE /\ c.at = OrElse(cache.elapsed, 0)
               /\ c.before = mpd /\ (c.fresh => cache = Fetched(mpd))
               /\ c = CallRecord(c, c.request, c.ran, c.refused, c.alone)
BY DEF Call, CallIsFor, CallRecord

LEMMA FetchedType == ASSUME NEW m, IsMpd(m) PROVE IsCache(Fetched(m))
<1>1. m.elapsed \in Int /\ None \in Int
  BY DEF IsMpd, None
<1>2. Fetched(m).elapsed \in Int
  BY <1>1 DEF Fetched
<1> QED BY <1>2, FollowsType DEF IsCache, Fetched

LEMMA NextRequestIs ==
    ASSUME NEW f, NextRequest(f) # <<>>
    PROVE  \/ f.next # None /\ NextRequest(f) = <<"seekid", f.next>>
           \/ NextRequest(f) = <<"pause1">>
BY DEF NextRequest

\* Only set_position and seek ask MPD to seek within the song.
LEMMA DecidedAsks ==
    ASSUME NEW c, NEW f, DecidedOn(c, f), c.request # <<>> PROVE AsksToSeek(c)
<1>1. NextRequest(f) # <<>> => NextRequest(f)[1] \in {"seekid", "pause1"}
  BY NextRequestIs
<1>2. PreviousRequest(f) # <<>>
        => PreviousRequest(f)[1] \in {"previous+pause", "previous", "stop"}
  BY DEF PreviousRequest
<1>3. Diverted[1] = ""
  BY DEF Diverted
<1> QED BY <1>1, <1>2, <1>3 DEF DecidedOn, AsksToSeek

LEMMA InitIInv == Init => IInv
<1> SUFFICES ASSUME Init PROVE IInv
  OBVIOUS
<1>1. IsMpd(mpd)
  <2>1. CASE mpd \in [state : {"play", "pause", "stop"}, song : Songs, elapsed : Progress,
                      len : Songs, repeat : BOOLEAN]
    <3>1. /\ mpd.state \in {"play", "pause", "stop"} /\ mpd.song \in Songs
          /\ mpd.elapsed \in Progress /\ mpd.len \in Songs /\ mpd.song <= mpd.len
          /\ mpd = [state |-> mpd.state, song |-> mpd.song, elapsed |-> mpd.elapsed,
                    len |-> mpd.len, repeat |-> mpd.repeat]
      BY <2>1 DEF Init
    <3>2. mpd.song \in Nat \ {0} /\ mpd.len \in Nat /\ mpd.elapsed \in Nat
      BY <3>1, PlayerAssumption
    <3>3. mpd.song # None
      BY <3>2 DEF None
    <3>4. 1 <= mpd.song /\ mpd.song \in Int
      BY <3>2
    <3> QED BY <3>1, <3>2, <3>3, <3>4 DEF IsMpd
  <2>2. ASSUME NEW r \in BOOLEAN,
               mpd = [state |-> "stop", song |-> None, elapsed |-> 0, len |-> 0, repeat |-> r]
        PROVE  IsMpd(mpd)
    BY <2>2 DEF IsMpd, None
  <2> QED BY <2>1, <2>2 DEF Init
<1>2. IsCache(cache) /\ call = NoCall
  BY <1>1, FetchedType DEF Init
<1> QED BY <1>1, <1>2 DEF IInv

\* A method asks for a request it has decided on.
LEMMA BeginsStep ==
    ASSUME IInv, NEW method, NEW t \in Int, NEW r, Begins(method, t, r),
           r = Diverted \/ IsRequest(r),
           \A c : CallIsFor(c, method, t, r) => DecidedOn(c, cache)
    PROVE  IInv'
<1>1. /\ call' = Call(method, t, r) /\ UNCHANGED <<mpd, cache>>
  BY DEF Begins
<1> DEFINE c == Call(method, t, r)
<1>2. /\ CallIsFor(c, method, t, r)
      /\ c.ran = 0 /\ c.refused = FALSE /\ c.at = OrElse(cache.elapsed, 0)
      /\ c.before = mpd /\ (c.fresh => cache = Fetched(mpd))
      /\ c = CallRecord(c, c.request, c.ran, c.refused, c.alone)
  BY CallIs
<1> HIDE DEF c
<1>3. IsCall(c)
  <2>1. c.time \in Int /\ c.request = r /\ c.request # <<>>
    BY <1>2 DEF CallIsFor, Begins
  <2>2. IsMpd(c.before)
    BY <1>2 DEF IInv
  <2>3. c.at \in Int
    BY <1>2 DEF IInv, IsCache, OrElse
  <2>4. AsksToSeek(c)
    BY <1>2, <2>1, DecidedAsks
  <2> QED BY <1>2, <2>1, <2>2, <2>3, <2>4 DEF IsCall
<1>4. mpd = Carried(c.before, c.request, c.ran)
  BY <1>2 DEF Carried
<1>5. Taken(c.before, c.request, c.ran)
  BY <1>2 DEF Taken
<1>6. Undisturbed(c)
  BY <1>2, <1>4, <1>5 DEF Undisturbed
<1>7. call' = c
  BY <1>1 DEF c
<1> QED BY <1>1, <1>3, <1>6, <1>7 DEF IInv, Undisturbed

\* The requests that are decided on can be made.
LEMMA PlainRequest == ASSUME NEW v \in Plain PROVE IsRequest(<<v>>) /\ <<v>>[1] = v
<1>1. <<v>>[1] = v
  OBVIOUS
<1> QED BY <1>1 DEF IsRequest

LEMMA NextRequestType ==
    ASSUME NEW f, IsCache(f), NextRequest(f) # <<>> PROVE IsRequest(NextRequest(f))
<1>1. CASE f.next # None /\ NextRequest(f) = <<"seekid", f.next>>
  <2>1. f.next \in Nat \ {0}
    BY <1>1 DEF IsCache
  <2>2. NextRequest(f)[1] = "seekid" /\ NextRequest(f)[2] = f.next
    BY <1>1
  <2> QED BY <2>1, <2>2 DEF IsRequest
<1>2. CASE NextRequest(f) = <<"pause1">>
  BY <1>2, PlainRequest DEF Plain
<1> QED BY <1>1, <1>2, NextRequestIs

LEMMA SeekRequestType ==
    ASSUME NEW t \in Int PROVE IsRequest(SeekRequest(t))
<1>1. SeekRequest(t)[1] = "seekcur+"
  BY DEF SeekRequest
<1>2. SeekRequest(t)[2] \in Int
  BY PrintedType DEF SeekRequest
<1> QED BY <1>1, <1>2 DEF IsRequest

LEMMA PreviousRequestType ==
    ASSUME NEW f, PreviousRequest(f) # <<>> PROVE IsRequest(PreviousRequest(f))
<1>1. PreviousRequest(f) \in {<<"previous+pause">>, <<"previous">>, <<"stop">>}
  BY DEF PreviousRequest
<1> QED BY <1>1, PlainRequest DEF Plain

LEMMA MethodsStep == ASSUME IInv, Methods PROVE IInv'
<1> USE DEF CallIsFor
<1>0. 0 \in Int
  OBVIOUS
<1>1. CASE next
  <2> PICK r : r = NextRequest(cache)
    OBVIOUS
  <2>1. r # <<>> /\ Begins("next", 0, r)
    BY <1>1 DEF next, Begins
  <2>2. IsRequest(r)
    BY <2>1, NextRequestType DEF IInv
  <2>3. \A c : CallIsFor(c, "next", 0, r) => DecidedOn(c, cache)
    BY DEF DecidedOn
  <2> QED BY <1>0, <2>1, <2>2, <2>3, BeginsStep
<1>2. CASE previous
  <2> PICK r : r = PreviousRequest(cache)
    OBVIOUS
  <2>1. r # <<>> /\ Begins("previous", 0, r)
    BY <1>2 DEF previous, Begins
  <2>2. IsRequest(r)
    BY <2>1, PreviousRequestType
  <2>3. \A c : CallIsFor(c, "previous", 0, r) => DecidedOn(c, cache)
    BY DEF DecidedOn
  <2> QED BY <1>0, <2>1, <2>2, <2>3, BeginsStep
<1>3. ASSUME NEW method \in {"play_pause", "stop", "play", "pause"},
             NEW v \in {"pause", "stop", "play", "pause1"}, Begins(method, 0, <<v>>)
      PROVE  IInv'
  <2>1. IsRequest(<<v>>) /\ <<v>>[1] = v
    BY PlainRequest DEF Plain
  <2>2. \A c : CallIsFor(c, method, 0, <<v>>) => DecidedOn(c, cache)
    BY <2>1 DEF DecidedOn
  <2> QED BY <1>0, <1>3, <2>1, <2>2, BeginsStep
<1>4. CASE play_pause \/ stop \/ play \/ pause
  <2>1. CASE play_pause
    <3>1. PlayPauseRequest(cache) = <<"pause">>
      BY <2>1 DEF play_pause, Begins, PlayPauseRequest
    <3> QED BY <1>3, <2>1, <3>1 DEF play_pause
  <2> QED BY <1>3, <1>4, <2>1 DEF stop, play, pause
<1>5. ASSUME NEW t \in Times, seek(t) PROVE IInv'
  <2>1. t \in Int
    BY PlayerAssumption
  <2> PICK r : r = IF PastEnd(cache, t) THEN Diverted ELSE SeekRequest(t)
    OBVIOUS
  <2>2. Begins("seek", t, r)
    BY <1>5 DEF seek
  <2>3. r = Diverted \/ IsRequest(r)
    BY <2>1, SeekRequestType
  <2>4. \A c : CallIsFor(c, "seek", t, r) => DecidedOn(c, cache)
    BY DEF DecidedOn
  <2> QED BY <2>1, <2>2, <2>3, <2>4, BeginsStep
<1>6. ASSUME NEW t \in Times, NEW id \in Songs, set_position(id, t) PROVE IInv'
  <2>1. t \in Int
    BY PlayerAssumption
  <2>2. /\ t >= 0
        /\ SetPositionRequest(cache, id, t) = <<"seekcur", Printed(t)>>
    BY <1>6, <2>1 DEF set_position, Begins, SetPositionRequest
  <2>3. IsRequest(<<"seekcur", Printed(t)>>)
    BY <2>1, <2>2, PrintedType DEF IsRequest
  <2>4. \A c : CallIsFor(c, "set_position", t, <<"seekcur", Printed(t)>>)
               => DecidedOn(c, cache)
    BY <2>2 DEF DecidedOn
  <2> QED BY <1>6, <2>1, <2>2, <2>3, <2>4, BeginsStep DEF set_position
<1> QED BY <1>1, <1>2, <1>4, <1>5, <1>6 DEF Methods
\* An update of a call's record: the other fields stay.
LEMMA CallDomain ==
    ASSUME NEW c, IsCall(c)
    PROVE  DOMAIN c = {"method", "time", "request", "ran", "refused", "at", "before",
                       "fresh", "alone"}
BY DEF IsCall, CallRecord

LEMMA RequestReplaced ==
    ASSUME NEW c, IsCall(c), NEW x
    PROVE  [c EXCEPT !.request = x] = CallRecord(c, x, c.ran, c.refused, c.alone)
BY CallDomain DEF CallRecord

LEMMA RanReplaced ==
    ASSUME NEW c, IsCall(c), NEW x, NEW y
    PROVE  [c EXCEPT !.ran = x, !.refused = y] = CallRecord(c, c.request, x, y, c.alone)
<1>1. [c EXCEPT !.ran = x, !.refused = y]
        = [f \in DOMAIN c |-> IF f = "refused" THEN y ELSE IF f = "ran" THEN x ELSE c[f]]
  BY CallDomain
<1> QED BY <1>1, CallDomain DEF CallRecord

LEMMA AloneReplaced ==
    ASSUME NEW c, IsCall(c), NEW x
    PROVE  [c EXCEPT !.alone = x] = CallRecord(c, c.request, c.ran, c.refused, x)
BY CallDomain DEF CallRecord

LEMMA RecordFields ==
    ASSUME NEW c, NEW request, NEW ran, NEW refused, NEW alone
    PROVE  LET d == CallRecord(c, request, ran, refused, alone)
           IN  /\ d.method = c.method /\ d.time = c.time
               /\ d.request = request /\ d.ran = ran /\ d.refused = refused
               /\ d.at = c.at /\ d.before = c.before /\ d.fresh = c.fresh
               /\ d.alone = alone
               /\ d = CallRecord(d, d.request, d.ran, d.refused, d.alone)
BY DEF CallRecord

LEMMA SeekDivertsStep == ASSUME IInv, SeekDiverts PROVE IInv'
<1>1. /\ call # NoCall /\ call.request = Diverted /\ UNCHANGED <<mpd, cache>>
      /\ IsCall(call) /\ Undisturbed(call) /\ IsMpd(mpd) /\ IsCache(cache)
  BY DEF SeekDiverts, IInv
<1>2. CASE call' = NoCall
  BY <1>1, <1>2 DEF IInv
<1>3. CASE NextRequest(cache) # <<>> /\ call' = [call EXCEPT !.request = NextRequest(cache)]
  <2> PICK c : c = CallRecord(call, NextRequest(cache), call.ran, call.refused, call.alone)
    OBVIOUS
  <2>1. call' = c
    BY <1>1, <1>3, RequestReplaced
  <2>2. /\ c.method = call.method /\ c.time = call.time
        /\ c.request = NextRequest(cache) /\ c.ran = call.ran
        /\ c.refused = call.refused /\ c.at = call.at /\ c.before = call.before
        /\ c.fresh = call.fresh /\ c.alone = call.alone
        /\ c = CallRecord(c, c.request, c.ran, c.refused, c.alone)
    BY RecordFields
  <2>4. IsRequest(c.request)
    BY <1>1, <1>3, <2>2, NextRequestType
  <2>3. AsksToSeek(c)
    <3>1. c.request[1] \in {"seekid", "pause1"}
      BY <1>3, <2>2, NextRequestIs
    <3> QED BY <3>1 DEF AsksToSeek
  <2>5. IsCall(c) /\ c.ran = 0
    BY <1>1, <1>3, <2>2, <2>3, <2>4 DEF IsCall
  <2>6. c.alone => mpd = Carried(c.before, c.request, c.ran)
    BY <1>1, <2>2, <2>5 DEF Undisturbed, Carried
  <2>7. Taken(c.before, c.request, c.ran)
    BY <2>5 DEF Taken
  <2>8. call.alone /\ call.fresh => call.method = "seek"
    <3>1. call.alone /\ call.fresh => DecidedOn(call, cache)
      BY <1>1 DEF Undisturbed
    <3>2. ~IsRequest(Diverted)
      BY DEF IsRequest, Diverted, Plain
    <3>3. call.method = "next" => NextRequest(cache) # Diverted
      BY <1>1, <1>3, <3>2, NextRequestType
    <3>4. PreviousRequest(cache) # Diverted
      <4>1. PreviousRequest(cache) # <<>> => PreviousRequest(cache) # Diverted
        BY <3>2, PreviousRequestType
      <4>2. <<>> # Diverted
        BY DEF Diverted
      <4> QED BY <4>1, <4>2
    <3>5. <<"seekcur", Printed(call.time)>> # Diverted
      BY DEF Diverted
    <3>6. Diverted[1] \notin {"pause", "stop", "play", "pause1"}
      BY <3>2 DEF IsRequest, Plain
    <3> QED BY <1>1, <1>3, <3>1, <3>3, <3>4, <3>5, <3>6 DEF DecidedOn
  <2>9. c.alone /\ c.fresh => /\ cache = Fetched(c.before) /\ DecidedOn(c, cache)
                              /\ c.at = OrElse(cache.elapsed, 0)
    BY <1>1, <2>2, <2>8 DEF Undisturbed, DecidedOn
  <2>10. Undisturbed(c)
    BY <2>6, <2>7, <2>9 DEF Undisturbed
  <2> QED BY <1>1, <2>1, <2>5, <2>10 DEF IInv, Undisturbed
<1> QED BY <1>2, <1>3 DEF SeekDiverts

LEMMA CarryOutStep == ASSUME IInv, CarryOut PROVE IInv'
<1>1. /\ call # NoCall /\ call.request # Diverted /\ call.ran < 2
      /\ mpd' = Done(mpd, call.request) /\ UNCHANGED cache
      /\ IsCall(call) /\ Undisturbed(call) /\ IsMpd(mpd) /\ IsCache(cache)
  BY DEF CarryOut, IInv
<1> PICK n : n = call.ran + 1
  OBVIOUS
<1> PICK w : w = (call.refused \/ Refused(mpd, call.request))
  OBVIOUS
<1> PICK c : c = CallRecord(call, call.request, n, w, call.alone)
  OBVIOUS
<1>2. call' = c
  <2>1. call' = [call EXCEPT !.ran = n, !.refused = w]
    BY DEF CarryOut
  <2> QED BY <1>1, <2>1, RanReplaced
<1>3. call.ran \in {0, 1}
  BY <1>1 DEF IsCall
<1>4. n \in {1, 2} /\ (call.ran = 0 => n = 1) /\ (call.ran = 1 => n = 2)
  BY <1>3
<1>5. w \in BOOLEAN /\ (~w => ~call.refused /\ ~Refused(mpd, call.request))
  OBVIOUS
<1>6. /\ c.method = call.method /\ c.time = call.time
      /\ c.request = call.request /\ c.ran = n /\ c.refused = w /\ c.at = call.at
      /\ c.before = call.before /\ c.fresh = call.fresh /\ c.alone = call.alone
      /\ c = CallRecord(c, c.request, c.ran, c.refused, c.alone)
  BY RecordFields
<1>8. IsRequest(call.request) /\ IsMpd(call.before) /\ call.time \in Int
  BY <1>1 DEF IsCall
<1>9. IsMpd(mpd')
  BY <1>1, <1>8, DoneType
<1>10. IsCall(c)
  BY <1>1, <1>4, <1>5, <1>6, <1>8 DEF IsCall, AsksToSeek
<1>11. ASSUME call.alone PROVE mpd = Carried(call.before, call.request, call.ran)
                               /\ mpd' = Carried(call.before, call.request, n)
  <2>1. mpd = Carried(call.before, call.request, call.ran)
    BY <1>1, <1>11 DEF Undisturbed
  <2>2. CASE call.ran = 0
    BY <1>1, <1>4, <2>1, <2>2 DEF Carried
  <2>3. CASE call.ran = 1
    BY <1>1, <1>4, <2>1, <2>3 DEF Carried
  <2> QED BY <1>3, <2>1, <2>2, <2>3
<1>12. ASSUME call.alone, ~w PROVE Taken(call.before, call.request, n)
  <2>1. Taken(call.before, call.request, call.ran)
    BY <1>1, <1>5, <1>12 DEF Undisturbed
  <2>2. CASE call.ran = 0
    <3>1. ~Refused(call.before, call.request)
      BY <1>5, <1>11, <1>12, <2>2 DEF Carried
    <3> QED BY <1>4, <2>2, <3>1 DEF Taken
  <2>3. CASE call.ran = 1
    <3>1. ~Refused(Done(call.before, call.request), call.request)
      BY <1>5, <1>11, <1>12, <2>3 DEF Carried
    <3>2. ~Refused(call.before, call.request)
      BY <2>1, <2>3 DEF Taken
    <3> QED BY <3>1, <3>2 DEF Taken
  <2> QED BY <1>3, <2>2, <2>3
<1>13. Undisturbed(c)'
  <2>1. c.alone => /\ mpd' = Carried(c.before, c.request, c.ran)
                   /\ ~c.refused => Taken(c.before, c.request, c.ran)
    BY <1>6, <1>11, <1>12
  <2>2. DecidedOn(call, cache) => DecidedOn(c, cache)
    BY <1>6 DEF DecidedOn
  <2>3. c.alone /\ c.fresh => /\ cache = Fetched(c.before) /\ DecidedOn(c, cache)
                              /\ c.at = OrElse(cache.elapsed, 0)
    BY <1>1, <1>6, <2>2 DEF Undisturbed
  <2> QED BY <1>1, <2>1, <2>3 DEF Undisturbed
<1> QED BY <1>1, <1>2, <1>9, <1>10, <1>13 DEF IInv
\* The cache is taken over between calls, or while a diverted seek lets go of it:
\* then MPD is as it was when the call began, unless somebody else moved it.
LEMMA UpdateStep == ASSUME IInv, Update PROVE IInv'
<1>1. /\ cache' = Fetched(mpd) /\ UNCHANGED <<mpd, call>> /\ IsMpd(mpd)
      /\ call # NoCall => call.request = Diverted
  BY DEF Update, IInv
<1>2. IsCache(cache')
  BY <1>1, FetchedType
<1>3. CASE call = NoCall
  BY <1>1, <1>2, <1>3 DEF IInv
<1>4. CASE call # NoCall
  <2>1. IsCall(call) /\ Undisturbed(call) /\ call.request = Diverted /\ call.ran = 0
    BY <1>1, <1>4 DEF IInv, IsCall
  <2>2. call.alone => mpd = call.before
    BY <2>1 DEF Undisturbed, Carried
  <2>3. ASSUME call.alone, call.fresh
        PROVE  cache' = Fetched(call.before) /\ cache' = cache
    BY <1>1, <2>1, <2>2, <2>3 DEF Undisturbed
  <2>4. ASSUME call.alone, call.fresh
        PROVE  DecidedOn(call, cache') /\ call.at = OrElse(cache'.elapsed, 0)
    BY <2>1, <2>3, <2>4 DEF Undisturbed
  <2>5. Undisturbed(call)'
    BY <1>1, <2>1, <2>3, <2>4 DEF Undisturbed
  <2> QED BY <1>1, <1>2, <2>1, <2>5 DEF IInv
<1> QED BY <1>3, <1>4

\* What other clients ask for can be asked for.
LEMMA MovesType == ASSUME IInv, MpdMoves PROVE IsMpd(mpd')
<1>1. /\ IsMpd(mpd) /\ mpd.state \in {"play", "pause", "stop"} /\ mpd.song \in Int
      /\ mpd.len \in Nat
      /\ mpd.song # None => 1 <= mpd.song /\ mpd.song <= mpd.len
      /\ mpd.state # "stop" => mpd.song # None
  BY DEF IInv, IsMpd
<1>2. ASSUME NEW t \in Progress, mpd.state = "play", mpd' = At(mpd, mpd.song, t)
      PROVE  IsMpd(mpd')
  <2>1. t \in Nat
    BY PlayerAssumption
  <2>2. IsMpd(With(mpd, mpd.state, mpd.song, t))
    BY <1>1, <2>1, WithIsMpd
  <2>3. At(mpd, mpd.song, t) = With(mpd, mpd.state, mpd.song, t)
    BY <1>1, AtIs
  <2> QED BY <1>2, <2>2, <2>3
<1>3. ASSUME mpd.state = "play", mpd' = Ended(mpd) PROVE IsMpd(mpd')
  <2>1. <<"next">>[1] = "next" /\ IsRequest(<<"next">>)
    BY PlainRequest DEF Plain
  <2>2. ~Refused(mpd, <<"next">>)
    BY <1>3, <2>1 DEF Refused, Playable
  <2>3. Done(mpd, <<"next">>) = Ended(mpd)
    BY <2>1, <2>2 DEF Done
  <2>4. IsMpd(Done(mpd, <<"next">>))
    BY <1>1, <2>1, DoneType
  <2> QED BY <1>3, <2>3, <2>4
<1>4. ASSUME NEW s \in 1..mpd.len, mpd' = Done(mpd, <<"seekid", s>>) PROVE IsMpd(mpd')
  <2>1. IsRequest(<<"seekid", s>>)
    <3>1. s \in Nat \ {0}
      BY <1>1
    <3>2. <<"seekid", s>>[1] = "seekid" /\ <<"seekid", s>>[2] = s
      OBVIOUS
    <3> QED BY <3>1, <3>2 DEF IsRequest
  <2> QED BY <1>1, <1>4, <2>1, DoneType
<1>5. ASSUME NEW v \in {"pause", "stop", "play"}, mpd' = Done(mpd, <<v>>) PROVE IsMpd(mpd')
  <2>1. IsRequest(<<v>>)
    BY PlainRequest DEF Plain
  <2> QED BY <1>1, <1>5, <2>1, DoneType
<1>6. ASSUME mpd' = [mpd EXCEPT !.repeat = ~@] PROVE IsMpd(mpd')
  <2>1. DOMAIN mpd = {"state", "song", "elapsed", "len", "repeat"}
    BY <1>1, Fields
  <2>2. /\ mpd'.state = mpd.state /\ mpd'.song = mpd.song /\ mpd'.elapsed = mpd.elapsed
        /\ mpd'.len = mpd.len
    BY <1>6, <2>1
  <2>3. mpd' = [state |-> mpd'.state, song |-> mpd'.song, elapsed |-> mpd'.elapsed,
                len |-> mpd'.len, repeat |-> mpd'.repeat]
    BY <1>6, <2>1
  <2> QED BY <1>1, <2>2, <2>3 DEF IsMpd
<1> QED BY <1>2, <1>3, <1>4, <1>5, <1>6 DEF MpdMoves

LEMMA MpdMovesStep == ASSUME IInv, MpdMoves PROVE IInv'
<1>1. IsMpd(mpd') /\ IsCache(cache') /\ call' = Alone(call, FALSE)
  BY MovesType DEF IInv, MpdMoves
<1>2. CASE call = NoCall
  BY <1>1, <1>2 DEF Alone, IInv
<1>3. CASE call # NoCall
  <2> PICK b : b = FALSE
    OBVIOUS
  <2> PICK c : c = CallRecord(call, call.request, call.ran, call.refused, b)
    OBVIOUS
  <2>1. IsCall(call)
    BY <1>3 DEF IInv
  <2>2. call' = c
    BY <1>1, <1>3, <2>1, AloneReplaced DEF Alone
  <2>3. /\ c.method = call.method /\ c.time = call.time
        /\ c.request = call.request /\ c.ran = call.ran /\ c.refused = call.refused
        /\ c.at = call.at /\ c.before = call.before /\ c.fresh = call.fresh
        /\ c.alone = b
        /\ c = CallRecord(c, c.request, c.ran, c.refused, c.alone)
    BY RecordFields
  <2>4. IsCall(c)
    BY <2>1, <2>3 DEF IsCall, AsksToSeek
  <2>5. Undisturbed(c)'
    BY <2>3 DEF Undisturbed
  <2> QED BY <1>1, <2>2, <2>4, <2>5 DEF IInv, Undisturbed
<1> QED BY <1>2, <1>3

LEMMA NextIInv == IInv /\ [Next]_vars => IInv'
<1> SUFFICES ASSUME IInv, [Next]_vars PROVE IInv'
  OBVIOUS
<1>1. CASE UNCHANGED vars
  BY <1>1 DEF vars, IInv, Undisturbed
<1>2. CASE Returns
  BY <1>2 DEF Returns, IInv
<1> QED BY <1>1, <1>2, MethodsStep, SeekDivertsStep, CarryOutStep, UpdateStep, MpdMovesStep
        DEF Next, Waits

LEMMA Invariance == Spec => []IInv
<1> QED BY InitIInv, NextIInv, PTL DEF Spec
(***************************************************************************)
(* The promises of the methods                                             *)
(***************************************************************************)
\* What MPD did for a call that nobody disturbed.
LEMMA AloneCall ==
    ASSUME IInv, call # NoCall, call.ran > 0, call.alone
    PROVE  /\ IsCall(call) /\ IsMpd(call.before) /\ IsRequest(call.request)
           /\ call.request # Diverted /\ call.request # <<>> /\ call.time \in Int
           /\ \/ call.ran = 1 /\ mpd = Done(call.before, call.request)
              \/ call.ran = 2 /\ mpd = Done(Done(call.before, call.request), call.request)
           /\ ~call.refused => Taken(call.before, call.request, call.ran)
<1>2. IsCall(call) /\ Undisturbed(call)
  BY DEF IInv
<1>3. call.ran \in {1, 2}
  BY <1>2 DEF IsCall
<1>4. call.ran # 0
  BY <1>3
<1>5. call.request # Diverted /\ IsRequest(call.request) /\ IsMpd(call.before)
      /\ call.request # <<>> /\ call.time \in Int
  BY <1>2, <1>4 DEF IsCall
<1>6. mpd = Carried(call.before, call.request, call.ran)
  BY <1>2 DEF Undisturbed
<1>7. CASE call.ran = 1
  <2>1. mpd = Done(call.before, call.request)
    BY <1>6, <1>7 DEF Carried
  <2> QED BY <1>2, <1>5, <1>7, <2>1 DEF Undisturbed
<1>8. CASE call.ran = 2
  <2>1. mpd = Done(Done(call.before, call.request), call.request)
    BY <1>6, <1>8 DEF Carried
  <2> QED BY <1>2, <1>5, <1>8, <2>1 DEF Undisturbed
<1> QED BY <1>3, <1>7, <1>8

\* What it decided on, if the cache was what MPD said.
LEMMA SettledCall ==
    ASSUME IInv, Settled
    PROVE  /\ IsMpd(call.before) /\ IsRequest(call.request)
           /\ call.request # Diverted /\ call.request # <<>>
           /\ \/ mpd = Done(call.before, call.request)
              \/ mpd = Done(Done(call.before, call.request), call.request)
           /\ DecidedOn(call, Fetched(call.before))
<1>1. call # NoCall /\ call.ran > 0 /\ call.fresh /\ call.alone
  BY DEF Settled
<1>2. Undisturbed(call)
  BY <1>1 DEF IInv
<1>3. DecidedOn(call, Fetched(call.before))
  BY <1>1, <1>2 DEF Undisturbed
<1> QED BY <1>1, <1>3, AloneCall

\* A jump to a song of the queue lands there, and does again.
LEMMA SeekIdLands ==
    ASSUME NEW m, IsMpd(m), NEW s \in Nat \ {0}, s <= m.len
    PROVE  LET r == <<"seekid", s>>
           IN  Done(m, r).song = s /\ Done(Done(m, r), r).song = s
<1> DEFINE r == <<"seekid", s>>
<1>1. r[1] = "seekid" /\ r[2] = s
  OBVIOUS
<1> HIDE DEF r
<1>2. ASSUME NEW k, IsMpd(k), k.len = m.len PROVE Done(k, r).song = s
  <2>1. k.len \in Nat
    BY <1>2 DEF IsMpd
  <2>2. ~Refused(k, r)
    BY <1>1, <1>2, <2>1 DEF Refused
  <2> QED BY <1>1, <1>2, <2>2, DoneIs, ExceptsWith
<1>3. IsRequest(r)
  BY <1>1 DEF IsRequest
<1>4. IsMpd(Done(m, r)) /\ Done(m, r).len = m.len
  BY <1>3, DoneType
<1> QED BY <1>2, <1>4 DEF r

LEMMA NextLands == IInv => NextLandsOnce
<1> SUFFICES ASSUME IInv, Settled, call.method \in {"next", "seek"},
                    call.request[1] \in {"seekid", "next"}
             PROVE  mpd.song = Follows(call.before)
  BY DEF NextLandsOnce
<1>1. /\ IsMpd(call.before) /\ IsRequest(call.request) /\ call.request # Diverted
      /\ DecidedOn(call, Fetched(call.before))
      /\ \/ mpd = Done(call.before, call.request)
         \/ mpd = Done(Done(call.before, call.request), call.request)
  BY SettledCall
<1> DEFINE f == Fetched(call.before)
<1>2. f.next = Follows(call.before)
  BY DEF Fetched
<1> HIDE DEF f
<1>3. SeekRequest(call.time)[1] = "seekcur+"
  BY DEF SeekRequest
<1>4. call.request = NextRequest(f)
  <2>1. DecidedOn(call, f)
    BY <1>1 DEF f
  <2> QED BY <1>1, <1>3, <2>1 DEF DecidedOn
<1>5. f.next # None /\ call.request = <<"seekid", f.next>>
  <2>1. <<"pause1">>[1] = "pause1"
    OBVIOUS
  <2>2. call.request # <<>>
    BY SettledCall
  <2> QED BY <1>4, <2>1, <2>2, NextRequestIs
<1>6. f.next \in Nat \ {0} /\ f.next <= call.before.len
  BY <1>1, <1>2, <1>5, FollowsType
<1> QED BY <1>1, <1>2, <1>5, <1>6, SeekIdLands
\* A step of MPD for previous that leaves the state as it is.
LEMMA PreviousKeeps ==
    ASSUME NEW m, IsMpd(m), NEW r, r = PreviousRequest(Fetched(m)), r # <<>>,
           NEW k, IsMpd(k), k.state = m.state
    PROVE  Done(k, r).state = m.state
<1>1. Fetched(m).len = m.len /\ Fetched(m).state = m.state
  BY DEF Fetched
<1>2. CASE m.state # "play" /\ r = <<"previous+pause">>
  <2>1. r[1] = "previous+pause"
    BY <1>2
  <2>2. CASE Refused(k, r)
    BY <2>2 DEF Done
  <2>3. CASE ~Refused(k, r)
    <3>1. k.state = "pause"
      BY <1>2, <2>1, <2>3 DEF Refused, Playable, IsMpd
    <3>2. Done(k, r).state = "pause"
      BY <2>1, <2>3, DoneIs, ExceptsWith
    <3> QED BY <3>1, <3>2
  <2> QED BY <2>2, <2>3
<1>3. CASE m.state = "play" /\ r = <<"previous">>
  <2>1. r[1] = "previous"
    BY <1>3
  <2>2. CASE Refused(k, r)
    BY <2>2 DEF Done
  <2>3. CASE ~Refused(k, r)
    BY <1>3, <2>1, <2>3, DoneIs, ExceptsWith
  <2> QED BY <2>2, <2>3
<1>4. CASE ~(m.len >= 1) /\ r = <<"stop">>
  <2>1. r[1] = "stop"
    BY <1>4
  <2>2. m.state = "stop"
    <3>1. m.len \in Nat /\ m.song \in Int /\ (m.song # None => 1 <= m.song /\ m.song <= m.len)
      BY DEF IsMpd
    <3>2. m.song = None
      BY <1>4, <3>1
    <3> QED BY <3>2 DEF IsMpd
  <2>3. CASE Refused(k, r)
    BY <2>3 DEF Done
  <2>4. CASE ~Refused(k, r)
    BY <2>1, <2>2, <2>4, DoneIs, ExceptsWith
  <2> QED BY <2>3, <2>4
<1> QED BY <1>1, <1>2, <1>3, <1>4 DEF PreviousRequest

LEMMA PreviousKeepsItsState == IInv => PreviousKeepsState
<1> SUFFICES ASSUME IInv, Settled, call.method = "previous"
             PROVE  mpd.state = call.before.state
  BY DEF PreviousKeepsState
<1>1. /\ IsMpd(call.before) /\ IsRequest(call.request) /\ call.request # <<>>
      /\ DecidedOn(call, Fetched(call.before))
      /\ \/ mpd = Done(call.before, call.request)
         \/ mpd = Done(Done(call.before, call.request), call.request)
  BY SettledCall
<1>2. call.request = PreviousRequest(Fetched(call.before))
  BY <1>1 DEF DecidedOn
<1>3. Done(call.before, call.request).state = call.before.state
  BY <1>1, <1>2, PreviousKeeps
<1>4. IsMpd(Done(call.before, call.request))
  BY <1>1, DoneType
<1>5. Done(Done(call.before, call.request), call.request).state = call.before.state
  BY <1>1, <1>2, <1>3, <1>4, PreviousKeeps
<1> QED BY <1>1, <1>3, <1>5

\* What set_position asks for moves within the current song.
LEMMA SeekCurIs ==
    ASSUME NEW m, IsMpd(m), NEW x \in Nat
    PROVE  LET r == <<"seekcur", x>>
           IN  /\ IsMpd(Done(m, r))
               /\ ~Refused(m, r) => Done(m, r).elapsed = x
<1> DEFINE r == <<"seekcur", x>>
<1>1. r[1] = "seekcur" /\ r[2] = x
  OBVIOUS
<1> HIDE DEF r
<1>2. IsRequest(r)
  BY <1>1 DEF IsRequest
<1>3. CASE Refused(m, r)
  BY <1>3 DEF Done, r
<1>4. CASE ~Refused(m, r)
  <2>1. Done(m, r) = With(m, m.state, m.song, x)
    BY <1>1, <1>4, DoneIs
  <2> QED BY <1>2, <2>1, DoneType, ExceptsWith DEF r
<1> QED BY <1>3, <1>4 DEF r

\* Where a set_position that was not refused has taken MPD.
LEMMA SetPositionIs ==
    ASSUME IInv, call # NoCall, call.ran > 0, call.alone, ~call.refused, call.time >= 0,
           call.request = <<"seekcur", Printed(call.time)>>
    PROVE  mpd.elapsed = Printed(call.time)
<1>1. /\ IsMpd(call.before) /\ call.time \in Int
      /\ \/ call.ran = 1 /\ mpd = Done(call.before, call.request)
         \/ call.ran = 2 /\ mpd = Done(Done(call.before, call.request), call.request)
      /\ Taken(call.before, call.request, call.ran)
  BY AloneCall
<1> DEFINE r == <<"seekcur", Printed(call.time)>>
           m == call.before
<1>4. Printed(call.time) \in Nat
  BY <1>1, PrintedType
<1>5. /\ IsMpd(Done(m, r))
      /\ ~Refused(m, r) => Done(m, r).elapsed = Printed(call.time)
  BY <1>1, <1>4, SeekCurIs
<1>6. ~Refused(Done(m, r), r) => Done(Done(m, r), r).elapsed = Printed(call.time)
  BY <1>4, <1>5, SeekCurIs
<1>7. call.request = r /\ call.before = m
  OBVIOUS
<1> HIDE DEF r, m
<1>8. ~Refused(m, r) /\ (call.ran = 2 => ~Refused(Done(m, r), r))
  <2>1. call.ran = 1 \/ call.ran = 2
    BY <1>1
  <2>2. call.ran > 0
    BY <2>1
  <2> QED BY <1>1, <1>7, <2>2 DEF Taken
<1> QED BY <1>1, <1>5, <1>6, <1>7, <1>8

\* What seek asks for once, when it is not refused.
LEMMA SeekCurPlusIs ==
    ASSUME NEW m, IsMpd(m), NEW x \in Nat, ~Refused(m, <<"seekcur+", x>>)
    PROVE  /\ m.state # "stop"
           /\ Done(m, <<"seekcur+", x>>).elapsed = m.elapsed + x
<1> DEFINE r == <<"seekcur+", x>>
<1>1. r[1] = "seekcur+" /\ r[2] = x
  OBVIOUS
<1> HIDE DEF r
<1>2. ~Refused(m, r)
  BY DEF r
<1>3. m.state # "stop"
  BY <1>1, <1>2 DEF Refused, Playable
<1>4. Within(m, m.elapsed + x) = m.elapsed + x
  <2>1. m.elapsed \in Nat
    BY DEF IsMpd
  <2> QED BY <2>1 DEF Within
<1>5. Done(m, r) = With(m, m.state, m.song, Within(m, m.elapsed + x))
  BY <1>1, <1>2, DoneIs
<1>6. Done(m, r).elapsed = m.elapsed + x
  BY <1>4, <1>5, ExceptsWith
<1> QED BY <1>3, <1>6 DEF r

LEMMA SeekedIsTruthful == IInv => SeekedTruthfulForward
<1> SUFFICES ASSUME IInv, call # NoCall, call.ran > 0, call.alone, Seeks, Exact(call.time),
                    call.method = "seek" => (call.time >= 0 /\ call.ran = 1)
             PROVE  Announced = mpd.elapsed + Ahead
  BY DEF SeekedTruthfulForward
<1>1. /\ IsCall(call) /\ IsMpd(call.before) /\ call.time \in Int
      /\ \/ call.ran = 1 /\ mpd = Done(call.before, call.request)
         \/ call.ran = 2 /\ mpd = Done(Done(call.before, call.request), call.request)
      /\ ~call.refused => Taken(call.before, call.request, call.ran)
  BY AloneCall
<1>2. /\ call.request[1] \in {"seekcur", "seekcur+"} /\ ~call.refused
  BY DEF Seeks
<1>3. call.time >= 0 => Printed(call.time) = call.time /\ Magnitude(call.time) = call.time
  BY <1>1 DEF Exact, Magnitude
<1>4. call.at \in Int /\ AsksToSeek(call)
  BY <1>1 DEF IsCall
<1>5. CASE /\ call.method = "set_position" /\ call.time >= 0
           /\ call.request = <<"seekcur", Printed(call.time)>>
  <2>1. mpd.elapsed = Printed(call.time)
    BY <1>2, <1>5, SetPositionIs
  <2>2. Announced = call.time /\ Ahead = 0
    BY <1>5 DEF Announced, Ahead
  <2> QED BY <1>1, <1>3, <1>5, <2>1, <2>2
<1>6. CASE call.method = "seek" /\ call.request = SeekRequest(call.time)
  <2>1. call.time >= 0 /\ call.ran = 1
    BY <1>6
  <2> PICK x : x = IF call.time > 0 THEN Printed(call.time) ELSE -Printed(Magnitude(call.time))
    OBVIOUS
  <2>2. x = call.time /\ x \in Nat
    BY <1>1, <1>3, <2>1
  <2>3. call.request = <<"seekcur+", x>>
    BY <1>6 DEF SeekRequest
  <2>4. ~Refused(call.before, call.request) /\ mpd = Done(call.before, call.request)
    BY <1>1, <1>2, <2>1 DEF Taken
  <2>5. mpd.elapsed = call.before.elapsed + x
    BY <1>1, <2>2, <2>3, <2>4, SeekCurPlusIs
  <2>6. call.before.elapsed \in Nat
    BY <1>1 DEF IsMpd
  <2>7. /\ Announced = call.at + Magnitude(call.time)
        /\ Ahead = call.at - call.before.elapsed
    BY <1>6 DEF Announced, Ahead
  <2> QED BY <1>3, <1>4, <2>1, <2>2, <2>5, <2>6, <2>7
<1> QED BY <1>2, <1>4, <1>5, <1>6 DEF AsksToSeek

\* For a call that decided on what MPD says and was not disturbed: next, and seek past
\* the end, play the song that follows, and do not skip one when the request is repeated: NextLandsOnce, checked by the run player_calls.
THEOREM PlayerNextLandsOnce == Spec => []NextLandsOnce
BY Invariance, NextLands, PTL

\* For a call that decided on what MPD says and was not disturbed: previous leaves the
\* player paused, playing or stopped as it was, also when it is repeated: PreviousKeepsState, checked by the run player_calls.
THEOREM PlayerPreviousKeepsState == Spec => []PreviousKeepsState
BY Invariance, PreviousKeepsItsState, PTL

\* As long as MPD does nothing else meanwhile, but however old the cache is, Seeked
\* announces the position MPD has after set_position, and after seek one that is off
\* by no more than the cached one was before it, for an offset forward that is carried
\* out once; both if the milliseconds have three digits or are 0:
\* SeekedTruthfulForward, checked by the run player_calls.
THEOREM PlayerSeekedTruthful == Spec => []SeekedTruthfulForward
BY Invariance, SeekedIsTruthful, PTL
=============================================================================
