------------------------------- MODULE Mirror -------------------------------
(***************************************************************************)
(* How a change in MPD reaches a D-Bus client: MPD's idle notification, the*)
(* update of the cached status by the idle task or by a Position call      *)
(* (src/client/mod.rs, src/client/status.rs), the queue of StateChanged    *)
(* events, the task that emits the changed signals (src/dbus/mod.rs), the  *)
(* property setters that write the cached status themselves                *)
(* (src/dbus/player.rs), and a client that knows a property from its last  *)
(* changed signal.  Errors are only logged: what comes next has to make    *)
(* good for them.                                                          *)
(*                                                                         *)
(* The lock on the status lets one update run at a time and lets nobody    *)
(* see a half-made one (upd); getters and emissions hold it for one step.  *)
(* The lock zbus keeps on the interface object is taken for writing by the *)
(* emitting task and by set_loop_status, for reading by the other setters  *)
(* and by position.  Client checks that these locks are granted.           *)
(***************************************************************************)
EXTENDS Status

CONSTANTS
    MpdStates,   \* the states MPD can be in, see Consistent
    Setters,     \* concurrent calls that set a property
    SetVolumes,  \* volumes clients set, in tenths of a percent
    SetKinds,    \* the properties clients set
    PositionCalls, \* clients read Position
    Faults,      \* what can fail: "status" and "song" requests, the "idle"
                 \* connection, the "emit" of a signal
    QueueBound   \* bound: MPD changes only while fewer events are queued

ASSUME MirrorAssumption ==
    /\ MpdStates \subseteq Answers /\ \A m \in MpdStates : Consistent(m)
    /\ SetVolumes \subseteq 0..1000
    /\ SetKinds \subseteq {"Volume", "LoopStatus", "Shuffle"}
    /\ PositionCalls \in BOOLEAN
    /\ Faults \subseteq {"status", "song", "idle", "emit"}
    /\ QueueBound \in Nat

VARIABLES
    mpd,     \* MPD
    flags,   \* subsystems MPD has to report on the idle connection
    idle,    \* the idle task: "waiting" for the answer to idle, the subsystem
             \* that answer named first until its update is done, or "dead"
    status,  \* the cached status
    upd,     \* an update_status that waits for "currentsong"
    queue,   \* the channel of StateChanged events
    emit,    \* signals the emitting task still has to send for its event
    set,     \* the setter calls
    view,    \* what a client knows of the properties
    panicked, \* an update_status panicked, in the idle task or in a call
    \* history:
    lost,    \* a report of MPD was lost and "status" not answered since
    missed   \* the signal of a song failed and no song was signalled since
history == <<lost, missed>>
vars == <<mpd, flags, idle, status, upd, queue, emit, set, view, panicked, history>>

Subsystems == {"playlist", "player", "mixer", "options"}
NoUpdate == [by |-> "nobody"]
NoCall == [pc |-> "none"]

\* After MPDClient::new, once the events of its first update are emitted.
Init ==
    /\ mpd \in MpdStates
    /\ flags = {} /\ idle = "waiting"
    /\ status = FromAnswer(mpd, mpd.song)
    /\ upd = NoUpdate /\ queue = <<>> /\ emit = <<>>
    /\ set = [c \in Setters |-> NoCall]
    /\ view = [p \in Properties |-> Value(status, p)]
    /\ panicked = FALSE /\ lost = FALSE /\ missed = FALSE

(***************************************************************************)
(* MPD                                                                     *)
(***************************************************************************)
\* The subsystems MPD reports for a change from m to n.
Touched(m, n) ==
    {x \in Subsystems :
        \/ x = "mixer" /\ m.volume # n.volume
        \/ x = "options" /\ <<m.repeat, m.single, m.random>> # <<n.repeat, n.single, n.random>>
        \/ x = "playlist" /\ <<m.length, m.next>> # <<n.length, n.next>>
        \/ x = "player" /\ <<m.state, m.song, m.elapsed>> # <<n.state, n.song, n.elapsed>>}

MpdChanges ==
    /\ Len(queue) < QueueBound
    /\ \E m \in MpdStates : /\ mpd' = m
                            /\ flags' = flags \cup Touched(mpd, m)
    /\ UNCHANGED <<idle, status, upd, queue, emit, set, view, panicked, history>>

\* Time passes while a song plays; nothing is reported.
MpdPlays ==
    /\ mpd.state = "play"
    /\ \E m \in MpdStates : /\ Touched(mpd, m) = {"player"}
                            /\ m.state = "play" /\ m.song = mpd.song
                            /\ mpd' = m
    /\ UNCHANGED <<flags, idle, status, upd, queue, emit, set, view, panicked, history>>

(***************************************************************************)
(* idle_task, update_status                                                *)
(***************************************************************************)
\* The answer to "idle": MPD names every subsystem that changed, in a fixed
\* order, and forgets them.
Order == <<"playlist", "player", "mixer", "options">>
IdleTold ==
    /\ idle = "waiting" /\ flags # {}
    /\ flags' = {}
    /\ \E i \in 1..Len(Order) :
        /\ Order[i] \in flags /\ \A j \in 1..(i - 1) : Order[j] \notin flags
        /\ idle' = Order[i]
    /\ UNCHANGED <<mpd, status, upd, queue, emit, set, view, panicked, history>>

\* The idle connection was lost, or is dropped for a reload, and is made anew: by
\* the request "idle", or by "status" or "currentsong" of an update, which is
\* repeated then.  What MPD had to report on the old one is gone.
IdleReconnects ==
    /\ "idle" \in Faults
    /\ \/ idle = "waiting"
       \/ idle \in Subsystems /\ (upd = NoUpdate \/ upd.by = "idle")
    /\ flags' = {}
    /\ lost' = (lost \/ flags # {})
    /\ UNCHANGED <<mpd, idle, status, upd, queue, emit, set, view, panicked, missed>>

\* The position() call keeps the interface for reading: no emission, no
\* set_loop_status is in progress.
LoopSetterRuns == \E c \in Setters : set[c].pc # "none" /\ set[c].prop = "LoopStatus"
MayUpdate(by) == \/ by = "idle" /\ idle \in Subsystems
                 \/ by = "call" /\ PositionCalls /\ emit = <<>> /\ ~LoopSetterRuns

\* update_status has everything it asked for.
Finish(by, old, r, song, songChanged) ==
    LET new == FromAnswer(r, song)
    IN  /\ status' = new
        /\ upd' = NoUpdate
        /\ IF Panics(old, new)
           THEN /\ idle' = IF by = "idle" THEN "dead" ELSE idle
                /\ panicked' = TRUE /\ UNCHANGED queue
           ELSE /\ idle' = IF by = "idle" THEN "waiting" ELSE idle
                /\ UNCHANGED panicked
                /\ queue' = queue \o ChangeEvents(old, new, songChanged)
                            \o Opt(/\ by = "idle" /\ idle = "player"
                                   /\ CouldBeSeeking(old, new, r, songChanged),
                                   Event("Position"))

\* The answer to "status", taken with the status locked.
StatusAnswered(by) ==
    /\ upd = NoUpdate /\ MayUpdate(by)
    /\ IF NeedsSong(status, mpd)
       THEN /\ upd' = [by |-> by, answer |-> mpd]
            /\ UNCHANGED <<idle, status, queue, panicked>>
       ELSE Finish(by, status, mpd, KeptSong(status, mpd), FALSE)
    /\ lost' = FALSE
    /\ UNCHANGED <<mpd, flags, emit, set, view, missed>>

\* Mutant of SongAnswered: what MPD reported during the update counts as
\* taken in by it.
SongAnswered_Forgets ==
    /\ upd # NoUpdate /\ flags' = {}
    /\ Finish(upd.by, status, upd.answer, AnsweredSong(mpd), TRUE)
    /\ missed' = (missed /\ queue' = queue)
    /\ UNCHANGED <<mpd, emit, set, view, lost>>

\* The answer to "currentsong", which MPD may have changed since.
SongAnswered ==
    /\ upd # NoUpdate
    /\ Finish(upd.by, status, upd.answer, AnsweredSong(mpd), TRUE)
    /\ missed' = (missed /\ queue' = queue)
    /\ UNCHANGED <<mpd, flags, emit, set, view, lost>>

\* "status" fails, and again after the reconnection, which takes with it what
\* MPD had to report: the error is logged, the idle answer is used up.
StatusFails ==
    /\ "status" \in Faults /\ upd = NoUpdate /\ idle \in Subsystems
    /\ idle' = "waiting" /\ flags' = {}
    /\ lost' = TRUE
    /\ UNCHANGED <<mpd, status, upd, queue, emit, set, view, panicked, missed>>

\* So does "currentsong": the status is replaced already, no event is sent.  A call
\* reconnects the other connection.
SongFails ==
    /\ "song" \in Faults /\ upd # NoUpdate
    /\ status' = PartialAnswer(upd.answer)
    /\ IF upd.by = "idle" THEN idle' = "waiting" /\ flags' = {}
                          ELSE UNCHANGED <<idle, flags>>
    /\ upd' = NoUpdate
    /\ lost' = TRUE
    /\ UNCHANGED <<mpd, queue, emit, set, view, panicked, missed>>

(***************************************************************************)
(* send_signals                                                            *)
(***************************************************************************)
\* get_mut on the interface: no setter and no position call is in progress.
TakeEvent ==
    /\ emit = <<>> /\ queue # <<>>
    /\ \A c \in Setters : set[c].pc = "none"
    /\ upd = NoUpdate \/ upd.by # "call"
    /\ emit' = Signalled(Head(queue))
    /\ queue' = Tail(queue)
    /\ UNCHANGED <<mpd, flags, idle, status, upd, set, view, panicked, history>>

EmitSignal ==
    /\ emit # <<>> /\ upd = NoUpdate
    /\ view' = [view EXCEPT ![Head(emit)] = Value(status, Head(emit))]
    /\ emit' = Tail(emit)
    /\ UNCHANGED <<mpd, flags, idle, status, upd, queue, set, panicked, history>>

\* send_signals returns the error and is started again with the next event.
EmitFails ==
    /\ "emit" \in Faults /\ emit # <<>>
    /\ emit' = <<>>
    /\ missed' = (missed \/ \E i \in 1..Len(emit) : emit[i] = "Metadata")
    /\ UNCHANGED <<mpd, flags, idle, status, upd, queue, set, view, panicked, lost>>

(***************************************************************************)
(* set_volume, set_loop_status, set_shuffle                                *)
(***************************************************************************)
\* Mutant of Truncated: the percentage is taken for a fraction.
Truncated_Scaled(v) == v * 100

\* Format "{volume:.0}" rounds (ties, which it rounds to even, are left out)
\* and "as u8" truncates.
Rounded(v) == (v + 5) \div 10
Truncated(v) == v \div 10

SetValues(p) == CASE p = "Volume" -> SetVolumes
                  [] p = "LoopStatus" -> {"off", "on", "single"}
                  [] OTHER -> BOOLEAN

\* What the request makes of MPD and what the setter writes to the status.
Requested(m, p, v) ==
    CASE p = "Volume" -> [m EXCEPT !.volume = Rounded(v)]
      [] p = "LoopStatus" -> [m EXCEPT !.repeat = (v # "off"), !.single = (v = "single")]
      [] OTHER -> [m EXCEPT !.random = v]
\* Mutant of Written: the setter fills up a new status.
Written_Default(s, p, v) ==
    CASE p = "Volume" -> [NewStatus EXCEPT !.volume = Truncated(v)]
      [] p = "LoopStatus" -> [NewStatus EXCEPT !.repeat = v]
      [] OTHER -> [NewStatus EXCEPT !.shuffle = v]

Written(s, p, v) ==
    CASE p = "Volume" -> [s EXCEPT !.volume = Truncated(v)]
      [] p = "LoopStatus" -> [s EXCEPT !.repeat = v]
      [] OTHER -> [s EXCEPT !.shuffle = v]

MaySet(p) ==
    /\ emit = <<>> /\ ~LoopSetterRuns
    /\ p = "LoopStatus" => /\ \A c \in Setters : set[c].pc = "none"
                           /\ upd = NoUpdate \/ upd.by # "call"

\* MPD carried out the request; its answer is on the way.
SetRequested(c) ==
    /\ set[c].pc = "none" /\ Len(queue) < QueueBound
    /\ \E p \in SetKinds : \E v \in SetValues(p) :
        /\ MaySet(p)
        /\ set' = [set EXCEPT ![c] = [pc |-> "write", prop |-> p, val |-> v]]
        /\ mpd' = Requested(mpd, p, v)
        /\ flags' = flags \cup Touched(mpd, Requested(mpd, p, v))
    /\ UNCHANGED <<idle, status, upd, queue, emit, view, panicked, history>>

\* Mutant of SetWritten: the setter emits no changed signal.
SetWritten_Silent(c) ==
    /\ set[c].pc = "write" /\ upd = NoUpdate
    /\ status' = Written(status, set[c].prop, set[c].val)
    /\ set' = [set EXCEPT ![c] = NoCall]
    /\ UNCHANGED <<mpd, flags, idle, upd, queue, emit, view, panicked, history>>

SetWritten(c) ==
    /\ set[c].pc = "write" /\ upd = NoUpdate
    /\ status' = Written(status, set[c].prop, set[c].val)
    /\ set' = [set EXCEPT ![c].pc = "read"]
    /\ UNCHANGED <<mpd, flags, idle, upd, queue, emit, view, panicked, history>>

\* zbus reads a property it has set and emits its changed signal.
SetRead(c) ==
    /\ set[c].pc = "read" /\ upd = NoUpdate
    /\ set' = [set EXCEPT ![c] = [pc |-> "emit", prop |-> @.prop,
                                  val |-> Value(status, @.prop)]]
    /\ UNCHANGED <<mpd, flags, idle, status, upd, queue, emit, view, panicked, history>>

SetEmitted(c) ==
    /\ set[c].pc = "emit"
    /\ view' = [view EXCEPT ![set[c].prop] = set[c].val]
    /\ set' = [set EXCEPT ![c] = NoCall]
    /\ UNCHANGED <<mpd, flags, idle, status, upd, queue, emit, panicked, history>>

Next ==
    \/ MpdChanges \/ MpdPlays
    \/ IdleTold \/ IdleReconnects \/ StatusAnswered("idle") \/ StatusAnswered("call")
    \/ SongAnswered \/ StatusFails \/ SongFails
    \/ TakeEvent \/ EmitSignal \/ EmitFails
    \/ \E c \in Setters : SetRequested(c) \/ SetWritten(c) \/ SetRead(c) \/ SetEmitted(c)

Spec == Init /\ [][Next]_vars

(***************************************************************************)
(* Properties                                                              *)
(***************************************************************************)
Statuses == [state : {"play", "pause", "stop"}, volume : 0..100,
             repeat : {"off", "on", "single"}, shuffle : BOOLEAN,
             elapsed : Int, song : Int, next : Int, length : Nat]
PropValues(p) == CASE p = "Volume" -> 0..1000
                   [] p = "LoopStatus" -> {"off", "on", "single"}
                   [] OTHER -> BOOLEAN

\* Types; the cached volume is a percentage, whatever MPD answers and clients set.
TypeOK ==
    /\ mpd \in Answers
    /\ flags \subseteq Subsystems
    /\ idle \in Subsystems \cup {"waiting", "dead"}
    /\ status \in Statuses
    /\ upd = NoUpdate \/ upd \in [by : {"idle", "call"}, answer : Answers]
    /\ queue \in Seq(Events) /\ emit \in Seq(Properties)
    /\ \A c \in Setters :
          \/ set[c] = NoCall
          \/ /\ set[c].pc \in {"write", "read", "emit"} /\ set[c].prop \in SetKinds
             /\ set[c].val \in PropValues(set[c].prop)
    /\ DOMAIN view = Properties /\ panicked \in BOOLEAN
    /\ lost \in BOOLEAN /\ missed \in BOOLEAN

\* Nothing is on its way: everybody has done what a change made him do.
Quiet == /\ flags = {} /\ idle = "waiting" /\ upd = NoUpdate
         /\ queue = <<>> /\ emit = <<>>
         /\ \A c \in Setters : set[c].pc = "none"

\* The entries of the status that setters write too.
SetFields == IF Setters = {} THEN {}
             ELSE {CASE p = "Volume" -> "volume" [] p = "LoopStatus" -> "repeat"
                     [] OTHER -> "shuffle" : p \in SetKinds}

Agree(s, t, fields) == \A f \in fields \ {"elapsed"} : s[f] = t[f]

\* Once nothing is on its way, the cached status is what MPD would answer
\* now, although "status" and "currentsong" are two requests, MPD changes
\* between them, and idle reports are used up before the status is asked for.
\* After a report was lost, or an update ended half way, one successful
\* "status" is enough.  Setters that are overtaken by an update leave an old
\* value in the entry they write, but disturb no other one.
CacheFollowsMpd == (Quiet /\ ~lost) =>
    Agree(status, FromAnswer(mpd, mpd.song), DOMAIN status \ SetFields)

\* So is every entry, also those that setters write.
CacheFollowsMpdAlways == (Quiet /\ ~lost) =>
    Agree(status, FromAnswer(mpd, mpd.song), DOMAIN status)

Announced == {"PlaybackStatus", "Volume", "LoopStatus", "Shuffle"}

\* A changed signal for property p is still to come.
Pending(p) ==
    \/ \E i \in 1..Len(queue) : \E j \in 1..Len(Signalled(queue[i])) :
          Signalled(queue[i])[j] = p
    \/ \E i \in 1..Len(emit) : emit[i] = p
    \/ \E c \in Setters : set[c].pc \in {"read", "emit"} /\ set[c].prop = p

\* A client that follows the changed signals has the cached value of each
\* announced property, or a signal that will correct it is still to come:
\* no interleaving of updates, setters and the emitting task loses one, as
\* long as no update panicked between replacing the status and its events.
NoLostSignal ==
    ~panicked => \A p \in Announced : view[p] = Value(status, p) \/ Pending(p)

\* The same for the song, as long as there is one, although requests fail
\* between the status and its song; a signal that failed is made good for by
\* the next song.
SongSignalled ==
    \/ panicked \/ missed
    \/ status.song = None \/ view["Metadata"] = status.song \/ Pending("Metadata")

\* No update panics: the idle task lives.
IdleTaskLives == idle # "dead"

\* At rest a client has the cached song, CanGoNext and CanGoPrevious too: also
\* when there is no song any more, and when the queue changed and not the song.
ClientFollows ==
    Quiet => \A p \in {"Metadata", "CanGoNext", "CanGoPrevious"} : view[p] = Value(status, p)

\* A player change told by MPD while a song plays on is reported as a jump of
\* the position: when MPD was playing before, still is, and the song is the
\* same, update_status says so and idle_task sends Position.
SeekSignalled ==
    [][/\ idle = "player" /\ idle' = "waiting"
       /\ status.state = "play" /\ status'.state = "play"
       /\ status.song = status'.song
       => \E i \in 1..Len(queue') : queue'[i].kind = "Position"]_vars
=============================================================================
