------------------------------- MODULE Client -------------------------------
(***************************************************************************)
(* The tasks of mpdris, the locks they share and the reload handshake      *)
(* (src/client/mod.rs, src/client/connection.rs, src/dbus/player.rs and    *)
(* the signal loop of src/main.rs).                                        *)
(*                                                                         *)
(* An actor is a D-Bus call being served, the ping task, the task that     *)
(* emits D-Bus signals, the idle task, or the main thread.  A lock is the  *)
(* RwLock zbus keeps around the interface object ("iface"), the cached     *)
(* status ("status"), one of the two MPD connections ("conn", "idle") or   *)
(* the global configuration ("config").  D-Bus calls, pings and emissions  *)
(* run a fixed script of lock operations and requests; the idle task and   *)
(* main have a program counter each, because the reload handshake ties     *)
(* them together through the channel drop_idle_lock.                       *)
(*                                                                         *)
(* What a request or a status says is abstracted here (Mirror models it):  *)
(* this module is about who waits for whom and about which stream and      *)
(* which configuration a request uses.                                     *)
(***************************************************************************)
EXTENDS Integers, Sequences

CONSTANTS
    Calls,          \* D-Bus calls that can be served at the same time
    CallKinds,      \* the methods and properties clients use, of DOMAIN Scripts
    SubscribesHup,  \* main subscribed to SIGHUP (--service or --daemon)
    FiniteRetries,  \* config.retries > 0: connect() gives up at some point
    Faults,         \* a request can fail, a connection can break
    UserTerm,       \* somebody else sends SIGTERM too
    IdlePanics,     \* status sequences that panic in update_status occur
    MaxReloads      \* bound on the configurations loaded

Locks == {"iface", "idle", "status", "conn", "config"}
Loops == {"ping", "sender"}
Scripted == Calls \cup Loops
Actors == Scripted \cup {"idle_task", "main"}

ASSUME CallsAssumption ==
    Calls \cap {"ping", "sender", "idle_task", "main"} = {}
ASSUME FlagsAssumption ==
    /\ SubscribesHup \in BOOLEAN /\ FiniteRetries \in BOOLEAN
    /\ Faults \in BOOLEAN /\ UserTerm \in BOOLEAN /\ IdlePanics \in BOOLEAN
    /\ MaxReloads \in Nat

(***************************************************************************)
(* Scripts.  Lock keeps a guard until it is dropped or the handler ends;   *)
(* Touch is a guard that is a temporary of one expression without await.   *)
(***************************************************************************)
Op(o, l, m) == [op |-> o, lock |-> l, mode |-> m]
Lock(l, m) == Op("lock", l, m)
Touch(l, m) == Op("touch", l, m)
Drop(l) == Op("drop", l, "-")
IO == Op("io", "-", "-")

Ops == [op : {"lock", "touch", "drop", "io"}, lock : Locks \cup {"-"},
        mode : {"-", "R", "W"}]

\* play, pause, stop, set_rate
ControlCall == <<Lock("iface", "W"), Lock("conn", "W"), IO>>
\* set_rate with a rate other than 0, set_position with a negative position,
\* set_loop_status with an invalid value
RefusedCall == <<Touch("iface", "W")>>
\* play_pause: can_pause is read first
PlayPauseCall == <<Lock("iface", "W"), Touch("status", "R"), Lock("conn", "W"), IO>>
\* next, previous, seek and set_position keep the status guard over the request
CachedCall == <<Lock("iface", "W"), Lock("status", "R"), Lock("conn", "W"), IO>>
\* the same methods when the cached status says there is nothing to do
CachedNoopCall == <<Lock("iface", "W"), Touch("status", "R")>>
\* seek past the end of the song drops its guard and calls next
SeekPastEndCall == <<Lock("iface", "W"), Touch("status", "R"), Lock("status", "R"),
                     Lock("conn", "W"), IO>>
\* set_loop_status, then the changed signal zbus emits for a set property
SetLoopCall == <<Lock("iface", "W"), Lock("conn", "W"), IO, Drop("conn"),
                 Touch("status", "W"), Touch("status", "R")>>
\* set_shuffle and set_volume take &self: several can run at once
SetSharedCall == <<Lock("iface", "R"), Lock("conn", "W"), IO, Drop("conn"),
                   Touch("status", "W"), Touch("status", "R")>>
\* Mutant of PositionSongCall: the connection is locked before the status.
PositionSongCall_ConnFirst ==
    <<Lock("iface", "R"), Lock("conn", "W"), Lock("status", "W"), IO, IO,
      Touch("config", "R"), Drop("conn"), Drop("status"), Touch("status", "R")>>
\* Mutant of PositionSongCall: each request locks the connection for itself,
\* and the guard of the first is dropped too late for the second.
PositionSongCall_EarlyDrop ==
    <<Lock("iface", "R"), Lock("status", "W"), Lock("conn", "W"), IO,
      Drop("conn"), IO, Touch("config", "R"), Drop("status"), Touch("status", "R")>>
\* Mutant of PositionSongCall: the update reads the status it keeps locked.
PositionSongCall_ReadsBack ==
    <<Lock("iface", "R"), Lock("status", "W"), Lock("conn", "W"), IO,
      IO, Touch("status", "R"), Touch("config", "R"), Drop("conn"), Drop("status"),
      Touch("status", "R")>>
\* position updates the cached status first (MPDClient::update_status)
PositionCall == <<Lock("iface", "R"), Lock("status", "W"), Lock("conn", "W"), IO,
                  Drop("conn"), Drop("status"), Touch("status", "R")>>
PositionSongCall == <<Lock("iface", "R"), Lock("status", "W"), Lock("conn", "W"), IO,
                      IO, Touch("config", "R"), Drop("conn"), Drop("status"),
                      Touch("status", "R")>>
\* playback_status, loop_status, shuffle, volume, can_go_next, ...
GetterCall == <<Lock("iface", "R"), Touch("status", "R")>>
\* metadata holds the status while it waits for the configuration
MetadataCall == <<Lock("iface", "R"), Lock("status", "R"), Touch("config", "R")>>

\* Mutant of PingRound: it pings only when the cached status says "playing".
PingRound_IfPlaying == <<Lock("conn", "W"), Touch("status", "R"), IO>>

PingRound == <<Lock("conn", "W"), IO>>
\* one round of send_signals: Seeked, a property, the property group of Song
EmitSeeked == <<Touch("iface", "W")>>
EmitProperty == <<Lock("iface", "W"), Touch("status", "R")>>
EmitSong == <<Lock("iface", "W"), Lock("status", "R"), Touch("config", "R"),
              Drop("status"), Touch("status", "R")>>

Scripts == [control |-> ControlCall, refused |-> RefusedCall,
            playPause |-> PlayPauseCall, cached |-> CachedCall,
            cachedNoop |-> CachedNoopCall, seekPastEnd |-> SeekPastEndCall,
            setLoop |-> SetLoopCall, setShared |-> SetSharedCall,
            position |-> PositionCall, positionSong |-> PositionSongCall,
            getter |-> GetterCall, metadata |-> MetadataCall]

ASSUME KindsAssumption == CallKinds \subseteq DOMAIN Scripts

ScriptsOf(a) == CASE a = "ping" -> {PingRound}
                  [] a = "sender" -> {EmitSeeked, EmitProperty, EmitSong}
                  [] OTHER -> {Scripts[k] : k \in CallKinds}

VARIABLES
    todo,     \* what is left of the script each scripted actor runs
    idle,     \* where the idle task is
    main,     \* where the main thread is
    net,      \* how far the request of an actor got
    held,     \* the guards each actor holds
    tokens,   \* messages in the channel drop_idle_lock
    dirty,    \* an idle request was abandoned on the idle connection's stream
    config,   \* version of the configuration in force
    version,  \* version of the configuration each connection was made with
    hup,      \* SIGHUP is pending
    term,     \* SIGTERM is pending
    exited    \* whether and how the process ended
vars == <<todo, idle, main, net, held, tokens, dirty, config, version, hup, term, exited>>

IdlePcs == {"lock", "select", "status", "update", "song", "cover", "drain", "dead"}
MainPcs == {"signals", "writeConfig", "sendFirst", "join", "reconnectConn",
            "reconnectIdle", "sendSecond"}
\* "none" while InRequest holds is the first attempt in flight, "again" the second
NetStates == {"none", "wantConfig", "connect", "handshake", "again", "stuck"}
Channels == {"conn", "idle"}

(***************************************************************************)
(* Guards (async-std's Mutex and RwLock).  A reader may pass a writer that *)
(* waits (it may not have announced itself yet) but only a reader without  *)
(* a waiting writer is sure to get in, see Fairness.  They are not         *)
(* reentrant: a guard of one's own is in the way, too.                     *)
(***************************************************************************)
NoGuards == [l \in Locks |-> "-"]
Released(h, a) == [h EXCEPT ![a] = NoGuards]
CanTake(a, l, m) == \A b \in Actors :
    IF m = "W" THEN held[b][l] = "-" ELSE held[b][l] # "W"

Running(a) == a \in Scripted /\ todo[a] # <<>>
AtOp(a, o) == Running(a) /\ Head(todo[a]).op = o
Acquiring(a) == AtOp(a, "lock") \/ AtOp(a, "touch")

\* Actor a waits for lock l in mode m.
Wants(a, l, m) ==
    \/ Acquiring(a) /\ Head(todo[a]).lock = l /\ Head(todo[a]).mode = m
    \/ net[a] = "wantConfig" /\ l = "config" /\ m = "R"
    \/ a = "idle_task" /\ <<idle, l, m>> \in {<<"lock", "idle", "W">>,
                                 <<"status", "status", "W">>, <<"cover", "config", "R">>}
    \/ a = "main" /\ main = "join" /\ l \in Channels /\ m = "W" /\ held[a][l] = "-"
    \/ a = "main" /\ main = "writeConfig" /\ l = "config" /\ m = "W"

WriterWaits(l) == \E b \in Actors : Wants(b, l, "W")

InRequest(a) ==
    \/ AtOp(a, "io")
    \/ a = "idle_task" /\ idle \in {"select", "update", "song"}
    \/ a = "main" /\ main \in {"reconnectConn", "reconnectIdle"}

\* The connection the request of an actor uses.
Target(a) == IF a = "idle_task" \/ (a = "main" /\ main = "reconnectIdle")
             THEN "idle" ELSE "conn"

Init ==
    /\ todo = [a \in Scripted |-> <<>>]
    /\ idle = "lock" /\ main = "signals"
    /\ net = [a \in Actors |-> "none"]
    /\ held = [a \in Actors |-> NoGuards]
    /\ tokens = 0 /\ dirty = FALSE
    /\ config = 0 /\ version = [c \in Channels |-> 0]
    /\ hup = FALSE /\ term = FALSE /\ exited = "no"

(***************************************************************************)
(* Scripted actors                                                         *)
(***************************************************************************)
Start(a) ==
    /\ todo[a] = <<>>
    /\ \E s \in ScriptsOf(a) : todo' = [todo EXCEPT ![a] = s]
    /\ UNCHANGED <<idle, main, net, held, tokens, dirty, config, version, hup, term>>

\* Steps past the current operation, with guards h; the handler's guards go
\* when it returns.
Advance(a, h) ==
    /\ todo' = [todo EXCEPT ![a] = Tail(@)]
    /\ held' = IF Tail(todo[a]) = <<>> THEN Released(h, a) ELSE h

TakeLock(a) ==
    /\ AtOp(a, "lock")
    /\ LET o == Head(todo[a])
       IN  /\ CanTake(a, o.lock, o.mode)
           /\ Advance(a, [held EXCEPT ![a][o.lock] = o.mode])
    /\ UNCHANGED <<idle, main, net, tokens, dirty, config, version, hup, term>>

TouchLock(a) ==
    /\ AtOp(a, "touch")
    /\ CanTake(a, Head(todo[a]).lock, Head(todo[a]).mode)
    /\ Advance(a, held)
    /\ UNCHANGED <<idle, main, net, tokens, dirty, config, version, hup, term>>

DropLock(a) ==
    /\ AtOp(a, "drop")
    /\ Advance(a, [held EXCEPT ![a][Head(todo[a]).lock] = "-"])
    /\ UNCHANGED <<idle, main, net, tokens, dirty, config, version, hup, term>>

CallAnswered(a) ==
    /\ AtOp(a, "io") /\ net[a] \in {"none", "again"}
    /\ net' = [net EXCEPT ![a] = "none"]
    /\ Advance(a, held)
    /\ UNCHANGED <<idle, main, tokens, dirty, config, version, hup, term>>

\* The error goes to the caller, every guard of the handler is dropped.
CallFails(a) ==
    /\ AtOp(a, "io") /\ net[a] \in {"handshake", "again"} /\ Faults
    /\ net' = [net EXCEPT ![a] = "none"]
    /\ todo' = [todo EXCEPT ![a] = <<>>]
    /\ held' = Released(held, a)
    /\ UNCHANGED <<idle, main, tokens, dirty, config, version, hup, term>>

(***************************************************************************)
(* MPDConnection::request_data and reconnect, whoever runs them            *)
(***************************************************************************)
\* Any error of the first attempt, an ACK of MPD included.
RequestFails(a) ==
    /\ InRequest(a) /\ a # "main" /\ net[a] = "none" /\ Faults
    /\ net' = [net EXCEPT ![a] = "wantConfig"]
    /\ UNCHANGED <<todo, idle, main, held, tokens, dirty, config, version, hup, term>>

ReadConfig(a) ==
    /\ InRequest(a) /\ net[a] = "wantConfig"
    /\ CanTake(a, "config", "R")
    /\ net' = [net EXCEPT ![a] = "connect"]
    /\ held' = [held EXCEPT ![a]["config"] = "R"]
    /\ UNCHANGED <<todo, idle, main, tokens, dirty, config, version, hup, term>>

\* The new stream replaces the old one, then the config guard goes.
Connected(a) ==
    /\ InRequest(a) /\ net[a] = "connect"
    /\ net' = [net EXCEPT ![a] = "handshake"]
    /\ held' = [held EXCEPT ![a]["config"] = "-"]
    /\ version' = [version EXCEPT ![Target(a)] = config]
    /\ dirty' = (dirty /\ Target(a) # "idle")
    /\ UNCHANGED <<todo, idle, main, tokens, config, hup, term>>

HandshakeDone(a) ==
    /\ InRequest(a) /\ a # "main" /\ net[a] = "handshake"
    /\ net' = [net EXCEPT ![a] = "again"]
    /\ UNCHANGED <<todo, idle, main, held, tokens, dirty, config, version, hup, term>>

\* SIGTERM: the first one is left for the signal loop, a second one ends the
\* process at once.
RaiseTerm ==
    /\ term' = TRUE
    /\ exited' = IF term THEN "killed" ELSE exited

\* Mutant of GiveUp: no SIGTERM.
GiveUp_Silent(a) ==
    /\ InRequest(a) /\ net[a] = "connect" /\ FiniteRetries /\ Faults
    /\ net' = [net EXCEPT ![a] = "stuck"]
    /\ UNCHANGED <<todo, idle, main, held, tokens, dirty, config, version, hup, term, exited>>

\* All retries are used up: SIGTERM to itself, then block_on(pending()) with
\* every guard held.
GiveUp(a) ==
    /\ InRequest(a) /\ net[a] = "connect" /\ FiniteRetries /\ Faults
    /\ net' = [net EXCEPT ![a] = "stuck"]
    /\ RaiseTerm
    /\ UNCHANGED <<todo, idle, main, held, tokens, dirty, config, version, hup>>

(***************************************************************************)
(* idle_task                                                               *)
(***************************************************************************)
\* Mutant of IdleLock: the status guard is taken outside of the match.
IdleLock_Status ==
    /\ idle = "lock" /\ CanTake("idle_task", "idle", "W")
    /\ CanTake("idle_task", "status", "W")
    /\ held' = [held EXCEPT !["idle_task"]["idle"] = "W", !["idle_task"]["status"] = "W"]
    /\ idle' = "select"
    /\ UNCHANGED <<todo, main, net, tokens, dirty, config, version, hup, term>>

IdleLock ==
    /\ idle = "lock" /\ CanTake("idle_task", "idle", "W")
    /\ held' = [held EXCEPT !["idle_task"]["idle"] = "W"]
    /\ idle' = "select"
    /\ UNCHANGED <<todo, main, net, tokens, dirty, config, version, hup, term>>

\* select() yields the answer: MPD reports a change.
IdleAnswered ==
    /\ idle = "select" /\ net["idle_task"] \in {"none", "again"}
    /\ net' = [net EXCEPT !["idle_task"] = "none"]
    /\ idle' = "status"
    /\ UNCHANGED <<todo, main, held, tokens, dirty, config, version, hup, term>>

\* Mutant of IdleAbandons: the loop starts over without the second recv.
IdleAbandons_NoDrain ==
    /\ idle = "select" /\ tokens = 1 /\ net["idle_task"] # "stuck"
    /\ tokens' = 0 /\ dirty' = TRUE
    /\ net' = [net EXCEPT !["idle_task"] = "none"]
    /\ held' = Released(held, "idle_task")
    /\ idle' = "lock"
    /\ UNCHANGED <<todo, main, config, version, hup, term>>

\* select() yields the token: the request future is dropped wherever it is,
\* and the connection unlocked.
IdleAbandons ==
    /\ idle = "select" /\ tokens = 1 /\ net["idle_task"] # "stuck"
    /\ tokens' = 0 /\ dirty' = TRUE
    /\ net' = [net EXCEPT !["idle_task"] = "none"]
    /\ held' = Released(held, "idle_task")
    /\ idle' = "drain"
    /\ UNCHANGED <<todo, main, config, version, hup, term>>

IdleDrains ==
    /\ idle = "drain" /\ tokens = 1
    /\ tokens' = 0 /\ idle' = "lock"
    /\ UNCHANGED <<todo, main, net, held, dirty, config, version, hup, term>>

IdleTakesStatus ==
    /\ idle = "status" /\ CanTake("idle_task", "status", "W")
    /\ held' = [held EXCEPT !["idle_task"]["status"] = "W"]
    /\ idle' = "update"
    /\ UNCHANGED <<todo, main, net, tokens, dirty, config, version, hup, term>>

\* update_status returned, or panicked: a dead task drops its guards and the
\* receiver of drop_idle_lock.
IdleUpdated ==
    /\ held' = Released(held, "idle_task")
    /\ \/ idle' = "lock" /\ UNCHANGED tokens
       \/ IdlePanics /\ idle' = "dead" /\ tokens' = 0

\* The answer to "status".  A new song needs "currentsong" too.
StatusAnswered ==
    /\ idle = "update" /\ net["idle_task"] \in {"none", "again"}
    /\ net' = [net EXCEPT !["idle_task"] = "none"]
    /\ \/ IdleUpdated
       \/ idle' = "song" /\ UNCHANGED <<held, tokens>>
    /\ UNCHANGED <<todo, main, dirty, config, version, hup, term>>

SongAnswered ==
    /\ idle = "song" /\ net["idle_task"] \in {"none", "again"}
    /\ net' = [net EXCEPT !["idle_task"] = "none"]
    /\ idle' = "cover"
    /\ UNCHANGED <<todo, main, held, tokens, dirty, config, version, hup, term>>

\* try_set_cover_url reads the configuration in a block without await.
CoverFound ==
    /\ idle = "cover" /\ CanTake("idle_task", "config", "R")
    /\ IdleUpdated
    /\ UNCHANGED <<todo, main, net, dirty, config, version, hup, term>>

\* An error of any of the three requests is logged; the loop starts over.
IdleFails ==
    /\ idle \in {"select", "update", "song"} /\ Faults
    /\ net["idle_task"] \in {"handshake", "again"}
    /\ net' = [net EXCEPT !["idle_task"] = "none"]
    /\ held' = Released(held, "idle_task")
    /\ idle' = "lock"
    /\ UNCHANGED <<todo, main, tokens, dirty, config, version, hup, term>>

(***************************************************************************)
(* The signal loop of main and MPDClient::reconnect                        *)
(***************************************************************************)
ReceiveHup ==
    /\ main = "signals" /\ hup
    /\ hup' = FALSE
    /\ \/ main' = "writeConfig"
       \/ UNCHANGED main         \* the new configuration could not be loaded
    /\ UNCHANGED <<todo, idle, net, held, tokens, dirty, config, version, term>>

WriteConfig ==
    /\ main = "writeConfig" /\ CanTake("main", "config", "W")
    /\ config' = config + 1
    /\ main' = "sendFirst"
    /\ UNCHANGED <<todo, idle, net, held, tokens, dirty, version, hup, term>>

\* Mutant of SendToken: the channel is unbounded.
SendToken_Unbounded ==
    \/ idle # "dead" /\ tokens' = tokens + 1
    \/ idle = "dead" /\ UNCHANGED tokens

\* A send on drop_idle_lock, whose capacity is 1; it fails, and the failure
\* is ignored, when the idle task is dead.
SendToken ==
    \/ tokens = 0 /\ idle # "dead" /\ tokens' = 1
    \/ idle = "dead" /\ UNCHANGED tokens

SendFirst ==
    /\ main = "sendFirst" /\ SendToken
    /\ main' = "join"
    /\ UNCHANGED <<todo, idle, net, held, dirty, config, version, hup, term>>

\* join polls both lock futures: either may come first.
JoinLock(l) ==
    /\ main = "join" /\ held["main"][l] = "-" /\ CanTake("main", l, "W")
    /\ held' = [held EXCEPT !["main"][l] = "W"]
    /\ IF held["main"]["conn"] = "-" /\ held["main"]["idle"] = "-"
       THEN UNCHANGED <<main, net>>
       ELSE main' = "reconnectConn" /\ net' = [net EXCEPT !["main"] = "wantConfig"]
    /\ UNCHANGED <<todo, idle, tokens, dirty, config, version, hup, term>>

\* Mutant of MainReconnected: only the command connection is made anew.
MainReconnected_ConnOnly ==
    /\ net["main"] = "handshake"
    /\ main = "reconnectConn" /\ main' = "sendSecond"
    /\ net' = [net EXCEPT !["main"] = "none"]
    /\ UNCHANGED <<todo, idle, held, tokens, dirty, config, version, hup, term>>

MainReconnected ==
    /\ net["main"] = "handshake"
    /\ \/ /\ main = "reconnectConn" /\ main' = "reconnectIdle"
          /\ net' = [net EXCEPT !["main"] = "wantConfig"]
       \/ /\ main = "reconnectIdle" /\ main' = "sendSecond"
          /\ net' = [net EXCEPT !["main"] = "none"]
    /\ UNCHANGED <<todo, idle, held, tokens, dirty, config, version, hup, term>>

SendSecond ==
    /\ main = "sendSecond" /\ SendToken
    /\ held' = Released(held, "main")
    /\ main' = "signals"
    /\ UNCHANGED <<todo, idle, net, dirty, config, version, hup, term>>

\* after_connect fails: "Could not reconnect to mpd, quitting".
ReconnectFails ==
    /\ InRequest("main") /\ net["main"] = "handshake" /\ Faults
    /\ exited' = "ok"
    /\ UNCHANGED <<todo, idle, main, net, held, tokens, dirty, config, version, hup, term>>

ReceiveTerm ==
    /\ main = "signals" /\ term
    /\ exited' = "ok"
    /\ UNCHANGED <<todo, idle, main, net, held, tokens, dirty, config, version, hup, term>>

\* The user.
Hup ==
    /\ SubscribesHup /\ ~hup /\ config < MaxReloads
    /\ hup' = TRUE
    /\ UNCHANGED <<todo, idle, main, net, held, tokens, dirty, config, version, term>>

Term ==
    /\ UserTerm /\ RaiseTerm
    /\ UNCHANGED <<todo, idle, main, net, held, tokens, dirty, config, version, hup>>

(***************************************************************************)
(* The next-state relation                                                 *)
(***************************************************************************)
ScriptStep(a) == Start(a) \/ TakeLock(a) \/ TouchLock(a) \/ DropLock(a)
                 \/ CallAnswered(a) \/ CallFails(a)
NetStep(a) == RequestFails(a) \/ ReadConfig(a) \/ Connected(a) \/ HandshakeDone(a)
IdleStep == \/ IdleLock \/ IdleAnswered \/ IdleAbandons \/ IdleDrains
            \/ IdleTakesStatus \/ StatusAnswered \/ SongAnswered \/ CoverFound
            \/ IdleFails
MainStep == \/ ReceiveHup \/ WriteConfig \/ SendFirst
            \/ \E l \in Channels : JoinLock(l)
            \/ MainReconnected \/ SendSecond

LiveStep == \/ \E a \in Scripted : ScriptStep(a)
            \/ \E a \in Actors : NetStep(a)
            \/ IdleStep \/ MainStep \/ Hup

Ended == exited # "no" /\ UNCHANGED vars

Next == \/ /\ exited = "no"
           /\ \/ LiveStep /\ UNCHANGED exited
              \/ \E a \in Actors : GiveUp(a)
              \/ ReconnectFails \/ ReceiveTerm \/ Term
        \/ Ended

Spec == Init /\ [][Next]_vars

(***************************************************************************)
(* Fairness.  The executor runs every task that can go on, and MPD answers *)
(* every request but "idle", whose answer may never come, or the request   *)
(* fails; a connection attempt succeeds or, with finite retries, gives up. *)
(* The locks of async-std are eventually fair: an actor that could get a   *)
(* lock again and again gets it, a reader only if it could while no writer *)
(* was waiting.  Nothing obliges a client to call or MPD to change.        *)
(***************************************************************************)
SureToGetIn(a) == \A l \in Locks : Wants(a, l, "R") => ~WriterWaits(l)

TakesLock(a) ==
    /\ exited = "no" /\ SureToGetIn(a) /\ UNCHANGED exited
    /\ \/ a \in Scripted /\ (TakeLock(a) \/ TouchLock(a))
       \/ ReadConfig(a)
       \/ a = "idle_task" /\ (IdleLock \/ IdleTakesStatus \/ CoverFound)
       \/ a = "main" /\ (WriteConfig \/ \E l \in Channels : JoinLock(l))

Continues(a) ==
    /\ exited = "no"
    /\ \/ GiveUp(a)
       \/ a = "main" /\ ReconnectFails
       \/ /\ UNCHANGED exited
          /\ \/ Connected(a) \/ HandshakeDone(a)
             \/ RequestFails(a) /\ ~(a = "idle_task" /\ idle = "select")
             \/ a \in Scripted /\ (DropLock(a) \/ CallAnswered(a) \/ CallFails(a))
             \/ /\ a = "idle_task"
                /\ \/ IdleAbandons \/ IdleDrains \/ StatusAnswered \/ SongAnswered
                   \/ IdleFails
             \/ /\ a = "main"
                /\ ReceiveHup \/ SendFirst \/ MainReconnected \/ SendSecond

Fairness == /\ \A a \in Actors : SF_vars(TakesLock(a)) /\ WF_vars(Continues(a))
            /\ WF_vars(exited = "no" /\ ReceiveTerm)

FairSpec == Spec /\ Fairness

(***************************************************************************)
(* Properties                                                              *)
(***************************************************************************)
\* Types; the channel of the reload handshake, bounded(1), never holds more than
\* one token, and a main that would send another waits.
TypeOK ==
    /\ todo \in [Scripted -> Seq(Ops)]
    /\ idle \in IdlePcs /\ main \in MainPcs
    /\ net \in [Actors -> NetStates]
    /\ held \in [Actors -> [Locks -> {"-", "R", "W"}]]
    /\ tokens \in {0, 1} /\ dirty \in BOOLEAN
    /\ config \in Nat /\ version \in [Channels -> Nat]
    /\ hup \in BOOLEAN /\ term \in BOOLEAN
    /\ exited \in {"no", "ok", "killed"}

\* The order in which tasks nest guards.
Rank == [l \in Locks |-> CASE l = "iface" -> 1 [] l = "idle" -> 2
                          [] l = "status" -> 3 [] l = "conn" -> 4 [] OTHER -> 5]

\* Whoever waits for a lock holds only guards of locks that come earlier in
\* one order (iface, idle, status, conn, config): no handler, no update of
\* the idle task, no ping and no emission can be part of a circular wait.
\* The order is written nowhere in the code; every await under a guard in
\* player.rs, client/mod.rs, status.rs and connection.rs has to respect it.
\* main is left out: its join takes conn and idle in either order.
LockOrder == \A a \in Actors \ {"main"} : \A l, k \in Locks :
    held[a][l] # "-" /\ (Wants(a, k, "R") \/ Wants(a, k, "W")) => Rank[l] < Rank[k]

\* a waits for a lock of b, or behind a writer that waits for it.
WaitsFor(a, b) == \E l \in Locks :
    held[b][l] # "-" /\ (Wants(a, l, "R") \/ Wants(a, l, "W"))

\* No tasks wait for each other's locks in a circle, nor does one for its own:
\* among any of the handlers, the ping, the emissions and the idle task there is
\* one that waits for none of the others.  With main there can be a circle (see
\* ReloadGetsLocks).
NoCircularWait ==
    LET waiting == {a \in Actors \ {"main"} : \E b \in Actors \ {"main"} : WaitsFor(a, b)}
    IN \A set \in SUBSET waiting :
          set # {} => \E a \in set : \A b \in set : ~WaitsFor(a, b)

\* Two actors never have a request in flight on the same stream, so no task
\* reads the answer to another task's request: request_data of the client,
\* update_status and reconnect all run under the connection's own guard.
OneRequestPerStream == \A a, b \in Actors :
    InRequest(a) /\ InRequest(b) /\ a # b => Target(a) # Target(b)

\* The idle task never sends a request on a stream on which an abandoned
\* "idle" is still pending: after it dropped that request for a reload it
\* goes on only when main has reconnected its connection (the two tokens of
\* MPDClient::reconnect and the second recv of idle_task).
CleanStream == InRequest("idle_task") => ~dirty

\* When main waits for signals again, both connections were made with the
\* configuration in force, whatever other tasks reconnected meanwhile.
ReloadTakesEffect ==
    main = "signals" => \A c \in Channels : version[c] = config

\* Every D-Bus call that is being served returns, unless the process ends.
CallCompletes == \A c \in Calls :
    todo[c] # <<>> ~> (todo[c] = <<>> \/ exited # "no")

\* An idle task that was told of a change is not kept from the status for ever, nor
\* in the update: it listens again.  By then the change is in the cache, or one of
\* the requests of the update failed for good, in the handshake or the second time,
\* and the change was dropped with an entry in the log (mod.rs:204-206).  What such
\* a change does to the cache is the matter of Mirror (lost).
IdleTaskReturns == idle = "status" ~> (idle = "lock" \/ exited # "no")

\* A connection that used up its retries makes the process exit.
GiveUpExits == \A a \in Actors : net[a] = "stuck" ~> exited # "no"

\* A reload that was started ends, with the new connections or with the
\* process.
ReloadCompletes == main # "signals" ~> (main = "signals" \/ exited # "no")

\* A reload gets the two connections it asks for.
ReloadGetsLocks == main = "join" ~> (main # "join" \/ exited # "no")
=============================================================================
