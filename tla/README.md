# A verification of mpdris in TLA+

mpdris is a daemon that lets desktop software control the Music Player Daemon
(MPD) over the D-Bus interface MPRIS. It keeps two TCP connections to MPD, a
cached status, and one D-Bus object, shared by a handful of async tasks. This
directory holds TLA+ models of those tasks, of that cache, of a connection, of
the process and of the parts that read text, the TLC configurations that check
them, and TLAPS proofs about them.

Run `tlc -config MCClient_reload.cfg MCClient.tla` (any `MC*_*.cfg` with the
module its name starts with) and `tlapm ClientProofs.tla` (or any other `*Proofs.tla`;
`TextProofs` and `PathProofs` take some minutes).

## Inventory

| Part (source) | State | Operations | Talks to |
|---|---|---|---|
| client (`src/client/mod.rs`) | two `Mutex<MPDConnection>`, `RwLock<Status>`, the channel `drop_idle_lock` (capacity 1), the sender of `StateChanged` | `request_data`, `update_status`, `reconnect`, the loops `idle_task` and `ping_task` | everything |
| connection (`src/client/connection.rs`) | one stream; request and answer are matched by order | `request_data` with one reconnect and retry, `reconnect` with `retries` attempts, SIGTERM to itself when they are used up | the configuration lock, main through SIGTERM |
| status (`src/client/status.rs`) | `Status`, with the current `Song` | `update_status`: "status", perhaps "currentsong", then the events of what changed; the cover search | the connection, the event queue |
| D-Bus signals (`src/dbus/mod.rs`) | the receiver of `StateChanged` | `send_signals`: one event, one or more changed signals; restart after an error | the D-Bus object, the cached status |
| player interface (`src/dbus/player.rs`) | none of its own | the MPRIS methods, getters and setters | command connection, cached status, configuration |
| main (`src/main.rs`) | pending signals, the flag of a first termination signal | start, SIGHUP (reload), SIGTERM and SIGQUIT (exit), systemd notifications | the configuration, `MPDClient::reconnect`, the service manager |
| error parser (`src/client/error.rs`) | none | `try_from_mpd` | connection |
| configuration, arguments (`src/config.rs`, `src/args.rs`) | global `RwLock<Config>`, the file | load, write, override by environment and arguments | main, connection, status, player |
| path expansion (`src/util/expand.rs`) | none | `expand_path` | configuration |
| systemd, daemonize (`src/util/`), base interface (`src/dbus/base.rs`), build tooling (`build.rs`, `xtask/`) | none | library calls, constants | |

What is hard in this code:

* *Waiting.* Five locks (the one zbus keeps around the D-Bus object, two
  connections, status, configuration), eight ways to nest them, and no rule
  written down. A request can take 15 s of reconnecting, or for ever, with
  guards held. The reload adds a channel and a `join`.
* *Streams without tags.* An answer belongs to the request before it. An "idle"
  request that is abandoned leaves its answer behind.
* *A cache with three writers.* The idle task, `position()` and the setters write
  the status; the events that tell D-Bus clients come from comparing two
  versions of it, and the values signalled are read later, elsewhere.
* *Errors half way.* "status" succeeds and "currentsong" fails; an event's
  second signal fails; the idle connection breaks in the middle of an update; the retry
  carries a command out twice; an answer is left
  half read; the process ends between two steps of its start.
* *Hand-written parsers.* Refusals, pairs, `$VARIABLE` in paths, the list of places
  for a cover.

What makes each part correct: calls return, changes are taken in, a reload ends
with both connections on the new configuration, used-up retries end the process
(client, connection, main); an answer is that to the caller's request, and a
request is carried out at most twice (connection); at rest the cache is what MPD
would answer (status); a client that follows the changed signals knows the cached
values (signals, player); a method does to the player what it was asked, also when
its request is repeated (player); the service manager sees the notifications of its
protocol, and arguments hold (main, configuration); what is read is what was
written (parsers). `PROJECT.json` lists every hazard with the line where it bites.

## The modules

### Client: who waits for whom

An actor is a D-Bus call (`Calls`), the ping task, the emitting task (`"sender"`),
the idle task or main. `held[a][l]` is the guard actor `a` has on lock `l`.

* Calls, pings and emissions run a *script* (`todo`): the locks, requests and
  drops of the handler in source order, one script per handler and way through
  it (`Scripts`, `EmitSong`, ...). A `Lock` lives until the handler returns
  or drops it, which is Rust's scope rule; a `Touch` is a guard that is a temporary
  (`self.status.read().await.state`). zbus takes its lock for reading when
  a method takes `&self` and for writing when it takes `&mut self`, and emits the
  changed signal of a property that was set after the setter returns.
* A request goes through the phases in `net`: the first attempt, then after any
  error the configuration lock (`ReadConfig`), the connection attempt
  (`Connected` or `GiveUp`), `after_connect` (`HandshakeDone`), the second
  attempt. Its phases are the same whoever runs it.
* `idle` and `main` are program counters through `idle_task` and through the signal
  loop with `MPDClient::reconnect`; `tokens` is the channel between them,
  `dirty` says that an abandoned "idle" is pending on the idle stream, `version`
  which configuration each connection was made with.
* `select` drops the request future wherever it is, so `IdleAbandons` may happen in
  any phase but `"stuck"`, where `block_on` blocks the thread.
* A panic in `update_status` ends the idle task, drops its guards and its
  receiver; sends then fail and the failure is ignored, as in the code.

### Status and Mirror: what a client gets to know

`Status` holds the pure part: `FromAnswer` builds the cached status from MPD's
answer, `ChangeEvents` the events of an update in the order they are sent,
`Value` the getters and `Signalled` the signals of an event. `Mirror` is the
machine around it: MPD changes and remembers what to report (`flags`), the idle
task is told (`IdleTold`), asks for the status (`StatusAnswered`) and the song
(`SongAnswered`), the events queue up (`queue`), the emitting task takes one
(`TakeEvent`) and sends its signals with the value the cache has then
(`EmitSignal`); a `position()` call does an update of its own; setters send a
request, write the cache and have zbus read and emit (`SetRequested` to
`SetEmitted`). `view` is a D-Bus client that knows a property from its last signal.

A step of `Mirror` is what happens between two awaits at which somebody else can
intervene. Two requests of one update are two steps, because MPD and the emitting
task may act in between; the status stays locked (`upd`). The emitting task
reads the value and sends it in one step: it is alone with the object (write lock).
zbus's emission for a set property is two steps, since `&self` setters share it.

Left out of both: song tags and the duration (`Song` compares by id only), stored
playlists (they change nothing in the status).

Errors are only logged. Two history variables say what they did: `lost`, a report of MPD
was used up or lost without an answer to "status" since (`IdleReconnects`: any request on the
idle connection may have to make it anew, "idle" as well as those of an update), and `missed`, the signal of
a song failed and no song was signalled since. The properties say with them that
whatever comes next makes good for an error.

### Connection, refining Request: one connection and MPD at its other end

`Request` is the promise: a request is carried out while its caller waits and at most
twice; an Ok is the answer to it and means it was carried out; answers get out of step
only by a failure, and a reconnection puts them in step. `Connection` is
`request_data`: `Ask` writes the line, `Read*` are the branches of `read_data` (a line
each), `AfterError` the choice between reconnecting and returning,
`ConnectSucceeds` and `ConnectFails` one attempt of `connect`, `GoOn` the handshake.
A line of the stream carries the number of the request it answers, which the client does
not see. MPD answers in the order of asking (`MpdAnswers`). `Breaks` loses a request
before or after it was carried out, and any rest of the answer. `Drops` is the idle
task that lets go of its request, `Reload` `MPDClient::reconnect`. The refinement
mapping reads `inStep` from `left`, a history variable: lines of an answer were left on
the stream or are to come.

### Player: what the methods ask of MPD

One action per method of `PlayerInterface` (`next`, `previous`, ...), which decides on
the cache (`NextRequest(cache)`, ...), and the request on its way: `CarryOut` up to
twice, `Returns` at any time, as `Request` allows. MPD's side (`Done`) is taken from its
protocol and marked external. `Printed` is what MPD reads of a duration the code
prints. Between any two steps MPD may play on or serve another client (`MpdMoves`).
The cache is taken over (`Update`) only between calls, as they keep it locked.
`call` remembers what was so when the call began. `NextLandsOnce` and `PreviousKeepsState` are
about calls that decided on what MPD says and that MPD did not overtake;
`SeekedTruthfulForward` is about a cache of any age, as the elapsed time of a playing song is
only as new as the last update.

### Service, refining Unit: the process

`Service` follows `__main` from `Start` to `Exit`: `Load`, `Save` and `Write` of the
configuration, `Connect`, `Serve`, `Ready`, then the loop (`ServeHup`, `Reload`,
`Reconnect`, `ServeQuit`, `ServeTerm`), `Stop`. Signals arrive in any state; the second
termination signal ends the process at once (`Terminates`). `ReconnectGivesUp` and
`ConnectGivesUp` are reconnections of main's own that are out of retries, in a reload and, after
one of the two new connections was lost, in the `update_status` of `MPDClient::new`: they send
SIGTERM and block the thread that would serve it. `Save` creates the file (`Empty`) and `Write`
fills it or fails. `Crash` (SIGKILL or a panic) may happen anywhere and the file survives it,
created and not filled if it comes between the two. `written` is the configuration of the start
that created the file and `whole` says that it was filled; both are history variables.

`Config` says which value an entry has: arguments over environment over file over defaults.
Loading a file expands its paths (`Expand`, the constant for `expand_path`), also those that
were expanded before they were written; the defaults are taken as they are. `Unit` is the
service manager's view for `Type=notify-reload`; the refinement mapping `UnitState` computes
it from the last notification and the way the process ended.

### AckParser, ExpandPath, Covers, Text: reading

Pure functions, each beside a reference definition that is not written like the
code. `AckParser!TryFromMpd` is the automaton, `Conforms` and `Meaning` describe the line
by its brackets. `ExpandPath!ExpandPath` is the loop over the rest of the path, `Meant`
says for each character what it contributes. `Covers!Tried` is the order of the code,
`Documented` that of the manual. `Text` chooses one of them, lets its input grow
character by character (or files appear), and compares. Characters are of one byte and lines may have all ten digits; the run
has 2, 5 and 6, which make known, unknown and too large numbers. The three characters
that need quoting elsewhere have names (`Space`, `LeftBrace`, `RightBrace`).

### Composition

The two machines share the locks. `Client` shows that no handler but main can be
in a circular wait and that a stream has one user; `Mirror` takes from there that an
update is exclusive and that an emission excludes setters. `Player` relies on
`Request`, which `Connection` implements, and on `Client` for one call at a time.
`Service` and `Client` share the reload: `Client` says when `MPDClient::reconnect` ends,
`Service` what follows if it does.

## What is checked

TLC, exhaustive, no state constraints.

| Run | Instance | Shows |
|---|---|---|
| client_reload | 1 call (`LongKinds`), 1 SIGHUP, faults, give-up, panics; 642 k | `LockOrder`, `NoCircularWait`, `OneRequestPerStream`, `CleanStream`, `ReloadTakesEffect`, `TypeOK` (channel capacity) |
| client_live | 1 call, SIGTERM, faults, give-up, fairness; 28 k | `CallCompletes`, `IdleTaskReturns`, `GiveUpExits` |
| mirror_faults | 3 states: playing, next song paused, cleared with other options and no mixer; position calls; failing status, song, idle and emissions; panics; 3.8 M | `CacheFollowsMpd`, `SongSignalled` |
| mirror_setters | one setter call at a time, 3 properties, failing status; 1.1 M | `TypeOK`, `NoLostSignal`, `CacheFollowsMpd` (but for what setters write) |
| connection_request | 3 requests, 7 answers, 2 breaks, 1 retry, drops and reloads, fairness; 267 k | `KeepsPromise` (refines `Request`), `RequestReturns`, `GivesUpInTime`, `TypeOK` (failed parses) |
| service_life | 2 lives as a service, 2 SIGHUP, any termination signals and crashes, 1 edit, one path that changes when it is expanded, fairness; 27 k | `UnitPromise` (refines `Unit`), `TermEnds`, `ArgumentsHold`, `FirstStartKept`, `TypeOK` |
| player_calls | 3 songs, 6 times, 2 calls, 2 steps of MPD's own; 3.2 M | `NextLandsOnce`, `PreviousKeepsState`, `SeekedTruthfulForward` |
| text_all | ACK lines up to 15, paths up to 6 characters, 5 songs with 3 files; 170 k | `AckParsed`, `AckErrorPlaced`, `PathExpanded`, `CoverFound` |

The remaining runs expect a violation, one for each place where the code does not do
what its own documentation says:

| Run | What happens |
|---|---|
| client_token | reload while the idle task is updating: its first token stays in the channel, the second `send` (mod.rs:50) never returns, both connections stay locked |
| client_circle | `ReloadGetsLocks`: reload, idle task and a `next()` wait for each other in a circle, as main joins the two connections in any order (mod.rs:46) |
| mirror_panic | stop a paused song, which stays selected: `elapsed.unwrap()` on `None` (status.rs:256), the idle task is gone |
| service_ready | a configuration that cannot be loaded: RELOADING=1 is never followed by READY=1 (main.rs:114) |

More departures are in the models and not in a run of their own; each is found by
checking the property named with the constants given:

| Property | Constants | What happens |
|---|---|---|
| `Client!GiveUpExits` | `FairSpec`, `Calls = {}`, `SubscribesHup`, `FiniteRetries`, `Faults`, `MaxReloads = 1` | SIGHUP served before the SIGTERM of the last retry: main waits for the configuration the stuck task holds (main.rs:102) |
| `Mirror!ClientFollows` | `PlayerStates` | the song goes away, or the queue changes around it: no Metadata signal, none for CanGoNext (status.rs:270) |
| `Mirror!SeekSignalled` | `SeekStates`, no setters, no faults | the seek of another client is never signalled: `update_status` compares the old song after `take()` has moved it out (status.rs:239, :280), where its comment says the result tells that the song is the same (:189) |
| `Mirror!CacheFollowsMpdAlways` | a setter of `"Shuffle"` | a setter overwrites a newer cached value (player.rs:223) |
| `Mirror!CacheFollowsMpdAlways` | a setter of `"Volume"` | rounded on the wire (player.rs:274), truncated in the cache (:279) |
| `Connection!GivesUpInTime` | `retries = 0` | retries for ever (connection.rs:124), where only -1 is documented to |
| `Player!SeekedTruthful` | as player_calls | a seek backward is announced as one forward (player.rs:124) and diverted to next near the end (:113); 1.005 s is sent as 1.5 (mod.rs:72) |
| `Service!FirstStartKept`, without its second disjunct | as service_life | a crash between creating the file and filling it: all is lost to the defaults (config.rs:89) |
| `Service!FirstStartKept`, with `Lasting(f) == TRUE` | as service_life | a default path that names a variable is written as it is, and expanded at the next load (config.rs:25, :29) |
| `Text!PathExpandedAlways` | as text_all | the escape test looks at the wrong part of a path with two dollar signs or `~/` (expand.rs:47); with `Home = <<>>` a `~` at the start stays (:34) |

After an idle connection was lost, while it listened or in the middle of an update, what
changed meanwhile is not asked for (`lost`, the exception in `CacheFollowsMpd`). A change whose
update fails is dropped with an entry in the log (mod.rs:204): `IdleTaskReturns` says only that the
idle task listens again, and `lost` what the cache misses. While a song plays the cached
elapsed time is as old as the last update: a seek decides on it whether it goes past the end
(player.rs:113), and its Seeked is behind by as much (:124, `Ahead` in `SeekedTruthfulForward`).
A call that MPD overtakes, between its
decision and its request, does what it decided on: `set_position` seeks in the song that plays then,
`next` goes to the song that followed the one it saw (player.rs:152, :30).

`TermEnds` and `ReloadEnds` are for a main that does not wait for ever (`Unblocked`). It may wait, with a first
SIGTERM pending and no effect of it, in these places:

* an attempt to connect with retries without end, at start-up or in a reload;
* its own reconnection that used up the retries, in a reload or in the `update_status` at the end
  of `MPDClient::new` (mod.rs:155, connection.rs:147): only a second signal ends the process;
* a task that used up the retries first and keeps its locks: at start-up the ping or the idle
  task, started before that `update_status`, which waits for the command connection and the status;
  in a reload any task, if the SIGHUP is served before its SIGTERM, as main then waits for the
  configuration (main.rs:102), see `GiveUpExits` above;
* the circle of mod.rs:46 and the second `send` of mod.rs:50, the runs client_circle and client_token.

A reconnection of a reload that fails otherwise is followed by READY=1 and a successful exit,
after which `Restart=on-failure` does not restart. `CoverFound` leaves out songs whose directory
has a dot in its name: `set_extension` cuts it (status.rs:134).

Because of what `client_token` and `client_circle` show, `client_reload` is checked with deadlock
checking off: the system really can stop there. So is `text_all`, where an input ends.
All other passing runs check for deadlock; in `Connection`, `Service` and `Player` an explicit step
says where the process may have nothing to do.

### Bounds

* `Calls`: deadlocks and shared streams need two parties that wait for one another
  and one that makes the circle; with ping, emission, idle task and main there are
  already four beside the call. `LongKinds` are the scripts of which all others
  are parts (but for the mode of iface), `SomeKinds` the two that hold most. For lock order and streams the
  theorems cover any number of calls of every kind.
* `MaxReloads = 1`: main returns to its loop with the state it started from, apart
  from version numbers; the theorems cover any number.
* `MpdStates`: in `mirror_faults` three (`MixedStates`) states any of which may follow any other and
  which differ pairwise in the song, the play state or everything; one of the six changes
  panics. For the setters pause or play, shuffle and two volumes, whereas they set every loop
  status (`ShuffleStates`). No line of `update_status` relates the options to the
  song.
* `QueueBound`: MPD and setters act only while fewer events are queued. One update
  sends up to seven events, so queues are longer than the bound.
* `SetVolumes` are tenths of a percent; 50.0 and 50.6 differ in rounding. Ties,
  which Rust rounds to even, are left out.
* `connection_request`: a request is sent twice at most, so two breaks reach every phase of
  one and the phases of the next; the third request sees what the second left behind. The
  answers have 0 to 4 junk lines; the limit is 3. `retries = 1` has a first, a last and one attempt too many.
* `service_life`: the second life sees what the first left on the disk; one edit
  makes the file differ from what was written, or makes it unreadable. One default path and one
  of the user's change when they are expanded; a crash in either life may hit the filling of the file.
* `player_calls`: two calls, so that the second starts from a cache and an MPD the first
  left apart; `Times` lie within a song, at its end, beyond, before it, and print with one, two and three digits.
* `text_all`: the shortest complete refusal has 12 characters, with a code or list number over
  255 fourteen; paths of 6 characters hold two dollar signs with names and
  backslashes.

### Fairness

`FairSpec` of `Client` is for the three liveness properties. A task that can go on does
(`WF Continues`): the executor polls every woken task, MPD answers every
request but "idle" or the request fails, an attempt to connect ends. The locks of
async-std are eventually fair (`SF TakesLock`): a waiter that was passed over
too long is handed the lock. A reader is promised that only while no writer waits;
without that restriction circles through a waiting writer would be missed. Main
takes a pending SIGTERM (`WF ReceiveTerm`), but a pending SIGHUP may come first.
Nothing is assumed of clients, of MPD's changes and of the user. Each of the
liveness properties ends with "or the process exits", because a lost MPD is
answered by exiting.

In `Connection` MPD answers what it received, the caller reads what is there, and an
attempt to connect ends; that connections stop breaking is not assumed, but bounded. In
`Service` main goes on (`WF GoesOn`) wherever it waits neither for MPD nor for a lock that a task may hold:
in `Waiting` (connecting, waiting for the configuration or for `MPDClient::reconnect`) nothing of
the kind is assumed, and the properties say `Unblocked` instead. A reload that finds no configuration
takes no lock and goes on (`WF LoadFails`). A termination signal that is pending again
and again when main looks is served (`SF`), while SIGHUPs may come first. Nothing is assumed of the user.

A task blocked for ever by `block_on` takes a thread of the executor with it; the
models assume that the executor has another one.

## What is proved

Every safety invariant, every action property and both refinements of the passing runs are
theorems for every value of the constants. The constants are constrained by the named assumptions of
the modules only (`CallsAssumption`, `MirrorAssumption`, ...), and by those that a theorem
states itself.

| Module | Theorems | Hypotheses of their own |
|---|---|---|
| ClientProofs | `TypeCorrect`, `StreamStaysClean`, `ReloadEffective`, `LocksNestInOrder`, `NobodyWaitsInCircles`, `StreamHasOneUser` | |
| ConnectionProofs | `ConnectionTypes`, `ConnectionKeepsPromise` (refinement of `Request`), `ConnectionGivesUp` | the last: `retries` positive or -1 |
| MirrorProofs | `SignalsArrive` | one setter call at a time, no failing "currentsong" or emission |
| MirrorCacheProofs | `MirrorTypes`, `MirrorSongArrives`, `MirrorCacheFollows` | |
| PlayerProofs | `PlayerNextLandsOnce`, `PlayerPreviousKeepsState`, `PlayerSeekedTruthful` | |
| ServiceProofs | `ServiceTypes`, `ServiceArgumentsHold`, `ServiceFirstStartKept`, `ServiceUnitPromise` (refinement of `Unit`) | the last: run as a service |
| TextProofs | `TextAckParsed`, `TextAckErrorPlaced`, `TextCoverFound` | |
| PathProofs | `TextPathExpanded` | |

* **Client.** `CleanStream` and `ReloadTakesEffect` are not
  inductive: that the idle task is not in a request while `dirty` depends on who
  has which token. `Handshake` says it: the idle connection's guard goes with the
  idle task's busy phases or with main's reconnecting ones; with the idle task in
  `"drain"` there is no token exactly while main is reloading, so the second
  `recv` can only get the second token; a token with the idle task elsewhere
  means a reload. `Reloaded` follows main's progress through the two connections.
  `RInv == TypeOK /\ Handshake /\ Reloaded` is inductive, with any number of calls
  and reloads and with all faults.
* **Locks.** The order and the one user follow from what is left of an actor's script: `Fits`
  relates it to the guards held now. Every script fits no guards (`ScriptsFit`,
  checked by the solver script by script), a script that fits goes on fitting after
  its first operation (`TailFits`), so the relation is inductive whatever the
  scripts are. `IdleHeld` and `MainHeld` say the same of the two program
  counters, `Exclusive` that a connection is locked once. `NoCircularWait` is what the order is for:
from one that waits to one it waits for, the lock waited for comes later each time, and there
are five locks (`NobodyWaitsInCircles`). A reader counts as waiting for all that hold
the lock, also for reading, because it may be queued behind a writer that waits for them. main is not covered
  by the order: its `join` is the exception that `ReloadGetsLocks` exhibits.
* **Connection.** That an answer is the caller's own is not inductive: it depends on
  what is under way. `InStep` says that, as long as no line was left over, what MPD has received
  and what it has sent belong to the one request in progress, and end with its end;
  `Received` that what is still to be carried out has been sent more often than carried
  out; `Caller` that one request at most is pending. With the types they are `IInv`, and under it each step of
  `Connection` is a step of `Request` or a stutter (`NextPromise`). A reconnection
  empties both directions, which is where `InStep` becomes true again. The bound on attempts needs
  `Tries` only. With `retries = 0` the code retries for ever, which no comment allows or
  forbids; `args.rs` documents -1, so the theorem leaves 0 out and the table of departures has it.
* **Mirror, signals.** `SignalsArrive` is for any MPD states, updates and queue lengths. Both hypotheses are needed: two
  `set_shuffle` calls may emit in the opposite order of their writes, and a failure
  of either kind loses events. The strengthening is `SetterCurrent`: what a setter
  is about to emit is the cached value, or the update that changed it has queued an
  event. The case that matters is the end of an update (`FinishStep`): every
  announced property it changed is in `ChangeEvents` (`ChangeAnnounced`).
* **Mirror, the song.** With the types `SongSignalled` is inductive, also with setters and all failures: a song
  is stored only together with its event (`SongAnnounced`, `FinishWithSong`), and the event of an update without its song
  does not claim one.
* **Mirror, the cache.** `CacheFollowsMpd` speaks of moments at rest; on the way to them two updates and MPD's memory of
  what to report are involved. `Fresh` compares cache and MPD subsystem by subsystem,
  and `CacheIInv` says of every moment that the cache, or the answer an update is
  working with, is fresh in everything that MPD has not still to report, unless the idle task is on
  its way to ask or a report was lost. An entry of the status that setters write is
  excepted (`SetFields`): a setter writes after its request let go of the connection, and TLC finds the
  update that it overwrites (`CacheFollowsMpdAlways`). No other entry suffers from any number of setters (`WrittenFresh`), and what they ask
  of MPD is a change like any other (`ChangeKept`).
* **Player.** `IInv` keeps, for a call that saw what MPD says and that nobody disturbed, the
  state of MPD as the request carried out that many times from the state at the start
  (`Carried`), and the request as the one the method decides on (`DecidedOn`); of a call on an old cache it keeps
  that a request to seek is the one for its argument (`AsksToSeek`). The theorems then
  are about MPD's commands: a lemma each for `"next"`, `"seekid"`, previous with its pause and the
  seeks, carried out once and twice.
* **Service.** `LoadConfig` is characterised once (`Loaded`: each entry comes from the first of
  arguments, environment, file and defaults that has it); `Given` says that the
  configuration in force was loaded with this start's arguments, `Kept` that the file a start
  created is its whole configuration or empty. For the refinement of `Unit`, `Said` ties the program counter to the last
  notification. A process that is no service notifies nobody, so `UnitPromise` is about
  services only (`Service = TRUE`).
* **Text.** The functions are recursive over their input, and the induction theorems of
  the library cannot be used. `Induction` is for sets of numbers instead (from the
  well-foundedness of <), and the automaton is reasoned about through its run, the function `f` with `Passes(s, f)`.
  `Reached(s, p, n)` says of each state what the n characters read so far are, by
  the places of the brackets; a character leads on to the next such state or to a failure at a
  place where no refusal can have it (`ReadsOn`), so a line is accepted exactly if it
  conforms (`AcceptsRefusals`). For the positions of errors, `Continuable` finishes whatever has been
  read without failing by the end of an example, a lemma for each state; `Typed`, an invariant of the machine, says
  that nothing was typed after a failure. For covers both lists are cut into the
  parts they are concatenated from (`TriedIsDocumented`).
* **Paths.** The loop of `expand_path` and `Meant` go through the path in different strides. `At` says
  of the state after a round that what is put out is what the characters before the
  rest contribute, and that the rest does not start within a name. The test for an escape is only
  right where `Simple` holds: there is no backslash, or the loop is still before the only dollar sign
  with nothing cut off, or no dollar sign is left. That is where the condition of `PathExpanded`
  is needed. A round copies the characters up to a dollar sign (`Copied`) and skips those of its name
  (`Skipped`), so both hold after every round (`StepKeeps`), and each round with a dollar sign left moves the
  rest on, so after as many rounds as there are characters none is left (`LoopEnds`). An empty home
  directory is an exception in the property: the code tells by an empty `ret` that there was no
  `~/` (expand.rs:34), so then the `~` stays.

`RInv`, `CacheIInv` and the inductive invariants of the other machines also hold on the
instances of the runs.

Only model-checked:

* Liveness (`CallCompletes`, `IdleTaskReturns`, `GiveUpExits`, `RequestReturns`, `TermEnds`) and
  everything else that depends on fairness: the provers have no rules for ENABLED.

## Not modelled

* `src/dbus/base.rs`: constant properties and two methods that do nothing.
* `build.rs`, `xtask/`: build, package and install; not part of the running program.
* Song tags and the Metadata dictionary: copied, not computed with.
* `util/mod.rs`: logger, `daemonize` (a sequence of system calls before anything else
  runs; a relative `--config` is looked up after its `chdir("/")`) and the choice between
  the two configuration paths.
* The wording of errors and their mapping to D-Bus errors; deserialisation by serde.
* Characters of more than one byte: in `expand_path` a slice may end inside one, which
  panics.

## Plan

An abstract specification of a mirror (a value, an eventually equal view) that
`Mirror` implements, with liveness.
