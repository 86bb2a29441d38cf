------------------------------ MODULE Service ------------------------------
(***************************************************************************)
(* The life of the process (src/main.rs, with src/config.rs, src/args.rs   *)
(* and src/util): start-up, the signals and the loop that serves them,     *)
(* reloads, the ways out, and the next start.  Its threads and what they   *)
(* do with MPD are in Client; here a connection is made or not.            *)
(***************************************************************************)
EXTENDS Config, Integers

CONSTANTS
    Service,        \* --service
    Daemon,         \* --daemon
    Arguments,      \* the argument functions of the starts
    Environments,   \* the environment functions of the starts
    Contents,       \* what the user puts in the configuration file
    MaxStarts, MaxSignals, MaxEdits             \* bounds

ASSUME ServiceAssumption ==
    /\ Service \in BOOLEAN /\ Daemon \in BOOLEAN
    /\ MaxStarts \in Nat /\ MaxSignals \in Nat /\ MaxEdits \in Nat
    /\ \A a \in Arguments : DOMAIN a \subseteq ArgFields
    /\ \A e \in Environments : DOMAIN e \subseteq EnvFields
    /\ \A c \in Contents : c = Broken \/ DOMAIN c \subseteq Fields

VARIABLES
    pc,         \* where __main is, see Pcs
    file,       \* the configuration file
    args, env,  \* of this start
    conf,       \* CONFIG
    pending,    \* signals received and not served
    killNow,    \* the flag of get_signals
    told,       \* the last notification to the service manager
    serving,    \* the name is ours
    status,     \* how the process ended
    signals,    \* signals raised so far
    terms,      \* termination signals of this life
    written,    \* the configuration of the start that created the file, if it stands
    whole,      \* that start filled the file
    starts, edits
given == <<args, env>>
disk == <<file, written, whole>>
caught == <<pending, killNow, terms>>
shown == <<told, serving, status>>
counts == <<signals, starts, edits>>
vars == <<pc, conf, given, disk, caught, shown, counts>>

\* "save", "write": looking for the file, and having opened it; "reload": in
\* the handler of SIGHUP; "stuck": main itself used up the retries, in "connect" or
\* "reconnect".  Where it is Waiting, main waits for MPD or for a lock that a task
\* may hold for as long as it waits for MPD, or for ever.
Starting == {"load", "save", "write", "connect", "serve", "notify"}
Pcs == {"off", "signals", "reload", "reconnect", "stop", "exit", "stuck"} \cup Starting
Waiting == {"connect", "reload", "reconnect"}
Exits == {"none", "success", "failure", "panic", "signal"}
TermSignals == {"TERM", "QUIT"}     \* SIGINT is served like SIGTERM


Init ==
    /\ pc = "off" /\ status = "none"
    /\ file \in {Missing} \cup Contents
    /\ args = Empty /\ env = Empty /\ conf = NoConfig
    /\ pending = {} /\ killNow = FALSE /\ told = "none" /\ serving = FALSE
    /\ signals = 0 /\ terms = 0
    /\ written = NoConfig /\ whole = FALSE
    /\ starts = 0 /\ edits = 0

(***************************************************************************)
(* Starts, ends and the user                                               *)
(***************************************************************************)
Fresh == /\ pending' = {} /\ killNow' = FALSE /\ terms' = 0
         /\ told' = "none" /\ serving' = FALSE /\ conf' = NoConfig

Ends(s) == /\ pc' = "off" /\ status' = s /\ Fresh
           /\ UNCHANGED <<given, disk, counts>>

Notifies(n) == told' = IF Service THEN n ELSE told

\* The user or the service manager starts the program; main subscribes to the
\* signals before it does anything that takes time.
Start(a, e) ==
    /\ pc = "off" /\ starts < MaxStarts
    /\ pc' = "load" /\ status' = "none" /\ Fresh
    /\ args' = a /\ env' = e /\ starts' = starts + 1
    /\ UNCHANGED <<disk, signals, edits>>

\* The user replaces the file, as an editor does, or deletes it.
Edit(f) ==
    /\ edits < MaxEdits /\ f # file
    /\ file' = f /\ written' = NoConfig /\ whole' = FALSE /\ edits' = edits + 1
    /\ UNCHANGED <<pc, conf, given, caught, shown, signals, starts>>

\* SIGKILL or a panic of the main thread.  What was written to a file stays there;
\* a power cut, after which it might not, is left out.
Crash == pc # "off" /\ Ends("signal")

(***************************************************************************)
(* Start-up                                                                *)
(***************************************************************************)
\* Mutant for TypeOK: an error is a warning, as it is in a reload.
LoadWarns ==
    /\ pc = "load" /\ pc' = "save"
    /\ conf' = LoadConfig(file, env, args)
    /\ UNCHANGED <<given, disk, caught, shown, counts>>

Load ==
    /\ pc = "load"
    /\ LET c == LoadConfig(file, env, args)
       IN IF c = NoConfig THEN Ends("failure")
          ELSE /\ conf' = c /\ pc' = "save"
               /\ UNCHANGED <<given, disk, caught, shown, counts>>

\* Only a file that is missing is created; failing to is a warning.
Save ==
    /\ pc = "save"
    /\ \/ /\ file = Missing /\ file' = Empty /\ pc' = "write"
          /\ written' = conf /\ whole' = FALSE
       \/ pc' = "connect" /\ UNCHANGED disk
    /\ UNCHANGED <<conf, given, caught, shown, counts>>

\* Mutant for FirstStartKept: the defaults are written.
WriteDefaults ==
    /\ pc = "write" /\ pc' = "connect"
    /\ file' = Defaults /\ written' = conf /\ whole' = TRUE
    /\ UNCHANGED <<conf, given, caught, shown, counts>>

\* Config::write has created the file and fills it, unless the user took it away, or
\* fails.  Its few lines are one write of the system, so all of them are there or none.
Write ==
    /\ pc = "write" /\ pc' = "connect"
    /\ \/ written # NoConfig /\ file' = conf /\ written' = conf /\ whole' = TRUE
       \/ UNCHANGED disk
    /\ UNCHANGED <<conf, given, caught, shown, counts>>

\* MPDClient::new connects twice and asks for the status; see ConnectGivesUp.
Connect ==
    /\ pc = "connect"
    /\ \/ pc' = "serve" /\ UNCHANGED <<conf, given, disk, caught, shown, counts>>
       \/ Ends("panic")

\* dbus::serve takes the name, or another instance has it.
Serve ==
    /\ pc = "serve"
    /\ \/ /\ pc' = "notify" /\ serving' = TRUE
          /\ UNCHANGED <<conf, given, disk, caught, told, status, counts>>
       \/ Ends("panic")

\* libsystemd is loaded for a service only, which then is ready.
Ready ==
    /\ pc = "notify"
    /\ \/ /\ Notifies("READY") /\ pc' = "signals"
          /\ UNCHANGED <<conf, given, disk, caught, serving, status, counts>>
       \/ Service /\ Ends("panic")

(***************************************************************************)
(* Signals                                                                 *)
(***************************************************************************)
\* The first termination signal is noted, the second kills, whichever it is and
\* whatever the process is doing.
Terminates(s, next) ==
    \/ killNow /\ Ends("failure")
    \/ /\ ~killNow /\ killNow' = TRUE /\ terms' = terms + 1
       /\ pending' = pending \cup {s} /\ pc' = next
       /\ UNCHANGED <<conf, given, disk, shown, counts>>

\* Signals come from the user, the service manager, or a task of MPDClient that
\* used up its retries (see Client).  Without --service and --daemon nothing
\* subscribes to SIGHUP.
Hup ==
    /\ pc # "off" /\ signals < MaxSignals
    /\ IF Service \/ Daemon
       THEN /\ pending' = pending \cup {"HUP"} /\ signals' = signals + 1
            /\ UNCHANGED <<pc, conf, given, disk, killNow, terms, shown, starts, edits>>
       ELSE Ends("signal")
Term(s) == pc # "off" /\ Terminates(s, pc)

\* The loop over the signals; pending ones are served in any order.
ServeHup ==
    /\ pc = "signals" /\ "HUP" \in pending
    /\ pending' = pending \ {"HUP"} /\ pc' = "reload" /\ Notifies("RELOADING")
    /\ UNCHANGED <<conf, given, disk, killNow, terms, serving, status, counts>>

\* Mutant for ArgumentsHold: a reload takes the file and the environment only.
ReloadBare ==
    /\ pc = "reload"
    /\ LET c == LoadConfig(file, env, Empty)
       IN IF c = NoConfig THEN pc' = "signals" /\ UNCHANGED conf
          ELSE pc' = "reconnect" /\ conf' = c
    /\ UNCHANGED <<given, disk, caught, shown, counts>>

\* With a configuration that cannot be loaded the loop goes on.
Reload ==
    /\ pc = "reload"
    /\ LET c == LoadConfig(file, env, args)
       IN IF c = NoConfig THEN pc' = "signals" /\ UNCHANGED conf
          ELSE pc' = "reconnect" /\ conf' = c
    /\ UNCHANGED <<given, disk, caught, shown, counts>>

\* Without the new connections the loop is left, after saying that all is well.
Reconnect ==
    /\ pc = "reconnect" /\ pc' \in {"signals", "stop"}
    /\ Notifies("READY")
    /\ UNCHANGED <<conf, given, disk, caught, serving, status, counts>>

\* Out of retries, MPDConnection::reconnect sends SIGTERM to the process and
\* blocks for ever the thread that would serve it.
ReconnectGivesUp ==
    /\ pc = "reconnect" /\ conf["retries"] > 0
    /\ Terminates("TERM", "stuck")

\* The same at start-up: both connections were made, one of them was lost, and
\* update_status of MPDClient::new reconnects.
ConnectGivesUp ==
    /\ pc = "connect" /\ conf["retries"] > 0
    /\ Terminates("TERM", "stuck")

ServeQuit ==
    /\ pc = "signals" /\ "QUIT" \in pending
    /\ Ends("signal") \/ Ends("failure")      \* the core is dumped or not

\* Mutant for TermEnds: the handle is not closed.
ServeTermOn ==
    /\ pc = "signals" /\ "TERM" \in pending
    /\ pending' = pending \ {"TERM"}
    /\ UNCHANGED <<pc, conf, given, disk, killNow, terms, shown, counts>>

ServeTerm ==
    /\ pc = "signals" /\ "TERM" \in pending
    /\ pending' = pending \ {"TERM"} /\ pc' = "stop"
    /\ UNCHANGED <<conf, given, disk, killNow, terms, shown, counts>>

\* Mutant for UnitPromise: nothing is said at the end.
StopSilent ==
    /\ pc = "stop" /\ pc' = "exit"
    /\ UNCHANGED <<conf, given, disk, caught, shown, counts>>

Stop ==
    /\ pc = "stop" /\ pc' = "exit" /\ Notifies("STOPPING")
    /\ UNCHANGED <<conf, given, disk, caught, serving, status, counts>>
Exit == pc = "exit" /\ Ends("success")

User == \/ \E a \in Arguments, e \in Environments : Start(a, e)
        \/ \E f \in {Missing} \cup Contents : Edit(f)
        \/ Crash \/ Hup \/ \E s \in TermSignals : Term(s)
Main == \/ Load \/ Save \/ Write \/ Connect \/ Serve \/ Ready
        \/ ServeHup \/ Reload \/ Reconnect \/ ReconnectGivesUp \/ ConnectGivesUp
        \/ ServeQuit \/ ServeTerm \/ Stop \/ Exit
Waits == UNCHANGED vars     \* for a signal, for the user

Next == User \/ Main \/ Waits
Spec == Init /\ [][Next]_vars

(***************************************************************************)
(* Fairness: main goes on where it does not wait for MPD or a lock, and a  *)
(* reload whose configuration cannot be loaded takes no lock.  That main   *)
(* leaves Waiting is not assumed: retries may have no end; one of them, or *)
(* of the tasks, may give up while it holds what main waits for; and what  *)
(* MPDClient::reconnect waits for may never come (see Client).             *)
(***************************************************************************)
GoesOn == Main /\ pc \notin Waiting
LoadFails == Reload /\ pc' = "signals"
FairSpec == /\ Spec /\ WF_vars(GoesOn) /\ WF_vars(LoadFails)
            /\ SF_vars(ServeTerm) /\ SF_vars(ServeQuit)

(***************************************************************************)
(* Properties                                                              *)
(***************************************************************************)
\* Types, and the configuration is there from the moment it is loaded.
TypeOK ==
    /\ pc \in Pcs /\ status \in Exits
    /\ told \in {"none", "READY", "RELOADING", "STOPPING"} /\ serving \in BOOLEAN
    /\ pending \subseteq (TermSignals \cup {"HUP"}) /\ killNow \in BOOLEAN
    /\ terms \in {0, 1} /\ (killNow <=> terms = 1)
    /\ conf = NoConfig <=> pc \in {"off", "load"}
    /\ conf # NoConfig => DOMAIN conf = Fields

\* Whatever the file says and however often it is reloaded, an argument of this
\* start holds, and an environment variable where there is no argument.
ArgumentsHold ==
    conf # NoConfig =>
        /\ \A f \in DOMAIN args : conf[f] = args[f]
        /\ \A f \in DOMAIN env \ DOMAIN args : conf[f] = env[f]

\* The configuration of the start that created the file, arguments and environment
\* included, is that of a later start and of every reload, apart from what those say
\* otherwise and from paths that change when they are expanded again, as long as the
\* user leaves the file alone.  After a crash between creating the file and filling it,
\* or a failure to fill it, the file is empty and all of it is lost to the defaults:
\* never is it a part of the one and a part of the other.
Lasting(f) == f \in PathFields => Expand(written[f]) = written[f]
FirstStartKept ==
    (written # NoConfig /\ conf # NoConfig) =>
        LET kept == {f \in Fields \ (DOMAIN args \cup DOMAIN env) : Lasting(f)}
        IN \/ \A f \in kept : conf[f] = written[f]
           \/ ~whole /\ \A f \in kept : conf[f] = Defaults[f]

\* What the service manager sees of the process, from its notifications and its end.
UnitState ==
    IF pc = "off" THEN IF status \in {"none", "success"} THEN "inactive" ELSE "failed"
    ELSE CASE told = "none" -> "activating"
           [] told = "READY" -> "active"
           [] told = "RELOADING" -> "reloading"
           [] told = "STOPPING" -> "deactivating"
Manager == INSTANCE Unit WITH state <- UnitState

\* As a service, the notifications come in the order Unit asks for: never active
\* before the name is served, reloading only while active, and a good end only
\* after STOPPING=1.
UnitPromise == Manager!Spec

\* A termination signal ends the process, if main does not wait for ever: for MPD, for
\* a lock, or because it used up the retries itself.  Whether main waits for ever in a
\* reload is a question to Client.
Unblocked == []<>(pc \notin Waiting \cup {"stuck"})
TermEnds == Unblocked => ((terms > 0) ~> (pc = "off"))

\* A reload that was announced to the service manager ends for it, if main does not
\* wait for ever.
ReloadEnds == Unblocked => ((told = "RELOADING") ~> (told # "RELOADING"))
=============================================================================
