--------------------------- MODULE ServiceProofs ---------------------------
(***************************************************************************)
(* The life of the process keeps its types, its arguments and what the     *)
(* first start wrote, for any arguments, environments and files and for    *)
(* any number of starts, signals, edits and crashes; and a service says to *)
(* its manager what Unit asks for.                                         *)
(***************************************************************************)
EXTENDS Service, TLAPS

(***************************************************************************)
(* The configuration                                                       *)
(***************************************************************************)
\* What is a configuration has its fields, so it is none of the others.
LEMMA NotConfigs ==
    ASSUME NEW c, DOMAIN c \subseteq Fields PROVE c \notin {Missing, Broken, NoConfig}
<1>1. "state" \notin Fields
  BY DEF Fields
<1>2. \A d \in {Missing, Broken, NoConfig} : DOMAIN d = {"state"}
  BY DEF Missing, Broken, NoConfig
<1> QED BY <1>1, <1>2

\* What load_config loads: every entry, from the first of arguments, environment,
\* file and defaults that has it.
LEMMA Loaded ==
    ASSUME NEW f, NEW e, NEW a, LoadConfig(f, e, a) # NoConfig,
           DOMAIN a \subseteq ArgFields, DOMAIN e \subseteq EnvFields,
           f \in {Missing, Broken} \/ DOMAIN f \subseteq Fields
    PROVE  LET c == LoadConfig(f, e, a)
           IN  /\ DOMAIN c = Fields
               /\ \A x \in DOMAIN a : c[x] = a[x]
               /\ \A x \in DOMAIN e \ DOMAIN a : c[x] = e[x]
               /\ DOMAIN f = Fields =>
                      \A x \in Fields \ (DOMAIN a \cup DOMAIN e) : c[x] = Entries(f)[x]
               /\ f = Empty =>
                      \A x \in Fields \ (DOMAIN a \cup DOMAIN e) : c[x] = Defaults[x]
<1> DEFINE base == IF f = Missing THEN Defaults ELSE Over(Entries(f), Defaults)
<1>1. LoadConfig(f, e, a) = Over(a, Over(e, base)) /\ f # Broken
  BY DEF LoadConfig
<1>2. ArgFields \subseteq Fields /\ EnvFields \subseteq Fields
  BY DEF ArgFields, EnvFields, Fields
<1>3. DOMAIN base = Fields
  <2>1. CASE f = Missing
    BY <2>1, ConfigAssumption
  <2>2. CASE f # Missing
    <3>1. DOMAIN Entries(f) = DOMAIN f /\ DOMAIN f \subseteq Fields
      BY <1>1, <2>2 DEF Entries
    <3> QED BY <2>2, <3>1, ConfigAssumption DEF Over
  <2> QED BY <2>1, <2>2
<1>4. DOMAIN f = Fields => \A x \in Fields : base[x] = Entries(f)[x]
  <2> SUFFICES ASSUME DOMAIN f = Fields PROVE \A x \in Fields : base[x] = Entries(f)[x]
    OBVIOUS
  <2>1. f # Missing
    BY NotConfigs
  <2>2. DOMAIN Entries(f) = Fields
    BY DEF Entries
  <2> QED BY <2>1, <2>2, ConfigAssumption DEF Over
<1>7. f = Empty => \A x \in Fields : base[x] = Defaults[x]
  <2> SUFFICES ASSUME f = Empty PROVE \A x \in Fields : base[x] = Defaults[x]
    OBVIOUS
  <2>1. DOMAIN f = {}
    BY DEF Empty
  <2>2. f # Missing
    BY <2>1, NotConfigs
  <2>3. DOMAIN Entries(f) = {}
    BY <2>1 DEF Entries
  <2> QED BY <2>2, <2>3, ConfigAssumption DEF Over
<1> HIDE DEF base
<1>5. /\ DOMAIN Over(e, base) = Fields
      /\ \A x \in Fields : Over(e, base)[x] = IF x \in DOMAIN e THEN e[x] ELSE base[x]
  BY <1>2, <1>3 DEF Over
<1>6. /\ DOMAIN Over(a, Over(e, base)) = Fields
      /\ \A x \in Fields :
            Over(a, Over(e, base))[x] = IF x \in DOMAIN a THEN a[x] ELSE Over(e, base)[x]
  BY <1>2, <1>5 DEF Over
<1> QED BY <1>1, <1>2, <1>4, <1>5, <1>6, <1>7

(***************************************************************************)
(* The inductive invariant                                                 *)
(***************************************************************************)
\* Arguments and variables name entries, and so does what can be read of the file.
Given ==
    /\ DOMAIN args \subseteq ArgFields /\ DOMAIN env \subseteq EnvFields
    /\ file \in {Missing, Broken} \/ DOMAIN file \subseteq Fields

\* The file that a start created, and the user left alone, is its whole configuration
\* or empty.
Kept ==
    /\ whole \in BOOLEAN
    /\ written # NoConfig => /\ DOMAIN written = Fields
                             /\ file = IF whole THEN written ELSE Empty

IInv == TypeOK /\ Given /\ Kept /\ ArgumentsHold /\ FirstStartKept

LEMMA InitIInv == Init => IInv
<1> SUFFICES ASSUME Init PROVE IInv
  OBVIOUS
<1>1. TypeOK
  <2>1. pc = "off" /\ status = "none" /\ told = "none" /\ serving = FALSE /\ pending = {}
    BY DEF Init
  <2>2. killNow = FALSE /\ terms = 0 /\ conf = NoConfig
    BY DEF Init
  <2>3. pc \in Pcs /\ status \in Exits
    BY <2>1 DEF Pcs, Exits
  <2>4. killNow <=> terms = 1
    BY <2>2
  <2> QED BY <2>1, <2>2, <2>3, <2>4 DEF TypeOK
<1>2. Given
  <2>1. DOMAIN args = {} /\ DOMAIN env = {}
    BY DEF Init, Empty
  <2>2. file \in {Missing} \cup Contents
    BY DEF Init
  <2> QED BY <2>1, <2>2, ServiceAssumption DEF Given
<1>3. Kept /\ ArgumentsHold /\ FirstStartKept
  BY DEF Init, Kept, ArgumentsHold, FirstStartKept
<1> QED BY <1>1, <1>2, <1>3 DEF IInv
(***************************************************************************)
(* Steps                                                                   *)
(***************************************************************************)
Notes == {"none", "READY", "RELOADING", "STOPPING"}
Signals == TermSignals \cup {"HUP"}

\* What is given and what was loaded is as it was.
LEMMA SameConfig ==
    ASSUME IInv, UNCHANGED <<conf, given, disk>>
    PROVE  Given' /\ Kept' /\ ArgumentsHold' /\ FirstStartKept'
<1>1. UNCHANGED <<conf, args, env, file, written, whole>>
  BY DEF given, disk
<1>2. Given' /\ Kept'
  BY <1>1 DEF IInv, Given, Kept
<1>3. ArgumentsHold' /\ FirstStartKept'
  BY <1>1 DEF IInv, ArgumentsHold, FirstStartKept, Lasting
<1> QED BY <1>2, <1>3

\* A configuration that is not there holds everything.
LEMMA NoConfigHolds ==
    ASSUME IInv, Given', Kept', conf' = NoConfig
    PROVE  Given' /\ Kept' /\ ArgumentsHold' /\ FirstStartKept'
BY DEF ArgumentsHold, FirstStartKept

LEMMA EndsStep == ASSUME IInv, NEW s \in Exits, Ends(s) PROVE IInv'
<1>1. /\ pc' = "off" /\ status' = s /\ told' = "none" /\ serving' = FALSE /\ pending' = {}
      /\ killNow' = FALSE /\ terms' = 0 /\ conf' = NoConfig
      /\ UNCHANGED <<args, env, file, written, whole>>
  BY DEF Ends, Fresh, given, disk
<1>2. pc' \in Pcs /\ (killNow' <=> terms' = 1)
  BY <1>1 DEF Pcs
<1>3. TypeOK'
  BY <1>1, <1>2 DEF TypeOK
<1>4. Given' /\ Kept'
  BY <1>1 DEF IInv, Given, Kept
<1> QED BY <1>1, <1>3, <1>4, NoConfigHolds DEF IInv

LEMMA StartStep ==
    ASSUME IInv, NEW a \in Arguments, NEW e \in Environments, Start(a, e) PROVE IInv'
<1>1. /\ pc' = "load" /\ status' = "none" /\ told' = "none" /\ serving' = FALSE
      /\ pending' = {} /\ killNow' = FALSE /\ terms' = 0 /\ conf' = NoConfig
      /\ args' = a /\ env' = e /\ UNCHANGED <<file, written, whole>>
  BY DEF Start, Fresh, disk
<1>2. pc' \in Pcs /\ status' \in Exits /\ (killNow' <=> terms' = 1)
  BY <1>1 DEF Pcs, Exits, Starting
<1>3. TypeOK'
  BY <1>1, <1>2 DEF TypeOK
<1>4. Given' /\ Kept'
  BY <1>1, ServiceAssumption DEF IInv, Given, Kept
<1> QED BY <1>1, <1>3, <1>4, NoConfigHolds DEF IInv

\* A step that leaves the configuration and the flag of the signals alone, of a
\* process that has loaded its configuration.
LEMMA RunningStep ==
    ASSUME IInv, UNCHANGED <<killNow, terms>>, pc' \in Pcs \ {"off", "load"},
           status' \in Exits, told' \in Notes, serving' \in BOOLEAN, pending' \subseteq Signals,
           conf' # NoConfig, DOMAIN conf' = Fields,
           Given', Kept', ArgumentsHold', FirstStartKept'
    PROVE  IInv'
<1>1. /\ killNow' \in BOOLEAN /\ terms' \in {0, 1}
      /\ (killNow' <=> terms' = 1)
  BY DEF IInv, TypeOK
<1>2. pc' \in Pcs /\ (conf' = NoConfig <=> pc' \in {"off", "load"})
  OBVIOUS
<1>3. TypeOK'
  BY <1>1, <1>2 DEF TypeOK, Notes, Signals
<1> QED BY <1>3 DEF IInv

\* The configuration is loaded.
LEMMA LoadedStep ==
    ASSUME IInv, conf' = LoadConfig(file, env, args), conf' # NoConfig,
           UNCHANGED <<given, disk>>
    PROVE  DOMAIN conf' = Fields /\ Given' /\ Kept' /\ ArgumentsHold' /\ FirstStartKept'
<1>1. UNCHANGED <<args, env, file, written, whole>>
  BY DEF given, disk
<1>2. Given /\ Given' /\ Kept /\ Kept'
  BY <1>1 DEF IInv, Given, Kept
<1> DEFINE c == LoadConfig(file, env, args)
<1>3. /\ DOMAIN c = Fields
      /\ \A x \in DOMAIN args : c[x] = args[x]
      /\ \A x \in DOMAIN env \ DOMAIN args : c[x] = env[x]
      /\ DOMAIN file = Fields =>
             \A x \in Fields \ (DOMAIN args \cup DOMAIN env) : c[x] = Entries(file)[x]
      /\ file = Empty =>
             \A x \in Fields \ (DOMAIN args \cup DOMAIN env) : c[x] = Defaults[x]
  BY <1>2, Loaded DEF Given
<1> HIDE DEF c
<1>4. conf' = c
  BY DEF c
<1>5. ArgumentsHold'
  BY <1>1, <1>3, <1>4 DEF ArgumentsHold
<1>6. FirstStartKept'
  <2> SUFFICES ASSUME written # NoConfig PROVE FirstStartKept'
    BY <1>1 DEF FirstStartKept
  <2> DEFINE own == Fields \ (DOMAIN args \cup DOMAIN env)
  <2>1. CASE whole
    <3>1. file = written /\ DOMAIN file = Fields
      BY <1>2, <2>1 DEF Kept
    <3>2. \A x \in own : c[x] = Entries(written)[x]
      BY <1>3, <3>1
    <3>3. \A x \in own : Lasting(x) => Entries(written)[x] = written[x]
      BY <3>1 DEF Entries, Lasting
    <3>4. \A x \in own : Lasting(x) => c[x] = written[x]
      BY <3>2, <3>3
    <3> QED BY <1>1, <1>4, <3>4 DEF FirstStartKept, Lasting
  <2>2. CASE ~whole
    <3>1. file = Empty
      BY <1>2, <2>2 DEF Kept
    <3>2. \A x \in own : c[x] = Defaults[x]
      BY <1>3, <3>1
    <3> QED BY <1>1, <1>4, <2>2, <3>2 DEF FirstStartKept
  <2> QED BY <1>2, <2>1, <2>2 DEF Kept
<1> QED BY <1>2, <1>3, <1>4, <1>5, <1>6
LEMMA EditStep == ASSUME IInv, NEW f \in {Missing} \cup Contents, Edit(f) PROVE IInv'
<1>1. /\ file' = f /\ written' = NoConfig /\ whole' = FALSE
      /\ UNCHANGED <<pc, conf, args, env, pending, killNow, terms, told, serving, status>>
  BY DEF Edit, given, caught, shown
<1>2. TypeOK'
  BY <1>1 DEF IInv, TypeOK
<1>3. Given' /\ Kept'
  BY <1>1, ServiceAssumption DEF IInv, Given, Kept
<1>4. ArgumentsHold' /\ FirstStartKept'
  BY <1>1 DEF IInv, ArgumentsHold, FirstStartKept
<1> QED BY <1>2, <1>3, <1>4 DEF IInv

\* The file that Save creates is the configuration of this start, to be filled.
LEMMA SaveStep == ASSUME IInv, Save PROVE IInv'
<1>1. /\ pc = "save" /\ pc' \in {"write", "connect"}
      /\ (file' = Empty /\ written' = conf /\ whole' = FALSE) \/ UNCHANGED disk
      /\ UNCHANGED <<conf, given, pending, killNow, terms, told, serving, status>>
  BY DEF Save, caught, shown
<1>2. conf' # NoConfig /\ DOMAIN conf' = Fields /\ DOMAIN conf = Fields
  BY <1>1 DEF IInv, TypeOK
<1>3. Given' /\ Kept' /\ ArgumentsHold' /\ FirstStartKept'
  <2>1. CASE UNCHANGED disk
    BY <1>1, <2>1, SameConfig
  <2>2. CASE file' = Empty /\ written' = conf /\ whole' = FALSE
    <3>1. UNCHANGED <<conf, args, env>>
      BY <1>1 DEF given
    <3>2. DOMAIN Empty = {}
      BY DEF Empty
    <3>3. Given' /\ Kept'
      BY <1>2, <2>2, <3>1, <3>2 DEF IInv, Given, Kept
    <3>4. ArgumentsHold' /\ FirstStartKept'
      BY <2>2, <3>1 DEF IInv, ArgumentsHold, FirstStartKept
    <3> QED BY <3>3, <3>4
  <2> QED BY <1>1, <2>1, <2>2
<1>4. pc' \in Pcs \ {"off", "load"}
  BY <1>1 DEF Pcs, Starting
<1> QED BY <1>1, <1>2, <1>3, <1>4, RunningStep DEF IInv, TypeOK, Notes, Signals

LEMMA WriteStep == ASSUME IInv, Write PROVE IInv'
<1>1. /\ pc = "write" /\ pc' = "connect"
      /\ (file' = conf /\ written' = conf /\ whole' = TRUE) \/ UNCHANGED disk
      /\ UNCHANGED <<conf, given, pending, killNow, terms, told, serving, status>>
  BY DEF Write, caught, shown
<1>2. conf' # NoConfig /\ DOMAIN conf' = Fields /\ DOMAIN conf = Fields
  BY <1>1 DEF IInv, TypeOK
<1>3. Given' /\ Kept' /\ ArgumentsHold' /\ FirstStartKept'
  <2>1. CASE UNCHANGED disk
    BY <1>1, <2>1, SameConfig
  <2>2. CASE file' = conf /\ written' = conf /\ whole' = TRUE
    <3>1. UNCHANGED <<conf, args, env>>
      BY <1>1 DEF given
    <3>2. Given' /\ Kept'
      BY <1>2, <2>2, <3>1 DEF IInv, Given, Kept
    <3>3. ArgumentsHold' /\ FirstStartKept'
      BY <2>2, <3>1 DEF IInv, ArgumentsHold, FirstStartKept
    <3> QED BY <3>2, <3>3
  <2> QED BY <1>1, <2>1, <2>2
<1>4. pc' \in Pcs \ {"off", "load"}
  BY <1>1 DEF Pcs, Starting
<1> QED BY <1>1, <1>2, <1>3, <1>4, RunningStep DEF IInv, TypeOK, Notes, Signals

LEMMA LoadStep == ASSUME IInv, Load PROVE IInv'
<1>1. CASE Ends("failure")
  BY <1>1, EndsStep DEF Exits
<1>2. CASE /\ conf' = LoadConfig(file, env, args) /\ conf' # NoConfig /\ pc' = "save"
           /\ UNCHANGED <<given, disk, caught, shown>>
  <2>1. UNCHANGED <<pending, killNow, terms, told, serving, status>>
    BY <1>2 DEF caught, shown
  <2>2. pc' \in Pcs \ {"off", "load"}
    BY <1>2 DEF Pcs, Starting
  <2> QED BY <1>2, <2>1, <2>2, LoadedStep, RunningStep DEF IInv, TypeOK, Notes, Signals
<1> QED BY <1>1, <1>2 DEF Load

LEMMA ReloadStep == ASSUME IInv, Reload PROVE IInv'
<1>1. /\ pc = "reload" /\ pc' \in {"signals", "reconnect"}
      /\ UNCHANGED <<given, disk>>
      /\ UNCHANGED <<pending, killNow, terms, told, serving, status>>
      /\ \/ UNCHANGED conf
         \/ conf' = LoadConfig(file, env, args) /\ conf' # NoConfig
  BY DEF Reload, caught, shown
<1>2. conf # NoConfig /\ DOMAIN conf = Fields
  BY <1>1 DEF IInv, TypeOK
<1>3. pc' \in Pcs \ {"off", "load"}
  BY <1>1 DEF Pcs
<1>4. /\ conf' # NoConfig /\ DOMAIN conf' = Fields
      /\ Given' /\ Kept' /\ ArgumentsHold' /\ FirstStartKept'
  BY <1>1, <1>2, SameConfig, LoadedStep
<1> QED BY <1>1, <1>3, <1>4, RunningStep DEF IInv, TypeOK, Notes, Signals

\* Steps that leave the configuration alone, and the flag.
LEMMA OtherStep ==
    ASSUME IInv, pc \notin {"off", "load"}, UNCHANGED <<conf, given, disk, killNow, terms, status>>,
           pc' \in Pcs \ {"off", "load"}, told' \in Notes, serving' \in BOOLEAN,
           pending' \subseteq Signals
    PROVE  IInv'
<1>1. conf' # NoConfig /\ DOMAIN conf' = Fields
  BY DEF IInv, TypeOK
<1>2. status' \in Exits
  BY DEF IInv, TypeOK
<1> QED BY <1>1, <1>2, SameConfig, RunningStep

LEMMA TerminatesStep ==
    ASSUME IInv, pc # "off", NEW s \in TermSignals, NEW next, Terminates(s, next),
           next = pc \/ (next = "stuck" /\ pc # "load")
    PROVE  IInv'
<1>1. CASE Ends("failure")
  BY <1>1, EndsStep DEF Exits
<1>2. CASE /\ ~killNow /\ killNow' = TRUE /\ terms' = terms + 1
           /\ pending' = pending \cup {s} /\ pc' = next
           /\ UNCHANGED <<conf, given, disk, shown>>
  <2>1. terms' = 1
    <3>1. terms = 0
      BY <1>2 DEF IInv, TypeOK
    <3> QED BY <1>2, <3>1
  <2>2. killNow' \in BOOLEAN /\ terms' \in {0, 1} /\ (killNow' <=> terms' = 1)
    BY <1>2, <2>1
  <2>3. UNCHANGED <<told, serving, status>>
    BY <1>2 DEF shown
  <2>4. pending' \subseteq (TermSignals \cup {"HUP"})
    BY <1>2 DEF IInv, TypeOK
  <2>5. pc' \in Pcs /\ (conf' = NoConfig <=> pc' \in {"off", "load"})
        /\ (conf' # NoConfig => DOMAIN conf' = Fields)
    BY <1>2 DEF IInv, TypeOK, Pcs
  <2>6. TypeOK'
    BY <2>2, <2>3, <2>4, <2>5 DEF IInv, TypeOK
  <2> QED BY <1>2, <2>6, SameConfig DEF IInv
<1> QED BY <1>1, <1>2 DEF Terminates
LEMMA UserStep == ASSUME IInv, User PROVE IInv'
<1>1. ASSUME NEW a \in Arguments, NEW e \in Environments, Start(a, e) PROVE IInv'
  BY <1>1, StartStep
<1>2. ASSUME NEW f \in {Missing} \cup Contents, Edit(f) PROVE IInv'
  BY <1>2, EditStep
<1>3. CASE Crash
  BY <1>3, EndsStep DEF Crash, Exits
<1>4. CASE Hup
  <2>1. CASE Ends("signal")
    BY <2>1, EndsStep DEF Exits
  <2>2. CASE /\ pending' = pending \cup {"HUP"}
             /\ UNCHANGED <<pc, conf, given, disk, killNow, terms, shown>>
    <3>1. UNCHANGED <<told, serving, status>>
      BY <2>2 DEF shown
    <3>2. TypeOK'
      BY <2>2, <3>1 DEF IInv, TypeOK
    <3> QED BY <2>2, <3>2, SameConfig DEF IInv
  <2> QED BY <1>4, <2>1, <2>2 DEF Hup
<1>5. ASSUME NEW s \in TermSignals, Term(s) PROVE IInv'
  BY <1>5, TerminatesStep DEF Term
<1> QED BY <1>1, <1>2, <1>3, <1>4, <1>5 DEF User

LEMMA MainStep == ASSUME IInv, Main PROVE IInv'
<1> DEFINE Same == UNCHANGED <<conf, given, disk, killNow, terms, status>>
           Goes == pc' \in Pcs \ {"off", "load"} /\ pc \notin {"off", "load"}
<1>1. /\ told \in Notes /\ serving \in BOOLEAN /\ pending \subseteq Signals
      /\ \A n \in Notes : Notifies(n) => told' \in Notes
  BY DEF IInv, TypeOK, Notes, Signals, Notifies
<1>2. CASE Load \/ Save \/ Write \/ Reload
  BY <1>2, LoadStep, SaveStep, WriteStep, ReloadStep
<1>3. CASE \E s \in Exits : Ends(s)
  BY <1>3, EndsStep
<1>4. CASE Connect \/ Serve \/ Ready
  <2>1. \/ Ends("panic")
        \/ Same /\ Goes /\ UNCHANGED pending /\ serving' \in BOOLEAN /\ told' \in Notes
    BY <1>1, <1>4 DEF Connect, Serve, Ready, caught, shown, Pcs, Starting, Notes
  <2> QED BY <1>1, <1>3, <2>1, OtherStep DEF Exits
<1>5. CASE ServeHup \/ Reconnect \/ Stop
  <2>1. Same /\ Goes /\ pending' \subseteq pending /\ UNCHANGED serving /\ told' \in Notes
    BY <1>1, <1>5 DEF ServeHup, Reconnect, Stop, caught, Pcs, Notes
  <2> QED BY <1>1, <2>1, OtherStep
<1>6. CASE ServeTerm
  <2>1. Same /\ Goes /\ pending' \subseteq pending /\ UNCHANGED <<serving, told>>
    BY <1>6 DEF ServeTerm, shown, Pcs
  <2> QED BY <1>1, <2>1, OtherStep
<1>7. CASE ServeQuit \/ Exit
  BY <1>3, <1>7 DEF ServeQuit, Exit, Exits
<1>8. CASE ReconnectGivesUp \/ ConnectGivesUp
  BY <1>8, TerminatesStep DEF ReconnectGivesUp, ConnectGivesUp, TermSignals
<1> QED BY <1>2, <1>4, <1>5, <1>6, <1>7, <1>8 DEF Main

LEMMA NextIInv == IInv /\ [Next]_vars => IInv'
<1> SUFFICES ASSUME IInv, [Next]_vars PROVE IInv'
  OBVIOUS
<1>1. CASE UNCHANGED vars
  <2>1. UNCHANGED <<pc, conf, given, disk, pending, killNow, terms, told, serving, status>>
    BY <1>1 DEF vars, caught, shown
  <2>2. TypeOK'
    BY <2>1 DEF IInv, TypeOK
  <2> QED BY <2>1, <2>2, SameConfig DEF IInv
<1> QED BY <1>1, UserStep, MainStep DEF Next, Waits

\* The values of the variables stay within their types, and the configuration is
\* there, with every entry, from the moment it is loaded until the process ends.
THEOREM ServiceTypes == Spec => []TypeOK
<1>1. IInv => TypeOK
  BY DEF IInv
<1> QED BY <1>1, InitIInv, NextIInv, PTL DEF Spec

\* Whatever the file says and however often it is reloaded, an argument of this
\* start holds, and an environment variable where there is no argument:
\* ArgumentsHold, checked by the run service_life.
THEOREM ServiceArgumentsHold == Spec => []ArgumentsHold
<1>1. IInv => ArgumentsHold
  BY DEF IInv
<1> QED BY <1>1, InitIInv, NextIInv, PTL DEF Spec

\* The configuration of the start that created the file is that of later starts and
\* reloads, apart from what their arguments and environments say and from paths that
\* expanding changes again, until the user touches the file, or all of it is lost to
\* the defaults because that start did not get to fill the file: FirstStartKept,
\* checked by the run service_life.
THEOREM ServiceFirstStartKept == Spec => []FirstStartKept
<1>1. IInv => FirstStartKept
  BY DEF IInv
<1> QED BY <1>1, InitIInv, NextIInv, PTL DEF Spec

(***************************************************************************)
(* The service manager                                                     *)
(***************************************************************************)
\* What was said to the service manager, and whether the name is ours, where main is.
Said ==
    /\ pc \in {"off"} \cup Starting => told = "none"
    /\ pc \in {"signals", "stop"} => told \in {"READY", "RELOADING"}
    /\ pc \in {"reload", "reconnect"} => told = "RELOADING"
    /\ pc = "exit" => told = "STOPPING"
    /\ pc \in {"notify", "signals", "reload", "reconnect", "stop", "exit"} => serving

\* A process that ends, well or not.
LEMMA EndsUnit ==
    ASSUME NEW s \in Exits, Ends(s), pc # "off", TypeOK,
           s = "success" => told = "STOPPING", s # "none"
    PROVE  Said' /\ Manager!Next
<1>1. pc' = "off" /\ status' = s /\ told' = "none" /\ serving' = FALSE
  BY DEF Ends, Fresh
<1>2. Said'
  BY <1>1 DEF Said
<1>3. CASE s = "success"
  <2>1. UnitState = "deactivating" /\ UnitState' = "inactive"
    BY <1>1, <1>3 DEF UnitState
  <2> QED BY <1>1, <1>2, <2>1 DEF Manager!Next, Manager!Exit
<1>4. CASE s # "success"
  <2>1. UnitState \in {"activating", "active", "reloading", "deactivating"}
    BY DEF UnitState, TypeOK
  <2>2. UnitState' = "failed"
    BY <1>1, <1>4 DEF UnitState
  <2> QED BY <1>1, <1>2, <2>1, <2>2 DEF Manager!Next, Manager!Fail, Manager!States
<1> QED BY <1>3, <1>4

\* A step of which the service manager sees nothing.
LEMMA Unseen ==
    ASSUME TypeOK, Said, UNCHANGED <<told, serving, status>>, pc # "off",
           \/ pc' = pc
           \/ pc \in {"load", "save", "write", "connect"}
              /\ pc' \in {"save", "write", "connect", "serve"}
           \/ pc = "reload" /\ pc' \in {"signals", "reconnect"}
           \/ pc \in {"connect", "reconnect"} /\ pc' = "stuck"
           \/ pc = "signals" /\ pc' = "stop"
    PROVE  Said' /\ UNCHANGED Manager!unitVars
<1>1. pc' # "off"
  OBVIOUS
<1>2. Said'
  BY DEF Said, Starting
<1>3. UnitState' = UnitState
  BY <1>1 DEF UnitState, TypeOK
<1> QED BY <1>2, <1>3 DEF Manager!unitVars

LEMMA UserUnit ==
    ASSUME Service = TRUE, TypeOK, Said, User
    PROVE  Said' /\ [Manager!Next]_(Manager!unitVars)
<1>1. ASSUME NEW a, NEW e, Start(a, e) PROVE Said' /\ Manager!Next
  <2>1. /\ pc = "off" /\ pc' = "load" /\ told' = "none" /\ serving' = FALSE
    BY <1>1 DEF Start, Fresh
  <2>2. UnitState \in {"inactive", "failed"} /\ UnitState' = "activating"
    BY <2>1 DEF UnitState
  <2>3. Said'
    BY <2>1 DEF Said
  <2> QED BY <2>1, <2>2, <2>3 DEF Manager!Next, Manager!Start
<1>2. ASSUME NEW f, Edit(f) PROVE Said' /\ UNCHANGED Manager!unitVars
  <2>1. UNCHANGED <<pc, told, serving, status>>
    BY <1>2 DEF Edit, shown
  <2> QED BY <2>1 DEF Said, UnitState, Manager!unitVars
<1>3. CASE Crash
  BY <1>3, EndsUnit DEF Crash, Exits
<1>4. CASE Hup
  <2>1. pc # "off" /\ UNCHANGED <<pc, told, serving, status>>
    BY <1>4 DEF Hup, shown
  <2> QED BY <2>1, Unseen
<1>5. ASSUME NEW s, Term(s) PROVE Said' /\ [Manager!Next]_(Manager!unitVars)
  <2>1. pc # "off" /\ (Ends("failure") \/ UNCHANGED <<pc, told, serving, status>>)
    BY <1>5 DEF Term, Terminates, shown
  <2> QED BY <2>1, EndsUnit, Unseen DEF Exits
<1> QED BY <1>1, <1>2, <1>3, <1>4, <1>5 DEF User

LEMMA MainUnit ==
    ASSUME Service = TRUE, TypeOK, Said, Main
    PROVE  Said' /\ [Manager!Next]_(Manager!unitVars)
<1>1. ASSUME pc # "off", \E s \in Exits \ {"none", "success"} : Ends(s)
      PROVE  Said' /\ [Manager!Next]_(Manager!unitVars)
  BY <1>1, EndsUnit
<1>2. ASSUME Load \/ Save \/ Write \/ Connect \/ Reload \/ ServeTerm
             \/ ReconnectGivesUp \/ ConnectGivesUp
      PROVE  Said' /\ [Manager!Next]_(Manager!unitVars)
  <2>1. ASSUME Load \/ Connect PROVE
          /\ pc \in {"load", "connect"}
          /\ \/ \E s \in Exits \ {"none", "success"} : Ends(s)
             \/ pc' \in {"save", "serve"} /\ UNCHANGED <<told, serving, status>>
    BY <2>1 DEF Load, Connect, shown, Exits
  <2>2. ASSUME Save \/ Write PROVE
          /\ pc \in {"save", "write"} /\ pc' \in {"write", "connect"}
          /\ UNCHANGED <<told, serving, status>>
    BY <2>2 DEF Save, Write, shown
  <2>3. ASSUME Reload PROVE
          /\ pc = "reload" /\ pc' \in {"signals", "reconnect"}
          /\ UNCHANGED <<told, serving, status>>
    BY <2>3 DEF Reload, shown
  <2>4. ASSUME ReconnectGivesUp \/ ConnectGivesUp PROVE
          /\ pc \in {"connect", "reconnect"}
          /\ \/ \E s \in Exits \ {"none", "success"} : Ends(s)
             \/ pc' = "stuck" /\ UNCHANGED <<told, serving, status>>
    BY <2>4 DEF ReconnectGivesUp, ConnectGivesUp, Terminates, shown, Exits
  <2>5. ASSUME ServeTerm PROVE
          pc = "signals" /\ pc' = "stop" /\ UNCHANGED <<told, serving, status>>
    BY <2>5 DEF ServeTerm, shown
  <2>6. CASE Load \/ Connect
    BY <1>1, <2>1, <2>6, Unseen
  <2>7. CASE ReconnectGivesUp \/ ConnectGivesUp
    BY <1>1, <2>4, <2>7, Unseen
  <2>8. CASE Save \/ Write
    BY <2>2, <2>8, Unseen
  <2> QED BY <1>2, <2>3, <2>5, <2>6, <2>7, <2>8, Unseen
<1>3. CASE Serve
  <2>1. CASE Ends("panic")
    BY <1>1, <1>3, <2>1 DEF Serve, Exits
  <2>2. CASE pc' = "notify" /\ serving' = TRUE /\ UNCHANGED <<told, status>>
    <3>1. pc = "serve" /\ told = "none"
      BY <1>3 DEF Serve, Said, Starting
    <3>2. UnitState = "activating" /\ UnitState' = "activating"
      BY <2>2, <3>1 DEF UnitState
    <3>3. Said'
      BY <2>2, <3>1 DEF Said
    <3> QED BY <2>2, <3>2, <3>3 DEF Manager!Next, Manager!Serve
  <2> QED BY <1>3, <2>1, <2>2 DEF Serve
<1>4. CASE Ready
  <2>1. pc = "notify" /\ told = "none" /\ serving
    BY <1>4 DEF Ready, Said, Starting
  <2>2. CASE Ends("panic")
    BY <1>1, <2>1, <2>2 DEF Exits
  <2>3. CASE Notifies("READY") /\ pc' = "signals" /\ UNCHANGED serving
    <3>1. told' = "READY"
      BY <2>3 DEF Notifies
    <3>2. UnitState = "activating" /\ UnitState' = "active"
      BY <2>1, <2>3, <3>1 DEF UnitState
    <3>3. Said'
      BY <2>1, <2>3, <3>1 DEF Said, Starting
    <3> QED BY <2>1, <2>3, <3>2, <3>3 DEF Manager!Next, Manager!Ready
  <2> QED BY <1>4, <2>2, <2>3 DEF Ready
<1>5. CASE ServeHup
  <2>1. /\ pc = "signals" /\ told \in {"READY", "RELOADING"} /\ serving
        /\ pc' = "reload" /\ told' = "RELOADING" /\ UNCHANGED serving
    BY <1>5 DEF ServeHup, Said, Notifies
  <2>2. UnitState \in {"active", "reloading"} /\ UnitState' = "reloading"
    BY <2>1 DEF UnitState
  <2>3. Said'
    BY <2>1 DEF Said, Starting
  <2> QED BY <2>1, <2>2, <2>3 DEF Manager!Next, Manager!Reload
<1>6. CASE Reconnect
  <2>1. /\ pc = "reconnect" /\ told = "RELOADING" /\ serving
        /\ pc' \in {"signals", "stop"} /\ told' = "READY" /\ UNCHANGED serving
    BY <1>6 DEF Reconnect, Said, Notifies
  <2>2. UnitState = "reloading" /\ UnitState' = "active"
    BY <2>1 DEF UnitState
  <2>3. Said'
    BY <2>1 DEF Said, Starting
  <2> QED BY <2>1, <2>2, <2>3 DEF Manager!Next, Manager!Ready
<1>7. CASE Stop
  <2>1. /\ pc = "stop" /\ told \in {"READY", "RELOADING"} /\ serving
        /\ pc' = "exit" /\ told' = "STOPPING" /\ UNCHANGED serving
    BY <1>7 DEF Stop, Said, Notifies
  <2>2. UnitState \in {"active", "reloading"} /\ UnitState' = "deactivating"
    BY <2>1 DEF UnitState
  <2>3. Said'
    BY <2>1 DEF Said, Starting
  <2> QED BY <2>1, <2>2, <2>3 DEF Manager!Next, Manager!Stop
<1>8. CASE ServeQuit
  BY <1>1, <1>8 DEF ServeQuit, Exits
<1>9. CASE Exit
  <2>1. pc = "exit" /\ told = "STOPPING" /\ Ends("success")
    BY <1>9 DEF Exit, Said
  <2> QED BY <2>1, EndsUnit DEF Exits
<1> QED BY <1>2, <1>3, <1>4, <1>5, <1>6, <1>7, <1>8, <1>9 DEF Main

\* As a service, mpdris says to its manager what a unit of its type is to say, in
\* that order, whatever signals, reloads, failures and crashes come: UnitPromise,
\* checked by the run service_life.
THEOREM ServiceUnitPromise == ASSUME Service = TRUE PROVE Spec => UnitPromise
<1>1. Init => Said /\ Manager!Init
  <2>1. Init => pc = "off" /\ status = "none" /\ told = "none" /\ serving = FALSE
    BY DEF Init
  <2> QED BY <2>1 DEF Said, Starting, UnitState, Manager!Init
<1>2. TypeOK /\ Said /\ [Next]_vars => Said' /\ [Manager!Next]_(Manager!unitVars)
  <2> SUFFICES ASSUME TypeOK, Said, [Next]_vars
               PROVE  Said' /\ [Manager!Next]_(Manager!unitVars)
    OBVIOUS
  <2>1. CASE UNCHANGED vars
    <3>1. UNCHANGED <<pc, told, serving, status>>
      BY <2>1 DEF vars, shown
    <3> QED BY <3>1 DEF Said, UnitState, Manager!unitVars
  <2> QED BY <2>1, UserUnit, MainUnit DEF Next, Waits
<1> QED BY <1>1, <1>2, ServiceTypes, PTL DEF Spec, UnitPromise, Manager!Spec
=============================================================================
