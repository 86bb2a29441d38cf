------------------------- MODULE MirrorCacheProofs -------------------------
(***************************************************************************)
(* The cached status follows MPD, and a client the song, for every set of  *)
(* MPD states, every bound on the queue and every fault.                   *)
(***************************************************************************)
EXTENDS MirrorProofs

(***************************************************************************)
(* Types                                                                   *)
(***************************************************************************)
Typed ==
    /\ TypeOK
    /\ set = [c \in Setters |-> set[c]] /\ \A c \in Setters : SetterOK(set[c])
    /\ view = [p \in Properties |-> view[p]]

\* A status assembled from an answer of MPD is one.
LEMMA FromAnswerType ==
    ASSUME NEW r \in Answers, NEW song \in Int PROVE FromAnswer(r, song) \in Statuses
<1>1. r.volume \in -1..100 /\ r.next \in Int /\ r.elapsed \in Int /\ r.length \in Nat
  BY DEF Answers, None
<1>2. r.state \in {"play", "pause", "stop"} /\ r.random \in BOOLEAN
  BY DEF Answers
<1> DEFINE v == IF r.volume = None THEN NewStatus.volume ELSE r.volume
           l == IF r.single THEN "single" ELSE IF r.repeat THEN "on" ELSE "off"
<1>3. v \in 0..100
  BY <1>1 DEF NewStatus, None
<1>4. l \in {"off", "on", "single"}
  OBVIOUS
<1>5. FromAnswer(r, song) =
        [state |-> r.state, volume |-> v, repeat |-> l, shuffle |-> r.random,
         elapsed |-> r.elapsed, song |-> song, next |-> r.next, length |-> r.length]
  BY DEF FromAnswer
<1> HIDE DEF v, l
<1> QED BY <1>1, <1>2, <1>3, <1>4, <1>5 DEF Statuses

\* So is what is left of one when its song could not be asked for.
LEMMA PartialAnswerType == ASSUME NEW r \in Answers PROVE PartialAnswer(r) \in Statuses
<1> DEFINE v == FromAnswer(r, None).volume
           l == IF r.repeat THEN "on" ELSE "off"
<1>1. v \in 0..100
  BY FromAnswerType DEF Statuses, None
<1>2. r.state \in {"play", "pause", "stop"} /\ r.random \in BOOLEAN /\ l \in {"off", "on", "single"}
  BY DEF Answers
<1>3. r.length \in Nat
  BY DEF Answers
<1>4. PartialAnswer(r) =
        [state |-> r.state, volume |-> v, repeat |-> l, shuffle |-> r.random,
         elapsed |-> None, song |-> None, next |-> None, length |-> r.length]
  <2>1. PartialAnswer(r) = [NewStatus EXCEPT !.state = r.state, !.volume = v, !.repeat = l,
                                             !.shuffle = r.random, !.length = r.length]
    BY DEF PartialAnswer
  <2> HIDE DEF v, l
  <2> QED BY <2>1 DEF NewStatus
<1> HIDE DEF v, l
<1> QED BY <1>1, <1>2, <1>3, <1>4 DEF Statuses, None

\* Values clients set are values of the property.
LEMMA SetValuesTyped ==
    ASSUME NEW p \in SetKinds, NEW v \in SetValues(p) PROVE v \in PropValues(p)
BY MirrorAssumption DEF SetValues, PropValues

\* A getter reads such a value.
LEMMA ValueType ==
    ASSUME NEW s \in Statuses, NEW p \in SetKinds PROVE Value(s, p) \in PropValues(p)
<1>1. CASE p = "Volume"
  BY <1>1 DEF Value, PropValues, Statuses
<1>2. CASE p = "LoopStatus"
  BY <1>2 DEF Value, PropValues, Statuses
<1>3. CASE p = "Shuffle"
  BY <1>3 DEF Value, PropValues, Statuses
<1> QED BY <1>1, <1>2, <1>3, MirrorAssumption

\* The volume in tenths of a percent makes a percentage, whichever way it is
\* cut to one.
Tenths == 0..1000
LEMMA Percentages ==
    ASSUME NEW v \in Tenths PROVE Rounded(v) \in 0..100 /\ Truncated(v) \in 0..100
<1>1. Rounded(v) \in 0..100
  BY SMTT(30) DEF Rounded, Tenths
<1>2. Truncated(v) \in 0..100
  BY SMTT(30) DEF Truncated, Tenths
<1> QED BY <1>1, <1>2

LEMMA VolumesAreTenths == SetVolumes \subseteq Tenths
BY MirrorAssumption, SMTT(30) DEF Tenths

\* The request of a setter leaves MPD in a state it can report.
LEMMA RequestedType ==
    ASSUME NEW m \in Answers, NEW p \in SetKinds, NEW v \in SetValues(p)
    PROVE  Requested(m, p, v) \in Answers
<1>1. CASE p = "Volume"
  <2>a. v \in Tenths
    <3>1. v \in SetVolumes
      BY <1>1 DEF SetValues
    <3> QED BY <3>1, VolumesAreTenths
  <2>b. Rounded(v) \in 0..100
    BY <2>a, Percentages
  <2>1. Rounded(v) \in -1..100
    BY ONLY <2>b
  <2>2. Requested(m, p, v) = [m EXCEPT !.volume = Rounded(v)]
    BY <1>1 DEF Requested
  <2>3. PICK x : x = Rounded(v)
    OBVIOUS
  <2>4. [m EXCEPT !.volume = x] \in Answers
    BY <2>1, <2>3 DEF Answers
  <2> QED BY <2>2, <2>3, <2>4, Zenon
<1>2. CASE p = "LoopStatus"
  <2> DEFINE a == v # "off"
             b == v = "single"
  <2>1. Requested(m, p, v) = [m EXCEPT !.repeat = a, !.single = b]
    BY <1>2 DEF Requested
  <2>2. a \in BOOLEAN /\ b \in BOOLEAN
    OBVIOUS
  <2> HIDE DEF a, b
  <2> QED BY <2>1, <2>2 DEF Answers
<1>3. CASE p = "Shuffle"
  <2>1. v \in BOOLEAN /\ Requested(m, p, v) = [m EXCEPT !.random = v]
    BY <1>3, SetValuesTyped DEF Requested, PropValues
  <2> QED BY <2>1 DEF Answers
<1> QED BY <1>1, <1>2, <1>3, MirrorAssumption

\* What a setter writes to the cached status leaves it one.
LEMMA WrittenType ==
    ASSUME NEW s \in Statuses, NEW p \in SetKinds, NEW v \in PropValues(p)
    PROVE  Written(s, p, v) \in Statuses
<1>1. CASE p = "Volume"
  <2>a. v \in Tenths
    BY <1>1 DEF PropValues, Tenths
  <2>b. Truncated(v) \in 0..100
    BY <2>a, Percentages
  <2>c. Written(s, p, v) = [s EXCEPT !.volume = Truncated(v)]
    BY <1>1 DEF Written
  <2>1. Truncated(v) \in 0..100 /\ Written(s, p, v) = [s EXCEPT !.volume = Truncated(v)]
    BY <2>b, <2>c, Zenon
  <2>2. PICK x : x = Truncated(v)
    OBVIOUS
  <2>3. [s EXCEPT !.volume = x] \in Statuses
    BY <2>1, <2>2 DEF Statuses
  <2> QED BY <2>1, <2>2, <2>3, Zenon
<1>2. CASE p = "LoopStatus"
  <2>1. v \in {"off", "on", "single"} /\ Written(s, p, v) = [s EXCEPT !.repeat = v]
    BY <1>2 DEF Written, PropValues
  <2> QED BY <2>1 DEF Statuses
<1>3. CASE p = "Shuffle"
  <2>1. v \in BOOLEAN /\ Written(s, p, v) = [s EXCEPT !.shuffle = v]
    BY <1>3 DEF Written, PropValues
  <2> QED BY <2>1 DEF Statuses
<1> QED BY <1>1, <1>2, <1>3, MirrorAssumption
\* An update that ends leaves a status, and what was queued still is.
LEMMA FinishType ==
    ASSUME Typed, NEW by, NEW r \in Answers, NEW song \in Int, NEW b \in BOOLEAN,
           Finish(by, status, r, song, b)
    PROVE  /\ status' \in Statuses /\ upd' = NoUpdate /\ queue' \in Seq(Events)
           /\ idle' \in Subsystems \cup {"waiting", "dead"} /\ panicked' \in BOOLEAN
           /\ \A p : InQueue(queue, p) => InQueue(queue', p)
<1> DEFINE new == FromAnswer(r, song)
           opt == Opt(by = "idle" /\ idle = "player" /\ CouldBeSeeking(status, new, r, b),
                      Event("Position"))
           evs == ChangeEvents(status, new, b)
<1>1. new \in Statuses
  BY FromAnswerType
<1>2. evs \in Seq(Events) /\ opt \in Seq(Events) /\ queue \in Seq(Events)
  <2>1. (by = "idle" /\ idle = "player" /\ CouldBeSeeking(status, new, r, b)) \in BOOLEAN
    BY DEF CouldBeSeeking
  <2>2. opt \in Seq(Events)
    BY <2>1, OptSeq, EventType DEF EventKinds
  <2> QED BY <2>2, ChangeType DEF Typed, TypeOK
<1>3. /\ status' = new /\ upd' = NoUpdate
      /\ idle' \in {"dead", "waiting", idle}
      /\ queue' = queue \o evs \o opt \/ queue' = queue
      /\ panicked' = TRUE \/ panicked' = panicked
  BY DEF Finish
<1> HIDE DEF new, opt, evs
<1>4. queue' \in Seq(Events) /\ \A p : InQueue(queue, p) => InQueue(queue', p)
  <2>1. CASE queue' = queue
    BY <1>2, <2>1
  <2>2. CASE queue' = queue \o evs \o opt
    <3> DEFINE q1 == queue \o evs
    <3>1. q1 \in Seq(Events) /\ \A p : InQueue(queue, p) => InQueue(q1, p)
      BY <1>2, InConcat
    <3>2. queue' = q1 \o opt
      BY <2>2
    <3> HIDE DEF q1
    <3> QED BY <1>2, <3>1, <3>2, InConcat
  <2> QED BY <1>3, <2>1, <2>2
<1>5. idle' \in Subsystems \cup {"waiting", "dead"} /\ panicked' \in BOOLEAN
  BY <1>3 DEF Typed, TypeOK
<1> QED BY <1>1, <1>3, <1>4, <1>5

\* What Typed says of the calls, the client and the history.
Others ==
    /\ set = [c \in Setters |-> set[c]]
    /\ \A c \in Setters :
          /\ SetterOK(set[c])
          /\ set[c] # NoCall => set[c].val \in PropValues(set[c].prop)
    /\ view = [p \in Properties |-> view[p]] /\ DOMAIN view = Properties
    /\ lost \in BOOLEAN /\ missed \in BOOLEAN

\* What it says of MPD, the idle task and the updates.
Updates ==
    /\ mpd \in Answers /\ flags \subseteq Subsystems
    /\ idle \in Subsystems \cup {"waiting", "dead"}
    /\ status \in Statuses
    /\ upd = NoUpdate \/ upd \in [by : {"idle", "call"}, answer : Answers]
    /\ queue \in Seq(Events) /\ emit \in Seq(Properties)
    /\ panicked \in BOOLEAN

\* The two halves are the whole.
LEMMA Halves == Typed <=> Others /\ Updates
<1>1. Typed => Others /\ Updates
  BY DEF Typed, TypeOK, Others, Updates, SetterOK
<1>2. ASSUME Others, Updates PROVE Typed
  <2>1. ASSUME NEW c \in Setters
        PROVE  \/ set[c] = NoCall
               \/ /\ set[c].pc \in {"write", "read", "emit"} /\ set[c].prop \in SetKinds
                  /\ set[c].val \in PropValues(set[c].prop)
    BY <1>2 DEF Others, SetterOK
  <2> QED BY <1>2, <2>1 DEF Typed, TypeOK, Others, Updates
<1> QED BY <1>1, <1>2

\* After a step too.
LEMMA HalvesNext == Others' /\ Updates' => Typed'
BY Halves, PTL

\* At the start.
LEMMA InitTyped == Init => Typed
<1> SUFFICES ASSUME Init PROVE Typed
  OBVIOUS
<1>1. mpd \in Answers /\ status \in Statuses
  <2>1. mpd \in Answers /\ mpd.song \in Int
    BY MirrorAssumption DEF Init, Answers, None
  <2> QED BY <2>1, FromAnswerType DEF Init
<1>2. queue \in Seq(Events) /\ emit \in Seq(Properties)
  <2>1. queue = <<>> /\ emit = <<>>
    BY DEF Init
  <2>2. \A S : <<>> \in Seq(S)
    OBVIOUS
  <2> QED BY <2>1, <2>2
<1>3. Updates
  BY <1>1, <1>2 DEF Init, Updates
<1>4. Others
  <2>1. \A c \in Setters : set[c] = NoCall
    BY DEF Init
  <2> QED BY <2>1 DEF Init, Others, SetterOK
<1> QED BY <1>3, <1>4, Halves
\* The steps of MPD, the idle task and the updates.
LEMMA UpdateSteps ==
    ASSUME Typed,
           \/ MpdChanges \/ MpdPlays \/ IdleTold \/ IdleReconnects
           \/ StatusAnswered("idle") \/ StatusAnswered("call")
           \/ SongAnswered \/ StatusFails \/ SongFails
    PROVE  Typed'
<1>0. Others /\ Updates
  BY Halves
<1>1. CASE MpdChanges
  <2>1. mpd' \in Answers /\ flags' \subseteq Subsystems
    BY <1>0, <1>1, MirrorAssumption DEF MpdChanges, Touched, Updates
  <2>2. Others' /\ Updates'
    BY <1>0, <1>1, <2>1 DEF MpdChanges, Others, Updates, history
  <2> QED BY <2>2, HalvesNext
<1>2. CASE MpdPlays
  <2>1. mpd' \in Answers
    BY <1>2, MirrorAssumption DEF MpdPlays
  <2>2. Others' /\ Updates'
    BY <1>0, <1>2, <2>1 DEF MpdPlays, Others, Updates, history
  <2> QED BY <2>2, HalvesNext
<1>3. CASE IdleTold
  <2>1. idle' \in Subsystems /\ flags' = {}
    BY <1>0, <1>3 DEF IdleTold, Updates, Order, Subsystems
  <2>2. Others' /\ Updates'
    BY <1>0, <1>3, <2>1 DEF IdleTold, Others, Updates, history
  <2> QED BY <2>2, HalvesNext
<1>4. CASE IdleReconnects
  <2>1. flags' = {} /\ lost' \in BOOLEAN
    BY <1>4 DEF IdleReconnects
  <2>2. Others' /\ Updates'
    BY <1>0, <1>4, <2>1 DEF IdleReconnects, Others, Updates
  <2> QED BY <2>2, HalvesNext
<1>5. ASSUME NEW by \in {"idle", "call"}, StatusAnswered(by) PROVE Typed'
  <2>1. Others'
    BY <1>0, <1>5 DEF StatusAnswered, Others
  <2>2. CASE NeedsSong(status, mpd)
    <3>1. upd' \in [by : {"idle", "call"}, answer : Answers]
      BY <1>0, <1>5, <2>2 DEF StatusAnswered, Updates
    <3>2. Updates'
      BY <1>0, <1>5, <2>2, <3>1 DEF StatusAnswered, Updates
    <3> QED BY <2>1, <3>2, HalvesNext
  <2>3. CASE ~NeedsSong(status, mpd)
    <3>1. Finish(by, status, mpd, KeptSong(status, mpd), FALSE)
      BY <1>5, <2>3 DEF StatusAnswered
    <3>2. mpd \in Answers /\ KeptSong(status, mpd) \in Int
      BY <1>0 DEF Updates, KeptSong, Statuses, None
    <3>3. Updates'
      BY <1>0, <1>5, <3>1, <3>2, FinishType DEF StatusAnswered, Updates
    <3> QED BY <2>1, <3>3, HalvesNext
  <2> QED BY <2>2, <2>3
<1>6. CASE SongAnswered
  <2>1. upd.answer \in Answers /\ AnsweredSong(mpd) \in Int
    BY <1>0, <1>6 DEF SongAnswered, AnsweredSong, Updates, Answers, None
  <2>2. Finish(upd.by, status, upd.answer, AnsweredSong(mpd), TRUE)
    BY <1>6 DEF SongAnswered
  <2>3. Updates'
    BY <1>0, <1>6, <2>1, <2>2, FinishType DEF SongAnswered, Updates
  <2>4. missed' \in BOOLEAN
    BY <1>6 DEF SongAnswered
  <2>5. Others'
    BY <1>0, <1>6, <2>4 DEF SongAnswered, Others
  <2> QED BY <2>3, <2>5, HalvesNext
<1>7. CASE StatusFails
  <2>1. Others' /\ Updates'
    BY <1>0, <1>7 DEF StatusFails, Others, Updates
  <2> QED BY <2>1, HalvesNext
<1>8. CASE SongFails
  <2>1. status' \in Statuses /\ idle' \in {"waiting", idle} /\ upd' = NoUpdate
    BY <1>0, <1>8, PartialAnswerType DEF SongFails, Updates
  <2>2. Others' /\ Updates'
    BY <1>0, <1>8, <2>1 DEF SongFails, Others, Updates
  <2> QED BY <2>2, HalvesNext
<1> QED BY <1>1, <1>2, <1>3, <1>4, <1>5, <1>6, <1>7, <1>8

\* The signals of an event are those of properties.
LEMMA SignalledType == ASSUME NEW e \in Events PROVE Signalled(e) \in Seq(Properties)
<1>1. e.prev \in BOOLEAN /\ e.next \in BOOLEAN
  BY DEF Events
<1>2. /\ Opt(e.prev, "CanGoPrevious") \in Seq(Properties)
      /\ Opt(e.next, "CanGoNext") \in Seq(Properties)
  BY <1>1, OptSeq DEF Properties
<1>3. /\ <<"PlaybackStatus">> \in Seq(Properties) /\ <<"Volume">> \in Seq(Properties)
      /\ <<"LoopStatus">> \in Seq(Properties) /\ <<"Shuffle">> \in Seq(Properties)
      /\ <<"Metadata">> \in Seq(Properties) /\ <<>> \in Seq(Properties)
  BY DEF Properties
<1>4. <<"Metadata">> \o Opt(e.prev, "CanGoPrevious") \o Opt(e.next, "CanGoNext")
        \in Seq(Properties)
  BY <1>2, <1>3
<1> QED BY <1>3, <1>4 DEF Signalled

\* The steps of the emitting task.
LEMMA EmitSteps ==
    ASSUME Typed, TakeEvent \/ EmitSignal \/ EmitFails PROVE Typed'
<1>0. Others /\ Updates
  BY Halves
<1>1. CASE TakeEvent
  <2>1. queue \in Seq(Events) /\ queue # <<>>
    BY <1>0, <1>1 DEF TakeEvent, Updates
  <2>2. Head(queue) \in Events /\ Tail(queue) \in Seq(Events)
    BY <2>1
  <2>3. emit' \in Seq(Properties) /\ queue' \in Seq(Events)
    BY <1>1, <2>2, SignalledType DEF TakeEvent
  <2>4. Others' /\ Updates'
    BY <1>0, <1>1, <2>3 DEF TakeEvent, Others, Updates, history
  <2> QED BY <2>4, HalvesNext
<1>2. CASE EmitSignal
  <2>1. emit \in Seq(Properties) /\ emit # <<>>
    BY <1>0, <1>2 DEF EmitSignal, Updates
  <2>2. emit' \in Seq(Properties)
    BY <1>2, <2>1 DEF EmitSignal
  <2>3. view' = [p \in Properties |-> view'[p]]
    BY <1>0, <1>2 DEF EmitSignal, Others
  <2>4. Updates'
    BY <1>0, <1>2, <2>2 DEF EmitSignal, Updates
  <2>5. Others'
    BY <1>0, <1>2, <2>3 DEF EmitSignal, Others, history
  <2> QED BY <2>4, <2>5, HalvesNext
<1>3. CASE EmitFails
  <2>1. missed' \in BOOLEAN
    BY <1>3 DEF EmitFails
  <2>2. emit' = <<>> /\ \A S : <<>> \in Seq(S)
    BY <1>3 DEF EmitFails
  <2>3. Updates'
    BY <1>0, <1>3, <2>2 DEF EmitFails, Updates
  <2>4. Others'
    BY <1>0, <1>3, <2>1 DEF EmitFails, Others
  <2> QED BY <2>3, <2>4, HalvesNext
<1> QED BY <1>1, <1>2, <1>3

\* The steps of a setter.
LEMMA SetterSteps ==
    ASSUME Typed, NEW c \in Setters,
           SetRequested(c) \/ SetWritten(c) \/ SetRead(c) \/ SetEmitted(c)
    PROVE  Typed'
<1>0. Others /\ Updates
  BY Halves
<1>1. ASSUME NEW x, SetterOK(x), x # NoCall => x.val \in PropValues(x.prop),
             set' = [set EXCEPT ![c] = x], UNCHANGED <<view, lost, missed>>
      PROVE  Others'
  <2>1. set' = [d \in Setters |-> set'[d]] /\ set'[c] = x /\ \A d \in Setters \ {c} : set'[d] = set[d]
    BY <1>0, <1>1 DEF Others
  <2>2. ASSUME NEW d \in Setters
        PROVE  /\ SetterOK(set'[d])
               /\ set'[d] # NoCall => set'[d].val \in PropValues(set'[d].prop)
    <3>1. CASE d = c
      BY <1>1, <2>1, <3>1
    <3>2. CASE d # c
      BY <1>0, <2>1, <3>2 DEF Others
    <3> QED BY <3>1, <3>2
  <2> QED BY <1>0, <1>1, <2>1, <2>2 DEF Others
<1>2. set[c].pc \in {"write", "read", "emit"} =>
         /\ set[c].prop \in SetKinds /\ set[c].val \in PropValues(set[c].prop)
         /\ set[c] = [pc |-> set[c].pc, prop |-> set[c].prop, val |-> set[c].val]
  BY <1>0 DEF Others, SetterOK, NoCall
<1>3. CASE SetRequested(c)
  <2>a. PICK p \in SetKinds : \E v \in SetValues(p) :
            /\ set' = [set EXCEPT ![c] = [pc |-> "write", prop |-> p, val |-> v]]
            /\ mpd' = Requested(mpd, p, v)
            /\ flags' = flags \cup Touched(mpd, Requested(mpd, p, v))
    BY <1>3 DEF SetRequested
  <2>1. PICK v \in SetValues(p) :
            /\ set' = [set EXCEPT ![c] = [pc |-> "write", prop |-> p, val |-> v]]
            /\ mpd' = Requested(mpd, p, v)
            /\ flags' = flags \cup Touched(mpd, Requested(mpd, p, v))
    BY <2>a
  <2>2. mpd' \in Answers /\ flags' \subseteq Subsystems
    BY <1>0, <2>1, RequestedType DEF Updates, Touched
  <2>3. Updates'
    BY <1>0, <1>3, <2>2 DEF SetRequested, Updates
  <2> DEFINE x == [pc |-> "write", prop |-> p, val |-> v]
  <2>4. SetterOK(x) /\ x.val \in PropValues(x.prop)
    BY SetValuesTyped DEF SetterOK
  <2>5. UNCHANGED <<view, lost, missed>> /\ set' = [set EXCEPT ![c] = x]
    BY <1>3, <2>1 DEF SetRequested, history
  <2> HIDE DEF x
  <2>6. Others'
    BY <1>1, <2>4, <2>5
  <2> QED BY <2>3, <2>6, HalvesNext
<1>4. CASE SetWritten(c)
  <2>1. status' = Written(status, set[c].prop, set[c].val)
    BY <1>4 DEF SetWritten
  <2>2. status' \in Statuses
    BY <1>0, <1>2, <1>4, <2>1, WrittenType DEF SetWritten, Updates
  <2>3. Updates'
    BY <1>0, <1>4, <2>2 DEF SetWritten, Updates
  <2> DEFINE x == [set[c] EXCEPT !.pc = "read"]
  <2>4. SetterOK(x) /\ x.val \in PropValues(x.prop)
    BY <1>2, <1>4 DEF SetterOK, SetWritten
  <2>5. set' = [set EXCEPT ![c] = x] /\ UNCHANGED <<view, lost, missed>>
    BY <1>4 DEF SetWritten, history
  <2>7. PICK y : y = x
    OBVIOUS
  <2> HIDE DEF x
  <2>8. SetterOK(y) /\ y.val \in PropValues(y.prop) /\ set' = [set EXCEPT ![c] = y]
    BY <2>4, <2>5, <2>7
  <2>6. Others'
    BY <1>1, <2>5, <2>8
  <2> QED BY <2>3, <2>6, HalvesNext
<1>5. CASE SetRead(c)
  <2>1. PICK y : y = [pc |-> "emit", prop |-> set[c].prop, val |-> Value(status, set[c].prop)]
    OBVIOUS
  <2>2. set' = [set EXCEPT ![c] = y] /\ UNCHANGED <<view, lost, missed>>
    BY <1>5, <2>1 DEF SetRead, history
  <2>3. SetterOK(y) /\ y.val \in PropValues(y.prop)
    BY <1>0, <1>2, <1>5, <2>1, ValueType DEF SetterOK, SetRead, Updates
  <2>4. Others'
    BY <1>1, <2>2, <2>3
  <2>5. Updates'
    BY <1>0, <1>5 DEF SetRead, Updates
  <2> QED BY <2>4, <2>5, HalvesNext
<1>6. CASE SetEmitted(c)
  <2>1. view' = [p \in Properties |-> view'[p]] /\ DOMAIN view' = Properties
    BY <1>0, <1>6 DEF SetEmitted, Others
  <2>2. set' = [d \in Setters |-> set'[d]] /\ set'[c] = NoCall /\ \A d \in Setters \ {c} : set'[d] = set[d]
    BY <1>0, <1>6 DEF SetEmitted, Others
  <2>3. ASSUME NEW d \in Setters
        PROVE  /\ SetterOK(set'[d])
               /\ set'[d] # NoCall => set'[d].val \in PropValues(set'[d].prop)
    <3>1. CASE d = c
      BY <2>2, <3>1 DEF SetterOK
    <3>2. CASE d # c
      BY <1>0, <2>2, <3>2 DEF Others
    <3> QED BY <3>1, <3>2
  <2>4. Others'
    BY <1>0, <1>6, <2>1, <2>2, <2>3 DEF SetEmitted, Others, history
  <2>5. Updates'
    BY <1>0, <1>6 DEF SetEmitted, Updates
  <2> QED BY <2>4, <2>5, HalvesNext
<1> QED BY <1>3, <1>4, <1>5, <1>6

\* Every step keeps the types.
LEMMA NextTyped == ASSUME Typed, [Next]_vars PROVE Typed'
<1>1. CASE UNCHANGED vars
  BY <1>1 DEF vars, history, Typed, TypeOK, SetterOK
<1> QED BY <1>1, UpdateSteps, EmitSteps, SetterSteps DEF Next

\* The cached status has its types whatever MPD answers and clients set: its
\* volume is a percentage, also when MPD has no mixer and a client sets one
\* that is not whole.
THEOREM MirrorTypes == Spec => []TypeOK
<1>1. Typed => TypeOK
  BY DEF Typed
<1> QED BY InitTyped, NextTyped, <1>1, PTL DEF Spec
(***************************************************************************)
(* A client follows the song                                               *)
(***************************************************************************)
\* With the types, SongSignalled is inductive: a song is only stored with the
\* event that announces it.
SongIInv == Typed /\ SongSignalled

\* What SongSignalled asks for, without the setters: none of them sets it.
SongToCome ==
    \/ InQueue(queue, "Metadata")
    \/ \E i \in 1..Len(emit) : emit[i] = "Metadata"

LEMMA SongPending == Typed => (Pending("Metadata") <=> SongToCome)
<1> SUFFICES ASSUME Typed PROVE Pending("Metadata") <=> SongToCome
  OBVIOUS
<1>1. \A c \in Setters : ~(set[c].pc \in {"read", "emit"} /\ set[c].prop = "Metadata")
  BY MirrorAssumption DEF Typed, SetterOK, NoCall
<1> QED BY <1>1 DEF Pending, SongToCome, InQueue

\* After a step too.
LEMMA SongPendingNext == Typed' => (Pending("Metadata")' <=> SongToCome')
BY SongPending, PTL

\* The event of a new song is announced by Metadata.
LEMMA SongAnnounced ==
    ASSUME NEW s, NEW t, NEW q \in Seq(Events), NEW o \in Seq(Events)
    PROVE  InQueue(q \o ChangeEvents(s, t, TRUE) \o o, "Metadata")
<1> DEFINE o1 == Opt(PositionJumped(s, t), Event("Position"))
           o2 == Opt(s.state # t.state, Event("PlayState"))
           o3 == Opt(s.volume # t.volume, Event("Volume"))
           o4 == Opt(s.repeat # t.repeat, Event("Repeat"))
           o5 == Opt(s.shuffle # t.shuffle, Event("Shuffle"))
           o6 == Opt(TRUE, SongEvent(s, t))
           o7 == Opt((s.next = None) # (t.next = None) \/ s.length # t.length,
                     Event("Playlist"))
<1>1. /\ o1 \in Seq(Events) /\ o2 \in Seq(Events) /\ o3 \in Seq(Events)
      /\ o4 \in Seq(Events) /\ o5 \in Seq(Events) /\ o6 \in Seq(Events)
      /\ o7 \in Seq(Events)
  <2>1. PositionJumped(s, t) \in BOOLEAN
    BY DEF PositionJumped
  <2> QED BY <2>1, OptSeq, EventType, SongEventType DEF EventKinds
<1>2. ChangeEvents(s, t, TRUE) = o1 \o o2 \o o3 \o o4 \o o5 \o o6 \o o7
  BY DEF ChangeEvents
<1>3. InQueue(o6, "Metadata")
  <2>1. PICK e : e = SongEvent(s, t)
    OBVIOUS
  <2>2. e.prev \in BOOLEAN /\ e.next \in BOOLEAN /\ e.kind = "Song"
    BY <2>1 DEF SongEvent
  <2> DEFINE a == Opt(e.prev, "CanGoPrevious")
             b == Opt(e.next, "CanGoNext")
  <2>3. a \in Seq(Properties) /\ b \in Seq(Properties) /\ <<"Metadata">> \in Seq(Properties)
    BY <2>2, OptSeq DEF Properties
  <2>4. Signalled(e) = <<"Metadata">> \o a \o b
    BY <2>2 DEF Signalled
  <2> HIDE DEF a, b
  <2>5. Len(Signalled(e)) >= 1 /\ Signalled(e)[1] = "Metadata" /\ Len(Signalled(e)) \in Nat
    BY <2>3, <2>4
  <2> DEFINE q1 == <<e>>
  <2>6. Len(q1) = 1 /\ q1[1] = e /\ 1 \in 1..Len(Signalled(q1[1])) /\ 1 \in 1..Len(q1)
    BY <2>5
  <2> HIDE DEF q1
  <2>7. InQueue(q1, "Metadata")
    BY <2>5, <2>6 DEF InQueue
  <2>8. o6 = q1
    BY <2>1 DEF q1, Opt
  <2> QED BY <2>7, <2>8
<1> HIDE DEF o1, o2, o3, o4, o5, o6, o7
<1> DEFINE c == o1 \o o2 \o o3 \o o4 \o o5
           c6 == c \o o6
           c7 == c6 \o o7
           d == q \o c7
<1>4. c \in Seq(Events)
  BY <1>1
<1> HIDE DEF c
<1>5. c6 \in Seq(Events) /\ InQueue(c6, "Metadata")
  BY <1>1, <1>3, <1>4, InConcat
<1> HIDE DEF c6
<1>6. c7 \in Seq(Events) /\ InQueue(c7, "Metadata")
  BY <1>1, <1>5, InConcat
<1>7. ChangeEvents(s, t, TRUE) = c7
  BY <1>2 DEF c, c6
<1> HIDE DEF c7
<1>8. d \in Seq(Events) /\ InQueue(d, "Metadata")
  BY <1>6, InConcat
<1> HIDE DEF d
<1>9. InQueue(d \o o, "Metadata")
  BY <1>8, InConcat
<1> QED BY <1>7, <1>9 DEF d

\* An update that ends with its song has announced it or panicked.
LEMMA FinishWithSong ==
    ASSUME Typed, NEW by, NEW r, NEW song, Finish(by, status, r, song, TRUE)
    PROVE  panicked' \/ InQueue(queue', "Metadata")
<1> DEFINE new == FromAnswer(r, song)
           opt == Opt(by = "idle" /\ idle = "player" /\ CouldBeSeeking(status, new, r, TRUE),
                      Event("Position"))
<1>1. CASE Panics(status, new)
  BY <1>1 DEF Finish
<1>2. CASE ~Panics(status, new)
  <2>1. opt \in Seq(Events)
    <3>1. (by = "idle" /\ idle = "player" /\ CouldBeSeeking(status, new, r, TRUE)) \in BOOLEAN
      BY DEF CouldBeSeeking
    <3> QED BY <3>1, OptSeq, EventType DEF EventKinds
  <2>2. queue' = queue \o ChangeEvents(status, new, TRUE) \o opt
    BY <1>2 DEF Finish
  <2>3. queue \in Seq(Events)
    BY DEF Typed, TypeOK
  <2> HIDE DEF opt
  <2> QED BY <2>1, <2>2, <2>3, SongAnnounced
<1> QED BY <1>1, <1>2

\* A step that keeps what is to come, and leaves the client and the cached
\* song as they are or takes the song away, keeps SongSignalled.
LEMMA SongKept ==
    ASSUME SongIInv, Typed', panicked => panicked', missed => missed',
           status'.song \in {status.song, None}, view'["Metadata"] = view["Metadata"],
           SongToCome => SongToCome'
    PROVE  SongSignalled'
BY SongPending, SongPendingNext DEF SongIInv, SongSignalled

\* Every step keeps SongSignalled.
LEMMA NextSong == ASSUME SongIInv, [Next]_vars PROVE SongIInv'
<1>0. Typed /\ Typed'
  BY NextTyped DEF SongIInv
<1>1. SUFFICES SongSignalled'
  BY <1>0 DEF SongIInv
<1>2. ASSUME UNCHANGED <<status, queue, emit, view, panicked, missed>> PROVE SongSignalled'
  BY <1>0, <1>2, SongKept DEF SongToCome, InQueue
<1>3. ASSUME NEW by, StatusAnswered(by) PROVE SongSignalled'
  <2>1. CASE NeedsSong(status, mpd)
    BY <1>2, <1>3, <2>1 DEF StatusAnswered
  <2>2. CASE ~NeedsSong(status, mpd)
    <3>1. Finish(by, status, mpd, KeptSong(status, mpd), FALSE)
      BY <1>3, <2>2 DEF StatusAnswered
    <3>2. mpd \in Answers /\ KeptSong(status, mpd) \in Int
      BY <1>0 DEF Typed, TypeOK, KeptSong, Statuses, None
    <3>3. InQueue(queue, "Metadata") => InQueue(queue', "Metadata")
      BY <1>0, <3>1, <3>2, FinishType
    <3>4. status'.song \in {status.song, None} /\ (panicked => panicked')
      BY <3>1 DEF Finish, FromAnswer, KeptSong
    <3>5. SongToCome => SongToCome'
      BY <1>3, <3>3 DEF SongToCome, StatusAnswered
    <3> QED BY <1>0, <1>3, <3>4, <3>5, SongKept DEF StatusAnswered
  <2> QED BY <2>1, <2>2
<1>4. CASE SongAnswered
  <2>1. panicked' \/ InQueue(queue', "Metadata")
    BY <1>0, <1>4, FinishWithSong DEF SongAnswered
  <2> QED BY <1>0, <2>1, SongPendingNext DEF SongSignalled, SongToCome
<1>5. CASE SongFails
  <2>1. status'.song = None
    BY <1>5 DEF SongFails, PartialAnswer, NewStatus
  <2> QED BY <2>1 DEF SongSignalled
<1>6. CASE TakeEvent
  <2>1. /\ queue \in Seq(Events) /\ queue # <<>> /\ emit = <<>>
        /\ emit' = Signalled(queue[1]) /\ queue' = Tail(queue)
        /\ Len(queue') = Len(queue) - 1 /\ \A i \in 1..Len(queue') : queue'[i] = queue[i + 1]
    BY <1>0, <1>6 DEF TakeEvent, Typed, TypeOK
  <2>2. SongToCome => SongToCome'
    <3> SUFFICES ASSUME InQueue(queue, "Metadata") PROVE SongToCome'
      BY <2>1 DEF SongToCome
    <3>1. PICK i \in 1..Len(queue) :
              \E j \in 1..Len(Signalled(queue[i])) : Signalled(queue[i])[j] = "Metadata"
      BY DEF InQueue
    <3>2. CASE i = 1
      BY <2>1, <3>1, <3>2 DEF SongToCome
    <3>3. CASE i # 1
      <4>1. i - 1 \in 1..Len(queue') /\ queue'[i - 1] = queue[i]
        BY <2>1, <3>3
      <4> QED BY <3>1, <4>1 DEF SongToCome, InQueue
    <3> QED BY <3>2, <3>3
  <2> QED BY <1>0, <1>6, <2>2, SongKept DEF TakeEvent, history
<1>7. CASE EmitSignal
  <2>1. /\ emit \in Seq(Properties) /\ emit # <<>> /\ emit' = Tail(emit)
        /\ Len(emit') = Len(emit) - 1 /\ \A i \in 1..Len(emit') : emit'[i] = emit[i + 1]
        /\ view' = [view EXCEPT ![emit[1]] = Value(status, emit[1])]
        /\ UNCHANGED <<status, queue, panicked, missed>>
    BY <1>0, <1>7 DEF EmitSignal, Typed, TypeOK, history
  <2>2. CASE emit[1] = "Metadata"
    <3>1. view'["Metadata"] = status'.song
      BY <1>0, <2>1, <2>2 DEF Typed, Value, Properties
    <3> QED BY <3>1 DEF SongSignalled
  <2>3. CASE emit[1] # "Metadata"
    <3>1. view'["Metadata"] = view["Metadata"]
      BY <1>0, <2>1, <2>3 DEF Typed, Properties
    <3>2. SongToCome => SongToCome'
      <4>1. ASSUME NEW i \in 1..Len(emit), emit[i] = "Metadata"
            PROVE  i - 1 \in 1..Len(emit') /\ emit'[i - 1] = "Metadata"
        BY <2>1, <2>3, <4>1
      <4> QED BY <2>1, <4>1 DEF SongToCome, InQueue
    <3> QED BY <1>0, <2>1, <3>1, <3>2, SongKept
  <2> QED BY <2>2, <2>3
<1>8. CASE EmitFails
  <2>1. CASE \E i \in 1..Len(emit) : emit[i] = "Metadata"
    BY <1>8, <2>1 DEF EmitFails, SongSignalled
  <2>2. CASE ~\E i \in 1..Len(emit) : emit[i] = "Metadata"
    <3>1. SongToCome => SongToCome'
      BY <1>8, <2>2 DEF EmitFails, SongToCome, InQueue
    <3>2. missed => missed'
      BY <1>8 DEF EmitFails
    <3> QED BY <1>0, <1>8, <3>1, <3>2, SongKept DEF EmitFails
  <2> QED BY <2>1, <2>2
<1>9. ASSUME NEW c \in Setters,
             SetRequested(c) \/ SetWritten(c) \/ SetRead(c) \/ SetEmitted(c)
      PROVE  SongSignalled'
  <2>1. CASE SetRequested(c) \/ SetRead(c)
    BY <1>2, <2>1 DEF SetRequested, SetRead, history
  <2>2. CASE SetWritten(c)
    <3>1. status'.song = status.song
      BY <1>0, <2>2 DEF SetWritten, Written, Typed, TypeOK, Statuses
    <3>2. SongToCome => SongToCome'
      BY <2>2 DEF SetWritten, SongToCome, InQueue
    <3> QED BY <1>0, <2>2, <3>1, <3>2, SongKept DEF SetWritten, history
  <2>3. CASE SetEmitted(c)
    <3>1. set[c].prop \in SetKinds
      BY <1>0, <2>3 DEF SetEmitted, Typed, SetterOK, NoCall
    <3>2. view'["Metadata"] = view["Metadata"]
      BY <1>0, <2>3, <3>1, MirrorAssumption DEF SetEmitted, Typed, Properties
    <3>3. SongToCome => SongToCome'
      BY <2>3 DEF SetEmitted, SongToCome, InQueue
    <3> QED BY <1>0, <2>3, <3>2, <3>3, SongKept DEF SetEmitted, history
  <2> QED BY <1>9, <2>1, <2>2, <2>3
<1>10. CASE MpdChanges \/ MpdPlays \/ IdleTold \/ IdleReconnects \/ StatusFails
  BY <1>2, <1>10 DEF MpdChanges, MpdPlays, IdleTold, IdleReconnects, StatusFails, history
<1>11. CASE UNCHANGED vars
  BY <1>2, <1>11 DEF vars, history
<1> QED BY <1>3, <1>4, <1>5, <1>6, <1>7, <1>8, <1>9, <1>10, <1>11 DEF Next

\* As long as there is a song, no update panicked and no signal of a song has
\* failed since the last one that was announced, a client has the cached song or
\* will be sent it: with any number of setters, whatever requests fail between
\* the status and its song.
THEOREM MirrorSongArrives == Spec => []SongSignalled
<1>1. Init => SongIInv
  <2>1. Init => SongSignalled
    BY DEF Init, SongSignalled, Value, Properties
  <2> QED BY <2>1, InitTyped DEF SongIInv
<1>2. SongIInv => SongSignalled
  BY DEF SongIInv
<1> QED BY <1>1, <1>2, NextSong, PTL DEF Spec

(***************************************************************************)
(* The cache follows MPD                                                   *)
(***************************************************************************)
\* m and n agree in what MPD reports under subsystem x, but for the time that
\* passes while a song plays.
Same(m, n, x) ==
    CASE x = "mixer" -> m.volume = n.volume
      [] x = "options" -> m.repeat = n.repeat /\ m.single = n.single /\ m.random = n.random
      [] x = "playlist" -> m.length = n.length /\ m.next = n.next
      [] x = "player" -> m.state = n.state /\ m.song = n.song

\* Status s has what MPD in state m would answer of it, but for what setters write.
Fresh(s, m, x) ==
    CASE x = "mixer" -> "volume" \in SetFields \/ s.volume = FromAnswer(m, m.song).volume
      [] x = "options" ->
            /\ "repeat" \in SetFields \/ s.repeat = FromAnswer(m, m.song).repeat
            /\ "shuffle" \in SetFields \/ s.shuffle = FromAnswer(m, m.song).shuffle
      [] x = "playlist" -> s.length = m.length /\ s.next = m.next
      [] x = "player" -> s.state = m.state /\ s.song = m.song

\* Between updates the cached status is fresh in everything MPD has not still
\* to report, unless the idle task is on its way to an update.
FreshAtRest ==
    upd = NoUpdate => \/ lost
                      \/ idle # "waiting"
                      \/ \A x \in Subsystems \ flags : Fresh(status, mpd, x)

\* So is the answer an update works with, while it waits for the song; MPD
\* cannot report to the idle task while that is the one updating.
FreshInUpdate ==
    upd # NoUpdate =>
        /\ \/ lost
           \/ upd.by = "call" /\ idle # "waiting"
           \/ \A x \in Subsystems \ flags : Same(upd.answer, mpd, x)
        /\ upd.answer.song # None
        /\ upd.by = "idle" => idle # "waiting"

CacheIInv == Typed /\ Consistent(mpd) /\ FreshAtRest /\ FreshInUpdate

\* What MPD does not report did not change.
LEMMA Untouched ==
    ASSUME NEW m, NEW n, NEW x \in Subsystems \ Touched(m, n) PROVE Same(m, n, x)
BY DEF Subsystems, Touched, Same

LEMMA SameTransitive ==
    ASSUME NEW k, NEW m, NEW n, NEW x \in Subsystems, Same(k, m, x), Same(m, n, x)
    PROVE  Same(k, n, x)
BY DEF Subsystems, Same

\* A status that was fresh still is after a change that left x alone.
LEMMA FreshStays ==
    ASSUME NEW s, NEW m, NEW n, NEW x \in Subsystems, Fresh(s, m, x), Same(m, n, x)
    PROVE  Fresh(s, n, x)
BY DEF Subsystems, Same, Fresh, FromAnswer

\* A status assembled from an answer is as fresh as the answer.
LEMMA FreshAnswer ==
    ASSUME NEW r, NEW m, NEW song, NEW x \in Subsystems, Same(r, m, x),
           x = "player" => song = m.song
    PROVE  Fresh(FromAnswer(r, song), m, x)
BY DEF Subsystems, Same, Fresh, FromAnswer

\* MPD changes: what it will report need not be fresh any more.
LEMMA ChangeKept ==
    ASSUME CacheIInv, NEW m, NEW f, mpd' = m,
           \A x \in Subsystems \ f : Same(mpd, m, x), flags' = flags \cup f,
           UNCHANGED <<idle, status, upd, lost>>
    PROVE  FreshAtRest' /\ FreshInUpdate'
<1>1. FreshAtRest'
  <2> SUFFICES ASSUME upd = NoUpdate, ~lost, idle = "waiting",
                      NEW x \in Subsystems \ flags'
               PROVE  Fresh(status, m, x)
    BY DEF FreshAtRest
  <2>1. Fresh(status, mpd, x) /\ Same(mpd, m, x)
    BY DEF CacheIInv, FreshAtRest
  <2> QED BY <2>1, FreshStays
<1>2. FreshInUpdate'
  <2>1. ASSUME upd # NoUpdate, ~lost, ~(upd.by = "call" /\ idle # "waiting"),
               NEW x \in Subsystems \ flags'
        PROVE  Same(upd.answer, m, x)
    <3>1. Same(upd.answer, mpd, x) /\ Same(mpd, m, x)
      BY <2>1 DEF CacheIInv, FreshInUpdate
    <3> QED BY <2>1, <3>1, SameTransitive
  <2> QED BY <2>1 DEF CacheIInv, FreshInUpdate
<1> QED BY <1>1, <1>2

\* A setter leaves what is fresh apart from its own entry.
LEMMA WrittenFresh ==
    ASSUME Setters # {}, NEW s \in Statuses, NEW p \in SetKinds, NEW v, NEW m,
           NEW x \in Subsystems, Fresh(s, m, x)
    PROVE  Fresh(Written(s, p, v), m, x)
<1>1. PICK w : w = Written(s, p, v)
  OBVIOUS
<1>2. /\ w.state = s.state /\ w.song = s.song /\ w.length = s.length /\ w.next = s.next
      /\ "volume" \in SetFields \/ w.volume = s.volume
      /\ "repeat" \in SetFields \/ w.repeat = s.repeat
      /\ "shuffle" \in SetFields \/ w.shuffle = s.shuffle
  <2>1. CASE p = "Volume"
    <3>1. w = [s EXCEPT !.volume = Truncated(v)] /\ "volume" \in SetFields
      BY <1>1, <2>1 DEF Written, SetFields
    <3> QED BY <3>1 DEF Statuses
  <2>2. CASE p = "LoopStatus"
    <3>1. w = [s EXCEPT !.repeat = v] /\ "repeat" \in SetFields
      BY <1>1, <2>2 DEF Written, SetFields
    <3> QED BY <3>1 DEF Statuses
  <2>3. CASE p \notin {"Volume", "LoopStatus"}
    <3>1. w = [s EXCEPT !.shuffle = v] /\ "shuffle" \in SetFields
      BY <1>1, <2>3 DEF Written, SetFields
    <3> QED BY <3>1 DEF Statuses
  <2> QED BY <2>1, <2>2, <2>3
<1> HIDE DEF SetFields
<1> QED BY <1>1, <1>2 DEF Subsystems, Fresh

\* A setter asks of MPD what MPD may become.
LEMMA RequestedConsistent ==
    ASSUME NEW m \in Answers, Consistent(m), NEW p, NEW v PROVE Consistent(Requested(m, p, v))
<1>1. PICK n : n = Requested(m, p, v)
  OBVIOUS
<1>2. /\ n.state = m.state /\ n.elapsed = m.elapsed /\ n.song = m.song
      /\ n.next = m.next /\ n.length = m.length
  BY <1>1 DEF Requested, Answers
<1> QED BY <1>1, <1>2 DEF Consistent

\* Every step keeps the invariant.
LEMMA NextCache ==
    ASSUME CacheIInv, [Next]_vars PROVE CacheIInv'
<1>0. Typed' /\ Typed
  BY NextTyped DEF CacheIInv
<1>1. ASSUME UNCHANGED <<mpd, flags, idle, status, upd, lost>> PROVE CacheIInv'
  BY <1>0, <1>1 DEF CacheIInv, FreshAtRest, FreshInUpdate
<1>2. CASE MpdChanges
  <2>1. PICK m \in MpdStates : mpd' = m /\ flags' = flags \cup Touched(mpd, m)
    BY <1>2 DEF MpdChanges
  <2>2. \A x \in Subsystems \ Touched(mpd, m) : Same(mpd, m, x)
    BY Untouched
  <2>3. UNCHANGED <<idle, status, upd, lost>>
    BY <1>2 DEF MpdChanges, history
  <2> QED BY <1>0, <2>1, <2>2, <2>3, ChangeKept, MirrorAssumption DEF CacheIInv
<1>3. CASE MpdPlays
  <2>1. PICK m \in MpdStates : /\ mpd' = m /\ Touched(mpd, m) = {"player"}
                               /\ m.state = mpd.state /\ m.song = mpd.song
    BY <1>3 DEF MpdPlays
  <2>2. \A x \in Subsystems \ {} : Same(mpd, m, x)
    <3>1. Same(mpd, m, "player")
      BY <2>1 DEF Same
    <3> QED BY <2>1, <3>1, Untouched
  <2>3. flags' = flags \cup {} /\ UNCHANGED <<idle, status, upd, lost>>
    BY <1>3 DEF MpdPlays, history
  <2> QED BY <1>0, <2>1, <2>2, <2>3, ChangeKept, MirrorAssumption DEF CacheIInv
<1>4. CASE IdleTold
  <2>1. idle = "waiting" /\ idle' # "waiting" /\ UNCHANGED <<mpd, upd, lost>>
    BY <1>4 DEF IdleTold, Order, history
  <2>2. FreshAtRest'
    BY <2>1 DEF FreshAtRest
  <2>3. FreshInUpdate'
    <3>1. upd # NoUpdate => upd.by = "call"
      BY <2>1 DEF CacheIInv, FreshInUpdate, Typed, TypeOK
    <3> QED BY <2>1, <3>1 DEF CacheIInv, FreshInUpdate
  <2> QED BY <1>0, <2>1, <2>2, <2>3 DEF CacheIInv
<1>5. CASE IdleReconnects
  <2>1. /\ UNCHANGED <<mpd, idle, status, upd>>
        /\ lost' \/ (flags' = flags /\ lost' = lost)
    <3>1. lost \in BOOLEAN
      BY <1>0 DEF Typed, TypeOK
    <3>2. CASE flags = {}
      BY <1>5, <3>1, <3>2 DEF IdleReconnects
    <3>3. CASE flags # {}
      BY <1>5, <3>3 DEF IdleReconnects
    <3> QED BY <3>2, <3>3
  <2> QED BY <1>0, <2>1 DEF CacheIInv, FreshAtRest, FreshInUpdate
<1>6. ASSUME NEW by \in {"idle", "call"}, StatusAnswered(by) PROVE CacheIInv'
  <2>1. upd = NoUpdate /\ UNCHANGED <<mpd, flags>> /\ MayUpdate(by)
    BY <1>6 DEF StatusAnswered
  <2>2. Same(mpd, mpd, "mixer") /\ \A x \in Subsystems : Same(mpd, mpd, x)
    BY DEF Same, Subsystems
  <2>3. CASE NeedsSong(status, mpd)
    <3>1. upd' = [by |-> by, answer |-> mpd] /\ idle' = idle
      BY <1>6, <2>3 DEF StatusAnswered
    <3>2. upd' # NoUpdate /\ upd'.answer = mpd /\ upd'.by = by
      <4>1. by # "nobody"
        OBVIOUS
      <4> QED BY <3>1, <4>1 DEF NoUpdate
    <3>3. by = "idle" => idle # "waiting"
      BY <2>1 DEF MayUpdate, Subsystems
    <3>4. mpd.song # None
      BY <2>3 DEF NeedsSong
    <3> QED BY <1>0, <2>1, <2>2, <3>1, <3>2, <3>3, <3>4 DEF CacheIInv, FreshAtRest, FreshInUpdate
  <2>4. CASE ~NeedsSong(status, mpd)
    <3>1. Finish(by, status, mpd, KeptSong(status, mpd), FALSE)
      BY <1>6, <2>4 DEF StatusAnswered
    <3>2. status' = FromAnswer(mpd, KeptSong(status, mpd)) /\ upd' = NoUpdate
      BY <3>1 DEF Finish
    <3>3. KeptSong(status, mpd) = mpd.song
      <4>1. mpd.song # 0
        BY DEF CacheIInv, Consistent
      <4> QED BY <2>4, <4>1 DEF NeedsSong, KeptSong, None
    <3>4. \A x \in Subsystems : Fresh(status', mpd, x)
      BY <2>2, <3>2, <3>3, FreshAnswer
    <3> QED BY <1>0, <2>1, <3>2, <3>4 DEF CacheIInv, FreshAtRest, FreshInUpdate
  <2> QED BY <2>3, <2>4
<1>7. CASE SongAnswered
  <2>1. /\ upd # NoUpdate /\ UNCHANGED <<mpd, flags, lost>>
        /\ Finish(upd.by, status, upd.answer, AnsweredSong(mpd), TRUE)
    BY <1>7 DEF SongAnswered
  <2>2. /\ status' = FromAnswer(upd.answer, AnsweredSong(mpd)) /\ upd' = NoUpdate
        /\ upd.by = "call" /\ idle # "waiting" => idle' # "waiting"
    BY <2>1 DEF Finish
  <2>3. ASSUME ~lost, idle' = "waiting", NEW x \in Subsystems \ flags
        PROVE  Fresh(status', mpd, x)
    <3>1. Same(upd.answer, mpd, x) /\ upd.answer.song # None
      BY <2>1, <2>2, <2>3 DEF CacheIInv, FreshInUpdate
    <3>2. x = "player" => AnsweredSong(mpd) = mpd.song
      BY <3>1 DEF Same, AnsweredSong
    <3> QED BY <2>2, <3>1, <3>2, FreshAnswer
  <2> QED BY <1>0, <2>1, <2>2, <2>3 DEF CacheIInv, FreshAtRest, FreshInUpdate
<1>8. CASE StatusFails
  BY <1>0, <1>8 DEF StatusFails, CacheIInv, FreshAtRest, FreshInUpdate
<1>9. CASE SongFails
  BY <1>0, <1>9 DEF SongFails, CacheIInv, FreshAtRest, FreshInUpdate
<1>10. CASE TakeEvent \/ EmitSignal \/ EmitFails \/ UNCHANGED vars
  BY <1>1, <1>10 DEF TakeEvent, EmitSignal, EmitFails, vars, history
<1>11. ASSUME NEW c \in Setters, SetRequested(c) PROVE CacheIInv'
  <2>1. PICK p, v :
           mpd' = Requested(mpd, p, v) /\ flags' = flags \cup Touched(mpd, Requested(mpd, p, v))
    BY <1>11 DEF SetRequested
  <2>2. PICK m : m = Requested(mpd, p, v)
    OBVIOUS
  <2>3. \A x \in Subsystems \ Touched(mpd, m) : Same(mpd, m, x)
    BY Untouched
  <2>4. UNCHANGED <<idle, status, upd, lost>>
    BY <1>11 DEF SetRequested, history
  <2>5. Consistent(m)
    BY <2>2, <1>0, RequestedConsistent DEF CacheIInv, Typed, TypeOK
  <2> QED BY <1>0, <2>1, <2>2, <2>3, <2>4, <2>5, ChangeKept DEF CacheIInv
<1>12. ASSUME NEW c \in Setters, SetWritten(c) PROVE CacheIInv'
  <2>1. /\ status' = Written(status, set[c].prop, set[c].val)
        /\ upd = NoUpdate /\ UNCHANGED <<mpd, flags, idle, upd, lost>>
    BY <1>12 DEF SetWritten, history
  <2>2. set[c].prop \in SetKinds /\ status \in Statuses /\ Setters # {}
    BY <1>0, <1>12 DEF SetWritten, Typed, TypeOK, SetterOK, NoCall
  <2>3. ASSUME NEW x \in Subsystems, Fresh(status, mpd, x) PROVE Fresh(status', mpd, x)
    BY <2>1, <2>2, <2>3, WrittenFresh
  <2> QED BY <1>0, <2>1, <2>3 DEF CacheIInv, FreshAtRest, FreshInUpdate
<1>13. ASSUME NEW c \in Setters, SetRead(c) \/ SetEmitted(c) PROVE CacheIInv'
  BY <1>1, <1>13 DEF SetRead, SetEmitted, history
<1> QED BY <1>2, <1>3, <1>4, <1>5, <1>6, <1>7, <1>8, <1>9, <1>10, <1>11, <1>12, <1>13 DEF Next

\* A status that is fresh in every subsystem is the one MPD would answer, but for
\* what setters write.
LEMMA FreshAgrees ==
    ASSUME Typed, \A x \in Subsystems : Fresh(status, mpd, x)
    PROVE  Agree(status, FromAnswer(mpd, mpd.song), DOMAIN status \ SetFields)
<1>1. DOMAIN status = {"state", "volume", "repeat", "shuffle", "elapsed", "song", "next", "length"}
  BY DEF Typed, TypeOK, Statuses
<1>2. /\ Fresh(status, mpd, "mixer") /\ Fresh(status, mpd, "options")
      /\ Fresh(status, mpd, "playlist") /\ Fresh(status, mpd, "player")
  BY DEF Subsystems
<1>3. /\ "volume" \in SetFields \/ status.volume = FromAnswer(mpd, mpd.song).volume
      /\ "repeat" \in SetFields \/ status.repeat = FromAnswer(mpd, mpd.song).repeat
      /\ "shuffle" \in SetFields \/ status.shuffle = FromAnswer(mpd, mpd.song).shuffle
  BY <1>2 DEF Fresh
<1>4. /\ status.length = FromAnswer(mpd, mpd.song).length
      /\ status.next = FromAnswer(mpd, mpd.song).next
      /\ status.state = FromAnswer(mpd, mpd.song).state
      /\ status.song = FromAnswer(mpd, mpd.song).song
  BY <1>2 DEF Fresh, FromAnswer
<1> QED BY <1>1, <1>3, <1>4 DEF Agree

\* Once nothing is on its way the cached status is what MPD would answer, unless
\* a report of MPD was lost since "status" was last answered: although the
\* song is asked for after the status, MPD changes in between, idle and
\* position() update side by side, and any request, the idle connection and
\* the emission of any signal can fail.  Any number of setters may run; one that was
\* overtaken by an update writes a value that is old, but no other entry suffers.
THEOREM MirrorCacheFollows == Spec => []CacheFollowsMpd
<1>1. Init => CacheIInv
  <2>1. ASSUME Init PROVE FreshAtRest /\ FreshInUpdate
    <3>1. ASSUME NEW x \in Subsystems PROVE Fresh(status, mpd, x)
      <4>1. Same(mpd, mpd, x)
        BY DEF Same, Subsystems
      <4> QED BY <2>1, <4>1, FreshAnswer DEF Init
    <3> QED BY <2>1, <3>1 DEF Init, FreshAtRest, FreshInUpdate
  <2> QED BY <2>1, InitTyped, MirrorAssumption DEF CacheIInv, Init
<1>2. CacheIInv => CacheFollowsMpd
  BY FreshAgrees DEF CacheIInv, FreshAtRest, CacheFollowsMpd, Quiet
<1> QED BY <1>1, <1>2, NextCache, PTL DEF Spec
=============================================================================
