---------------------------- MODULE MirrorProofs ----------------------------
(***************************************************************************)
(* No changed signal is lost, for every set of MPD states, every bound on  *)
(* the queue and every mix of updates and emissions, with one setter at a  *)
(* time and as long as "currentsong" and the emission of signals succeed.  *)
(***************************************************************************)
EXTENDS Mirror, TLAPS

(***************************************************************************)
(* Sequences of events                                                     *)
(***************************************************************************)
\* Property p is signalled for one of the events in q.
InQueue(q, p) == \E i \in 1..Len(q) :
    \E j \in 1..Len(Signalled(q[i])) : Signalled(q[i])[j] = p

\* An optional event is a sequence.
LEMMA OptSeq == ASSUME NEW S, NEW b \in BOOLEAN, NEW e \in S
                PROVE  /\ Opt(b, e) \in Seq(S)
                       /\ b => Len(Opt(b, e)) = 1 /\ Opt(b, e)[1] = e
BY DEF Opt

\* What is announced stays announced when events are put before or after it.
LEMMA InConcat ==
    ASSUME NEW q \in Seq(Events), NEW r \in Seq(Events), NEW p
    PROVE  /\ q \o r \in Seq(Events)
           /\ InQueue(q, p) \/ InQueue(r, p) => InQueue(q \o r, p)
<1>0. q \o r \in Seq(Events)
  OBVIOUS
<1>1. CASE InQueue(q, p)
  <2>1. PICK i \in 1..Len(q) : \E j \in 1..Len(Signalled(q[i])) : Signalled(q[i])[j] = p
    BY <1>1 DEF InQueue
  <2>2. i \in 1..Len(q \o r) /\ (q \o r)[i] = q[i]
    OBVIOUS
  <2>3. InQueue(q \o r, p)
    BY <2>1, <2>2 DEF InQueue
  <2> QED BY <1>0, <2>3
<1>2. CASE InQueue(r, p)
  <2>1. PICK i \in 1..Len(r) : \E j \in 1..Len(Signalled(r[i])) : Signalled(r[i])[j] = p
    BY <1>2 DEF InQueue
  <2>2. Len(q) + i \in 1..Len(q \o r) /\ (q \o r)[Len(q) + i] = r[i]
    OBVIOUS
  <2>3. InQueue(q \o r, p)
    BY <2>1, <2>2 DEF InQueue
  <2> QED BY <1>0, <2>3
<1> QED BY <1>0, <1>1, <1>2

\* An event is an event, and one of kind k is announced by its optional form.
LEMMA EventType == ASSUME NEW k \in EventKinds PROVE Event(k) \in Events
BY DEF Event, Events

\* So is the event of a new song.
LEMMA SongEventType == ASSUME NEW s, NEW t PROVE SongEvent(s, t) \in Events
BY DEF SongEvent, Events, EventKinds

\* The property an event with a single signal announces.
LEMMA InSingle == ASSUME NEW e, NEW p, Signalled(e) = <<p>>
                  PROVE  InQueue(<<e>>, p)
<1> DEFINE q == <<e>>
<1>1. Len(q) = 1 /\ q[1] = e
  OBVIOUS
<1> HIDE DEF q
<1>2. Len(Signalled(q[1])) = 1 /\ Signalled(q[1])[1] = p
  BY <1>1
<1>3. 1 \in 1..Len(q) /\ 1 \in 1..Len(Signalled(q[1]))
  BY <1>1, <1>2
<1>4. InQueue(q, p)
  BY <1>2, <1>3 DEF InQueue
<1> QED BY <1>4 DEF q

\* The events that stand for one announced property.
LEMMA OneSignal ==
    /\ Signalled(Event("PlayState")) = <<"PlaybackStatus">>
    /\ Signalled(Event("Volume")) = <<"Volume">>
    /\ Signalled(Event("Repeat")) = <<"LoopStatus">>
    /\ Signalled(Event("Shuffle")) = <<"Shuffle">>
BY DEF Signalled, Event

\* An update that changes an announced property queues an event for it.
LEMMA ChangeAnnounced ==
    ASSUME NEW s, NEW t, NEW b \in BOOLEAN, NEW p \in Announced,
           Value(s, p) # Value(t, p)
    PROVE  /\ ChangeEvents(s, t, b) \in Seq(Events)
           /\ InQueue(ChangeEvents(s, t, b), p)
<1> DEFINE o1 == Opt(PositionJumped(s, t), Event("Position"))
           o2 == Opt(s.state # t.state, Event("PlayState"))
           o3 == Opt(s.volume # t.volume, Event("Volume"))
           o4 == Opt(s.repeat # t.repeat, Event("Repeat"))
           o5 == Opt(s.shuffle # t.shuffle, Event("Shuffle"))
           o6 == Opt(b, SongEvent(s, t))
           o7 == Opt((s.next = None) # (t.next = None) \/ s.length # t.length,
                     Event("Playlist"))
<1>1. /\ o1 \in Seq(Events) /\ o2 \in Seq(Events) /\ o3 \in Seq(Events)
      /\ o4 \in Seq(Events) /\ o5 \in Seq(Events) /\ o6 \in Seq(Events)
      /\ o7 \in Seq(Events)
  <2>1. PositionJumped(s, t) \in BOOLEAN
    BY DEF PositionJumped
  <2> QED BY <2>1, OptSeq, EventType, SongEventType DEF EventKinds
<1>2. ChangeEvents(s, t, b) = o1 \o o2 \o o3 \o o4 \o o5 \o o6 \o o7
  BY DEF ChangeEvents
<1>3. \/ InQueue(o2, p) \/ InQueue(o3, p) \/ InQueue(o4, p) \/ InQueue(o5, p)
  <2>1. CASE p = "PlaybackStatus"
    <3>1. o2 = <<Event("PlayState")>>
      BY <2>1 DEF Value, Opt
    <3> QED BY <3>1, <2>1, InSingle, OneSignal
  <2>2. CASE p = "Volume"
    <3>1. o3 = <<Event("Volume")>>
      BY <2>2 DEF Value, Opt
    <3> QED BY <3>1, <2>2, InSingle, OneSignal
  <2>3. CASE p = "LoopStatus"
    <3>1. o4 = <<Event("Repeat")>>
      BY <2>3 DEF Value, Opt
    <3> QED BY <3>1, <2>3, InSingle, OneSignal
  <2>4. CASE p = "Shuffle"
    <3>1. o5 = <<Event("Shuffle")>>
      BY <2>4 DEF Value, Opt
    <3> QED BY <3>1, <2>4, InSingle, OneSignal
  <2> QED BY <2>1, <2>2, <2>3, <2>4 DEF Announced
<1> DEFINE c2 == o1 \o o2
           c3 == c2 \o o3
           c4 == c3 \o o4
           c5 == c4 \o o5
           c6 == c5 \o o6
           c7 == c6 \o o7
<1> HIDE DEF o1, o2, o3, o4, o5, o6, o7
<1>4. c2 \in Seq(Events) /\ (InQueue(o2, p) => InQueue(c2, p))
  BY <1>1, InConcat
<1> HIDE DEF c2
<1>5. c3 \in Seq(Events) /\ (InQueue(c2, p) \/ InQueue(o3, p) => InQueue(c3, p))
  BY <1>1, <1>4, InConcat
<1> HIDE DEF c3
<1>6. c4 \in Seq(Events) /\ (InQueue(c3, p) \/ InQueue(o4, p) => InQueue(c4, p))
  BY <1>1, <1>5, InConcat
<1> HIDE DEF c4
<1>7. c5 \in Seq(Events) /\ (InQueue(c4, p) \/ InQueue(o5, p) => InQueue(c5, p))
  BY <1>1, <1>6, InConcat
<1> HIDE DEF c5
<1>8. c6 \in Seq(Events) /\ (InQueue(c5, p) => InQueue(c6, p))
  BY <1>1, <1>7, InConcat
<1> HIDE DEF c6
<1>9. c7 \in Seq(Events) /\ (InQueue(c6, p) => InQueue(c7, p))
  BY <1>1, <1>8, InConcat
<1>10. ChangeEvents(s, t, b) = c7
  BY <1>2 DEF c2, c3, c4, c5, c6
<1> HIDE DEF c7
<1> QED BY <1>3, <1>4, <1>5, <1>6, <1>7, <1>8, <1>9, <1>10

\* An update queues events, whatever changed.
LEMMA ChangeType == ASSUME NEW s, NEW t, NEW b \in BOOLEAN
                    PROVE  ChangeEvents(s, t, b) \in Seq(Events)
<1> DEFINE o1 == Opt(PositionJumped(s, t), Event("Position"))
           o2 == Opt(s.state # t.state, Event("PlayState"))
           o3 == Opt(s.volume # t.volume, Event("Volume"))
           o4 == Opt(s.repeat # t.repeat, Event("Repeat"))
           o5 == Opt(s.shuffle # t.shuffle, Event("Shuffle"))
           o6 == Opt(b, SongEvent(s, t))
           o7 == Opt((s.next = None) # (t.next = None) \/ s.length # t.length,
                     Event("Playlist"))
<1>1. /\ o1 \in Seq(Events) /\ o2 \in Seq(Events) /\ o3 \in Seq(Events)
      /\ o4 \in Seq(Events) /\ o5 \in Seq(Events) /\ o6 \in Seq(Events)
      /\ o7 \in Seq(Events)
  <2>1. PositionJumped(s, t) \in BOOLEAN
    BY DEF PositionJumped
  <2> QED BY <2>1, OptSeq, EventType, SongEventType DEF EventKinds
<1>2. ChangeEvents(s, t, b) = o1 \o o2 \o o3 \o o4 \o o5 \o o6 \o o7
  BY DEF ChangeEvents
<1> HIDE DEF o1, o2, o3, o4, o5, o6, o7
<1> QED BY <1>1, <1>2

(***************************************************************************)
(* The inductive invariant                                                 *)
(***************************************************************************)
OneSetter == \A c, d \in Setters : c = d
SignalsGetOut == Faults \cap {"song", "emit"} = {}

SetterOK(x) ==
    \/ x = NoCall
    \/ /\ x.pc \in {"write", "read", "emit"} /\ x.prop \in SetKinds
       /\ x = [pc |-> x.pc, prop |-> x.prop, val |-> x.val]

IsStatus(s) ==
    s = [state |-> s.state, volume |-> s.volume, repeat |-> s.repeat,
         shuffle |-> s.shuffle, elapsed |-> s.elapsed, song |-> s.song,
         next |-> s.next, length |-> s.length]

Shape ==
    /\ IsStatus(status)
    /\ queue \in Seq(Events) /\ emit \in Seq(Properties)
    /\ set = [c \in Setters |-> set[c]] /\ \A c \in Setters : SetterOK(set[c])
    /\ view = [p \in Properties |-> view[p]]
    /\ panicked \in BOOLEAN

\* What a setter is about to signal is the cached value, or an update that
\* came after its read has queued an event.
SetterCurrent ==
    panicked \/ \A c \in Setters : set[c].pc = "emit" =>
        \/ set[c].val = Value(status, set[c].prop)
        \/ InQueue(queue, set[c].prop)

IInv == Shape /\ SetterCurrent /\ NoLostSignal

\* What setters set is announced.
LEMMA KindsAnnounced == SetKinds \subseteq Announced /\ Announced \subseteq Properties
BY MirrorAssumption DEF Announced, Properties

\* An update builds a whole status.
LEMMA FromAnswerShape == \A r, song : IsStatus(FromAnswer(r, song))
BY DEF IsStatus, FromAnswer

\* At the start a client has the cached values.
LEMMA InitIInv == Init => IInv
<1> SUFFICES ASSUME Init PROVE IInv
  OBVIOUS
<1>1. Shape
  <2>1. queue \in Seq(Events) /\ emit \in Seq(Properties) /\ panicked \in BOOLEAN
    <3>1. queue = <<>> /\ emit = <<>> /\ panicked = FALSE
      BY DEF Init
    <3>2. \A S : <<>> \in Seq(S)
      OBVIOUS
    <3> QED BY <3>1, <3>2
  <2>2. set = [c \in Setters |-> set[c]] /\ view = [p \in Properties |-> view[p]]
    BY DEF Init
  <2>3. \A c \in Setters : SetterOK(set[c])
    BY DEF Init, SetterOK
  <2>4. IsStatus(status)
    BY FromAnswerShape DEF Init
  <2> QED BY <2>1, <2>2, <2>3, <2>4 DEF Shape
<1>2. SetterCurrent
  BY DEF Init, SetterCurrent, NoCall
<1>3. NoLostSignal
  BY KindsAnnounced DEF Init, NoLostSignal
<1> QED BY <1>1, <1>2, <1>3 DEF IInv

\* An update that ends: it panics, or every announced property it changed is
\* in the queue, and so is everything that was.
LEMMA FinishStep ==
    ASSUME IInv, NEW by, NEW r, NEW song, NEW b \in BOOLEAN,
           Finish(by, status, r, song, b), UNCHANGED <<emit, set, view>>
    PROVE  IInv'
<1> DEFINE new == FromAnswer(r, song)
           opt == Opt(by = "idle" /\ idle = "player" /\ CouldBeSeeking(status, new, r, b),
                      Event("Position"))
           evs == ChangeEvents(status, new, b)
<1> USE DEF IInv
<1>a. IsStatus(new)
  BY FromAnswerShape
<1>0. queue \in Seq(Events) /\ evs \in Seq(Events) /\ opt \in Seq(Events)
  <2>1. (by = "idle" /\ idle = "player" /\ CouldBeSeeking(status, new, r, b)) \in BOOLEAN
    BY DEF CouldBeSeeking
  <2>2. opt \in Seq(Events)
    BY <2>1, OptSeq, EventType DEF EventKinds
  <2> QED BY <2>2, ChangeType DEF Shape
<1>1. CASE Panics(status, new)
  BY <1>1, <1>a DEF Finish, Shape, SetterCurrent, NoLostSignal
<1>2. CASE ~Panics(status, new)
  <2>1. status' = new /\ queue' = queue \o evs \o opt /\ panicked' = panicked
    BY <1>2 DEF Finish
  <2>2. \A p \in Announced : Value(status, p) # Value(new, p) => InQueue(evs, p)
    BY ChangeAnnounced
  <2> HIDE DEF new, opt, evs
  <2>3. /\ queue' \in Seq(Events)
        /\ \A p : InQueue(queue, p) \/ InQueue(evs, p) => InQueue(queue', p)
    <3> DEFINE q1 == queue \o evs
    <3>1. q1 \in Seq(Events) /\ \A p : InQueue(queue, p) \/ InQueue(evs, p) => InQueue(q1, p)
      BY <1>0, InConcat
    <3>2. queue' = q1 \o opt
      BY <2>1
    <3> HIDE DEF q1
    <3> QED BY <1>0, <3>1, <3>2, InConcat
  <2>4. Shape'
    BY <1>a, <2>1, <2>3 DEF Shape, SetterOK
  <2>5. SetterCurrent'
    <3> SUFFICES ASSUME NEW c \in Setters, ~panicked, set[c].pc = "emit"
                 PROVE  \/ set[c].val = Value(new, set[c].prop)
                        \/ InQueue(queue', set[c].prop)
      BY <2>1 DEF SetterCurrent
    <3>1. set[c].prop \in Announced
      BY KindsAnnounced DEF Shape, SetterOK, NoCall
    <3> QED BY <2>2, <2>3, <3>1 DEF SetterCurrent
  <2>6. NoLostSignal'
    <3> SUFFICES ASSUME NEW p \in Announced, ~panicked
                 PROVE  view[p] = Value(new, p) \/ Pending(p)'
      BY <2>1 DEF NoLostSignal
    <3>1. InQueue(queue', p) => Pending(p)'
      BY DEF InQueue, Pending
    <3>2. Pending(p) => Pending(p)'
      <4>1. InQueue(queue, p) => Pending(p)'
        BY <2>3, <3>1
      <4> QED BY <4>1 DEF InQueue, Pending
    <3>3. view[p] = Value(status, p) \/ Pending(p)
      BY DEF NoLostSignal
    <3> QED BY <2>2, <2>3, <3>1, <3>2, <3>3
  <2> QED BY <2>4, <2>5, <2>6
<1> QED BY <1>1, <1>2

\* Steps that touch neither the cached status nor the events, the emission,
\* the setters and the client.
LEMMA IdleSteps ==
    ASSUME IInv, UNCHANGED <<status, queue, emit, set, view, panicked>>
    PROVE  IInv'
BY DEF IInv, Shape, SetterOK, SetterCurrent, InQueue, NoLostSignal, Pending

\* The emitting task takes an event: its signals go from the queue to emit.
LEMMA TakeEventStep == ASSUME IInv, TakeEvent PROVE IInv'
<1> USE DEF IInv
<1>1. /\ queue \in Seq(Events) /\ queue # <<>>
      /\ emit' = Signalled(queue[1]) /\ queue' = Tail(queue)
      /\ Len(queue') = Len(queue) - 1 /\ \A i \in 1..Len(queue') : queue'[i] = queue[i + 1]
      /\ queue' \in Seq(Events) /\ queue[1] \in Events
  BY DEF TakeEvent, Shape
<1>2. emit' \in Seq(Properties)
  <2>1. \A e \in Events : Signalled(e) \in Seq(Properties)
    <3> SUFFICES ASSUME NEW e \in Events PROVE Signalled(e) \in Seq(Properties)
      OBVIOUS
    <3>1. e.prev \in BOOLEAN /\ e.next \in BOOLEAN
      BY DEF Events
    <3>2. /\ Opt(e.prev, "CanGoPrevious") \in Seq(Properties)
          /\ Opt(e.next, "CanGoNext") \in Seq(Properties)
      BY <3>1, OptSeq DEF Properties
    <3>3. /\ <<"PlaybackStatus">> \in Seq(Properties) /\ <<"Volume">> \in Seq(Properties)
          /\ <<"LoopStatus">> \in Seq(Properties) /\ <<"Shuffle">> \in Seq(Properties)
          /\ <<"Metadata">> \in Seq(Properties) /\ <<>> \in Seq(Properties)
      BY DEF Properties
    <3>4. <<"Metadata">> \o Opt(e.prev, "CanGoPrevious") \o Opt(e.next, "CanGoNext")
            \in Seq(Properties)
      BY <3>2, <3>3
    <3> QED BY <3>3, <3>4 DEF Signalled
  <2> QED BY <1>1, <2>1
<1>3. Shape'
  BY <1>1, <1>2 DEF TakeEvent, Shape, SetterOK
<1>4. SetterCurrent'
  BY DEF TakeEvent, SetterCurrent
<1>5. ASSUME NEW p, Pending(p) PROVE Pending(p)'
  <2>1. CASE InQueue(queue, p)
    <3>1. PICK i \in 1..Len(queue) :
              \E j \in 1..Len(Signalled(queue[i])) : Signalled(queue[i])[j] = p
      BY <2>1 DEF InQueue
    <3>2. CASE i = 1
      BY <1>1, <3>1, <3>2 DEF Pending
    <3>3. CASE i # 1
      <4>1. i - 1 \in 1..Len(queue') /\ queue'[i - 1] = queue[i]
        BY <1>1, <3>3
      <4> QED BY <3>1, <4>1 DEF Pending
    <3> QED BY <3>2, <3>3
  <2>2. CASE ~InQueue(queue, p)
    BY <1>5, <2>2 DEF Pending, InQueue, TakeEvent
  <2> QED BY <2>1, <2>2
<1>6. NoLostSignal'
  BY <1>5 DEF NoLostSignal, TakeEvent
<1> QED BY <1>3, <1>4, <1>6

\* The emitting task sends a signal with the value the property has now.
LEMMA EmitSignalStep == ASSUME IInv, EmitSignal PROVE IInv'
<1> USE DEF IInv
<1>1. /\ emit \in Seq(Properties) /\ emit # <<>> /\ emit' = Tail(emit)
      /\ Len(emit') = Len(emit) - 1 /\ \A i \in 1..Len(emit') : emit'[i] = emit[i + 1]
      /\ emit' \in Seq(Properties) /\ emit[1] \in Properties
      /\ view' = [view EXCEPT ![emit[1]] = Value(status, emit[1])]
  BY DEF EmitSignal, Shape
<1>2. Shape'
  BY <1>1 DEF EmitSignal, Shape, SetterOK
<1>3. SetterCurrent'
  BY DEF EmitSignal, SetterCurrent, InQueue
<1>4. ASSUME NEW p \in Announced, ~panicked
      PROVE  view'[p] = Value(status', p) \/ Pending(p)'
  <2>1. p \in Properties /\ status' = status
    BY KindsAnnounced DEF EmitSignal
  <2>2. CASE p = emit[1]
    BY <1>1, <2>1, <2>2 DEF Shape
  <2>3. CASE p # emit[1]
    <3>1. view'[p] = view[p]
      BY <1>1, <2>1, <2>3 DEF Shape
    <3>2. Pending(p) => Pending(p)'
      <4>1. ASSUME NEW i \in 1..Len(emit), emit[i] = p
            PROVE  i - 1 \in 1..Len(emit') /\ emit'[i - 1] = p
        BY <1>1, <2>3, <4>1
      <4> QED BY <4>1 DEF Pending, EmitSignal
    <3> QED BY <1>4, <2>1, <3>1, <3>2 DEF NoLostSignal
  <2> QED BY <2>2, <2>3
<1>5. NoLostSignal'
  BY <1>4 DEF NoLostSignal, EmitSignal
<1> QED BY <1>2, <1>3, <1>5

\* The value a setter writes is of its own property only.
LEMMA WrittenOnly ==
    ASSUME NEW s, IsStatus(s), NEW p \in SetKinds, NEW v, NEW q \in Announced, q # p
    PROVE  /\ Value(Written(s, p, v), q) = Value(s, q)
           /\ IsStatus(Written(s, p, v))
<1>1. CASE p = "Volume"
  <2>1. Written(s, p, v) = [s EXCEPT !.volume = Truncated(v)]
    BY <1>1 DEF Written
  <2>2. IsStatus(Written(s, p, v)) /\ Written(s, p, v).state = s.state
        /\ Written(s, p, v).repeat = s.repeat /\ Written(s, p, v).shuffle = s.shuffle
    BY <2>1 DEF IsStatus
  <2> QED BY <1>1, <2>2 DEF Value, Announced
<1>2. CASE p = "LoopStatus"
  <2>1. Written(s, p, v) = [s EXCEPT !.repeat = v]
    BY <1>2 DEF Written
  <2>2. IsStatus(Written(s, p, v)) /\ Written(s, p, v).state = s.state
        /\ Written(s, p, v).volume = s.volume /\ Written(s, p, v).shuffle = s.shuffle
    BY <2>1 DEF IsStatus
  <2> QED BY <1>2, <2>2 DEF Value, Announced
<1>3. CASE p = "Shuffle"
  <2>1. Written(s, p, v) = [s EXCEPT !.shuffle = v]
    BY <1>3 DEF Written
  <2>2. IsStatus(Written(s, p, v)) /\ Written(s, p, v).state = s.state
        /\ Written(s, p, v).volume = s.volume /\ Written(s, p, v).repeat = s.repeat
    BY <2>1 DEF IsStatus
  <2> QED BY <1>3, <2>2 DEF Value, Announced
<1> QED BY <1>1, <1>2, <1>3, MirrorAssumption

\* A setter in progress is a record with its three fields.
LEMMA SetterRecord ==
    ASSUME Shape, NEW c \in Setters, set[c].pc \in {"write", "read", "emit"}
    PROVE  /\ set[c].prop \in SetKinds
           /\ set[c] = [pc |-> set[c].pc, prop |-> set[c].prop, val |-> set[c].val]
BY DEF Shape, SetterOK, NoCall

\* Replacing the call of one setter by a well-formed one.
LEMMA SetterReplaced ==
    ASSUME Shape, NEW c \in Setters, NEW x, SetterOK(x),
           set' = [set EXCEPT ![c] = x]
    PROVE  /\ set' = [d \in Setters |-> set'[d]] /\ \A d \in Setters : SetterOK(set'[d])
           /\ set'[c] = x /\ \A d \in Setters \ {c} : set'[d] = set[d]
<1>1. /\ set'[c] = x /\ \A d \in Setters \ {c} : set'[d] = set[d]
      /\ set' = [d \in Setters |-> set'[d]]
  BY DEF Shape
<1>2. \A d \in Setters : SetterOK(set[d])
  BY DEF Shape
<1>3. ASSUME NEW d \in Setters PROVE SetterOK(set'[d])
  BY <1>1, <1>2
<1> QED BY <1>1, <1>3

\* A setter starts; nothing it holds is in the cache yet.
LEMMA SetRequestedStep ==
    ASSUME OneSetter, IInv, NEW c \in Setters, SetRequested(c) PROVE IInv'
<1> USE DEF IInv
<1>1. PICK p \in SetKinds : \E v \in SetValues(p) :
          set' = [set EXCEPT ![c] = [pc |-> "write", prop |-> p, val |-> v]]
  BY DEF SetRequested
<1>2. PICK v : set' = [set EXCEPT ![c] = [pc |-> "write", prop |-> p, val |-> v]]
  BY <1>1
<1>3. set[c].pc = "none" /\ UNCHANGED <<status, queue, emit, view, panicked>>
  BY DEF SetRequested
<1>4. SetterOK([pc |-> "write", prop |-> p, val |-> v])
  BY DEF SetterOK
<1>5. /\ set' = [d \in Setters |-> set'[d]] /\ \A d \in Setters : SetterOK(set'[d])
      /\ set'[c].pc = "write"
  BY <1>2, <1>4, SetterReplaced
<1>6. Shape'
  BY <1>3, <1>5 DEF Shape
<1>7. SetterCurrent' /\ NoLostSignal'
  BY <1>3, <1>5 DEF OneSetter, SetterCurrent, InQueue, NoLostSignal, Pending
<1> QED BY <1>6, <1>7

\* The cached value changes and the setter still has to announce it.
LEMMA SetWrittenStep ==
    ASSUME OneSetter, IInv, NEW c \in Setters, SetWritten(c) PROVE IInv'
<1> USE DEF IInv
<1>1. /\ set[c].pc = "write" /\ UNCHANGED <<queue, emit, view, panicked>>
      /\ status' = Written(status, set[c].prop, set[c].val)
      /\ set' = [set EXCEPT ![c].pc = "read"]
  BY DEF SetWritten
<1>2. set[c].prop \in SetKinds /\ set'[c].pc = "read" /\ set'[c].prop = set[c].prop
  BY <1>1, SetterRecord DEF Shape
<1>3. Shape'
  <2>1. PICK q \in Announced : q # set[c].prop
    BY DEF Announced
  <2>2. IsStatus(status')
    BY <1>1, <1>2, <2>1, WrittenOnly DEF Shape
  <2> QED BY <1>1, <2>2, SetterRecord, SMTT(30) DEF Shape, SetterOK
<1>4. SetterCurrent'
  BY <1>1, <1>2 DEF OneSetter, SetterCurrent
<1>5. ASSUME NEW q \in Announced, ~panicked
      PROVE  view[q] = Value(status', q) \/ Pending(q)'
  <2>1. CASE q = set[c].prop
    BY <1>2, <2>1 DEF Pending
  <2>2. CASE q # set[c].prop
    <3>1. Value(status', q) = Value(status, q)
      BY <1>1, <1>2, <2>2, WrittenOnly DEF Shape
    <3>2. Pending(q) => Pending(q)'
      BY <1>1, <1>2, <2>2 DEF Pending, OneSetter
    <3> QED BY <1>5, <3>1, <3>2 DEF NoLostSignal
  <2> QED BY <2>1, <2>2
<1> QED BY <1>1, <1>3, <1>4, <1>5 DEF NoLostSignal

\* The setter has read the value it will announce.
LEMMA SetReadStep ==
    ASSUME OneSetter, IInv, NEW c \in Setters, SetRead(c) PROVE IInv'
<1> USE DEF IInv
<1> DEFINE x == [pc |-> "emit", prop |-> set[c].prop, val |-> Value(status, set[c].prop)]
<1>1. /\ set[c].pc = "read" /\ UNCHANGED <<status, queue, emit, view, panicked>>
      /\ set' = [set EXCEPT ![c] = x]
  BY DEF SetRead
<1>2. set[c].prop \in SetKinds /\ SetterOK(x)
  BY <1>1, SetterRecord DEF SetterOK
<1>3. /\ set' = [d \in Setters |-> set'[d]] /\ \A d \in Setters : SetterOK(set'[d])
      /\ set'[c] = x
  <2> HIDE DEF x
  <2> QED BY <1>1, <1>2, SetterReplaced
<1>6. Shape'
  BY <1>1, <1>3 DEF Shape
<1>4. SetterCurrent'
  BY <1>1, <1>3 DEF OneSetter, SetterCurrent
<1>5. ASSUME NEW q, Pending(q) PROVE Pending(q)'
  BY <1>1, <1>3, <1>5 DEF Pending, OneSetter
<1> QED BY <1>1, <1>4, <1>5, <1>6 DEF NoLostSignal

\* The client gets the value the setter read; nobody else wrote it since.
LEMMA SetEmittedStep ==
    ASSUME OneSetter, IInv, NEW c \in Setters, SetEmitted(c) PROVE IInv'
<1> USE DEF IInv
<1>1. /\ set[c].pc = "emit" /\ UNCHANGED <<status, queue, emit, panicked>>
      /\ view' = [view EXCEPT ![set[c].prop] = set[c].val]
      /\ set' = [set EXCEPT ![c] = NoCall]
  BY DEF SetEmitted
<1>2. set[c].prop \in SetKinds /\ set'[c].pc = "none"
  BY <1>1, SetterRecord DEF Shape, NoCall
<1>3. Shape'
  BY <1>1 DEF Shape, SetterOK
<1>4. SetterCurrent'
  BY <1>1, <1>2 DEF OneSetter, SetterCurrent
<1>5. ASSUME NEW q \in Announced, ~panicked
      PROVE  view'[q] = Value(status, q) \/ Pending(q)'
  <2>0. InQueue(queue, q) => Pending(q)'
    BY <1>1 DEF InQueue, Pending
  <2>1. CASE q = set[c].prop
    <3>1. view'[q] = set[c].val
      BY <1>1, <2>1, KindsAnnounced DEF Shape
    <3> QED BY <1>1, <1>5, <2>0, <2>1, <3>1 DEF SetterCurrent
  <2>2. CASE q # set[c].prop
    <3>1. view'[q] = view[q]
      BY <1>1, <2>2, KindsAnnounced DEF Shape
    <3>2. Pending(q) => Pending(q)'
      BY <1>1, <1>2, <2>2 DEF Pending, OneSetter
    <3> QED BY <1>5, <3>1, <3>2 DEF NoLostSignal
  <2> QED BY <2>1, <2>2
<1> QED BY <1>1, <1>3, <1>4, <1>5 DEF NoLostSignal

\* Every step keeps IInv.
LEMMA NextIInv ==
    ASSUME OneSetter, SignalsGetOut, IInv, [Next]_vars PROVE IInv'
<1>1. CASE UNCHANGED vars
  BY <1>1, IdleSteps DEF vars
<1>2. CASE MpdChanges
  BY <1>2, IdleSteps DEF MpdChanges
<1>3. CASE MpdPlays
  BY <1>3, IdleSteps DEF MpdPlays
<1>4. CASE IdleTold
  BY <1>4, IdleSteps DEF IdleTold
<1>5. CASE IdleReconnects
  BY <1>5, IdleSteps DEF IdleReconnects
<1>6. ASSUME NEW by, StatusAnswered(by) PROVE IInv'
  <2>1. CASE NeedsSong(status, mpd)
    BY <1>6, <2>1, IdleSteps DEF StatusAnswered
  <2>2. CASE ~NeedsSong(status, mpd)
    BY <1>6, <2>2, FinishStep DEF StatusAnswered
  <2> QED BY <2>1, <2>2
<1>7. CASE SongAnswered
  BY <1>7, FinishStep DEF SongAnswered
<1>8. CASE StatusFails
  BY <1>8, IdleSteps DEF StatusFails
<1>9. CASE SongFails
  BY <1>9 DEF SongFails, SignalsGetOut
<1>10. CASE TakeEvent
  BY <1>10, TakeEventStep
<1>11. CASE EmitSignal
  BY <1>11, EmitSignalStep
<1>12. CASE EmitFails
  BY <1>12 DEF EmitFails, SignalsGetOut
<1>13. ASSUME NEW c \in Setters,
              SetRequested(c) \/ SetWritten(c) \/ SetRead(c) \/ SetEmitted(c)
       PROVE  IInv'
  BY <1>13, SetRequestedStep, SetWrittenStep, SetReadStep, SetEmittedStep
<1> QED BY <1>1, <1>2, <1>3, <1>4, <1>5, <1>6, <1>7, <1>8, <1>9, <1>10, <1>11, <1>12,
           <1>13 DEF Next

\* With one setter at a time, and while "currentsong" and the emission of
\* signals succeed, a client always has the cached value of PlaybackStatus,
\* Volume, LoopStatus and Shuffle or will be sent it: however updates by the
\* idle task and by position() calls, setters and send_signals interleave.
THEOREM SignalsArrive ==
    ASSUME OneSetter, SignalsGetOut PROVE Spec => []NoLostSignal
<1>1. Init => IInv
  BY InitIInv
<1>2. IInv /\ [Next]_vars => IInv'
  BY NextIInv
<1>3. IInv => NoLostSignal
  BY DEF IInv
<1> QED BY <1>1, <1>2, <1>3, PTL DEF Spec
=============================================================================
