---------------------------- MODULE ClientProofs ----------------------------
(***************************************************************************)
(* Theorems about the tasks, locks and the reload handshake, for any number*)
(* of D-Bus calls, any number of reloads, with and without faults.         *)
(***************************************************************************)
EXTENDS Client, TLAPS

\* What scripts are made of.
LEMMA OpTypes ==
    /\ \A l \in Locks, m \in {"R", "W"} : Lock(l, m) \in Ops /\ Touch(l, m) \in Ops
    /\ \A l \in Locks : Drop(l) \in Ops
    /\ IO \in Ops
BY DEF Ops, Lock, Touch, Drop, IO, Op

\* The five locks.
LEMMA LockNames == "iface" \in Locks /\ "idle" \in Locks /\ "status" \in Locks
                   /\ "conn" \in Locks /\ "config" \in Locks
BY DEF Locks

\* Every script an actor can start is a sequence of operations.
LEMMA ScriptTypes == \A a \in Scripted : ScriptsOf(a) \subseteq Seq(Ops)
<1>1. /\ ControlCall \in Seq(Ops) /\ RefusedCall \in Seq(Ops) /\ PlayPauseCall \in Seq(Ops)
      /\ CachedCall \in Seq(Ops) /\ CachedNoopCall \in Seq(Ops)
      /\ SeekPastEndCall \in Seq(Ops)
  BY OpTypes, LockNames DEF ControlCall, RefusedCall, PlayPauseCall, CachedCall,
     CachedNoopCall, SeekPastEndCall
<1>2. /\ SetLoopCall \in Seq(Ops) /\ SetSharedCall \in Seq(Ops) /\ GetterCall \in Seq(Ops)
      /\ MetadataCall \in Seq(Ops)
  BY OpTypes, LockNames DEF SetLoopCall, SetSharedCall, GetterCall, MetadataCall
<1>3. PositionCall \in Seq(Ops)
  BY OpTypes, LockNames DEF PositionCall
<1>4. PositionSongCall \in Seq(Ops)
  BY OpTypes, LockNames DEF PositionSongCall
<1>5. /\ PingRound \in Seq(Ops) /\ EmitSeeked \in Seq(Ops) /\ EmitProperty \in Seq(Ops)
      /\ EmitSong \in Seq(Ops)
  BY OpTypes, LockNames DEF PingRound, EmitSeeked, EmitProperty, EmitSong
<1>6. \A k \in CallKinds : Scripts[k] \in Seq(Ops)
  BY <1>1, <1>2, <1>3, <1>4, KindsAssumption DEF Scripts
<1> QED BY <1>5, <1>6 DEF ScriptsOf

\* The idle task and main are actors of their own.
LEMMA ActorNames ==
    /\ Scripted \subseteq Actors /\ "idle_task" \in Actors /\ "main" \in Actors
    /\ "idle_task" \notin Scripted /\ "main" \notin Scripted
BY CallsAssumption DEF Actors, Scripted, Loops

\* A step is one of the actions, or the process has ended.
LEMMA NextIsCases ==
    ASSUME Next
    PROVE  \/ Ended
           \/ UNCHANGED exited /\ \E a \in Scripted :
                Start(a) \/ TakeLock(a) \/ TouchLock(a) \/ DropLock(a) \/ CallAnswered(a)
                \/ CallFails(a)
           \/ UNCHANGED exited /\ \E a \in Actors :
                RequestFails(a) \/ ReadConfig(a) \/ Connected(a) \/ HandshakeDone(a)
           \/ UNCHANGED exited /\ IdleStep
           \/ UNCHANGED exited /\ MainStep
           \/ UNCHANGED exited /\ Hup
           \/ \E a \in Actors : GiveUp(a)
           \/ ReconnectFails \/ ReceiveTerm \/ Term
BY DEF Next, LiveStep, ScriptStep, NetStep

\* Releasing the guards of one actor leaves those of the others.
LEMMA ReleasedType ==
    ASSUME NEW h \in [Actors -> [Locks -> {"-", "R", "W"}]], NEW a \in Actors
    PROVE  /\ Released(h, a) \in [Actors -> [Locks -> {"-", "R", "W"}]]
           /\ Released(h, a)[a] = NoGuards
           /\ \A b \in Actors \ {a} : Released(h, a)[b] = h[b]
BY DEF Released, NoGuards

(***************************************************************************)
(* Types                                                                   *)
(***************************************************************************)
\* The process starts with every variable in its type.
LEMMA InitTypeOK == Init => TypeOK
<1> SUFFICES ASSUME Init PROVE TypeOK
  OBVIOUS
<1>1. todo \in [Scripted -> Seq(Ops)]
  <2>1. <<>> \in Seq(Ops)
    OBVIOUS
  <2> QED BY <2>1 DEF Init
<1>2. net \in [Actors -> NetStates] /\ held \in [Actors -> [Locks -> {"-", "R", "W"}]]
  BY DEF Init, NoGuards, NetStates
<1>3. version \in [Channels -> Nat] /\ config \in Nat /\ tokens \in {0, 1}
  BY DEF Init
<1>4. /\ idle \in IdlePcs /\ main \in MainPcs /\ dirty \in BOOLEAN /\ hup \in BOOLEAN
      /\ term \in BOOLEAN /\ exited \in {"no", "ok", "killed"}
  BY DEF Init, IdlePcs, MainPcs
<1> QED BY <1>1, <1>2, <1>3, <1>4 DEF TypeOK

\* Every step keeps the types.
LEMMA NextTypeOK == TypeOK /\ [Next]_vars => TypeOK'
<1> SUFFICES ASSUME TypeOK, [Next]_vars PROVE TypeOK'
  OBVIOUS
<1> USE DEF TypeOK
<1>1. CASE UNCHANGED vars
  BY <1>1 DEF vars
<1>2. ASSUME NEW a \in Scripted, UNCHANGED exited,
             \/ Start(a) \/ TakeLock(a) \/ TouchLock(a) \/ DropLock(a)
             \/ CallAnswered(a) \/ CallFails(a)
      PROVE  TypeOK'
  <2>0. a \in Actors
    BY ActorNames
  <2>1. ASSUME NEW h \in [Actors -> [Locks -> {"-", "R", "W"}]], AtOp(a, Head(todo[a]).op),
               Advance(a, h)
        PROVE  /\ todo' \in [Scripted -> Seq(Ops)]
               /\ held' \in [Actors -> [Locks -> {"-", "R", "W"}]]
    <3>1. Tail(todo[a]) \in Seq(Ops)
      BY <2>1 DEF AtOp, Running
    <3> QED BY <2>0, <2>1, <3>1, ReleasedType DEF Advance
  <2>2. CASE Start(a)
    BY <1>2, <2>2, ScriptTypes DEF Start
  <2>3. CASE TakeLock(a)
    <3> DEFINE o == Head(todo[a])
               h == [held EXCEPT ![a][o.lock] = o.mode]
    <3>1. o \in Ops /\ AtOp(a, "lock") /\ o.op = "lock"
      BY <2>3 DEF TakeLock, AtOp, Running
    <3>2. o.mode \in {"-", "R", "W"}
      BY <3>1 DEF Ops
    <3>3. h \in [Actors -> [Locks -> {"-", "R", "W"}]]
      BY <2>0, <3>2
    <3>4. Advance(a, h)
      BY <2>3 DEF TakeLock
    <3> HIDE DEF h
    <3>5. /\ todo' \in [Scripted -> Seq(Ops)]
          /\ held' \in [Actors -> [Locks -> {"-", "R", "W"}]]
      BY <2>1, <3>1, <3>3, <3>4
    <3> QED BY <1>2, <2>3, <3>5 DEF TakeLock
  <2>4. CASE TouchLock(a)
    <3>1. AtOp(a, Head(todo[a]).op)
      BY <2>4 DEF TouchLock, AtOp
    <3> QED BY <1>2, <2>1, <2>4, <3>1 DEF TouchLock
  <2>5. CASE DropLock(a)
    <3> DEFINE h == [held EXCEPT ![a][Head(todo[a]).lock] = "-"]
    <3>1. AtOp(a, Head(todo[a]).op)
      BY <2>5 DEF DropLock, AtOp
    <3>2. h \in [Actors -> [Locks -> {"-", "R", "W"}]]
      BY <2>0
    <3>3. Advance(a, h)
      BY <2>5 DEF DropLock
    <3> HIDE DEF h
    <3>4. /\ todo' \in [Scripted -> Seq(Ops)]
          /\ held' \in [Actors -> [Locks -> {"-", "R", "W"}]]
      BY <2>1, <3>1, <3>2, <3>3
    <3> QED BY <1>2, <2>5, <3>4 DEF DropLock
  <2>6. CASE CallAnswered(a)
    <3>1. AtOp(a, Head(todo[a]).op)
      BY <2>6 DEF CallAnswered, AtOp
    <3> QED BY <1>2, <2>0, <2>1, <2>6, <3>1 DEF CallAnswered, NetStates
  <2>7. CASE CallFails(a)
    <3>1. \A S : <<>> \in Seq(S)
      OBVIOUS
    <3> QED BY <1>2, <2>0, <2>7, <3>1, ReleasedType DEF CallFails, NetStates
  <2> QED BY <1>2, <2>2, <2>3, <2>4, <2>5, <2>6, <2>7
<1>3. ASSUME NEW a \in Actors, UNCHANGED exited,
             RequestFails(a) \/ ReadConfig(a) \/ Connected(a) \/ HandshakeDone(a)
      PROVE  TypeOK'
  <2>1. CASE RequestFails(a)
    BY <1>3, <2>1 DEF RequestFails, NetStates
  <2>2. CASE ReadConfig(a)
    BY <1>3, <2>2, LockNames DEF ReadConfig, NetStates
  <2>3. CASE Connected(a)
    BY <1>3, <2>3, LockNames DEF Connected, NetStates
  <2>4. CASE HandshakeDone(a)
    BY <1>3, <2>4 DEF HandshakeDone, NetStates
  <2> QED BY <1>3, <2>1, <2>2, <2>3, <2>4
<1>4. CASE UNCHANGED exited /\ IdleStep
  <2> USE <1>4, ActorNames, ReleasedType DEF NetStates, IdlePcs
  <2>1. CASE IdleLock
    BY <2>1, LockNames DEF IdleLock
  <2>2. CASE IdleAnswered
    BY <2>2 DEF IdleAnswered
  <2>3. CASE IdleAbandons
    BY <2>3 DEF IdleAbandons
  <2>4. CASE IdleDrains
    BY <2>4 DEF IdleDrains
  <2>5. CASE IdleTakesStatus
    BY <2>5, LockNames DEF IdleTakesStatus
  <2>6. CASE StatusAnswered
    BY <2>6 DEF StatusAnswered, IdleUpdated
  <2>7. CASE SongAnswered
    BY <2>7 DEF SongAnswered
  <2>8. CASE CoverFound
    BY <2>8 DEF CoverFound, IdleUpdated
  <2>9. CASE IdleFails
    BY <2>9 DEF IdleFails
  <2> QED BY <2>1, <2>2, <2>3, <2>4, <2>5, <2>6, <2>7, <2>8, <2>9 DEF IdleStep
<1>5. CASE UNCHANGED exited /\ MainStep
  <2> USE <1>5, ActorNames, ReleasedType DEF NetStates, MainPcs
  <2>1. CASE ReceiveHup
    BY <2>1 DEF ReceiveHup
  <2>2. CASE WriteConfig
    BY <2>2 DEF WriteConfig
  <2>3. CASE SendFirst
    BY <2>3 DEF SendFirst, SendToken
  <2>4. ASSUME NEW l \in Channels, JoinLock(l) PROVE TypeOK'
    BY <2>4, LockNames DEF JoinLock, Channels
  <2>5. CASE MainReconnected
    BY <2>5 DEF MainReconnected
  <2>6. CASE SendSecond
    BY <2>6 DEF SendSecond, SendToken
  <2> QED BY <2>1, <2>2, <2>3, <2>4, <2>5, <2>6 DEF MainStep
<1>6. CASE UNCHANGED exited /\ Hup
  BY <1>6 DEF Hup
<1>7. ASSUME NEW a \in Actors, GiveUp(a) PROVE TypeOK'
  BY <1>7 DEF GiveUp, RaiseTerm, NetStates
<1>8. CASE ReconnectFails \/ ReceiveTerm \/ Term
  BY <1>8 DEF ReconnectFails, ReceiveTerm, Term, RaiseTerm
<1> QED BY <1>1, <1>2, <1>3, <1>4, <1>5, <1>6, <1>7, <1>8, NextIsCases DEF Ended

\* Every variable keeps its type.
THEOREM TypeCorrect == Spec => []TypeOK
BY InitTypeOK, NextTypeOK, PTL DEF Spec

(***************************************************************************)
(* The reload handshake                                                    *)
(***************************************************************************)
IdleBusy == idle \in {"select", "status", "update", "song", "cover"}
Reconnecting == main \in {"reconnectConn", "reconnectIdle", "sendSecond"}
Reloading == main = "join" \/ Reconnecting

\* Where idle task and main are says which token is in the channel: the first
\* while the idle task has not seen it, the second only after main is done.
Handshake ==
    /\ IdleBusy => held["idle_task"]["idle"] # "-"
    /\ Reconnecting => held["main"]["idle"] # "-"
    /\ held["idle_task"]["idle"] = "-" \/ held["main"]["idle"] = "-"
    /\ dirty => /\ idle = "drain" /\ tokens = 0
                /\ Reloading /\ main # "sendSecond"
    /\ main = "reconnectIdle" /\ net["main"] = "handshake" => ~dirty
    /\ idle = "drain" => ((tokens = 0) <=> Reloading)
    /\ idle # "drain" /\ tokens = 1 => Reloading
    /\ Reloading /\ tokens = 0 => idle \in {"drain", "dead"}
    /\ idle = "dead" => tokens = 0

\* The connections that main has made anew have the configuration it read.
Reloaded ==
    /\ main = "signals" => version["conn"] = config /\ version["idle"] = config
    /\ main = "reconnectConn" /\ net["main"] = "handshake" => version["conn"] = config
    /\ main \in {"reconnectIdle", "sendSecond"} => version["conn"] = config
    /\ \/ main = "sendSecond"
       \/ main = "reconnectIdle" /\ net["main"] = "handshake"
       => version["idle"] = config

RInv == TypeOK /\ Handshake /\ Reloaded

\* The process starts with no reload under way.
LEMMA InitRInv == Init => RInv
BY InitTypeOK, ActorNames, LockNames
   DEF RInv, Init, Handshake, Reloaded, IdleBusy, Reconnecting, Reloading, NoGuards, Channels

\* Every step keeps the handshake: RInv is inductive.
LEMMA NextRInv == RInv /\ [Next]_vars => RInv'
<1> SUFFICES ASSUME RInv, [Next]_vars PROVE Handshake' /\ Reloaded'
  BY NextTypeOK DEF RInv
<1> USE DEF RInv, Handshake, Reloaded, IdleBusy, Reconnecting, Reloading
<1>1. CASE UNCHANGED vars
  BY <1>1 DEF vars
<1>2. ASSUME NEW a \in Scripted, UNCHANGED exited,
             \/ Start(a) \/ TakeLock(a) \/ TouchLock(a) \/ DropLock(a)
             \/ CallAnswered(a) \/ CallFails(a)
      PROVE  Handshake' /\ Reloaded'
  <2>1. a \in Actors /\ a # "idle_task" /\ a # "main"
    BY ActorNames
  <2>2. UNCHANGED <<idle, main, tokens, dirty, config, version>> /\ net'["main"] = net["main"]
    <3>1. CASE Start(a) \/ TakeLock(a) \/ TouchLock(a) \/ DropLock(a)
      BY <3>1 DEF Start, TakeLock, TouchLock, DropLock
    <3>2. CASE CallAnswered(a) \/ CallFails(a)
      <4>1. net' = [net EXCEPT ![a] = "none"]
        BY <3>2 DEF CallAnswered, CallFails
      <4>2. net'["main"] = net["main"]
        BY <2>1, <4>1, ActorNames DEF TypeOK
      <4> QED BY <3>2, <4>2 DEF CallAnswered, CallFails
    <3> QED BY <1>2, <3>1, <3>2
  <2>3. ASSUME NEW h, h \in [Actors -> [Locks -> {"-", "R", "W"}]], Advance(a, h),
               h["idle_task"] = held["idle_task"], h["main"] = held["main"]
        PROVE  held'["idle_task"] = held["idle_task"] /\ held'["main"] = held["main"]
    BY <2>1, <2>3, ActorNames, ReleasedType DEF Advance
  <2>4. held'["idle_task"] = held["idle_task"] /\ held'["main"] = held["main"]
    <3>1. CASE Start(a)
      BY <3>1 DEF Start
    <3>2. CASE TakeLock(a)
      <4> DEFINE h == [held EXCEPT ![a][Head(todo[a]).lock] = Head(todo[a]).mode]
      <4>1. Head(todo[a]).mode \in {"-", "R", "W"}
        <5>1. Head(todo[a]) \in Ops
          BY <3>2 DEF TypeOK, TakeLock, AtOp, Running
        <5> QED BY <5>1 DEF Ops
      <4>2. /\ h \in [Actors -> [Locks -> {"-", "R", "W"}]]
            /\ h["idle_task"] = held["idle_task"] /\ h["main"] = held["main"]
        BY <2>1, <4>1, ActorNames DEF TypeOK
      <4>3. Advance(a, h)
        BY <3>2 DEF TakeLock
      <4> HIDE DEF h
      <4> QED BY <2>3, <4>2, <4>3
    <3>3. CASE TouchLock(a) \/ CallAnswered(a)
      BY <2>3, <3>3 DEF TouchLock, CallAnswered, TypeOK
    <3>4. CASE DropLock(a)
      <4> DEFINE h == [held EXCEPT ![a][Head(todo[a]).lock] = "-"]
      <4>1. /\ h \in [Actors -> [Locks -> {"-", "R", "W"}]]
            /\ h["idle_task"] = held["idle_task"] /\ h["main"] = held["main"]
        BY <2>1, ActorNames DEF TypeOK
      <4>2. Advance(a, h)
        BY <3>4 DEF DropLock
      <4> HIDE DEF h
      <4> QED BY <2>3, <4>1, <4>2
    <3>5. CASE CallFails(a)
      BY <2>1, <3>5, ActorNames, ReleasedType, SMTT(30) DEF CallFails, TypeOK
    <3> QED BY <1>2, <3>1, <3>2, <3>3, <3>4, <3>5
  <2> QED BY <2>2, <2>4
<1>3. ASSUME NEW a \in Actors, UNCHANGED exited,
             RequestFails(a) \/ ReadConfig(a) \/ Connected(a) \/ HandshakeDone(a)
      PROVE  Handshake' /\ Reloaded'
  <2>0. \A b \in Actors : [held EXCEPT ![a]["config"] = "R"][b]["idle"] = held[b]["idle"]
                          /\ [held EXCEPT ![a]["config"] = "-"][b]["idle"] = held[b]["idle"]
    BY LockNames DEF TypeOK
  <2>1. CASE RequestFails(a) \/ HandshakeDone(a)
    BY <1>3, <2>1, ActorNames DEF RequestFails, HandshakeDone, TypeOK
  <2>2. CASE ReadConfig(a)
    BY <1>3, <2>0, <2>2, ActorNames DEF ReadConfig, TypeOK
  <2>3. CASE Connected(a)
    <3>1. /\ UNCHANGED <<idle, main, tokens, config>>
          /\ net' = [net EXCEPT ![a] = "handshake"]
          /\ held' = [held EXCEPT ![a]["config"] = "-"]
          /\ version' = [version EXCEPT ![Target(a)] = config]
          /\ dirty' = (dirty /\ Target(a) # "idle")
      BY <2>3 DEF Connected
    <3>2. Target(a) \in Channels /\ \A c \in Channels :
              version[c] = config => version'[c] = config
      BY <3>1 DEF Target, Channels, TypeOK
    <3>3. a = "main" => main \in {"reconnectConn", "reconnectIdle"}
      BY <2>3, ActorNames DEF Connected, InRequest, AtOp, Running
    <3>4. a # "main" => net'["main"] = net["main"]
      BY <3>1, ActorNames DEF TypeOK
    <3>5. Handshake'
      BY <2>0, <3>1, <3>3, <3>4, ActorNames DEF Target, TypeOK
    <3>6. CASE a = "main"
      <4>1. version'[Target("main")] = config /\ Target("main") =
                (IF main = "reconnectIdle" THEN "idle" ELSE "conn")
        BY <3>1, <3>2, <3>6 DEF TypeOK, Target
      <4> QED BY <3>1, <3>2, <3>3, <3>5, <3>6, <4>1 DEF Channels
    <3>7. CASE a # "main"
      BY <3>1, <3>2, <3>4, <3>5, <3>7 DEF Channels
    <3> QED BY <3>6, <3>7
  <2> QED BY <1>3, <2>1, <2>2, <2>3
<1>4. CASE UNCHANGED exited /\ IdleStep
  <2>0. UNCHANGED <<main, config, version>> /\ held'["main"] = held["main"]
        /\ net'["main"] = net["main"]
    BY <1>4, ActorNames, ReleasedType DEF IdleStep, IdleLock, IdleAnswered, IdleAbandons,
       IdleDrains, IdleTakesStatus, StatusAnswered, SongAnswered, CoverFound, IdleFails,
       IdleUpdated, TypeOK
  <2> USE <2>0, ActorNames, LockNames, ReleasedType DEF TypeOK, NoGuards
  <2>1. CASE IdleLock
    BY <2>1 DEF IdleLock, CanTake
  <2>2. CASE IdleAnswered \/ IdleDrains \/ SongAnswered
    BY <2>2 DEF IdleAnswered, IdleDrains, SongAnswered
  <2>3. CASE IdleAbandons
    BY <2>3 DEF IdleAbandons
  <2>4. CASE IdleTakesStatus
    BY <2>4 DEF IdleTakesStatus
  <2>5. CASE StatusAnswered
    BY <2>5 DEF StatusAnswered, IdleUpdated
  <2>6. CASE CoverFound
    BY <2>6 DEF CoverFound, IdleUpdated
  <2>7. CASE IdleFails
    BY <2>7 DEF IdleFails
  <2> QED BY <1>4, <2>1, <2>2, <2>3, <2>4, <2>5, <2>6, <2>7 DEF IdleStep
<1>5. CASE UNCHANGED exited /\ MainStep
  <2> USE ActorNames, LockNames, ReleasedType DEF TypeOK, NoGuards
  <2>1. CASE ReceiveHup
    BY <2>1 DEF ReceiveHup
  <2>2. CASE WriteConfig
    BY <2>2 DEF WriteConfig
  <2>3. CASE SendFirst
    BY <2>3 DEF SendFirst, SendToken
  <2>4. ASSUME NEW l \in Channels, JoinLock(l) PROVE Handshake' /\ Reloaded'
    BY <2>4 DEF JoinLock, Channels, CanTake
  <2>5. CASE MainReconnected
    <3>1. UNCHANGED <<idle, held, tokens, dirty, config, version>> /\ net["main"] = "handshake"
      BY <2>5 DEF MainReconnected
    <3>2. \/ /\ main = "reconnectConn" /\ main' = "reconnectIdle"
             /\ net'["main"] = "wantConfig"
          \/ main = "reconnectIdle" /\ main' = "sendSecond"
      BY <2>5 DEF MainReconnected
    <3> HIDE DEF TypeOK
    <3>3. CASE main = "reconnectConn" /\ main' = "reconnectIdle" /\ net'["main"] = "wantConfig"
      <4>1. Handshake'
        BY <3>1, <3>3
      <4>2. Reloaded'
        BY <3>1, <3>3
      <4> QED BY <4>1, <4>2
    <3>4. CASE main = "reconnectIdle" /\ main' = "sendSecond"
      <4>1. Handshake'
        BY <3>1, <3>4
      <4>2. Reloaded'
        BY <3>1, <3>4
      <4> QED BY <4>1, <4>2
    <3> QED BY <3>2, <3>3, <3>4
  <2>6. CASE SendSecond
    <3>1. /\ main = "sendSecond" /\ main' = "signals" /\ SendToken
          /\ UNCHANGED <<idle, net, dirty, config, version>>
      BY <2>6 DEF SendSecond
    <3>2. /\ held'["main"]["idle"] = "-"
          /\ held'["idle_task"]["idle"] = held["idle_task"]["idle"]
      <4>1. held' = Released(held, "main")
        BY <2>6 DEF SendSecond
      <4>2. /\ held \in [Actors -> [Locks -> {"-", "R", "W"}]]
            /\ "main" \in Actors /\ "idle_task" \in Actors \ {"main"} /\ "idle" \in Locks
        BY ActorNames, LockNames DEF TypeOK
      <4>3. held'["main"] = NoGuards /\ held'["idle_task"] = held["idle_task"]
        <5> HIDE DEF NoGuards
        <5>1. PICK h, a, b : h = held /\ a = "main" /\ b = "idle_task"
          OBVIOUS
        <5>2. Released(h, a)[a] = NoGuards /\ Released(h, a)[b] = h[b]
          BY ONLY <4>2, <5>1, ReleasedType
        <5> QED BY <4>1, <5>1, <5>2, Zenon
      <4> QED BY <4>2, <4>3 DEF NoGuards
    <3>3. \/ tokens' = 1 /\ idle # "dead" /\ tokens = 0
          \/ idle = "dead" /\ tokens' = tokens
      BY <3>1 DEF SendToken
    <3>4. held["idle_task"]["idle"] = "-"
      BY <3>1
    <3> HIDE DEF TypeOK
    <3>5. Handshake'
      BY <3>1, <3>2, <3>3, <3>4
    <3>6. Reloaded'
      BY <3>1
    <3> QED BY <3>5, <3>6
  <2> QED BY <1>5, <2>1, <2>2, <2>3, <2>4, <2>5, <2>6 DEF MainStep
<1>6. CASE UNCHANGED exited /\ Hup
  BY <1>6 DEF Hup
<1>7. ASSUME NEW a \in Actors, GiveUp(a) PROVE Handshake' /\ Reloaded'
  BY <1>7, ActorNames DEF GiveUp, TypeOK
<1>8. CASE ReconnectFails \/ ReceiveTerm \/ Term
  BY <1>8 DEF ReconnectFails, ReceiveTerm, Term
<1> QED BY <1>1, <1>2, <1>3, <1>4, <1>5, <1>6, <1>7, <1>8, NextIsCases DEF Ended, vars

\* The idle task sends no request on a stream on which it abandoned one.
THEOREM StreamStaysClean == Spec => []CleanStream
<1>1. RInv => CleanStream
  BY ActorNames DEF RInv, Handshake, CleanStream, InRequest, AtOp, Running
<1> QED BY InitRInv, NextRInv, <1>1, PTL DEF Spec

\* A reload that ended has put the configuration in force on both connections.
THEOREM ReloadEffective == Spec => []ReloadTakesEffect
<1>1. RInv => ReloadTakesEffect
  BY DEF RInv, Reloaded, ReloadTakesEffect, Channels
<1> QED BY InitRInv, NextRInv, <1>1, PTL DEF Spec

(***************************************************************************)
(* Locks are nested in one order and a stream has one user.                *)
(*                                                                         *)
(* What a scripted actor will do is in its script, so both follow from a   *)
(* relation between the guards it holds and what is left of the script,    *)
(* which every suffix of a script keeps.                                   *)
(***************************************************************************)

(***************************************************************************)
(* Scripts and guards                                                      *)
(***************************************************************************)
Acquires(o) == o.op \in {"lock", "touch"}

\* No drop of l among the operations i..(j - 1).
Kept(s, l, i, j) == \A k \in i..(j - 1) : ~(s[k].op = "drop" /\ s[k].lock = l)

\* Locks are taken in rank order, config only for a moment, conn for writing.
Nested(s) == \A j \in 1..Len(s) :
    /\ s[j].op = "lock" => /\ s[j].lock \in {"iface", "status", "conn"}
                           /\ s[j].mode # "-"
                           /\ s[j].lock = "conn" => s[j].mode = "W"
    /\ s[j].op = "drop" => s[j].lock # "config"
    /\ \A i \in 1..(j - 1) :
          s[i].op = "lock" /\ Acquires(s[j]) /\ Kept(s, s[i].lock, i, j)
          => Rank[s[i].lock] < Rank[s[j].lock]

\* The guards h allow what s acquires.
Allows(h, s) == \A j \in 1..Len(s) : \A l \in Locks \ {"config"} :
    h[l] # "-" /\ Acquires(s[j]) /\ Kept(s, l, 1, j) => Rank[l] < Rank[s[j].lock]

\* Each request of s is made with the command connection locked.
Guarded(h, s) == \A j \in 1..Len(s) : s[j].op = "io" =>
    \/ h["conn"] = "W" /\ Kept(s, "conn", 1, j)
    \/ \E i \in 1..(j - 1) : s[i].op = "lock" /\ s[i].lock = "conn" /\ Kept(s, "conn", i, j)

Fits(h, s) == Nested(s) /\ Allows(h, s) /\ Guarded(h, s)

\* What an operation does to the guards.
After(h, o) == CASE o.op = "lock" -> [h EXCEPT ![o.lock] = o.mode]
                 [] o.op = "drop" -> [h EXCEPT ![o.lock] = "-"]
                 [] OTHER -> h

Guards == [Locks -> {"-", "R", "W"}]

\* Ranks are those of the order iface, idle, status, conn, config.
LEMMA Ranks == /\ Rank["iface"] = 1 /\ Rank["idle"] = 2 /\ Rank["status"] = 3
               /\ Rank["conn"] = 4 /\ Rank["config"] = 5
               /\ \A l \in Locks : Rank[l] \in Nat
BY DEF Rank, Locks

\* A script that fits the guards held goes on fitting after its first operation.
LEMMA TailFits ==
    ASSUME NEW h \in Guards, NEW s \in Seq(Ops), s # <<>>, Fits(h, s)
    PROVE  Fits(After(h, Head(s)), Tail(s))
<1> DEFINE t == Tail(s)
           g == After(h, Head(s))
<1>1. /\ t \in Seq(Ops) /\ Len(s) = Len(t) + 1 /\ Head(s) = s[1] /\ Len(s) \in Nat
      /\ \A j \in 1..Len(t) : t[j] = s[j + 1] /\ j + 1 \in 1..Len(s)
  OBVIOUS
<1> HIDE DEF t
<1>2. ASSUME NEW l, NEW i \in Nat, i >= 1, NEW j \in 1..Len(t)
      PROVE  Kept(t, l, i, j) => Kept(s, l, i + 1, j + 1)
  <2> SUFFICES ASSUME Kept(t, l, i, j), NEW k \in (i + 1)..((j + 1) - 1)
               PROVE  ~(s[k].op = "drop" /\ s[k].lock = l)
    BY DEF Kept
  <2>1. k - 1 \in i..(j - 1) /\ k - 1 \in 1..Len(t) /\ t[k - 1] = s[(k - 1) + 1]
    BY <1>1, <1>2
  <2>2. (k - 1) + 1 = k
    OBVIOUS
  <2> QED BY <2>1, <2>2 DEF Kept
<1>3. ASSUME NEW l, NEW i \in Nat, i >= 1, NEW j \in 1..Len(t), Kept(s, l, i + 1, j + 1)
      PROVE  Kept(t, l, i, j)
  <2> SUFFICES ASSUME NEW k \in i..(j - 1)
               PROVE  ~(t[k].op = "drop" /\ t[k].lock = l)
    BY DEF Kept
  <2>1. k + 1 \in (i + 1)..((j + 1) - 1) /\ k \in 1..Len(t) /\ t[k] = s[k + 1]
    BY <1>1, <1>3
  <2> QED BY <1>3, <2>1 DEF Kept
<1>4. Nested(t)
  <2> SUFFICES ASSUME NEW j \in 1..Len(t)
               PROVE  /\ t[j].op = "lock" => /\ t[j].lock \in {"iface", "status", "conn"}
                                             /\ t[j].mode # "-"
                                             /\ t[j].lock = "conn" => t[j].mode = "W"
                      /\ t[j].op = "drop" => t[j].lock # "config"
                      /\ \A i \in 1..(j - 1) :
                            t[i].op = "lock" /\ Acquires(t[j]) /\ Kept(t, t[i].lock, i, j)
                            => Rank[t[i].lock] < Rank[t[j].lock]
    BY DEF Nested
  <2>1. t[j] = s[j + 1] /\ j + 1 \in 1..Len(s)
    BY <1>1
  <2>2. ASSUME NEW i \in 1..(j - 1), t[i].op = "lock", Acquires(t[j]),
               Kept(t, t[i].lock, i, j)
        PROVE  Rank[t[i].lock] < Rank[t[j].lock]
    <3>1. i + 1 \in 1..((j + 1) - 1) /\ i \in 1..Len(t) /\ t[i] = s[i + 1]
      BY <1>1
    <3>2. Kept(s, s[i + 1].lock, i + 1, j + 1)
      BY <1>2, <2>2, <3>1
    <3> QED BY <2>1, <2>2, <3>1, <3>2 DEF Fits, Nested
  <2> QED BY <2>1, <2>2 DEF Fits, Nested
<1>5. ASSUME NEW l, NEW j \in 1..Len(t), Kept(t, l, 1, j),
             ~(s[1].op = "drop" /\ s[1].lock = l)
      PROVE  Kept(s, l, 1, j + 1)
  <2>1. Kept(s, l, 2, j + 1)
    BY <1>2, <1>5
  <2> QED BY <1>5, <2>1 DEF Kept
<1>6. s[1] \in Ops /\ 1 \in 1..Len(s)
  BY <1>1
<1>7. Allows(g, t)
  <2> SUFFICES ASSUME NEW j \in 1..Len(t), NEW l \in Locks \ {"config"},
                      g[l] # "-", Acquires(t[j]), Kept(t, l, 1, j)
               PROVE  Rank[l] < Rank[t[j].lock]
    BY DEF Allows
  <2>1. t[j] = s[j + 1] /\ j + 1 \in 1..Len(s) /\ 1 \in 1..((j + 1) - 1)
    BY <1>1
  <2>2. CASE s[1].op = "lock" /\ s[1].lock = l
    <3>1. Kept(s, s[1].lock, 1, j + 1)
      BY <1>5, <2>2
    <3> QED BY <2>1, <2>2, <3>1 DEF Fits, Nested
  <2>3. CASE ~(s[1].op = "lock" /\ s[1].lock = l)
    <3>1. h[l] # "-" /\ ~(s[1].op = "drop" /\ s[1].lock = l)
      BY <1>1, <1>6, <2>3 DEF After, Guards
    <3>2. Kept(s, l, 1, j + 1)
      BY <1>5, <3>1
    <3> QED BY <2>1, <3>1, <3>2 DEF Fits, Allows
  <2> QED BY <2>2, <2>3
<1>8. Guarded(g, t)
  <2> SUFFICES ASSUME NEW j \in 1..Len(t), t[j].op = "io"
               PROVE  \/ g["conn"] = "W" /\ Kept(t, "conn", 1, j)
                      \/ \E i \in 1..(j - 1) : /\ t[i].op = "lock" /\ t[i].lock = "conn"
                                               /\ Kept(t, "conn", i, j)
    BY DEF Guarded
  <2>1. t[j] = s[j + 1] /\ j + 1 \in 1..Len(s)
    BY <1>1
  <2>2. CASE h["conn"] = "W" /\ Kept(s, "conn", 1, j + 1)
    <3>1. Kept(s, "conn", 2, j + 1) /\ ~(s[1].op = "drop" /\ s[1].lock = "conn")
      BY <2>2 DEF Kept
    <3>2. Kept(t, "conn", 1, j)
      BY <1>3, <3>1
    <3>3. g["conn"] = "W"
      BY <1>1, <1>6, <2>2, <3>1, LockNames DEF After, Guards, Fits, Nested
    <3> QED BY <3>2, <3>3
  <2>3. ASSUME NEW i \in 1..((j + 1) - 1), s[i].op = "lock", s[i].lock = "conn",
               Kept(s, "conn", i, j + 1)
        PROVE  \/ g["conn"] = "W" /\ Kept(t, "conn", 1, j)
               \/ \E n \in 1..(j - 1) : /\ t[n].op = "lock" /\ t[n].lock = "conn"
                                        /\ Kept(t, "conn", n, j)
    <3>1. CASE i = 1
      <4>1. Kept(s, "conn", 2, j + 1)
        BY <2>3, <3>1 DEF Kept
      <4>2. Kept(t, "conn", 1, j)
        BY <1>3, <4>1
      <4>3. g["conn"] = "W"
        BY <1>1, <1>6, <2>3, <3>1, LockNames DEF After, Guards, Fits, Nested
      <4> QED BY <4>2, <4>3
    <3>2. CASE i # 1
      <4>1. i - 1 \in 1..(j - 1) /\ i - 1 \in 1..Len(t) /\ t[i - 1] = s[i]
        BY <1>1, <3>2
      <4>2. Kept(t, "conn", i - 1, j)
        BY <1>3, <2>3, <4>1
      <4> QED BY <2>3, <4>1, <4>2
    <3> QED BY <3>1, <3>2
  <2> QED BY <2>1, <2>2, <2>3 DEF Fits, Guarded
<1> QED BY <1>4, <1>7, <1>8 DEF Fits, t

\* An actor that holds nothing can start any script.
LEMMA ScriptsFit == \A a \in Scripted : \A s \in ScriptsOf(a) : Fits(NoGuards, s)
<1> USE Ranks DEF Fits, Nested, Allows, Guarded, Kept, Acquires, NoGuards,
        Lock, Touch, Drop, IO, Op, Locks
<1>1. Fits(NoGuards, ControlCall)
  BY DEF ControlCall
<1>2. Fits(NoGuards, RefusedCall)
  BY DEF RefusedCall
<1>3. Fits(NoGuards, PlayPauseCall)
  BY DEF PlayPauseCall
<1>4. Fits(NoGuards, CachedCall)
  BY DEF CachedCall
<1>5. Fits(NoGuards, CachedNoopCall)
  BY DEF CachedNoopCall
<1>6. Fits(NoGuards, SeekPastEndCall)
  BY DEF SeekPastEndCall
<1>7. Fits(NoGuards, SetLoopCall)
  BY DEF SetLoopCall
<1>8. Fits(NoGuards, SetSharedCall)
  BY DEF SetSharedCall
<1>9. Fits(NoGuards, PositionCall)
  BY DEF PositionCall
<1>10. Fits(NoGuards, PositionSongCall)
  BY DEF PositionSongCall
<1>11. Fits(NoGuards, GetterCall)
  BY DEF GetterCall
<1>12. Fits(NoGuards, MetadataCall)
  BY DEF MetadataCall
<1>13. Fits(NoGuards, PingRound)
  BY DEF PingRound
<1>14. Fits(NoGuards, EmitSeeked)
  BY DEF EmitSeeked
<1>15. Fits(NoGuards, EmitProperty)
  BY DEF EmitProperty
<1>16. Fits(NoGuards, EmitSong)
  BY DEF EmitSong
<1> HIDE DEF Fits
<1>17. \A k \in CallKinds : Fits(NoGuards, Scripts[k])
  BY <1>1, <1>2, <1>3, <1>4, <1>5, <1>6, <1>7, <1>8, <1>9, <1>10, <1>11, <1>12,
     KindsAssumption DEF Scripts
<1> QED BY <1>13, <1>14, <1>15, <1>16, <1>17 DEF ScriptsOf

\* A script that has ended fits whatever is held.
LEMMA EndFits == ASSUME NEW h PROVE Fits(h, <<>>)
BY DEF Fits, Nested, Allows, Guarded

(***************************************************************************)
(* The inductive invariant                                                 *)
(***************************************************************************)
\* A handler holds what its script says, and config only while it connects.
ScriptHeld(a) ==
    /\ Fits(held[a], todo[a])
    /\ todo[a] = <<>> => held[a] = NoGuards
    /\ held[a]["idle"] = "-" /\ held[a]["conn"] # "R"
    /\ held[a]["config"] # "-" => net[a] \in {"connect", "stuck"} /\ AtOp(a, "io")

IdleHeld ==
    /\ held["idle_task"]["iface"] = "-" /\ held["idle_task"]["conn"] = "-"
    /\ held["idle_task"]["status"] # "-" => idle \in {"update", "song", "cover"}
    /\ held["idle_task"]["idle"] # "-" => IdleBusy
    /\ held["idle_task"]["config"] # "-" =>
          net["idle_task"] \in {"connect", "stuck"} /\ idle \in {"select", "update", "song"}

MainHeld == main \in {"reconnectConn", "reconnectIdle"} =>
    held["main"]["conn"] # "-" /\ held["main"]["idle"] # "-"

\* A connection is locked by one actor.
Exclusive == \A a, b \in Actors : a # b =>
    \A l \in Channels : held[a][l] = "-" \/ held[b][l] = "-"

LInv == /\ RInv
        /\ \A a \in Scripted : ScriptHeld(a)
        /\ IdleHeld /\ MainHeld /\ Exclusive

\* Nobody holds anything at the start.
LEMMA InitLInv == Init => LInv
<1> SUFFICES ASSUME Init PROVE LInv
  OBVIOUS
<1>1. \A a \in Actors : held[a] = NoGuards
  BY DEF Init
<1>2. \A a \in Scripted : ScriptHeld(a)
  BY <1>1, EndFits, ActorNames, LockNames DEF Init, ScriptHeld, NoGuards
<1>3. IdleHeld /\ MainHeld /\ Exclusive
  BY <1>1, ActorNames, LockNames DEF Init, IdleHeld, MainHeld, Exclusive, NoGuards, Channels
<1> QED BY <1>2, <1>3, InitRInv DEF LInv

\* An operation of a script leaves its actor with guards that fit the rest.
LEMMA OperationDone ==
    ASSUME LInv, NEW a \in Scripted, Running(a),
           AtOp(a, "io") => net[a] \in {"none", "again"},
           Advance(a, [held EXCEPT ![a] = After(held[a], Head(todo[a]))])
    PROVE  /\ Fits(held'[a], todo'[a])
           /\ todo'[a] = <<>> => held'[a] = NoGuards
           /\ held'[a]["idle"] = "-" /\ held'[a]["conn"] # "R" /\ held'[a]["config"] = "-"
           /\ held'[a]["conn"] # "-" =>
                 \/ held[a]["conn"] # "-"
                 \/ Head(todo[a]).op = "lock" /\ Head(todo[a]).lock = "conn"
                    /\ Head(todo[a]).mode = "W"
           /\ \A b \in Actors \ {a} : held'[b] = held[b]
           /\ \A b \in Scripted \ {a} : todo'[b] = todo[b]
<1> DEFINE o == Head(todo[a])
           g == After(held[a], o)
           h == [held EXCEPT ![a] = g]
<1>1. /\ a \in Actors /\ held \in [Actors -> Guards] /\ todo \in [Scripted -> Seq(Ops)]
      /\ todo[a] \in Seq(Ops) /\ todo[a] # <<>> /\ held[a] \in Guards
  BY ActorNames DEF LInv, RInv, TypeOK, Guards, Running
<1>2. o \in Ops /\ o = todo[a][1] /\ 1 \in 1..Len(todo[a])
  BY <1>1
<1>3. ScriptHeld(a)
  BY DEF LInv
<1>4. /\ o.op = "lock" => /\ o.lock \in {"iface", "status", "conn"}
                          /\ o.lock = "conn" => o.mode = "W"
      /\ o.op = "drop" => o.lock # "config"
  BY <1>2, <1>3 DEF ScriptHeld, Fits, Nested
<1>5. held[a]["config"] = "-"
  BY <1>3 DEF ScriptHeld
<1>6. Fits(g, Tail(todo[a]))
  BY <1>1, <1>3, TailFits DEF ScriptHeld
<1>7. /\ g["idle"] = "-" /\ g["config"] = "-" /\ g["conn"] # "R"
      /\ g["conn"] # "-" => \/ held[a]["conn"] # "-"
                            \/ o.op = "lock" /\ o.lock = "conn" /\ o.mode = "W"
  BY <1>1, <1>2, <1>3, <1>4, <1>5, LockNames DEF After, Guards, ScriptHeld, Ops
<1>8. /\ todo' = [todo EXCEPT ![a] = Tail(@)]
      /\ held' = IF Tail(todo[a]) = <<>> THEN Released(h, a) ELSE h
  BY DEF Advance
<1>9. todo'[a] = Tail(todo[a]) /\ \A b \in Scripted \ {a} : todo'[b] = todo[b]
  BY <1>1, <1>8
<1>10. /\ Released(h, a)[a] = NoGuards /\ h[a] = g
       /\ \A b \in Actors \ {a} : h[b] = held[b] /\ Released(h, a)[b] = held[b]
  BY <1>1 DEF Released
<1> HIDE DEF g, h
<1>11. CASE Tail(todo[a]) = <<>>
  BY <1>8, <1>9, <1>10, <1>11, EndFits, LockNames DEF NoGuards
<1>12. CASE Tail(todo[a]) # <<>>
  BY <1>6, <1>7, <1>8, <1>9, <1>10, <1>12 DEF o
<1> QED BY <1>11, <1>12

\* A step of a script keeps what is said of guards.
LEMMA ScriptKeeps ==
    ASSUME LInv, NEW a \in Scripted,
           \/ Start(a) \/ TakeLock(a) \/ TouchLock(a) \/ DropLock(a)
           \/ CallAnswered(a) \/ CallFails(a)
    PROVE  /\ \A b \in Scripted : ScriptHeld(b)'
           /\ IdleHeld' /\ MainHeld' /\ Exclusive'
<1> USE DEF LInv
<1>0. /\ a \in Actors /\ a # "idle_task" /\ a # "main" /\ "idle_task" \in Actors
      /\ "main" \in Actors /\ Scripted \subseteq Actors
      /\ held \in [Actors -> Guards] /\ todo \in [Scripted -> Seq(Ops)]
      /\ net \in [Actors -> NetStates]
  BY ActorNames DEF RInv, TypeOK, Guards
<1>1. ASSUME \A b \in Actors \ {a} : held'[b] = held[b] /\ net'[b] = net[b],
             \A b \in Scripted \ {a} : todo'[b] = todo[b],
             UNCHANGED <<idle, main>>, ScriptHeld(a)',
             \A b \in Actors \ {a} : held'[a]["conn"] = "-" \/ held[b]["conn"] = "-"
      PROVE  /\ \A b \in Scripted : ScriptHeld(b)'
             /\ IdleHeld' /\ MainHeld' /\ Exclusive'
  <2>1. ASSUME NEW b \in Scripted PROVE ScriptHeld(b)'
    BY <1>0, <1>1 DEF ScriptHeld, AtOp, Running
  <2>2. IdleHeld' /\ MainHeld'
    BY <1>0, <1>1 DEF IdleHeld, MainHeld, IdleBusy
  <2>3. Exclusive'
    BY <1>0, <1>1 DEF Exclusive, ScriptHeld, Channels
  <2> QED BY <2>1, <2>2, <2>3
<1>2. ASSUME Running(a), AtOp(a, "io") => net[a] \in {"none", "again"},
             Advance(a, [held EXCEPT ![a] = After(held[a], Head(todo[a]))]),
             Head(todo[a]).op = "lock" => CanTake(a, Head(todo[a]).lock, Head(todo[a]).mode),
             \A b \in Actors \ {a} : net'[b] = net[b], UNCHANGED <<idle, main>>
      PROVE  /\ \A b \in Scripted : ScriptHeld(b)'
             /\ IdleHeld' /\ MainHeld' /\ Exclusive'
  <2>1. ScriptHeld(a)'
    BY <1>2, OperationDone DEF ScriptHeld
  <2>2. ASSUME NEW b \in Actors \ {a}
        PROVE  held'[a]["conn"] = "-" \/ held[b]["conn"] = "-"
    <3>1. CASE held[a]["conn"] # "-"
      BY <1>0, <3>1 DEF Exclusive, Channels
    <3>2. CASE held[a]["conn"] = "-"
      BY <1>2, <3>2, OperationDone DEF CanTake
    <3> QED BY <3>1, <3>2
  <2>3. /\ \A b \in Actors \ {a} : held'[b] = held[b]
        /\ \A b \in Scripted \ {a} : todo'[b] = todo[b]
    BY <1>2, OperationDone
  <2> QED BY <1>1, <1>2, <2>1, <2>2, <2>3
<1>3. CASE Start(a)
  <2>1. PICK x \in ScriptsOf(a) : todo' = [todo EXCEPT ![a] = x]
    BY <1>3 DEF Start
  <2>2. /\ todo[a] = <<>> /\ held' = held /\ net' = net /\ UNCHANGED <<idle, main>>
    BY <1>3 DEF Start
  <2>3. held[a] = NoGuards /\ todo'[a] = x
    BY <1>0, <2>1, <2>2 DEF ScriptHeld
  <2>4. ScriptHeld(a)'
    <3>1. Fits(NoGuards, x)
      BY ScriptsFit
    <3> QED BY <2>2, <2>3, <3>1, LockNames DEF ScriptHeld, NoGuards
  <2>5. held'[a]["conn"] = "-"
    BY <2>2, <2>3, LockNames DEF NoGuards
  <2>6. \A b \in Scripted \ {a} : todo'[b] = todo[b]
    BY <1>0, <2>1
  <2> QED BY <1>1, <2>2, <2>4, <2>5, <2>6
<1>4. CASE TakeLock(a)
  <2>1. Running(a) /\ Head(todo[a]).op = "lock"
    BY <1>4 DEF TakeLock, AtOp
  <2>2. [held EXCEPT ![a] = After(held[a], Head(todo[a]))]
        = [held EXCEPT ![a][Head(todo[a]).lock] = Head(todo[a]).mode]
    BY <1>0, <2>1 DEF After
  <2> QED BY <1>2, <1>4, <2>1, <2>2 DEF TakeLock, AtOp
<1>5. CASE TouchLock(a) \/ CallAnswered(a)
  <2>1. Running(a) /\ Head(todo[a]).op \in {"touch", "io"}
    BY <1>5 DEF TouchLock, CallAnswered, AtOp
  <2>2. [held EXCEPT ![a] = After(held[a], Head(todo[a]))] = held
    BY <1>0, <2>1 DEF After
  <2>3. \A b \in Actors \ {a} : net'[b] = net[b]
    BY <1>0, <1>5 DEF TouchLock, CallAnswered
  <2> QED BY <1>2, <1>5, <2>1, <2>2, <2>3 DEF TouchLock, CallAnswered, AtOp
<1>6. CASE DropLock(a)
  <2>1. Running(a) /\ Head(todo[a]).op = "drop"
    BY <1>6 DEF DropLock, AtOp
  <2>2. [held EXCEPT ![a] = After(held[a], Head(todo[a]))]
        = [held EXCEPT ![a][Head(todo[a]).lock] = "-"]
    BY <1>0, <2>1 DEF After
  <2> QED BY <1>2, <1>6, <2>1, <2>2 DEF DropLock, AtOp
<1>7. CASE CallFails(a)
  <2>1. /\ held'[a] = NoGuards /\ todo'[a] = <<>>
        /\ \A b \in Actors \ {a} : held'[b] = held[b] /\ net'[b] = net[b]
        /\ \A b \in Scripted \ {a} : todo'[b] = todo[b]
    BY <1>0, <1>7 DEF CallFails, Released
  <2>2. ScriptHeld(a)'
    BY <2>1, EndFits, LockNames DEF ScriptHeld, NoGuards
  <2> QED BY <1>1, <1>7, <2>1, <2>2, LockNames DEF CallFails, NoGuards
<1> QED BY <1>3, <1>4, <1>5, <1>6, <1>7

\* So does a request that fails and reconnects: it touches only config.
LEMMA NetKeeps ==
    ASSUME LInv, NEW a \in Actors,
           \/ RequestFails(a) \/ ReadConfig(a) \/ Connected(a) \/ HandshakeDone(a)
           \/ GiveUp(a)
    PROVE  /\ \A b \in Scripted : ScriptHeld(b)'
           /\ IdleHeld' /\ MainHeld' /\ Exclusive'
<1> USE DEF LInv
<1>1. /\ held \in [Actors -> Guards] /\ net \in [Actors -> NetStates]
      /\ InRequest(a) /\ UNCHANGED <<todo, idle, main>>
  BY DEF RInv, TypeOK, Guards, RequestFails, ReadConfig, Connected, HandshakeDone, GiveUp
<1>2. /\ \A b \in Actors \ {a} : held'[b] = held[b] /\ net'[b] = net[b]
      /\ \A l \in Locks \ {"config"} : held'[a][l] = held[a][l]
      /\ held'[a]["config"] # "-" => net'[a] \in {"connect", "stuck"}
  <2>1. CASE RequestFails(a) \/ HandshakeDone(a)
    BY <1>1, <2>1, ActorNames DEF RequestFails, HandshakeDone, ScriptHeld, IdleHeld, Actors
  <2>2. CASE ReadConfig(a)
    BY <1>1, <2>2, LockNames DEF ReadConfig, Guards
  <2>3. CASE Connected(a)
    BY <1>1, <2>3, LockNames DEF Connected, Guards
  <2>4. CASE GiveUp(a)
    BY <1>1, <2>4 DEF GiveUp
  <2> QED BY <2>1, <2>2, <2>3, <2>4
<1>3. \A b \in Actors : \A l \in Locks \ {"config"} : held'[b][l] = held[b][l]
  BY <1>2
<1>4. ASSUME NEW b \in Scripted PROVE ScriptHeld(b)'
  <2>1. Fits(held'[b], todo[b])
    <3>1. \A l \in Locks \ {"config"} : held'[b][l] = held[b][l]
      BY <1>3, ActorNames
    <3>2. Fits(held[b], todo[b])
      BY DEF ScriptHeld
    <3> QED BY <3>1, <3>2, LockNames DEF Fits, Allows, Guarded
  <2>2. CASE b = a
    <3>1. AtOp(a, "io") /\ todo[a] # <<>>
      BY <1>1, <2>2, ActorNames DEF InRequest, AtOp, Running
    <3> QED BY <1>1, <1>2, <2>1, <2>2, <3>1, LockNames DEF ScriptHeld, AtOp, Running
  <2>3. CASE b # a
    BY <1>1, <1>2, <2>3, ActorNames DEF ScriptHeld, AtOp, Running
  <2> QED BY <2>2, <2>3
<1>5. IdleHeld'
  <2>1. a = "idle_task" => idle \in {"select", "update", "song"}
    BY <1>1, ActorNames DEF InRequest, AtOp, Running
  <2> QED BY <1>1, <1>2, <1>3, <2>1, ActorNames, LockNames DEF IdleHeld, IdleBusy
<1>6. MainHeld' /\ Exclusive'
  BY <1>1, <1>3, ActorNames, LockNames DEF MainHeld, Exclusive, Channels
<1> QED BY <1>4, <1>5, <1>6

\* So does the idle task, whose guards follow its progress.
LEMMA IdleKeeps ==
    ASSUME LInv, IdleStep
    PROVE  /\ \A b \in Scripted : ScriptHeld(b)'
           /\ IdleHeld' /\ MainHeld' /\ Exclusive'
<1> USE ActorNames, LockNames, ReleasedType DEF LInv
<1>1. /\ held \in [Actors -> Guards] /\ net \in [Actors -> NetStates]
  BY DEF RInv, TypeOK, Guards
<1>2. /\ UNCHANGED <<todo, main>>
      /\ \A b \in Actors \ {"idle_task"} : held'[b] = held[b] /\ net'[b] = net[b]
      /\ IdleHeld'
      /\ held'["idle_task"]["idle"] = "-" \/ held["idle_task"]["idle"] # "-"
         \/ \A b \in Actors \ {"idle_task"} : held[b]["idle"] = "-"
  <2> USE <1>1 DEF IdleHeld, IdleBusy, NoGuards, Guards
  <2>1. CASE IdleLock
    BY <2>1 DEF IdleLock, CanTake
  <2>2. CASE IdleAnswered
    BY <2>2 DEF IdleAnswered
  <2>3. CASE IdleAbandons
    BY <2>3 DEF IdleAbandons
  <2>4. CASE IdleDrains
    BY <2>4 DEF IdleDrains
  <2>5. CASE IdleTakesStatus
    BY <2>5 DEF IdleTakesStatus
  <2>6. CASE StatusAnswered
    BY <2>6 DEF StatusAnswered, IdleUpdated
  <2>7. CASE SongAnswered
    BY <2>7 DEF SongAnswered
  <2>8. CASE CoverFound
    BY <2>8 DEF CoverFound, IdleUpdated
  <2>9. CASE IdleFails
    BY <2>9 DEF IdleFails
  <2> QED BY <2>1, <2>2, <2>3, <2>4, <2>5, <2>6, <2>7, <2>8, <2>9 DEF IdleStep
<1>3. ASSUME NEW b \in Scripted PROVE ScriptHeld(b)'
  BY <1>2 DEF ScriptHeld, AtOp, Running
<1>4. MainHeld' /\ Exclusive'
  BY <1>2 DEF MainHeld, Exclusive, IdleHeld, Channels
<1> QED BY <1>2, <1>3, <1>4

\* So does main, which takes its connections only when they are free.
LEMMA MainKeeps ==
    ASSUME LInv, MainStep
    PROVE  /\ \A b \in Scripted : ScriptHeld(b)'
           /\ IdleHeld' /\ MainHeld' /\ Exclusive'
<1> USE ActorNames, LockNames, ReleasedType DEF LInv
<1>1. /\ held \in [Actors -> Guards] /\ net \in [Actors -> NetStates]
  BY DEF RInv, TypeOK, Guards
<1>2. /\ UNCHANGED <<todo, idle>> /\ MainHeld'
      /\ \A b \in Actors \ {"main"} : held'[b] = held[b] /\ net'[b] = net[b]
      /\ \A l \in Channels : \/ held'["main"][l] = "-" \/ held["main"][l] # "-"
                             \/ \A b \in Actors \ {"main"} : held[b][l] = "-"
  <2> USE <1>1 DEF MainHeld, NoGuards, Guards
  <2>1. CASE ReceiveHup
    BY <2>1 DEF ReceiveHup
  <2>2. CASE WriteConfig
    BY <2>2 DEF WriteConfig
  <2>3. CASE SendFirst
    BY <2>3 DEF SendFirst
  <2>4. ASSUME NEW l \in Channels, JoinLock(l) 
        PROVE  /\ UNCHANGED <<todo, idle>> /\ MainHeld'
               /\ \A b \in Actors \ {"main"} : held'[b] = held[b] /\ net'[b] = net[b]
               /\ \A k \in Channels : \/ held'["main"][k] = "-" \/ held["main"][k] # "-"
                                      \/ \A b \in Actors \ {"main"} : held[b][k] = "-"
    BY <2>4 DEF JoinLock, Channels, CanTake
  <2>5. CASE MainReconnected
    BY <2>5 DEF MainReconnected
  <2>6. CASE SendSecond
    BY <2>6 DEF SendSecond, Channels
  <2> QED BY <2>1, <2>2, <2>3, <2>4, <2>5, <2>6 DEF MainStep
<1>3. ASSUME NEW b \in Scripted PROVE ScriptHeld(b)'
  BY <1>2 DEF ScriptHeld, AtOp, Running
<1>4. IdleHeld' /\ Exclusive'
  BY <1>2 DEF Exclusive, IdleHeld, IdleBusy, Channels
<1> QED BY <1>2, <1>3, <1>4

\* Every step keeps the invariant.
LEMMA NextLInv == LInv /\ [Next]_vars => LInv'
<1> SUFFICES ASSUME LInv, [Next]_vars
             PROVE  /\ \A b \in Scripted : ScriptHeld(b)'
                    /\ IdleHeld' /\ MainHeld' /\ Exclusive'
  BY NextRInv DEF LInv
<1>1. CASE UNCHANGED <<todo, held, net, idle, main>>
  BY <1>1 DEF LInv, ScriptHeld, AtOp, Running, IdleHeld, IdleBusy, MainHeld, Exclusive
<1>2. CASE Ended \/ Hup \/ ReconnectFails \/ ReceiveTerm \/ Term \/ UNCHANGED vars
  BY <1>1, <1>2 DEF Ended, Hup, ReconnectFails, ReceiveTerm, Term, vars
<1> QED BY <1>2, NextIsCases, ScriptKeeps, NetKeeps, IdleKeeps, MainKeeps

(***************************************************************************)
(* The theorems                                                            *)
(***************************************************************************)
\* Whoever waits holds only earlier locks.
LEMMA InOrder == LInv => LockOrder
<1> SUFFICES ASSUME LInv, NEW a \in Actors \ {"main"}, NEW l \in Locks, NEW k \in Locks,
                    held[a][l] # "-", Wants(a, k, "R") \/ Wants(a, k, "W")
             PROVE  Rank[l] < Rank[k]
  BY DEF LockOrder
<1> USE Ranks, ActorNames, LockNames DEF LInv
<1>1. CASE net[a] = "wantConfig" /\ k = "config"
  <2>1. l # "config"
    BY <1>1 DEF ScriptHeld, IdleHeld, Actors
  <2> QED BY <1>1, <2>1 DEF Locks
<1>2. CASE Acquiring(a) /\ Head(todo[a]).lock = k
  <2>1. a \in Scripted /\ todo[a] \in Seq(Ops) /\ todo[a] # <<>>
        /\ Head(todo[a]) = todo[a][1] /\ 1 \in 1..Len(todo[a])
    BY <1>2 DEF Acquiring, AtOp, Running, RInv, TypeOK
  <2>2. Acquires(todo[a][1]) /\ Kept(todo[a], l, 1, 1)
    BY <1>2, <2>1 DEF Acquiring, AtOp, Acquires, Kept
  <2>3. l # "config"
    BY <1>2, <2>1 DEF ScriptHeld, Acquiring, AtOp
  <2> QED BY <1>2, <2>1, <2>2, <2>3 DEF ScriptHeld, Fits, Allows
<1>3. CASE a = "idle_task" /\ <<idle, k>> \in {<<"lock", "idle">>,
                                <<"status", "status">>, <<"cover", "config">>}
  BY <1>3 DEF IdleHeld, IdleBusy, Locks
<1> QED BY <1>1, <1>2, <1>3 DEF Wants

\* No handler, ping, emission or update nests locks against the order iface,
\* idle, status, conn, config.
THEOREM LocksNestInOrder == Spec => []LockOrder
BY InitLInv, NextLInv, InOrder, PTL DEF Spec

\* No handlers, pings, emissions and updates wait for each other in a circle: going
\* from one that waits to one it waits for, the lock waited for comes later every
\* time, and there are five.
THEOREM NobodyWaitsInCircles == Spec => []NoCircularWait
<1>1. LockOrder => NoCircularWait
  <2> SUFFICES ASSUME LockOrder, NEW set \in SUBSET (Actors \ {"main"}), set # {},
                      \A a \in set : \E b \in set : WaitsFor(a, b)
               PROVE  FALSE
    BY DEF NoCircularWait
  <2> DEFINE Waiting(n) == \E a, b \in set : \E l \in Locks :
        /\ Rank[l] >= n /\ held[b][l] # "-"
        /\ Wants(a, l, "R") \/ Wants(a, l, "W")
  <2>1. \A l \in Locks : Rank[l] \in 1..5
    BY Ranks DEF Locks
  <2>2. Waiting(1)
    BY <2>1 DEF WaitsFor
  <2>3. ASSUME NEW n \in 1..5, Waiting(n) PROVE Waiting(n + 1)
    <3>1. PICK b \in set, l \in Locks : Rank[l] >= n /\ held[b][l] # "-"
      BY <2>3
    <3>2. PICK c \in set, k \in Locks :
             held[c][k] # "-" /\ (Wants(b, k, "R") \/ Wants(b, k, "W"))
      BY DEF WaitsFor
    <3>3. Rank[l] < Rank[k]
      BY <3>1, <3>2 DEF LockOrder
    <3>4. Rank[k] >= n + 1
      BY <2>1, <3>1, <3>3
    <3> QED BY <3>2, <3>4
  <2>4. Waiting(6)
    <3> HIDE DEF Waiting
    <3>1. Waiting(2)
      BY <2>2, <2>3
    <3>2. Waiting(3)
      BY <2>3, <3>1
    <3>3. Waiting(4)
      BY <2>3, <3>2
    <3>4. Waiting(5)
      BY <2>3, <3>3
    <3> QED BY <2>3, <3>4
  <2> QED BY <2>1, <2>4
<1> QED BY InitLInv, NextLInv, InOrder, <1>1, PTL DEF Spec

\* No two tasks have a request in flight on one stream.
THEOREM StreamHasOneUser == Spec => []OneRequestPerStream
<1>1. ASSUME LInv, NEW a \in Actors, InRequest(a)
      PROVE  Target(a) \in Channels /\ held[a][Target(a)] # "-"
  <2> USE <1>1, ActorNames DEF LInv, Target, Channels
  <2>1. CASE a \in Scripted
    <3>1. todo[a] \in Seq(Ops) /\ todo[a] # <<>> /\ Head(todo[a]).op = "io"
          /\ Head(todo[a]) = todo[a][1] /\ 1 \in 1..Len(todo[a])
      BY <2>1 DEF InRequest, AtOp, Running, RInv, TypeOK
    <3>2. held[a]["conn"] = "W"
      BY <2>1, <3>1 DEF ScriptHeld, Fits, Guarded
    <3> QED BY <2>1, <3>2
  <2>2. CASE a = "idle_task"
    BY <2>2 DEF InRequest, AtOp, Running, RInv, Handshake, IdleBusy
  <2>3. CASE a = "main"
    BY <2>3 DEF InRequest, AtOp, Running, MainHeld
  <2> QED BY <2>1, <2>2, <2>3 DEF Actors
<1>2. LInv => OneRequestPerStream
  BY <1>1 DEF OneRequestPerStream, LInv, Exclusive
<1> QED BY InitLInv, NextLInv, <1>2, PTL DEF Spec
=============================================================================
