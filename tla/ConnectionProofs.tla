-------------------------- MODULE ConnectionProofs --------------------------
(***************************************************************************)
(* A connection keeps what Request promises, for every set of answers and  *)
(* any number of requests, breaks, reloads and attempts to connect; and    *)
(* connect() gives up in time, for every number of retries but 0 and       *)
(* negative ones that are not documented.                                  *)
(***************************************************************************)
EXTENDS Connection, SequenceTheorems, TLAPS

(***************************************************************************)
(* The inductive invariant                                                 *)
(***************************************************************************)
\* The request in progress is the one that is pending.
Caller ==
    /\ \A i \in Ids : result[i] = "pending" <=> req = i
    /\ pc \in {"idle", "dropped", "down"} => req = Nobody
    /\ pc \in {"first", "again"} => req # Nobody

InBox(i) == \E k \in 1..Len(inbox) : inbox[k] = i

\* How often a request can have been carried out when all that was sent was.
Sent(i) == IF result[i] = "none" THEN 0
           ELSE IF req = i /\ pc # "again" THEN 1 ELSE 2

\* What MPD has received is not sent twice on one stream, waits to be carried
\* out only while there is a stream, and is left over only out of step.
Received ==
    /\ ~open => inbox = <<>>
    /\ \A j, k \in 1..Len(inbox) : inbox[j] = inbox[k] => j = k \/ inbox[j] = Nobody
    /\ \A i \in Ids : /\ ran[i] <= Sent(i)
                      /\ InBox(i) => ran[i] < Sent(i) /\ (result[i] = "pending" \/ left)

\* The request whose answer is being read.
Asked == IF pc \in {"first", "again"} THEN req ELSE Nobody

\* Nothing is under way but request i, or the rest of its answer.
OneAnswer(i) ==
    /\ inbox = <<>> \/ (inbox = <<i>> /\ wire = <<>>)
    /\ \A k \in 1..Len(wire) : /\ wire[k].of = i
                               /\ wire[k].kind \in {"OK", "ACK"} => k = Len(wire)
    /\ i # Nobody /\ wire # <<>> => ran[i] > 0

\* While no lines were left over, the lines are those of one answer.
InStep ==
    /\ pc \in {"greeting", "limit", "again"} => ~left
    /\ pc = "dropped" => left
    /\ ~left /\ pc \in Reading => OneAnswer(Asked)
    /\ ~left /\ pc = "idle" => inbox = <<>> /\ wire = <<>>

IInv == TypeOK /\ Caller /\ Received /\ InStep

\* The attempts of connect() are within the retries while it goes on.
Tries ==
    /\ pc = "connect" => retries = -1 \/ tries <= retries
    /\ GivesUpInTime

(***************************************************************************)
(* Sequences                                                               *)
(***************************************************************************)
\* What is left of a sequence after its head is the rest, one place earlier.
LEMMA HeadTail ==
    ASSUME NEW S, NEW s \in Seq(S), s # <<>>
    PROVE  /\ Len(s) \in Nat \ {0} /\ Head(s) = s[1] /\ s[1] \in S
           /\ Tail(s) \in Seq(S) /\ Len(Tail(s)) = Len(s) - 1
           /\ \A k \in 1..Len(Tail(s)) : Tail(s)[k] = s[k + 1]
<1>1. Len(s) \in Nat \ {0}
  BY EmptySeq, LenProperties
<1>2. Head(s) = s[1] /\ s[1] \in S
  BY <1>1, ElementOfSeq DEF Head
<1>3. PICK t : t = Tail(s)
  OBVIOUS
<1>4. /\ t \in Seq(S) /\ Len(t) = Len(s) - 1
      /\ \A k \in 1..Len(t) : t[k] = s[k + 1]
  BY <1>3, HeadTailProperties, Zenon
<1> QED BY <1>1, <1>2, <1>3, <1>4

\* The lines of an answer are its kinds, all of one request.
LEMMA LinesOfAnswer ==
    ASSUME NEW s \in Answers, NEW i \in Numbers
    PROVE  /\ Lines(s, i) \in Seq(AnyLine) /\ Len(Lines(s, i)) = Len(s)
           /\ \A k \in 1..Len(s) :
                 /\ Lines(s, i)[k].of = i
                 /\ Lines(s, i)[k].kind \in {"OK", "ACK"} => k = Len(s)
<1>1. s \in Seq(LineKinds) /\ \A j \in DOMAIN s : s[j] \in {"OK", "ACK"} <=> j = Len(s)
  BY ConnectionAssumption
<1>2. DOMAIN s = 1..Len(s) /\ Len(s) \in Nat
  BY <1>1
<1>3. \A k \in 1..Len(s) : /\ Lines(s, i)[k] = [kind |-> s[k], of |-> i]
                           /\ Lines(s, i)[k] \in AnyLine
  BY <1>1, <1>2 DEF Lines, Line, AnyLine
<1>4. Lines(s, i) \in [1..Len(s) -> AnyLine]
  BY <1>2, <1>3 DEF Lines
<1>5. Lines(s, i) \in Seq(AnyLine) /\ Len(Lines(s, i)) = Len(s)
  BY <1>2, <1>4, SeqDef
<1>6. \A k \in 1..Len(s) : Lines(s, i)[k].of = i /\ Lines(s, i)[k].kind = s[k]
  BY <1>2 DEF Lines, Line
<1> QED BY <1>1, <1>2, <1>5, <1>6
(***************************************************************************)
(* Types                                                                   *)
(***************************************************************************)
\* What is sent is a sequence of requests.
LEMMA SendType ==
    ASSUME NEW i \in Numbers, inbox \in Seq(Numbers), Send(i) PROVE inbox' \in Seq(Numbers)
BY DEF Send

\* A request is the number of a line; so is none.
LEMMA NumberFacts ==
    /\ Nobody \in Numbers /\ Ids \subseteq Numbers /\ Numbers \ {Nobody} = Ids
    /\ Numbers \subseteq Nat /\ Nobody \notin Ids
BY ConnectionAssumption DEF Numbers, Ids, Nobody

\* A new connection is well formed.
LEMMA InitType == Init => TypeOK
<1> SUFFICES ASSUME Init PROVE TypeOK
  OBVIOUS
<1>1. inbox \in Seq(Numbers) /\ wire \in Seq(AnyLine)
  BY EmptySeq DEF Init
<1>2. /\ ran \in [Ids -> Nat] /\ result \in [Ids -> {"none", "pending", "ok", "error"}]
      /\ answer \in [Ids -> Numbers] /\ req \in Numbers
  BY NumberFacts DEF Init
<1>3. pc \in Pcs /\ open \in BOOLEAN /\ left \in BOOLEAN
  BY DEF Init, Pcs
<1>4. junk \in 0..2 /\ tries \in Nat /\ breaks \in Nat
  BY DEF Init
<1> QED BY <1>1, <1>2, <1>3, <1>4 DEF TypeOK

\* Carrying out a request counts it.
LEMMA RanType ==
    ASSUME NEW i \in Numbers, ran \in [Ids -> Nat] PROVE Ran(i) \in [Ids -> Nat]
<1>1. CASE i = Nobody
  BY <1>1 DEF Ran
<1>2. CASE i \in Ids
  BY <1>2, NumberFacts DEF Ran
<1> QED BY <1>1, <1>2, NumberFacts

\* Every step keeps the types.
LEMMA StepType == TypeOK /\ [Next]_vars => TypeOK'
<1> SUFFICES ASSUME TypeOK, [Next]_vars PROVE TypeOK'
  OBVIOUS
<1> USE NumberFacts DEF TypeOK
<1>1. CASE UNCHANGED vars
  BY <1>1 DEF vars
<1>2. CASE MpdAnswers
  <2>1. /\ Head(inbox) \in Numbers /\ inbox' \in Seq(Numbers)
    BY <1>2, HeadTail DEF MpdAnswers
  <2>2. wire' \in Seq(AnyLine)
    <3>1. PICK s \in Answers : wire' = wire \o Lines(s, Head(inbox))
      BY <1>2 DEF MpdAnswers
    <3>2. Lines(s, Head(inbox)) \in Seq(AnyLine) /\ wire \in Seq(AnyLine)
      BY <2>1, LinesOfAnswer
    <3> QED BY <3>1, <3>2, ConcatProperties
  <2>3. ran' \in [Ids -> Nat]
    BY <1>2, <2>1, RanType DEF MpdAnswers
  <2> QED BY <1>2, <2>1, <2>2, <2>3 DEF MpdAnswers
<1>3. CASE Breaks
  <2>1. wire' \in Seq(AnyLine)
    <3>1. PICK n \in 0..Len(wire) : wire' = SubSeq(wire, 1, n)
      BY <1>3 DEF Breaks
    <3>2. wire \in Seq(AnyLine) /\ n \in Int /\ \A k \in 1..n : wire[k] \in AnyLine
      BY ElementOfSeq, LenProperties
    <3> QED BY <3>1, <3>2, SubSeqProperties
  <2>2. inbox' = <<>> /\ inbox' \in Seq(Numbers)
    BY <1>3, EmptySeq DEF Breaks
  <2>3. ran' \in [Ids -> Nat]
    <3>1. CASE inbox # <<>> /\ ran' = Ran(Head(inbox))
      <4>1. Head(inbox) \in Numbers
        BY <3>1, HeadTail
      <4> QED BY <3>1, <4>1, RanType
    <3> QED BY <1>3, <3>1 DEF Breaks
  <2>4. breaks' \in Nat
    <3>1. breaks' = breaks + 1
      BY <1>3 DEF Breaks
    <3> QED BY <3>1
  <2>5. open' = FALSE /\ UNCHANGED <<pc, req, junk, tries, result, answer, left>>
    BY <1>3 DEF Breaks
  <2> QED BY <2>1, <2>2, <2>3, <2>4, <2>5
<1>4. ASSUME NEW i \in Ids, Ask(i) PROVE TypeOK'
  BY <1>4, SendType DEF Ask, Pcs
<1>5. ASSUME NEW l \in {Line("OK", i) : i \in Numbers}, ReadEnds(l) PROVE TypeOK'
  <2>1. l.of \in Numbers
    BY DEF Line
  <2>2. wire' \in Seq(AnyLine)
    BY <1>5, HeadTail DEF ReadEnds
  <2>3. CASE pc \in {"first", "again"}
    BY <1>5, <2>1, <2>2, <2>3 DEF ReadEnds, Answered, Pcs
  <2>4. CASE pc \notin {"first", "again"}
    BY <1>5, <2>2, <2>4, SendType DEF ReadEnds, GoOn, Pcs
  <2> QED BY <2>3, <2>4
<1>6. CASE ReadPair
  <2>1. wire' \in Seq(AnyLine)
    BY <1>6, HeadTail DEF ReadPair
  <2> QED BY <1>6, <2>1 DEF ReadPair
<1>12. CASE ReadJunk
  <2>1. wire' \in Seq(AnyLine)
    BY <1>12, HeadTail DEF ReadJunk
  <2> QED BY <1>12, <2>1 DEF ReadJunk
<1>7. CASE ReadFails
  <2>1. wire' \in Seq(AnyLine)
    <3>1. wire' = wire \/ (wire # <<>> /\ wire' = Tail(wire))
      BY <1>7 DEF ReadFails, ReadError, AtJunk
    <3>2. wire # <<>> => Tail(wire) \in Seq(AnyLine)
      BY HeadTail
    <3> QED BY <3>1, <3>2
  <2>2. CASE ToReconnect
    BY <1>7, <2>1, <2>2 DEF ReadFails, ToReconnect, Pcs
  <2>3. CASE ToCaller
    <3>1. left' \in BOOLEAN
      BY <2>3 DEF ToCaller, AtJunk
    <3>2. /\ pc' \in Pcs /\ req' \in Numbers /\ result' \in [Ids -> {"none", "pending", "ok", "error"}]
      BY <2>3 DEF ToCaller, Failed, Pcs
    <3>3. UNCHANGED <<inbox, open, junk, tries, breaks, ran, answer>>
      BY <1>7, <2>3 DEF ReadFails, ToCaller
    <3> QED BY <2>1, <3>1, <3>2, <3>3
  <2> QED BY <1>7, <2>2, <2>3 DEF ReadFails, AfterError
<1>8. CASE ConnectSucceeds
  <2>1. Greeting \in Seq(AnyLine)
    BY DEF Greeting, Line, AnyLine, LineKinds, Numbers
  <2>2. wire' \in Seq(AnyLine) /\ inbox' \in Seq(Numbers) /\ pc' \in Pcs /\ junk' \in 0..2
    BY <1>8, <2>1, EmptySeq DEF ConnectSucceeds, Pcs
  <2> QED BY <1>8, <2>2 DEF ConnectSucceeds
<1>9. CASE ConnectFails
  BY <1>9 DEF ConnectFails, Pcs
<1>10. CASE Drops
  BY <1>10 DEF Drops, Pcs
<1>11. CASE Reload
  BY <1>11 DEF Reload, Pcs
<1> QED BY <1>1, <1>2, <1>3, <1>4, <1>5, <1>6, <1>7, <1>8, <1>9, <1>10, <1>11, <1>12
        DEF Next, Client, Ended

\* The types of a connection, and that failed_parses stays below the limit.
THEOREM ConnectionTypes == Spec => []TypeOK
<1> QED BY InitType, StepType, PTL DEF Spec
(***************************************************************************)
(* The steps of MPD                                                        *)
(***************************************************************************)
Rest == Caller /\ Received /\ InStep

\* A request that MPD has received is carried out: it was sent once more than it
\* has been carried out.
LEMMA CarriedOut ==
    ASSUME TypeOK, Received, inbox # <<>>
    PROVE  /\ Head(inbox) \in Numbers /\ InBox(Head(inbox))
           /\ \A i \in Ids : /\ Ran(Head(inbox))[i] >= ran[i]
                             /\ Ran(Head(inbox))[i] <= Sent(i)
           /\ Head(inbox) # Nobody => Ran(Head(inbox))[Head(inbox)] > 0
           /\ \A i \in Ids : i # Head(inbox) => Ran(Head(inbox))[i] = ran[i]
<1>1. /\ Head(inbox) = inbox[1] /\ inbox[1] \in Numbers /\ 1 \in 1..Len(inbox)
  BY HeadTail DEF TypeOK
<1>2. InBox(Head(inbox))
  BY <1>1 DEF InBox
<1>3. ran \in [Ids -> Nat] /\ \A i \in Ids : ran[i] <= Sent(i) /\ Sent(i) \in Nat
  BY DEF TypeOK, Received, Sent
<1>4. CASE Head(inbox) = Nobody
  BY <1>1, <1>2, <1>3, <1>4, NumberFacts DEF Ran
<1>5. CASE Head(inbox) \in Ids
  <2>1. ran[Head(inbox)] < Sent(Head(inbox))
    BY <1>2, <1>5 DEF Received
  <2>2. Ran(Head(inbox)) = [ran EXCEPT ![Head(inbox)] = @ + 1]
    BY <1>5, NumberFacts DEF Ran
  <2> QED BY <1>1, <1>2, <1>3, <1>5, <2>1, <2>2
<1> QED BY <1>1, <1>4, <1>5, NumberFacts

LEMMA MpdAnswersStep == ASSUME IInv, MpdAnswers PROVE Rest'
<1> USE DEF IInv
<1>1. /\ inbox # <<>> /\ open /\ inbox' = Tail(inbox) /\ ran' = Ran(Head(inbox))
      /\ UNCHANGED <<pc, req, open, result, left>>
  BY DEF MpdAnswers
<1>2. /\ Len(inbox) \in Nat /\ Head(inbox) = inbox[1] /\ Len(inbox') = Len(inbox) - 1
      /\ \A k \in 1..Len(inbox') : inbox'[k] = inbox[k + 1] /\ k + 1 \in 1..Len(inbox)
  BY <1>1, HeadTail DEF TypeOK
<1>3. Caller'
  BY <1>1 DEF Caller
<1>4. Received'
  <2>1. \A j, k \in 1..Len(inbox') : inbox'[j] = inbox'[k] => j = k \/ inbox'[j] = Nobody
    BY <1>2 DEF Received
  <2>2. \A i \in Ids : InBox(i)' => InBox(i) /\ i # Head(inbox)
    <3> SUFFICES ASSUME NEW i \in Ids, NEW k \in 1..Len(inbox'), inbox'[k] = i
                 PROVE  InBox(i) /\ i # Head(inbox)
      BY DEF InBox
    <3>1. inbox[k + 1] = i /\ k + 1 \in 1..Len(inbox) /\ k + 1 # 1 /\ 1 \in 1..Len(inbox)
      BY <1>2
    <3> QED BY <1>2, <3>1, NumberFacts DEF InBox, Received
  <2>3. \A i \in Ids : Sent(i)' = Sent(i)
    BY <1>1 DEF Sent
  <2> QED BY <1>1, <2>1, <2>2, <2>3, CarriedOut DEF Received
<1>5. InStep'
  <2> SUFFICES ASSUME ~left PROVE InStep'
    BY <1>1 DEF InStep
  <2>1. CASE pc \in Reading
    <3>1. OneAnswer(Asked)
      BY <2>1 DEF InStep
    <3>2. inbox = <<Asked>> /\ wire = <<>>
      BY <1>1, <3>1 DEF OneAnswer
    <3>3. Head(inbox) = Asked /\ inbox' = <<>>
      BY <1>1, <3>2
    <3>4. PICK s \in Answers : wire' = wire \o Lines(s, Asked)
      BY <3>3 DEF MpdAnswers
    <3>5. Asked \in Numbers /\ Asked' = Asked
      BY <1>1, CarriedOut, <3>3 DEF Asked
    <3>6. wire' = Lines(s, Asked) /\ Len(wire') = Len(s)
      BY <3>2, <3>4, <3>5, LinesOfAnswer, ConcatEmptySeq
    <3>7. Asked # Nobody => ran'[Asked] > 0
      BY <1>1, <3>3, CarriedOut
    <3>8. OneAnswer(Asked)'
      BY <3>3, <3>5, <3>6, <3>7, LinesOfAnswer DEF OneAnswer
    <3> QED BY <1>1, <2>1, <3>8 DEF InStep, Reading
  <2>2. CASE pc \notin Reading
    BY <1>1, <2>2 DEF InStep, Reading
  <2> QED BY <2>1, <2>2
<1> QED BY <1>3, <1>4, <1>5 DEF Rest

LEMMA BreaksStep == ASSUME IInv, Breaks PROVE Rest'
<1> USE DEF IInv
<1>1. inbox' = <<>> /\ UNCHANGED <<pc, req, result, left>>
  BY DEF Breaks
<1>2. \A i \in Ids : /\ ran'[i] >= ran[i] /\ ran'[i] <= Sent(i)
                     /\ ran[i] \in Nat /\ ran'[i] \in Nat
  <2>0. ran' \in [Ids -> Nat] /\ ran \in [Ids -> Nat]
    BY StepType DEF Next, TypeOK
  <2>1. CASE UNCHANGED ran
    BY <2>0, <2>1 DEF Received
  <2>2. CASE inbox # <<>> /\ ran' = Ran(Head(inbox))
    BY <2>0, <2>2, CarriedOut
  <2> QED BY <2>1, <2>2 DEF Breaks
<1>3. Caller'
  BY <1>1 DEF Caller
<1>4. Received'
  <2>1. \A i \in Ids : Sent(i)' = Sent(i) /\ ~InBox(i)'
    BY <1>1 DEF Sent, InBox
  <2> QED BY <1>1, <1>2, <2>1 DEF Received
<1>5. PICK n \in 0..Len(wire) : wire' = SubSeq(wire, 1, n)
  BY DEF Breaks
<1>6. Len(wire') = n /\ \A k \in 1..n : wire'[k] = wire[k] /\ k \in 1..Len(wire)
  <2>1. wire \in Seq(AnyLine) /\ Len(wire) \in Nat /\ \A k \in 1..n : wire[k] \in AnyLine
    BY <1>5, ElementOfSeq, LenProperties DEF TypeOK
  <2> QED BY <1>5, <2>1, SubSeqProperties
<1>7. wire = <<>> => wire' = <<>>
  BY <1>5, <1>6
<1>8. ASSUME NEW i, OneAnswer(i), i \in Numbers PROVE OneAnswer(i)'
  <2>1. \A k \in 1..Len(wire) : /\ wire[k].of = i
                                /\ wire[k].kind \in {"OK", "ACK"} => k = Len(wire)
    BY <1>8 DEF OneAnswer
  <2>2. \A k \in 1..Len(wire') : /\ wire'[k].of = i
                                 /\ wire'[k].kind \in {"OK", "ACK"} => k = Len(wire')
    BY <1>5, <1>6, <2>1
  <2>3. i # Nobody /\ wire' # <<>> => ran'[i] > 0
    BY <1>2, <1>7, <1>8, NumberFacts DEF OneAnswer
  <2> QED BY <1>1, <2>2, <2>3 DEF OneAnswer
<1>9. InStep'
  <2>1. Asked \in Numbers /\ Asked' = Asked
    BY <1>1, NumberFacts DEF Asked, TypeOK
  <2> QED BY <1>1, <1>7, <1>8, <2>1 DEF InStep
<1> QED BY <1>3, <1>4, <1>9 DEF Rest
(***************************************************************************)
(* The steps of the client                                                 *)
(***************************************************************************)
\* Requests are not given up by MPD while the caller's own state moves on: what
\* is in the inbox stays allowed.
LEMMA SameInbox ==
    ASSUME TypeOK, Received, UNCHANGED <<inbox, open, ran>>,
           \A i \in Ids : Sent(i)' >= Sent(i),
           \A i \in Ids : InBox(i) => result'[i] = "pending" \/ left'
    PROVE  Received'
<1>1. \A i \in Ids : InBox(i)' = InBox(i)
  BY DEF InBox
<1>2. \A i \in Ids : ran[i] \in Nat /\ Sent(i) \in Nat /\ Sent(i)' \in Nat
  BY DEF TypeOK, Sent
<1>3. \A i \in Ids : ran[i] <= Sent(i) /\ (InBox(i) => ran[i] < Sent(i))
  BY DEF Received
<1>4. \A i \in Ids : ran'[i] <= Sent(i)' /\ (InBox(i)' => ran'[i] < Sent(i)')
  BY <1>1, <1>2, <1>3
<1> QED BY <1>1, <1>4 DEF Received

\* A request is sent once on a stream on which nothing is under way.
LEMMA SendOnIdle ==
    ASSUME NEW i \in Numbers, inbox = <<>>, wire' = <<>>, Send(i)
    PROVE  OneAnswer(i)' /\ \A j \in Ids \ {i} : ~InBox(j)'
<1>1. inbox' = <<>> \/ inbox' = <<i>>
  BY DEF Send
<1>2. \A k \in 1..Len(wire') : FALSE
  OBVIOUS
<1>3. \A k \in 1..Len(inbox') : inbox'[k] = i
  BY <1>1
<1> QED BY <1>1, <1>2, <1>3 DEF OneAnswer, InBox

LEMMA AskStep == ASSUME IInv, NEW i \in Ids, Ask(i) PROVE Rest'
<1> USE DEF IInv
<1>1. /\ pc = "idle" /\ result[i] = "none" /\ Send(i) /\ pc' = "first" /\ req' = i
      /\ result' = [result EXCEPT ![i] = "pending"]
      /\ UNCHANGED <<wire, open, ran, left>>
  BY DEF Ask
<1>2. req = Nobody /\ i # Nobody /\ \A j \in Ids : result[j] # "pending"
  BY <1>1, NumberFacts DEF Caller
<1>3. Caller'
  BY <1>1, <1>2 DEF Caller, TypeOK
<1>4. ~InBox(i) /\ ran[i] = 0
  BY <1>1 DEF Received, Sent, TypeOK
<1>5. Received'
  <2>1. \A j \in Ids : Sent(j)' = IF j = i THEN 1 ELSE Sent(j)
    BY <1>1, <1>2, NumberFacts DEF Sent, TypeOK
  <2>2. CASE ~open
    <3>1. inbox' = inbox /\ inbox = <<>>
      BY <1>1, <2>2 DEF Send, Received
    <3>2. \A j \in Ids : ~InBox(j)
      BY <3>1 DEF InBox
    <3>3. \A j \in Ids : Sent(j)' >= Sent(j)
      BY <1>1, <2>1 DEF Sent
    <3> QED BY <1>1, <3>1, <3>2, <3>3, SameInbox
  <2>3. CASE open
    <3>1. inbox' = Append(inbox, i) /\ inbox \in Seq(Numbers)
      BY <1>1, <2>3 DEF Send, TypeOK
    <3>2. /\ Len(inbox) \in Nat /\ Len(inbox') = Len(inbox) + 1 /\ inbox'[Len(inbox) + 1] = i
          /\ \A k \in 1..Len(inbox) : inbox'[k] = inbox[k] /\ inbox[k] # i
      BY <1>4, <3>1, AppendProperties, NumberFacts DEF InBox
    <3>3. \A j, k \in 1..Len(inbox') : inbox'[j] = inbox'[k] => j = k \/ inbox'[j] = Nobody
      BY <3>2 DEF Received
    <3>4. \A j \in Ids \ {i} : InBox(j)' => InBox(j)
      BY <3>2 DEF InBox
    <3>5. \A j \in Ids : /\ ran'[j] <= Sent(j)'
                         /\ InBox(j)' => ran'[j] < Sent(j)' /\ (result'[j] = "pending" \/ left')
      BY <1>1, <1>4, <2>1, <3>4 DEF Received, TypeOK
    <3> QED BY <1>1, <2>3, <3>3, <3>5 DEF Received
  <2> QED BY <2>2, <2>3
<1>6. InStep'
  <2>1. CASE ~left
    BY <1>1, <2>1, SendOnIdle, NumberFacts DEF InStep, Asked
  <2> QED BY <1>1, <2>1 DEF InStep
<1> QED BY <1>3, <1>5, <1>6 DEF Rest

\* In step, a line that ends an answer is the last one under way.
LEMMA LastLine ==
    ASSUME TypeOK, NEW i, OneAnswer(i), wire # <<>>
    PROVE  /\ inbox = <<>> /\ Head(wire).of = i /\ (i # Nobody => ran[i] > 0)
           /\ Head(wire).kind \in {"OK", "ACK"} => Tail(wire) = <<>>
<1>1. /\ Len(wire) \in Nat \ {0} /\ Head(wire) = wire[1] /\ 1 \in 1..Len(wire)
      /\ Tail(wire) \in Seq(AnyLine) /\ Len(Tail(wire)) = Len(wire) - 1
  <2>1. wire \in Seq(AnyLine) /\ wire # <<>>
    BY DEF TypeOK
  <2>2. /\ Len(wire) \in Nat \ {0} /\ Head(wire) = wire[1]
        /\ Tail(wire) \in Seq(AnyLine) /\ Len(Tail(wire)) = Len(wire) - 1
    BY <2>1, HeadTail, Zenon
  <2>3. 1 \in 1..Len(wire)
    BY <2>2
  <2> QED BY <2>2, <2>3, Zenon
<1>2. inbox = <<>> /\ wire[1].of = i /\ (wire[1].kind \in {"OK", "ACK"} => Len(wire) = 1)
  <2>1. inbox = <<>>
    BY DEF OneAnswer
  <2>2. \A k \in 1..Len(wire) : /\ wire[k].of = i
                                /\ wire[k].kind \in {"OK", "ACK"} => k = Len(wire)
    BY DEF OneAnswer
  <2>3. wire[1].of = i /\ (wire[1].kind \in {"OK", "ACK"} => 1 = Len(wire))
    BY <1>1, <2>2, Zenon
  <2> QED BY <2>1, <2>3, Zenon
<1>3. Len(Tail(wire)) = 0 => Tail(wire) = <<>>
  BY <1>1, EmptySeq
<1>4. i # Nobody => ran[i] > 0
  BY DEF OneAnswer
<1> QED BY <1>1, <1>2, <1>3, <1>4

\* The caller gets his answer.
LEMMA AnsweredStep ==
    ASSUME IInv, NEW l, ReadEnds(l), pc \in {"first", "again"} PROVE Rest'
<1> USE DEF IInv
<1>1. /\ wire # <<>> /\ Head(wire).kind = "OK" /\ wire' = Tail(wire)
      /\ result' = [result EXCEPT ![req] = "ok"] /\ pc' = "idle" /\ req' = Nobody
      /\ UNCHANGED <<inbox, open, ran, left>>
  BY DEF ReadEnds, Answered
<1>2. req \in Ids /\ result[req] = "pending"
  BY NumberFacts DEF Caller, TypeOK
<1>3. ~left => inbox = <<>> /\ Tail(wire) = <<>>
  BY <1>1, LastLine DEF InStep, Asked, Reading
<1>4. Caller'
  BY <1>1, <1>2, NumberFacts DEF Caller, TypeOK
<1>5. Received'
  <2>1. \A j \in Ids : Sent(j)' >= Sent(j)
    BY <1>1, <1>2, NumberFacts DEF Sent, TypeOK
  <2>2. \A j \in Ids : InBox(j) => left \/ (result'[j] = "pending" /\ j # req)
    <3>1. \A j \in Ids : InBox(j) => left
      <4>1. ~left => \A j \in Ids : ~InBox(j)
        BY <1>3 DEF InBox
      <4> QED BY <4>1
    <3> QED BY <3>1
  <2> QED BY <1>1, <2>1, <2>2, SameInbox
<1>6. InStep'
  BY <1>1, <1>3 DEF InStep, Reading
<1> QED BY <1>4, <1>5, <1>6 DEF Rest

\* after_connect goes on.
LEMMA GoOnStep ==
    ASSUME IInv, NEW l, ReadEnds(l), pc \in {"greeting", "limit"} PROVE Rest'
<1> USE DEF IInv
<1>1. /\ wire # <<>> /\ Head(wire).kind = "OK" /\ wire' = Tail(wire) /\ GoOn
      /\ UNCHANGED <<open, ran, left>>
  BY DEF ReadEnds
<1>2. ~left /\ OneAnswer(Nobody)
  BY DEF InStep, Reading, Asked
<1>3. inbox = <<>> /\ wire' = <<>>
  BY <1>1, <1>2, LastLine
<1>4. \A j \in Ids : ran[j] <= Sent(j) /\ ran[j] \in Nat
  BY DEF Received, TypeOK
<1>5. CASE pc = "greeting"
  <2>1. Send(Nobody) /\ pc' = "limit" /\ UNCHANGED <<req, result>>
    BY <1>1, <1>5 DEF GoOn
  <2>2. OneAnswer(Nobody)' /\ \A j \in Ids : ~InBox(j)'
    BY <1>1, <1>3, <2>1, SendOnIdle, NumberFacts
  <2>3. Caller'
    BY <2>1, <1>5 DEF Caller
  <2>4. InStep'
    BY <1>1, <1>2, <2>1, <2>2 DEF InStep, Asked, Reading
  <2>5. \A j \in Ids : Sent(j)' = Sent(j)
    BY <2>1, <1>5 DEF Sent
  <2>6. \A j, k \in 1..Len(inbox') : inbox'[j] = inbox'[k] => j = k \/ inbox'[j] = Nobody
    BY <2>2 DEF OneAnswer
  <2>7. ~open' => inbox' = <<>>
    BY <1>1, <1>3, <2>1 DEF Send
  <2> QED BY <1>1, <1>4, <2>2, <2>3, <2>4, <2>5, <2>6, <2>7 DEF Rest, Received
<1>6. CASE pc = "limit" /\ req # Nobody
  <2>1. Send(req) /\ pc' = "again" /\ UNCHANGED <<req, result>> /\ req \in Ids
    BY <1>1, <1>6, NumberFacts DEF GoOn, TypeOK
  <2>0. PICK i \in Ids : i = req
    BY <2>1
  <2>2. OneAnswer(i)' /\ \A j \in Ids \ {req} : ~InBox(j)'
    BY <1>1, <1>3, <2>0, <2>1, SendOnIdle, NumberFacts
  <2>3. Caller' /\ result[req] = "pending"
    BY <2>1, <1>6 DEF Caller
  <2>4. InStep'
    <3>1. Asked' = i
      BY <2>0, <2>1 DEF Asked
    <3> QED BY <1>1, <1>2, <2>1, <2>2, <3>1 DEF InStep, OneAnswer
  <2>5. Sent(req) = 1 /\ Sent(req)' = 2 /\ \A j \in Ids \ {req} : Sent(j)' = Sent(j)
    BY <2>1, <2>3, <1>6 DEF Sent
  <2>6. \A j, k \in 1..Len(inbox') : inbox'[j] = inbox'[k] => j = k \/ inbox'[j] = Nobody
    BY <2>2 DEF OneAnswer
  <2>7. ~open' => inbox' = <<>>
    BY <1>1, <1>3, <2>1 DEF Send
  <2>8. \A j \in Ids : /\ ran'[j] <= Sent(j)'
                       /\ InBox(j)' => ran'[j] < Sent(j)' /\ result'[j] = "pending"
    BY <1>1, <1>4, <2>1, <2>2, <2>3, <2>5
  <2> QED BY <2>3, <2>4, <2>6, <2>7, <2>8 DEF Rest, Received
<1>7. CASE pc = "limit" /\ req = Nobody
  <2>1. pc' = "idle" /\ UNCHANGED <<req, inbox, result>>
    BY <1>1, <1>7 DEF GoOn
  <2>2. Caller'
    BY <2>1, <1>7 DEF Caller
  <2>3. Received'
    <3>1. \A j \in Ids : Sent(j)' = Sent(j) /\ Sent(j) \in Nat
      BY <2>1, <1>7, NumberFacts DEF Sent
    <3>2. \A j \in Ids : ~InBox(j)
      BY <1>3 DEF InBox
    <3> QED BY <1>1, <2>1, <3>1, <3>2, SameInbox
  <2>4. InStep'
    BY <1>1, <1>3, <2>1 DEF InStep, Reading
  <2> QED BY <2>2, <2>3, <2>4 DEF Rest
<1> QED BY <1>5, <1>6, <1>7
\* A line inside an answer is read.
LEMMA ReadOnStep == ASSUME IInv, ReadPair \/ ReadJunk PROVE Rest'
<1> USE DEF IInv
<1>1. /\ pc \in Reading /\ wire # <<>> /\ wire' = Tail(wire)
      /\ UNCHANGED <<pc, req, inbox, open, ran, result, left>>
  BY DEF ReadPair, ReadJunk
<1>2. /\ Len(wire) \in Nat \ {0} /\ Len(wire') = Len(wire) - 1
      /\ \A k \in 1..Len(wire') : wire'[k] = wire[k + 1] /\ k + 1 \in 1..Len(wire)
  BY <1>1, HeadTail DEF TypeOK
<1>3. Caller'
  BY <1>1 DEF Caller
<1>4. Received'
  BY <1>1 DEF Received, InBox, Sent
<1>5. ASSUME NEW i, OneAnswer(i) PROVE OneAnswer(i)'
  <2>1. inbox' = <<>> /\ (i # Nobody => ran'[i] > 0)
    BY <1>1, <1>5, LastLine
  <2>2. \A k \in 1..Len(wire) : /\ wire[k].of = i
                                /\ wire[k].kind \in {"OK", "ACK"} => k = Len(wire)
    BY <1>5 DEF OneAnswer
  <2>3. \A k \in 1..Len(wire') : /\ wire'[k].of = i
                                 /\ wire'[k].kind \in {"OK", "ACK"} => k = Len(wire')
    <3> SUFFICES ASSUME NEW k \in 1..Len(wire')
                 PROVE  wire'[k].of = i /\ (wire'[k].kind \in {"OK", "ACK"} => k = Len(wire'))
      OBVIOUS
    <3>1. PICK j : j = k + 1
      OBVIOUS
    <3>2. wire'[k] = wire[j] /\ j \in 1..Len(wire)
      BY <1>2, <3>1
    <3>3. j = Len(wire) => k = Len(wire')
      BY <1>2, <3>1
    <3> QED BY <2>2, <3>2, <3>3, Zenon
  <2> QED BY <2>1, <2>3 DEF OneAnswer
<1>6. InStep'
  <2>1. PICK i : i = Asked
    OBVIOUS
  <2>2. Asked' = i
    BY <1>1, <2>1 DEF Asked
  <2> QED BY <1>1, <1>5, <2>1, <2>2 DEF InStep, OneAnswer, Reading
<1> QED BY <1>3, <1>4, <1>6 DEF Rest

\* request_data reconnects after the first error.
LEMMA ToReconnectStep == ASSUME IInv, ReadFails, pc = "first" PROVE Rest'
<1> USE DEF IInv
<1>1. pc' = "connect" /\ UNCHANGED <<req, inbox, open, ran, result, left>>
  BY DEF ReadFails, AfterError, ToReconnect
<1>2. Caller'
  BY <1>1 DEF Caller
<1>3. Received'
  BY <1>1 DEF Received, InBox, Sent
<1>4. InStep'
  BY <1>1 DEF InStep, Reading
<1> QED BY <1>2, <1>3, <1>4 DEF Rest

\* Any other error is returned; nothing is under way then, or lines are left.
LEMMA ToCallerStep == ASSUME IInv, ReadFails, pc # "first" PROVE Rest'
<1> USE DEF IInv
<1>1. /\ pc \in Reading /\ ReadError /\ ToCaller /\ ~left /\ OneAnswer(Asked)
      /\ UNCHANGED <<inbox, open, ran>>
  BY DEF ReadFails, AfterError, InStep, Reading
<1>2. inbox = <<>> /\ (wire' = <<>> \/ AtJunk)
  <2>1. CASE wire = <<>> /\ ~open /\ UNCHANGED wire
    BY <2>1 DEF Received
  <2>2. CASE wire # <<>> /\ Head(wire).kind = "ACK" /\ wire' = Tail(wire)
    BY <1>1, <2>2, LastLine
  <2>3. CASE AtJunk
    BY <1>1, <2>3, LastLine DEF AtJunk
  <2> QED BY <1>1, <2>1, <2>2, <2>3 DEF ReadError
<1>3. \A j \in Ids : ~InBox(j)
  BY <1>2 DEF InBox
<1>4. CASE req = Nobody
  <2>1. pc' = "down" /\ req' = Nobody /\ UNCHANGED result
    BY <1>1, <1>4 DEF ToCaller, Failed
  <2>2. Caller'
    BY <1>4, <2>1 DEF Caller
  <2>3. \A j \in Ids : Sent(j)' = Sent(j) /\ Sent(j) \in Nat
    BY <1>4, <2>1, NumberFacts DEF Sent
  <2> QED BY <1>1, <1>3, <2>1, <2>2, <2>3, SameInbox DEF Rest, InStep, Reading
<1>5. CASE req \in Ids
  <2>1. /\ pc' = "idle" /\ req' = Nobody /\ result' = [result EXCEPT ![req] = "error"]
        /\ AtJunk => left'
    BY <1>1, <1>5, NumberFacts DEF ToCaller, Failed
  <2>2. Caller'
    BY <1>5, <2>1, NumberFacts DEF Caller, TypeOK
  <2>3. \A j \in Ids : Sent(j)' >= Sent(j)
    BY <1>5, <2>1, NumberFacts DEF Sent, Caller, TypeOK
  <2>4. Received'
    BY <1>1, <1>3, <2>3, SameInbox
  <2>5. InStep'
    BY <1>1, <1>2, <2>1 DEF InStep, Reading
  <2> QED BY <2>2, <2>4, <2>5 DEF Rest
<1> QED BY <1>4, <1>5, NumberFacts DEF TypeOK

LEMMA ConnectSucceedsStep == ASSUME IInv, ConnectSucceeds PROVE Rest'
<1> USE DEF IInv
<1>1. /\ pc = "connect" /\ pc' = "greeting" /\ open' = TRUE /\ inbox' = <<>>
      /\ wire' = Greeting /\ left' = FALSE /\ UNCHANGED <<req, ran, result>>
  BY DEF ConnectSucceeds
<1>2. Caller'
  BY <1>1 DEF Caller
<1>3. Received'
  <2>1. \A j \in Ids : Sent(j)' = Sent(j) /\ ~InBox(j)'
    BY <1>1 DEF Sent, InBox
  <2> QED BY <1>1, <2>1 DEF Received
<1>4. OneAnswer(Nobody)'
  <2>1. Len(wire') = 1 /\ wire'[1] = Line("OK", Nobody)
    BY <1>1 DEF Greeting
  <2>2. \A k \in 1..Len(wire') : wire'[k].of = Nobody /\ k = Len(wire')
    BY <2>1 DEF Line
  <2> QED BY <1>1, <2>2 DEF OneAnswer
<1>5. Asked' = Nobody
  BY <1>1 DEF Asked
<1>6. InStep'
  BY <1>1, <1>4, <1>5 DEF InStep, OneAnswer
<1> QED BY <1>2, <1>3, <1>6 DEF Rest

LEMMA ConnectFailsStep == ASSUME IInv, ConnectFails PROVE Rest'
<1> USE DEF IInv
<1>1. /\ pc = "connect" /\ pc' \in {"connect", "stuck"}
      /\ UNCHANGED <<req, inbox, open, ran, result, left>>
  BY DEF ConnectFails
<1>2. Caller'
  BY <1>1 DEF Caller
<1>3. Received'
  BY <1>1 DEF Received, InBox, Sent
<1>4. InStep'
  BY <1>1 DEF InStep, Reading
<1> QED BY <1>2, <1>3, <1>4 DEF Rest

LEMMA DropsStep == ASSUME IInv, Drops PROVE Rest'
<1> USE DEF IInv
<1>1. /\ req \in Ids /\ pc' = "dropped" /\ req' = Nobody /\ left' = TRUE
      /\ result' = [result EXCEPT ![req] = "error"] /\ UNCHANGED <<inbox, open, ran>>
  BY NumberFacts DEF Drops, TypeOK
<1>2. Caller'
  BY <1>1, NumberFacts DEF Caller, TypeOK
<1>3. \A j \in Ids : Sent(j)' >= Sent(j)
  BY <1>1, NumberFacts DEF Sent, Caller, TypeOK
<1>4. Received'
  BY <1>1, <1>3, SameInbox
<1>5. InStep'
  BY <1>1 DEF InStep
<1> QED BY <1>2, <1>4, <1>5 DEF Rest

LEMMA ReloadStep == ASSUME IInv, Reload PROVE Rest'
<1> USE DEF IInv
<1>1. /\ pc \in {"idle", "dropped"} /\ pc' = "connect"
      /\ UNCHANGED <<req, inbox, open, ran, result, left>>
  BY DEF Reload
<1>2. Caller'
  BY <1>1 DEF Caller
<1>3. Received'
  BY <1>1 DEF Received, InBox, Sent
<1>4. InStep'
  BY <1>1 DEF InStep, Reading
<1> QED BY <1>2, <1>3, <1>4 DEF Rest

LEMMA InitIInv == Init => IInv
<1> SUFFICES ASSUME Init PROVE IInv
  OBVIOUS
<1>1. Caller
  BY NumberFacts DEF Init, Caller
<1>2. Received
  <2>1. \A i \in Ids : ~InBox(i) /\ ran[i] = 0 /\ Sent(i) = 0
    BY DEF Init, InBox, Sent
  <2> QED BY <2>1 DEF Init, Received
<1>3. InStep
  BY DEF Init, InStep, Reading
<1> QED BY <1>1, <1>2, <1>3, InitType DEF IInv

LEMMA NextIInv == ASSUME IInv, [Next]_vars PROVE IInv'
<1>1. TypeOK'
  BY StepType DEF IInv
<1>2. ASSUME UNCHANGED vars PROVE Rest'
  BY <1>2 DEF vars, IInv, Rest, Caller, Received, InStep, InBox, Sent, OneAnswer, Asked
<1>3. ASSUME NEW l, ReadEnds(l) PROVE Rest'
  <2>1. pc \in {"first", "again"} \/ pc \in {"greeting", "limit"}
    BY <1>3 DEF ReadEnds, Reading
  <2> QED BY <1>3, <2>1, AnsweredStep, GoOnStep
<1>4. ASSUME ReadFails PROVE Rest'
  <2>1. ToReconnect \/ ToCaller
    BY <1>4 DEF ReadFails, AfterError
  <2> QED BY <1>4, <2>1, ToReconnectStep, ToCallerStep
<1>5. ASSUME Client PROVE Rest'
  <2>1. ASSUME NEW i \in Ids, Ask(i) PROVE Rest'
    BY <2>1, AskStep
  <2>2. ASSUME ReadPair \/ ReadJunk PROVE Rest'
    BY <2>2, ReadOnStep
  <2> QED BY <1>3, <1>4, <1>5, <2>1, <2>2, ConnectSucceedsStep, ConnectFailsStep,
             DropsStep, ReloadStep DEF Client
<1>6. Rest'
  BY <1>2, <1>5, MpdAnswersStep, BreaksStep DEF Next, Ended
<1> QED BY <1>1, <1>6 DEF IInv, Rest

LEMMA Invariance == Spec => []IInv
<1> QED BY InitIInv, NextIInv, PTL DEF Spec
(***************************************************************************)
(* The promise                                                             *)
(***************************************************************************)
\* MPD carries out a request: one that is pending, or is left over out of step,
\* and that it has carried out once at most.
LEMMA CarriesOut ==
    ASSUME IInv, inbox # <<>>, ran' = Ran(Head(inbox)), UNCHANGED <<result, answer, left>>
    PROVE  [Promise!Next]_(Promise!reqVars)
<1>1. Head(inbox) \in Numbers /\ InBox(Head(inbox))
  BY CarriedOut DEF IInv
<1>2. CASE Head(inbox) = Nobody
  <2>1. UNCHANGED ran
    BY <1>2 DEF Ran
  <2> QED BY <2>1 DEF Promise!reqVars
<1>3. CASE Head(inbox) # Nobody
  <2> PICK i \in Ids : i = Head(inbox)
    BY <1>1, <1>3, NumberFacts
  <2>1. ran[i] < Sent(i) /\ (result[i] = "pending" \/ left)
    BY <1>1 DEF IInv, Received
  <2>2. ran[i] \in Nat
    BY DEF IInv, TypeOK
  <2>3. result[i] # "none" /\ ran[i] < 2
    BY <2>1, <2>2 DEF Sent
  <2>4. ran' = [ran EXCEPT ![i] = @ + 1]
    BY <1>3 DEF Ran
  <2>5. Promise!CarryOut(i)
    BY <2>1, <2>3, <2>4 DEF Promise!CarryOut
  <2> QED BY <2>5 DEF Promise!Next
<1> QED BY <1>2, <1>3

\* Asking begins a request, as there is none in progress.
LEMMA Begins == ASSUME IInv, NEW i \in Ids, Ask(i) PROVE Promise!Begin(i)
<1>1. /\ pc = "idle" /\ result[i] = "none" /\ result' = [result EXCEPT ![i] = "pending"]
      /\ UNCHANGED <<ran, answer, left>>
  BY DEF Ask
<1>2. \A j \in Ids : result[j] # "pending"
  BY <1>1, NumberFacts DEF IInv, Caller
<1> QED BY <1>1, <1>2 DEF Promise!Begin

\* An answer is returned: in step, it is the one to the caller's own request.
LEMMA Returns ==
    ASSUME IInv, NEW l, ReadEnds(l), pc \in {"first", "again"}
    PROVE  req \in Ids /\ Promise!Return(req)
<1>1. /\ wire # <<>> /\ Head(wire) = l /\ result' = [result EXCEPT ![req] = "ok"]
      /\ answer' = [answer EXCEPT ![req] = l.of] /\ UNCHANGED <<ran, left>>
  BY DEF ReadEnds, Answered
<1>2. req \in Ids /\ result[req] = "pending"
  BY NumberFacts DEF IInv, Caller, TypeOK
<1>3. l.of \in Ids \cup {Promise!NoAnswer}
  <2>1. l \in AnyLine
    BY <1>1, HeadTail DEF IInv, TypeOK
  <2> QED BY <2>1 DEF AnyLine, Numbers, Nobody, Promise!NoAnswer
<1>4. ~left => l.of = req /\ ran[req] > 0
  <2>1. ~left => OneAnswer(req)
    BY DEF IInv, InStep, Reading, Asked
  <2> QED BY <1>1, <1>2, <2>1, LastLine, NumberFacts DEF IInv
<1> QED BY <1>1, <1>2, <1>3, <1>4 DEF Promise!Return

\* An error is returned; what is left of an answer may follow.
LEMMA Fails ==
    ASSUME IInv, IInv', ToCaller, UNCHANGED <<ran, answer>>
    PROVE  [Promise!Next]_(Promise!reqVars)
<1>1. CASE req = Nobody
  <2>1. UNCHANGED result
    BY <1>1 DEF ToCaller, Failed
  <2>2. UNCHANGED left
    BY <1>1 DEF ToCaller, IInv, TypeOK
  <2> QED BY <2>1, <2>2 DEF Promise!reqVars
<1>2. CASE req # Nobody
  <2>1. req \in Ids /\ result[req] = "pending"
    BY <1>2, NumberFacts DEF IInv, Caller, TypeOK
  <2>2. result' = [result EXCEPT ![req] = "error"]
    BY <1>2 DEF ToCaller, Failed
  <2>3. Promise!Fail(req)
    BY <2>1, <2>2 DEF Promise!Fail
  <2> QED BY <2>1, <2>3 DEF Promise!Next
<1> QED BY <1>1, <1>2

LEMMA NextPromise == IInv /\ IInv' /\ [Next]_vars => [Promise!Next]_(Promise!reqVars)
<1> SUFFICES ASSUME IInv, IInv', [Next]_vars PROVE [Promise!Next]_(Promise!reqVars)
  OBVIOUS
<1>1. ASSUME UNCHANGED <<ran, result, answer, left>>
      PROVE  [Promise!Next]_(Promise!reqVars)
  BY <1>1 DEF Promise!reqVars
<1>2. CASE UNCHANGED vars
  BY <1>1, <1>2 DEF vars
<1>3. CASE MpdAnswers
  BY <1>3, CarriesOut DEF MpdAnswers
<1>4. CASE Breaks
  <2>1. UNCHANGED <<result, answer, left>>
        /\ (UNCHANGED ran \/ (inbox # <<>> /\ ran' = Ran(Head(inbox))))
    BY <1>4 DEF Breaks
  <2> QED BY <1>1, <2>1, CarriesOut
<1>5. ASSUME NEW i \in Ids, Ask(i) PROVE [Promise!Next]_(Promise!reqVars)
  BY <1>5, Begins DEF Promise!Next
<1>6. ASSUME NEW l, ReadEnds(l) PROVE [Promise!Next]_(Promise!reqVars)
  <2>1. CASE pc \in {"first", "again"}
    BY <1>6, <2>1, Returns DEF Promise!Next
  <2>2. CASE pc \in {"greeting", "limit"}
    <3>1. GoOn /\ UNCHANGED <<ran, left>>
      BY <1>6, <2>2 DEF ReadEnds
    <3>2. UNCHANGED <<result, answer>>
      BY <3>1 DEF GoOn
    <3> QED BY <1>1, <3>1, <3>2
  <2>3. pc \in {"first", "again"} \/ pc \in {"greeting", "limit"}
    BY <1>6 DEF ReadEnds, Reading
  <2> QED BY <2>1, <2>2, <2>3
<1>7. CASE ReadPair \/ ReadJunk
  BY <1>1, <1>7 DEF ReadPair, ReadJunk
<1>8. CASE ReadFails
  <2>1. UNCHANGED <<ran, answer>> /\ (ToReconnect \/ ToCaller)
    BY <1>8 DEF ReadFails, AfterError
  <2>2. CASE ToReconnect
    BY <1>1, <2>1, <2>2 DEF ToReconnect
  <2> QED BY <2>1, <2>2, Fails
<1>9. CASE ConnectSucceeds
  <2>1. Promise!Reconnect
    BY <1>9 DEF ConnectSucceeds, Promise!Reconnect
  <2> QED BY <2>1 DEF Promise!Next
<1>10. CASE ConnectFails \/ Reload
  BY <1>1, <1>10 DEF ConnectFails, Reload
<1>11. CASE Drops
  <2>1. /\ req \in Ids /\ result' = [result EXCEPT ![req] = "error"] /\ left' = TRUE
        /\ UNCHANGED <<ran, answer>>
    BY <1>11, NumberFacts DEF Drops, IInv, TypeOK
  <2>2. result[req] = "pending"
    BY <2>1 DEF IInv, Caller
  <2>3. Promise!Fail(req)
    BY <2>1, <2>2 DEF Promise!Fail
  <2> QED BY <2>1, <2>3 DEF Promise!Next
<1>12. CASE Client
  BY <1>5, <1>6, <1>7, <1>8, <1>9, <1>10, <1>11, <1>12 DEF Client
<1> QED BY <1>2, <1>3, <1>4, <1>12 DEF Next, Ended

LEMMA InitPromise == Init => Promise!Init
BY DEF Init, Promise!Init, Promise!NoAnswer, Nobody

\* request_data, with its lines, breaks, reconnections and its repetition, keeps
\* what Request promises, whatever MPD answers: KeepsPromise, checked by the run
\* connection_request.
THEOREM ConnectionKeepsPromise == Spec => KeepsPromise
<1> QED BY InitIInv, NextIInv, InitPromise, NextPromise, PTL DEF Spec, KeepsPromise, Promise!Spec

(***************************************************************************)
(* Giving up                                                               *)
(***************************************************************************)
\* connect() gives up after as many retries as the configuration says, not
\* earlier and not later, and with -1 it does not give up: GivesUpInTime, checked
\* by the run connection_request.  Config says nothing of other numbers that are
\* not positive; with 0 the code goes on for ever, too.
THEOREM ConnectionGivesUp ==
    ASSUME retries > 0 \/ retries = -1 PROVE Spec => []GivesUpInTime
<1> USE ConnectionAssumption
<1>1. Init => Tries
  BY DEF Init, Tries, GivesUpInTime
<1>2. ASSUME TypeOK, Tries, [Next]_vars PROVE Tries'
  <2>1. tries \in Nat /\ retries \in Int
    BY <1>2 DEF TypeOK
  <2>2. CASE UNCHANGED <<pc, tries>>
    BY <1>2, <2>2 DEF Tries, GivesUpInTime
  <2>3. CASE pc' = "connect" /\ tries' = 0
    BY <2>3 DEF Tries, GivesUpInTime
  <2>4. CASE ConnectFails
    <3>1. pc = "connect" /\ tries' = tries + 1 /\ (retries = -1 \/ tries <= retries)
      BY <1>2, <2>4 DEF ConnectFails, Tries
    <3>2. pc' = IF retries > 0 /\ tries' > retries THEN "stuck" ELSE "connect"
      BY <2>4 DEF ConnectFails
    <3> QED BY <2>1, <3>1, <3>2 DEF Tries, GivesUpInTime
  <2>5. CASE pc' \notin {"connect", "stuck"} /\ UNCHANGED tries
    BY <1>2, <2>5 DEF Tries, GivesUpInTime
  <2>6. ASSUME NEW i \in Ids, Ask(i) PROVE pc' \notin {"connect", "stuck"} /\ UNCHANGED tries
    BY <2>6 DEF Ask
  <2>7. ASSUME NEW l, ReadEnds(l) PROVE pc' \notin {"connect", "stuck"} /\ UNCHANGED tries
    BY <2>7 DEF ReadEnds, Answered, GoOn
  <2>8. ASSUME ReadFails
        PROVE  (pc' = "connect" /\ tries' = 0) \/ (pc' \notin {"connect", "stuck"} /\ UNCHANGED tries)
    BY <2>8 DEF ReadFails, AfterError, ToReconnect, ToCaller, Failed
  <2>9. ASSUME ConnectSucceeds \/ Drops PROVE pc' \notin {"connect", "stuck"} /\ UNCHANGED tries
    BY <2>9 DEF ConnectSucceeds, Drops
  <2>10. ASSUME Reload PROVE pc' = "connect" /\ tries' = 0
    BY <2>10 DEF Reload
  <2>11. ASSUME ReadPair \/ ReadJunk \/ MpdAnswers \/ Breaks \/ UNCHANGED vars
         PROVE  UNCHANGED <<pc, tries>>
    BY <2>11 DEF ReadPair, ReadJunk, MpdAnswers, Breaks, vars
  <2> QED BY <1>2, <2>2, <2>3, <2>4, <2>5, <2>6, <2>7, <2>8, <2>9, <2>10, <2>11
          DEF Next, Client, Ended
<1>3. Tries => GivesUpInTime
  BY DEF Tries
<1> QED BY <1>1, <1>2, <1>3, ConnectionTypes, PTL DEF Spec
=============================================================================
