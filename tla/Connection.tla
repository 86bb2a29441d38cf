----------------------------- MODULE Connection -----------------------------
(***************************************************************************)
(* One connection to MPD, with MPD at its other end                        *)
(* (src/client/connection.rs): requests and the lines of their answers on  *)
(* the stream, the reconnection after any error with the greeting and      *)
(* "binarylimit", the one repetition of the request, and the attempts to   *)
(* connect.                                                                *)
(*                                                                         *)
(* The connection is locked while it is used (see Client), so there is one *)
(* request at a time.  A request is a number, in the order of asking, and  *)
(* a line carries the number of the request it answers; what the key-value *)
(* pairs say is in Status.  The connection may break at any time: MPD then *)
(* has carried out what it had received or not, and what it had sent       *)
(* arrives up to some line.                                                *)
(***************************************************************************)
EXTENDS Integers, Sequences

CONSTANTS
    MaxRequests,    \* bound on the requests asked for
    retries,        \* Config.retries
    Answers,        \* the answers of MPD, as sequences of kinds of lines
    MaxBreaks,      \* bound on the times the connection breaks
    MaxTries        \* bound on the attempts to connect one after the other

\* "pair" is a line "key: value", "junk" any other line inside an answer.
LineKinds == {"pair", "junk", "OK", "ACK"}

ASSUME ConnectionAssumption ==
    /\ MaxRequests \in Nat /\ MaxBreaks \in Nat /\ MaxTries \in Nat /\ retries \in Int
    /\ \A s \in Answers : /\ s \in Seq(LineKinds) /\ s # <<>>
                         /\ \A j \in DOMAIN s : s[j] \in {"OK", "ACK"} <=> j = Len(s)

Ids == 1..MaxRequests
Nobody == 0         \* the request of the greeting and of "binarylimit"
Numbers == Ids \cup {Nobody}
AnyLine == [kind : LineKinds, of : Numbers]

VARIABLES
    pc,      \* where the caller is, see Pcs
    req,     \* the request being made; Nobody in MPDClient::reconnect
    inbox,   \* what MPD has received and not carried out, as a sequence
    wire,    \* the lines on their way to the client
    open,    \* the stream is up
    junk,    \* failed_parses of the read_data in progress
    tries,   \* attempts of the connect() in progress
    breaks,  \* how often the connection broke
    ran,     \* how often MPD carried out each request
    result,  \* what the caller of each request got
    answer,  \* the request whose last line ended the answer he got
    left     \* lines of an answer were left on the stream, or will come
vars == <<pc, req, inbox, wire, open, junk, tries, breaks, ran, result, answer, left>>

\* "idle": unlocked; "first": reading the answer of the first attempt;
\* "connect", "greeting", "limit": reconnecting; "again": the second attempt;
\* "dropped": the idle task let go of its request, main will reconnect;
\* "stuck": out of retries; "down": a reload failed, the process ends.
Pcs == {"idle", "first", "connect", "greeting", "limit", "again", "dropped", "stuck", "down"}
Reading == {"first", "greeting", "limit", "again"}

Line(k, i) == [kind |-> k, of |-> i]
Lines(s, i) == [j \in DOMAIN s |-> Line(s[j], i)]
Greeting == <<Line("OK", Nobody)>>

\* A connection that was just made by MPDConnection::new.
Init ==
    /\ pc = "idle" /\ req = Nobody
    /\ inbox = <<>> /\ wire = <<>> /\ open = TRUE
    /\ junk = 0 /\ tries = 0 /\ breaks = 0
    /\ ran = [i \in Ids |-> 0]
    /\ result = [i \in Ids |-> "none"]
    /\ answer = [i \in Ids |-> Nobody]
    /\ left = FALSE

(***************************************************************************)
(* MPD                                                                     *)
(***************************************************************************)
Ran(i) == IF i = Nobody THEN ran ELSE [ran EXCEPT ![i] = @ + 1]

\* MPD carries out a request and sends its answer.
MpdAnswers ==
    /\ open /\ inbox # <<>>
    /\ \E s \in Answers : wire' = wire \o Lines(s, Head(inbox))
    /\ ran' = Ran(Head(inbox))
    /\ inbox' = Tail(inbox)
    /\ UNCHANGED <<pc, req, open, junk, tries, breaks, result, answer, left>>

\* The connection breaks, before or after MPD carried out what it received.
Breaks ==
    /\ open /\ breaks < MaxBreaks
    /\ open' = FALSE /\ breaks' = breaks + 1
    /\ \E n \in 0..Len(wire) : wire' = SubSeq(wire, 1, n)
    /\ inbox' = <<>>
    /\ \/ UNCHANGED ran
       \/ inbox # <<>> /\ ran' = Ran(Head(inbox))
    /\ UNCHANGED <<pc, req, junk, tries, result, answer, left>>

(***************************************************************************)
(* request_data                                                            *)
(***************************************************************************)
\* request_data_in writes the request; on a broken stream it gets nowhere.
Send(i) == inbox' = IF open THEN Append(inbox, i) ELSE inbox

Ask(i) ==
    /\ pc = "idle" /\ result[i] = "none" /\ \A j \in 1..(i - 1) : result[j] # "none"
    /\ Send(i)
    /\ pc' = "first" /\ req' = i /\ junk' = 0
    /\ result' = [result EXCEPT ![i] = "pending"]
    /\ UNCHANGED <<wire, open, tries, breaks, ran, answer, left>>

\* The caller gets an answer that ended with line l, or an error.
Answered(l) ==
    /\ result' = [result EXCEPT ![req] = "ok"]
    /\ answer' = [answer EXCEPT ![req] = l.of]
    /\ pc' = "idle" /\ req' = Nobody
    /\ UNCHANGED <<inbox, junk>>
Failed ==
    /\ pc' = IF req = Nobody THEN "down" ELSE "idle"
    /\ req' = Nobody
    /\ result' = IF req = Nobody THEN result ELSE [result EXCEPT ![req] = "error"]

\* after_connect goes on to "binarylimit", then the request is made again;
\* a reload is done.
GoOn ==
    /\ UNCHANGED answer
    /\ \/ /\ pc = "greeting"
          /\ Send(Nobody) /\ pc' = "limit" /\ junk' = 0 /\ UNCHANGED <<req, result>>
       \/ /\ pc = "limit" /\ req # Nobody
          /\ Send(req) /\ pc' = "again" /\ junk' = 0 /\ UNCHANGED <<req, result>>
       \/ /\ pc = "limit" /\ req = Nobody
          /\ pc' = "idle" /\ UNCHANGED <<req, inbox, junk, result>>

\* read_data meets a line starting with "OK".
ReadEnds(l) ==
    /\ pc \in Reading /\ wire # <<>> /\ Head(wire) = l /\ l.kind = "OK"
    /\ wire' = Tail(wire)
    /\ IF pc \in {"first", "again"} THEN Answered(l) ELSE GoOn
    /\ UNCHANGED <<open, tries, breaks, ran, left>>

ReadPair ==
    /\ pc \in Reading /\ wire # <<>> /\ Head(wire).kind = "pair"
    /\ wire' = Tail(wire)
    /\ UNCHANGED <<pc, req, inbox, open, junk, tries, breaks, ran, result, answer, left>>

\* Mutant for TypeOK: the limit is tested before the line is counted.
ReadJunkLate ==
    /\ pc \in Reading /\ wire # <<>> /\ Head(wire).kind = "junk" /\ junk < 3
    /\ wire' = Tail(wire) /\ junk' = junk + 1
    /\ UNCHANGED <<pc, req, inbox, open, tries, breaks, ran, result, answer, left>>

ReadJunk ==
    /\ pc \in Reading /\ wire # <<>> /\ Head(wire).kind = "junk" /\ junk < 2
    /\ wire' = Tail(wire) /\ junk' = junk + 1
    /\ UNCHANGED <<pc, req, inbox, open, tries, breaks, ran, result, answer, left>>

\* read_data returns an error: an ACK, the end of the stream, or the third
\* line that is no pair, which leaves the rest of the answer unread.
AtJunk == wire # <<>> /\ Head(wire).kind = "junk"
ReadError ==
    \/ wire = <<>> /\ ~open /\ UNCHANGED wire
    \/ wire # <<>> /\ Head(wire).kind = "ACK" /\ wire' = Tail(wire)
    \/ AtJunk /\ junk = 2 /\ wire' = Tail(wire)

ToReconnect == pc' = "connect" /\ tries' = 0 /\ UNCHANGED <<req, result, left>>
ToCaller == /\ Failed /\ UNCHANGED tries
            /\ left' = (left \/ (req # Nobody /\ AtJunk))

\* Mutant for KeepsPromise: request_data calls itself after reconnecting.
AfterErrorRetries == IF pc \in {"first", "again"} THEN ToReconnect ELSE ToCaller
\* Mutant for RequestReturns: read_line's 0 at the end of the stream is not
\* looked at.
AfterErrorInLoop == IF wire = <<>> THEN UNCHANGED <<pc, tries, req, result, left>>
                    ELSE IF pc = "first" THEN ToReconnect ELSE ToCaller

\* The first error makes request_data reconnect, any other one is returned.
AfterError == IF pc = "first" THEN ToReconnect ELSE ToCaller

ReadFails ==
    /\ pc \in Reading /\ ReadError /\ AfterError
    /\ UNCHANGED <<inbox, open, junk, breaks, ran, answer>>

(***************************************************************************)
(* connect and reconnect                                                   *)
(***************************************************************************)
ConnectSucceeds ==
    /\ pc = "connect"
    /\ open' = TRUE /\ inbox' = <<>> /\ wire' = Greeting
    /\ pc' = "greeting" /\ junk' = 0 /\ left' = FALSE
    /\ UNCHANGED <<req, tries, breaks, ran, result, answer>>

\* Mutant for GivesUpInTime: the attempts are compared as if the first one
\* were a retry.
ConnectFailsEarly ==
    /\ pc = "connect" /\ tries < MaxTries
    /\ tries' = tries + 1
    /\ pc' = IF retries > 0 /\ tries' >= retries THEN "stuck" ELSE "connect"
    /\ UNCHANGED <<req, inbox, wire, open, junk, breaks, ran, result, answer, left>>

\* After the last retry the task signals the process and stops for ever;
\* a number of retries that is not positive is never used up.
ConnectFails ==
    /\ pc = "connect" /\ tries < MaxTries
    /\ tries' = tries + 1
    /\ pc' = IF retries > 0 /\ tries' > retries THEN "stuck" ELSE "connect"
    /\ UNCHANGED <<req, inbox, wire, open, junk, breaks, ran, result, answer, left>>

\* The idle task drops its request wherever it is (see Client's IdleAbandons).
Drops ==
    /\ pc \in (Reading \cup {"connect"}) /\ req # Nobody
    /\ pc' = "dropped" /\ req' = Nobody
    /\ result' = [result EXCEPT ![req] = "error"]
    /\ left' = TRUE
    /\ UNCHANGED <<inbox, wire, open, junk, tries, breaks, ran, answer>>

\* MPDClient::reconnect, for a reload.
Reload ==
    /\ pc \in {"idle", "dropped"}
    /\ pc' = "connect" /\ tries' = 0
    /\ UNCHANGED <<req, inbox, wire, open, junk, breaks, ran, result, answer, left>>

Client == \/ \E i \in Ids : Ask(i)
          \/ \E l \in {Line("OK", i) : i \in Numbers} : ReadEnds(l)
          \/ ReadPair \/ ReadJunk \/ ReadFails
          \/ ConnectSucceeds \/ ConnectFails \/ Drops \/ Reload

\* The process is on its way out.
Ended == pc \in {"stuck", "down"} /\ UNCHANGED vars

Next == MpdAnswers \/ Breaks \/ Client \/ Ended

Spec == Init /\ [][Next]_vars

(***************************************************************************)
(* Fairness: MPD answers every request (an "idle" that waits for long is   *)
(* one that is dropped or answered after a change), a task that can read a *)
(* line does, and an attempt to connect ends.                              *)
(***************************************************************************)
Reads == \/ \E l \in {Line("OK", i) : i \in Numbers} : ReadEnds(l)
         \/ ReadPair \/ ReadJunk \/ ReadFails
Fairness == /\ WF_vars(MpdAnswers) /\ WF_vars(Reads)
            /\ WF_vars(ConnectSucceeds \/ ConnectFails)
FairSpec == Spec /\ Fairness

(***************************************************************************)
(* Properties                                                              *)
(***************************************************************************)
\* Types; the counter failed_parses never passes 2 while lines are read, as the
\* third line that is no pair ends the answer.
TypeOK ==
    /\ pc \in Pcs /\ req \in Numbers
    /\ inbox \in Seq(Numbers)
    /\ wire \in Seq(AnyLine)
    /\ open \in BOOLEAN /\ junk \in 0..2 /\ tries \in Nat /\ breaks \in Nat
    /\ ran \in [Ids -> Nat]
    /\ result \in [Ids -> {"none", "pending", "ok", "error"}]
    /\ answer \in [Ids -> Numbers]
    /\ left \in BOOLEAN

Promise == INSTANCE Request WITH inStep <- ~left

\* request_data, with its lines, breaks, reconnections and its repetition, keeps
\* what Request promises: in particular a command is carried out at most twice,
\* an Ok is the answer to the caller's own request, carried out before, and
\* answers get out of step only after a request that failed.
KeepsPromise == Promise!Spec

\* A request returns, or its retries are used up: each attempt ends with an
\* answer or an error, and there are two.
RequestReturns ==
    \A i \in Ids : result[i] = "pending" ~> (result[i] # "pending" \/ pc = "stuck")

\* connect() gives up after as many retries as the configuration says, not
\* earlier and not later; only -1 is documented to go on for ever.
GivesUpInTime ==
    /\ retries # -1 => tries <= retries + 1
    /\ pc = "stuck" => tries = retries + 1
=============================================================================
