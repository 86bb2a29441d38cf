----------------------------- MODULE AckParser -----------------------------
(***************************************************************************)
(* The automaton that reads MPD's refusals, Error::try_from_mpd of         *)
(* src/client/error.rs, and the form of the line it is meant to read.      *)
(* A line is a sequence of one-character strings; positions count from 0,  *)
(* as in the code.                                                         *)
(***************************************************************************)
EXTENDS Integers, Sequences

\* Characters with a name of their own.
Space == " "
LeftBrace == "{"
RightBrace == "}"
Digits == {"0", "1", "2", "3", "4", "5", "6", "7", "8", "9"}
Digit == [c \in Digits |->
    CASE c = "0" -> 0 [] c = "1" -> 1 [] c = "2" -> 2 [] c = "3" -> 3 [] c = "4" -> 4
      [] c = "5" -> 5 [] c = "6" -> 6 [] c = "7" -> 7 [] c = "8" -> 8 [] c = "9" -> 9]

\* The value of the digits s[i..j].
Number(s, i, j) ==
    LET val[n \in (i - 1)..j] == IF n < i THEN 0 ELSE val[n - 1] * 10 + Digit[s[n]]
    IN val[j]

\* ErrorKind::from_code knows these, and a number is at most 255.
Codes == (1..5) \cup (50..56)
MaxU8 == 255

Failure(kind, pos) == [ok |-> FALSE, kind |-> kind, pos |-> pos]
Success(code, list, command, message) ==
    [ok |-> TRUE, code |-> code, list |-> list, command |-> command, message |-> message]

\* The automaton: its state, the start of the part it reads, and the parts.
None == -1
Start == [state |-> "FindACK", begin |-> 0, code |-> None, list |-> None,
          command |-> <<>>, error |-> <<>>]
Fails(p, kind, pos) == [p EXCEPT !.error = <<Failure(kind, pos)>>]
Moves(p, state) == [p EXCEPT !.state = state]

Before(s, p, i) == SubSeq(s, p.begin + 1, i)        \* output[begin..i]

Parsed(s, p, i) == IF p.begin = i THEN None ELSE Number(s, p.begin + 1, i)

\* Mutant for AckErrorPlaced: the position is one too far.
EndOfCodeOff(s, p, i) ==
    IF Parsed(s, p, i) \in Codes
    THEN [p EXCEPT !.code = Parsed(s, p, i), !.begin = i + 1, !.state = "GetListNum"]
    ELSE Fails(p, "InvalidCode", p.begin + 1)

\* A code that is no number or too large is reported like one that is unknown:
\* the errors made for those are dropped.
EndOfCode(s, p, i) ==
    IF Parsed(s, p, i) \in Codes
    THEN [p EXCEPT !.code = Parsed(s, p, i), !.begin = i + 1, !.state = "GetListNum"]
    ELSE Fails(p, "InvalidCode", p.begin)

\* Mutant for AckParsed: the list number may be of any size.
EndOfListWide(s, p, i) ==
    IF Parsed(s, p, i) # None
    THEN [p EXCEPT !.list = Parsed(s, p, i), !.state = "FindLeftBrace"]
    ELSE Fails(p, "ExpectedNumber", i)

EndOfList(s, p, i) ==
    IF Parsed(s, p, i) \in 0..MaxU8
    THEN [p EXCEPT !.list = Parsed(s, p, i), !.state = "FindLeftBrace"]
    ELSE Fails(p, "ExpectedNumber", i)

\* One round of the loop: the character at position i.
Reads(s, p, i) ==
    LET c == s[i + 1]
    IN CASE p.state = "FindACK" ->
              IF i >= 3 THEN Moves(p, "FindLeftBracket")        \* skips a character
              ELSE IF c = <<"A", "C", "K">>[i + 1] THEN p ELSE Fails(p, "UnexpectedSymbol", i)
         [] p.state = "FindLeftBracket" ->
              IF c = "[" THEN [p EXCEPT !.begin = i + 1, !.state = "GetErrorType"]
              ELSE IF c = Space THEN p ELSE Fails(p, "UnexpectedSymbol", i)
         [] p.state = "GetErrorType" ->
              IF c = "@" THEN EndOfCode(s, p, i)
              ELSE IF c \in Digits THEN p ELSE Fails(p, "ExpectedNumber", i)
         [] p.state = "GetListNum" ->
              IF c = "]" THEN EndOfList(s, p, i)
              ELSE IF c \in Digits THEN p ELSE Fails(p, "ExpectedNumber", i)
         [] p.state = "FindLeftBrace" ->
              IF c = LeftBrace THEN [p EXCEPT !.begin = i + 1, !.state = "GetFailedCommand"]
              ELSE IF c = Space THEN p ELSE Fails(p, "UnexpectedSymbol", i)
         [] p.state = "GetFailedCommand" ->
              IF c = RightBrace THEN [p EXCEPT !.command = <<Before(s, p, i)>>, !.begin = i + 1,
                                        !.state = "Done"]
              ELSE p
         [] p.state = "Done" -> p                               \* break

\* The loop stops at the first error.
Automaton(s) ==
    LET run[n \in 0..Len(s)] ==
            IF n = 0 THEN Start
            ELSE LET p == run[n - 1] IN IF p.error # <<>> THEN p ELSE Reads(s, p, n - 1)
    IN run[Len(s)]

Blank(s) == \A j \in DOMAIN s : s[j] = Space
\* str::trim
Trimmed(s) ==
    IF Blank(s) THEN <<>>
    ELSE LET first == CHOOSE j \in DOMAIN s : s[j] # Space /\ \A k \in 1..(j - 1) : s[k] = Space
             last == CHOOSE j \in DOMAIN s : s[j] # Space /\ \A k \in (j + 1)..Len(s) : s[k] = Space
         IN SubSeq(s, first, last)

TryFromMpd(s) ==
    LET p == Automaton(s)
        message == SubSeq(s, p.begin + 1, Len(s))
    IN IF s = <<>> THEN Failure("EmptyString", 0)
       ELSE IF p.error # <<>> THEN p.error[1]
       ELSE IF p.code = None \/ p.list = None \/ p.command = <<>> \/ Blank(message)
       THEN Failure("UnexpectedSymbol", Len(s) - 1)
       ELSE Success(p.code, p.list, p.command[1], Trimmed(message))

(***************************************************************************)
(* The line, "ACK [error@command_listNum] {current_command} message_text", *)
(* by the places of its brackets.  What is accepted beside it has another  *)
(* character than a space after "ACK", or more or no spaces before "[" and *)
(* LeftBrace.                                                                    *)
(***************************************************************************)
Place(s, c, from) ==
    IF \E j \in from..Len(s) : s[j] = c
    THEN CHOOSE j \in from..Len(s) : s[j] = c /\ \A k \in from..(j - 1) : s[k] # c
    ELSE 0
Spaces(s, i, j) == \A k \in i..j : s[k] = Space
IsNumber(s, i, j, set) ==
    i <= j /\ (\A k \in i..j : s[k] \in Digits) /\ Number(s, i, j) \in set

Brackets(s) ==
    LET i == Place(s, "[", 5)
        j == Place(s, "@", i + 1)
        k == Place(s, "]", j + 1)
        l == Place(s, LeftBrace, k + 1)
        m == Place(s, RightBrace, l + 1)
    IN <<i, j, k, l, m>>

\* codes and lists are the numbers allowed.
Conforms(s, codes, lists) ==
    LET b == Brackets(s)
    IN /\ Len(s) > 3 /\ SubSeq(s, 1, 3) = <<"A", "C", "K">>
       /\ b[1] > 4 /\ Spaces(s, 5, b[1] - 1)
       /\ b[2] > b[1] /\ IsNumber(s, b[1] + 1, b[2] - 1, codes)
       /\ b[3] > b[2] /\ IsNumber(s, b[2] + 1, b[3] - 1, lists)
       /\ b[4] > b[3] /\ Spaces(s, b[3] + 1, b[4] - 1)
       /\ b[5] > b[4] /\ ~Blank(SubSeq(s, b[5] + 1, Len(s)))

Meaning(s) ==
    LET b == Brackets(s)
    IN Success(Number(s, b[1] + 1, b[2] - 1), Number(s, b[2] + 1, b[3] - 1),
               SubSeq(s, b[4] + 1, b[5] - 1), Trimmed(SubSeq(s, b[5] + 1, Len(s))))

\* The ends of a line of that form: s is the start of one if one of them fits.
Example == <<"A", "C", "K", Space, "[", "5", "@", "2", "]", Space, LeftBrace, "x", RightBrace, Space, "x">>
Continues(s) == \E n \in 1..(Len(Example) + 1) :
                    Conforms(s \o SubSeq(Example, n, Len(Example)), Nat, Nat)
=============================================================================
