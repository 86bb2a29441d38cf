----------------------------- MODULE ExpandPath -----------------------------
(***************************************************************************)
(* expand_path of src/util/expand.rs, for paths of the configuration file, *)
(* and what its comments and tests say it does.  A path is a sequence of   *)
(* one-character strings of one byte each; Variables is the environment,   *)
(* a function from names to values, and Home is HOME_DIR.                  *)
(***************************************************************************)
EXTENDS Integers, Sequences

CONSTANTS Variables, Home, NameChars

Dollar == "$"
Backslash == "\\"

Find(s, c) == IF \E j \in DOMAIN s : s[j] = c
              THEN CHOOSE j \in DOMAIN s : s[j] = c /\ \A k \in 1..(j - 1) : s[k] # c
              ELSE 0
From(s, j) == SubSeq(s, j, Len(s))
Upto(s, j) == SubSeq(s, 1, j)

\* How many of the characters before the end are backslashes.
Backslashes(s) ==
    CHOOSE n \in 0..Len(s) :
        /\ \A j \in (Len(s) - n + 1)..Len(s) : s[j] = Backslash
        /\ n < Len(s) => s[Len(s) - n] # Backslash
IsCharEscaped(s) == Backslashes(s) % 2 = 1

\* The length of the name at the start of s.
NameLength(s) == CHOOSE n \in 0..Len(s) : /\ \A j \in 1..n : s[j] \in NameChars
                                          /\ n < Len(s) => s[n + 1] \notin NameChars

Value(name) == IF name \in DOMAIN Variables THEN Variables[name] ELSE <<Dollar>> \o name

Tilde(s) == Len(s) >= 2 /\ s[1] = "~" /\ s[2] = "/"

\* What a loop has left of s and has put out, and the same with the name of n
\* characters after the dollar sign replaced.
Loop(from, out) == [from |-> from, out |-> out]

\* Mutant for PathExpanded: the character after the name gets lost.
SubstitutedPast(l, rest, dollar, n) ==
    Loop(l.from + dollar + n + 1,
         l.out \o Upto(rest, dollar - 1) \o Value(SubSeq(rest, dollar + 1, dollar + n)))

Substituted(l, rest, dollar, n) ==
    Loop(l.from + dollar + n,
         l.out \o Upto(rest, dollar - 1) \o Value(SubSeq(rest, dollar + 1, dollar + n)))

\* A round of the loop over the dollar signs of s, at the next of them in the rest.
\* The test whether it is escaped takes as many characters of the whole path as
\* there are before it in the rest.
Round(s, l, rest, dollar) ==
    LET after == From(rest, dollar + 1)
    IN IF Len(after) <= 1 \/ after[1] \notin NameChars \/ IsCharEscaped(Upto(s, dollar - 1))
       THEN Loop(l.from + dollar, l.out \o Upto(rest, dollar))
       ELSE Substituted(l, rest, dollar, NameLength(after))

Step(s, l) == LET rest == From(s, l.from)
              IN IF Find(rest, Dollar) = 0 THEN l ELSE Round(s, l, rest, Find(rest, Dollar))

\* The rest starts after a "~" when the home directory is put out for it.
Start(s) == IF Tilde(s) /\ Home # <<>> THEN Loop(2, Home) ELSE Loop(1, <<>>)

Expansion(s) ==
    LET loop[n \in 0..Len(s)] == IF n = 0 THEN Start(s) ELSE Step(s, loop[n - 1])
        last == loop[Len(s)]
    IN last.out \o From(s, last.from)

ExpandPath(s) ==
    IF s = <<"~">> THEN Home
    ELSE IF (\A j \in DOMAIN s : s[j] \notin {Dollar, "~"}) \/ Len(s) < 2 THEN s
    ELSE Expansion(s)

(***************************************************************************)
(* The comments: "~" and "~/" at the start stand for the home directory; a *)
(* dollar sign with a name after it stands for the variable, unless it is  *)
(* escaped by an odd number of backslashes before it, or undefined.        *)
(***************************************************************************)
\* The name after the character at d, and whether it stands for a variable: minimum
\* is how many characters have to follow a dollar sign.
NameAt(s, d) == Upto(From(s, d + 1), NameLength(From(s, d + 1)))
Named(s, d, minimum) ==
    /\ s[d] = Dollar /\ NameLength(From(s, d + 1)) >= 1
    /\ Len(s) - d >= minimum
    /\ ~IsCharEscaped(Upto(s, d - 1))
InName(s, j, minimum) ==
    \E d \in 1..(j - 1) : Named(s, d, minimum) /\ d + NameLength(From(s, d + 1)) >= j

\* The character at j ends up as these.
Contribution(s, j, minimum) ==
    IF InName(s, j, minimum) THEN <<>>
    ELSE IF Named(s, j, minimum) THEN Value(NameAt(s, j))
    ELSE IF j = 1 /\ (s = <<"~">> \/ Tilde(s)) THEN Home
    ELSE <<s[j]>>

Meant(s, minimum) ==
    LET upto[j \in 0..Len(s)] == IF j = 0 THEN <<>> ELSE upto[j - 1] \o Contribution(s, j, minimum)
    IN upto[Len(s)]
=============================================================================
