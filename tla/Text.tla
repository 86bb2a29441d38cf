-------------------------------- MODULE Text --------------------------------
(***************************************************************************)
(* The parts of the program that read text, on every input up to a length. *)
(* One of them is chosen, and its input grows character by character; for  *)
(* the search of a cover, the files there are do.                          *)
(***************************************************************************)
EXTENDS AckParser, FiniteSets

CONSTANTS
    Variables, Home, NameChars,                     \* see ExpandPath
    IMG_EXTS, cover_directory, music_directory,     \* see Covers
    Songs,          \* the paths of songs
    Alphabet,       \* for each job, the characters of its input
    MaxLength,      \* for each job, the longest input
    MaxFiles        \* the most files that look like covers

Path == INSTANCE ExpandPath
Covers == INSTANCE Covers

Jobs == {"ack", "path", "cover"}
ASSUME TextAssumption ==
    /\ DOMAIN Alphabet = Jobs /\ MaxLength \in [Jobs -> Nat] /\ MaxFiles \in Nat
    /\ Songs \subseteq Seq(Seq(STRING)) \ {<<>>}
    /\ cover_directory \in Seq(Seq(STRING)) /\ music_directory \in Seq(Seq(STRING))
    \* Names are letters, digits and "_".
    /\ Home \in Seq(STRING) /\ Path!Dollar \notin NameChars
    /\ Variables \in [DOMAIN Variables -> Seq(STRING)]

VARIABLES job, input, files
vars == <<job, input, files>>

(***************************************************************************)
(* The inputs                                                              *)
(***************************************************************************)
Init == /\ job \in Jobs /\ files = {}
        /\ input \in IF job = "cover" THEN Songs ELSE {<<>>}

\* try_from_mpd stops at the first error, so nothing after it matters; a fourth
\* digit is like the third; the fourth character, and those inside and after the
\* braces, are all like "x".
Matters(c) ==
    job = "ack" => LET p == Automaton(input)
                   IN /\ p.error = <<>>
                      /\ Len(input) = 3 => c \in {"x", Space, "["}
                      /\ p.state \in {"GetErrorType", "GetListNum"} /\ Len(input) - p.begin >= 3
                            => c \notin Digits
                      /\ p.state = "GetFailedCommand" => c \in {"x", Space, RightBrace}
                      /\ p.state = "Done" => c \in {"x", Space}
Type(c) ==
    /\ job # "cover" /\ Len(input) < MaxLength[job] /\ Matters(c)
    /\ input' = Append(input, c) /\ UNCHANGED <<job, files>>

Looked == Covers!Tried(input) \o Covers!Documented(input)
Create(f) ==
    /\ job = "cover" /\ f \notin files
    /\ Cardinality(files) < MaxFiles
    /\ files' = files \cup {f} /\ UNCHANGED <<job, input>>

Next == \/ \E c \in Alphabet[job] : Type(c)
        \/ job = "cover" /\ \E j \in DOMAIN Looked : Create(Looked[j])
Spec == Init /\ [][Next]_vars

(***************************************************************************)
(* Properties                                                              *)
(***************************************************************************)
\* try_from_mpd takes a refusal apart as MPD put it together, and accepts nothing
\* but such lines, apart from the spaces between their parts.
AckParsed ==
    job = "ack" =>
        LET r == TryFromMpd(input)
        IN /\ r.ok <=> Conforms(input, Codes, 0..MaxU8)
           /\ r.ok => r = Meaning(input)

\* It fails at the first character with which the line cannot be a refusal, or at
\* the end if the line only is too short, and says so by the position; a number
\* that is out of range is noticed when it ends.
AckErrorPlaced ==
    (job = "ack" /\ input # <<>>) =>
        LET r == TryFromMpd(input)
        IN ~r.ok =>
              /\ Continues(SubSeq(input, 1, r.pos))
              /\ r.kind # "InvalidCode" => r.pos = Len(input) - 1
              /\ r.kind = "InvalidCode" => input[r.pos] = "["

\* Paths without backslashes expand as the comments say, apart from a name of one
\* character at the end; so do paths with one dollar sign and no "~/".  For "~/" the
\* home directory has to have a name, or else the "~" stays.
PathExpanded ==
    job = "path" =>
        LET dollars == {j \in DOMAIN input : input[j] = Path!Dollar}
        IN (/\ \/ \A j \in DOMAIN input : input[j] # Path!Backslash
               \/ (\A j, k \in dollars : j = k) /\ ~Path!Tilde(input)
            /\ Home = <<>> => ~Path!Tilde(input))
              => Path!ExpandPath(input) = Path!Meant(input, 2)

\* Every path expands as the comments say, apart from that.
PathExpandedAlways == job = "path" => Path!ExpandPath(input) = Path!Meant(input, 2)

\* The cover of a song is the first file in the documented order, unless its
\* directory has a dot in its name.
CoverFound ==
    (job = "cover" /\ (Len(input) > 1 => ~Covers!HasExtension(input[Len(input) - 1]))) =>
        Covers!Cover(input, files) = Covers!Found(Covers!Documented(input), files)
=============================================================================
