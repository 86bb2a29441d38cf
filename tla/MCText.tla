------------------------------- MODULE MCText -------------------------------
(* Small instances of Text for TLC. *)
EXTENDS Text, TLC

\* A variable of one character, one of two that extends it, and none of the others.
SomeVariables == <<"a">> :> <<"/", "v">> @@ <<"a", "b">> :> <<"w">>
SomeHome == <<"h">>
SomeNameChars == {"a", "b"}

SomeExtensions == <<"jpg", "png">>
InCovers == << <<"covers">> >>
InMusic == << <<"music">> >>
SomeSongs == { << <<"song", "mp3">> >>,
               << <<"artist">>, <<"song", "mp3">> >>,
               << <<"artist">>, <<"", "hidden">>, <<"live", "song", "mp3">> >>,
               << <<"artist">>, <<"vol", "2">>, <<"song", "mp3">> >>,
               << <<"artist", "jr">>, <<"album">>, <<"song">> >> }

\* Of the digits, enough for codes that are known and not, and for 255 and 256.
Letters == [ack |-> {"A", "C", "K", " ", "[", "]", "@", "{", "}", "x", "2", "5", "6"},
            path |-> {"~", "/", "$", "\\", "a", "b"},
            cover |-> {}]
Lengths == [ack |-> 15, path |-> 6, cover |-> 0]
=============================================================================
