---------------------------- MODULE MCConnection ----------------------------
(* Small instances of Connection for TLC. *)
EXTENDS Connection

\* Empty, with pairs, refused, after a part of a command list, and with lines
\* that are no pairs, up to one too many.
SomeAnswers == {<<"OK">>, <<"pair", "pair", "OK">>, <<"ACK">>, <<"pair", "ACK">>,
                <<"junk", "pair", "junk", "OK">>, <<"junk", "junk", "junk", "OK">>,
                <<"junk", "junk", "junk", "pair", "ACK">>}
=============================================================================
