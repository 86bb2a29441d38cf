----------------------------- MODULE MCService -----------------------------
(* Small instances of Service for TLC. *)
EXTENDS Service

SomeDefaults == [addr |-> "local", port |-> 6600, retries |-> 3,
                 music_directory |-> "Music", cover_directory |-> "$COVERS"]
\* One variable that is set, and that a default path happens to name.
SomeExpand(path) == IF path = "$COVERS" THEN "covers" ELSE path
\* No argument; an address and retries without end.
SomeArguments == {Empty, [addr |-> "args", retries |-> -1]}
SomeEnvironments == {Empty, [addr |-> "env"], [port |-> Bad]}
\* A file of some entries, and one that cannot be read.
SomeContents == {[addr |-> "file", cover_directory |-> "$COVERS"], Broken}
=============================================================================
