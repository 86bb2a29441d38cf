------------------------------- MODULE Covers -------------------------------
(***************************************************************************)
(* The search for the cover of a song, Song::try_set_cover_url of          *)
(* src/client/status.rs, and the order README.md and the man page give.    *)
(* A path is a sequence of names and a name a sequence of the parts        *)
(* between its dots.                                                       *)
(***************************************************************************)
EXTENDS Integers, Sequences, SequencesExt

CONSTANTS
    IMG_EXTS,       \* the extensions, in order
    cover_directory, music_directory

\* Path::extension is what follows the last dot, if there is something before it;
\* set_extension replaces it or adds one.
HasExtension(name) == Len(name) > 2 \/ (Len(name) = 2 /\ name[1] # "")
Stem(name) == IF HasExtension(name) THEN Front(name) ELSE name
SetExtension(path, ext) == Front(path) \o << Stem(Last(path)) \o <<ext>> >>
WithFileName(path, name) == Front(path) \o <<name>>

\* Mutant for CoverFound: the parent is looked for like a song.
CandidatesDeep(uri) ==
    LET inMusic == music_directory \o uri
    IN << cover_directory \o uri >>
       \o (IF Len(uri) > 1 THEN << cover_directory \o uri >> ELSE <<>>)
       \o << inMusic, WithFileName(inMusic, <<"cover">>) >>

\* The parent of a song that lies in no directory is empty and has no parent.
Candidates(uri) ==
    LET inMusic == music_directory \o uri
    IN << cover_directory \o uri >>
       \o (IF Len(uri) > 1 THEN << cover_directory \o Front(uri) >> ELSE <<>>)
       \o << inMusic, WithFileName(inMusic, <<"cover">>) >>

\* Every extension of a candidate is tried before the next candidate.
Tried(uri) == FlattenSeq([c \in DOMAIN Candidates(uri) |->
                  [e \in DOMAIN IMG_EXTS |-> SetExtension(Candidates(uri)[c], IMG_EXTS[e])]])

\* The first path that is a file; NoCover if none is.
NoCover == <<>>
Found(paths, files) == LET j == SelectInSeq(paths, LAMBDA p : p \in files)
                       IN IF j = 0 THEN NoCover ELSE paths[j]
Cover(uri, files) == Found(Tried(uri), files)

\* As documented: $filename is the song without its extension, $parent_name the
\* name of its directory, and $ext is put after either.
Documented(uri) ==
    LET path == Front(uri)
        filename == Stem(Last(uri))
        places == << cover_directory \o path \o <<filename>> >>
                  \o (IF path = <<>> THEN <<>> ELSE << cover_directory \o path >>)
                  \o << music_directory \o path \o <<filename>>,
                        music_directory \o path \o << <<"cover">> >> >>
    IN FlattenSeq([c \in DOMAIN places |->
           [e \in DOMAIN IMG_EXTS |->
               Front(places[c]) \o << Last(places[c]) \o << IMG_EXTS[e] >> >>]])
=============================================================================
