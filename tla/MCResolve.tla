----------------------------- MODULE MCResolve -----------------------------
(* Small instances of Resolve for TLC. *)
EXTENDS ResolveInvariant, TLC

\* A path is a byte of hash, if any, one letter for the package (b for bash, c
\* for curl), and its version; i at the end is -info, t marks a test artefact.
SmallBytes == {"x", "y", "b", "c", "0", "1", "5", "9", "i", "t", Eol}
SmallCode  == [c \in SmallBytes \cup {Hole} |->
                 CASE c = Hole -> 0 [] c = Eol -> 1 [] c = "0" -> 2 [] c = "1" -> 3
                   [] c = "5" -> 4 [] c = "9" -> 5 [] c = "b" -> 6 [] c = "c" -> 7
                   [] c = "i" -> 8 [] c = "t" -> 9 [] c = "x" -> 10 [] c = "y" -> 11]
SmallNames == {"curl", "bash"}
SmallStems == [n \in SmallNames |->
                 {<<IF n = "curl" THEN "c" ELSE "b", digit>> : digit \in {"0", "1", "5", "9"}}]
Info       == {<<"i">>}
Tests      == {<<"t">>}

Stored(hash, name) == SubSeq(<<hash>>, 1, NameAt) \o name

Curl9    == Stored("x", <<"c", "9">>)
Curl10   == Stored("y", <<"c", "1", "0">>)
Bash     == Stored("x", <<"b", "5">>)
BashInfo == Stored("y", <<"b", "5", "i">>)
CurlTest == Stored("x", <<"c", "9", "t">>)

Line(path) == path \o <<Eol>>

\* Two revisions: bash is new in the second, in two outputs, and curl is
\* bumped, next to a test artefact that matches its name.
SmallPublished == <<Line(Curl9), Line(BashInfo) \o Line(Bash) \o Line(Curl10) \o CurlTest>>
ShortPublished == <<Line(Curl9), Line(Bash) \o Curl10>>
\* Three, whose names grow: too short to accept, to print, and whole.  The
\* last line of a list need not end in a line break.
AllPublished   == <<Line(Curl9), Line(Curl9), Line(BashInfo) \o Curl10>>
FullHashes     == <<40, 40>>
GrowingHashes  == <<6, 7, 40>>
JustCurl       == [w \in {"redis"} |-> <<"curl">>]
BothNeedCurl   == [w \in {"redis", "api"} |-> IF w = "redis" THEN <<"curl">> ELSE <<"curl", "bash">>]
=============================================================================
