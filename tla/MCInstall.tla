----------------------------- MODULE MCInstall -----------------------------
(* Small instances of Install, and of its inductive invariants, for TLC. *)
EXTENDS InstallCauses, TLC

CONSTANTS near, far

\* Two packages that share a dependency; the references hold a cycle and a
\* self reference, as Nix references may.  The shared path has a link in it.
SharedPaths      == {"curl-8", "git-2", "zlib-1", "tz-5", "old-1"}
SharedReferences == [p \in SharedPaths |->
                       CASE p = "curl-8" -> <<"curl-8", "zlib-1">>
                         [] p = "git-2"  -> <<"zlib-1">>
                         [] p = "zlib-1" -> <<"curl-8">>
                         [] p \in {"tz-5", "old-1"} -> << >>]
SharedNar        == [p \in SharedPaths |->
                       CASE p = "curl-8" -> <<"regular">>
                         [] p = "git-2"  -> <<"symlink">>
                         [] p = "zlib-1" -> <<"directory", "regular", "symlink">>
                         [] p \in {"tz-5", "old-1"} -> <<"symlink">>]
SharedNames      == {"curl", "git", "tz", "old", "nope", "bad"}
SharedManifest   == [n \in SharedNames \ {"nope"} |->
                       CASE n = "curl" -> "curl-8" [] n = "git" -> "git-2"
                         [] n = "tz" -> "tz-5" [] n = "old" -> "old-1" [] n = "bad" -> Malformed]
SharedRequests   == {<< >>, <<"curl", "git">>, <<"curl", "nope">>, <<"bad", "old">>, <<"tz">>}
CurlAndGit       == {<<"curl", "git">>}

NoCaches   == << >>
TwoCaches  == <<near, far>>
AllHosts   == [c \in {near, far} |-> SharedPaths]
\* The near cache has the packages but not what two of them depend on; the far
\* cache has that, but not the third; one is in no cache.
SplitHosts == [c \in {near, far} |->
                 IF c = near THEN {"curl-8", "git-2", "tz-5"} ELSE {"curl-8", "git-2", "zlib-1"}]
=============================================================================
