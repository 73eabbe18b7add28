--------------------------- MODULE MCCasPipeline ---------------------------
(* A small instance of CasPipeline for TLC. *)
EXTENDS CasPipelineInvariant, TLC

SmallSources == {"nixpkgs", "theme", "bare", "broken"}
SmallNar == [s \in SmallSources |-> CASE s = "nixpkgs" -> <<"directory", "regular", "symlink">>
                                      [] s = "theme" -> <<"symlink">>
                                      [] OTHER -> <<"regular">>]
\* Two inputs that lock the same source; and a source that fails its hash.
SmallLocks   == {("theme" :> "theme") @@ ("theme_2" :> "theme"),
                 ("nixpkgs" :> "nixpkgs") @@ ("theme" :> "theme"),
                 "bare" :> "bare", "broken" :> "broken"}
SmallVersions == [s \in SmallSources |-> IF s = "theme" THEN 2 ELSE 1]
SmallSpoiled == {<<"broken", 1>>}
\* One narinfo has no FileHash, and one that of something else.
SmallFileHash == [b \in Published |-> CASE b[1] = "bare" -> NoDigest
                                        [] b[1] = "broken" -> <<"theme", 1>>
                                        [] OTHER -> b]
SmallCompression == [b \in Published |-> IF b[2] = 1 THEN "xz" ELSE "zstd"]
=============================================================================
