---------------------------- MODULE MCFlakeBuild ----------------------------
(* A small instance of FlakeBuild for TLC. *)
EXTENDS FlakeBuild, TLC

CONSTANT unpinned

\* Between the two revisions postgres loses ICU and redis renames its flag.
SmallNames    == {"redis", "postgres", "tz-data", "tz_data", "gone", "slim", ""}
SmallOut      == [n \in SmallNames |-> IF n = "tz-data" THEN "tz_data" ELSE n]
SmallFeatures == {"systemd", "icu"}
SmallArgs     == {"withSystemd", "systemdSupport", "icuSupport"}
SmallAliases  == [f \in SmallFeatures |->
                    IF f = "systemd" THEN <<"withSystemd", "systemdSupport">> ELSE <<"icuSupport">>]
SmallTakes    == [r \in {"24.11", "25.05"} |->
                    IF r = "24.11"
                    THEN ("redis" :> {"systemdSupport"}) @@ ("postgres" :> {"systemdSupport"})
                         @@ ("tz-data" :> {}) @@ ("tz_data" :> {}) @@ ("gone" :> {})
                    ELSE ("redis" :> {"withSystemd", "systemdSupport"})
                         @@ ("postgres" :> {"systemdSupport", "icuSupport"})
                         @@ ("tz-data" :> {}) @@ ("tz_data" :> {})]
SmallPartsOf  == [n \in SmallNames |-> CASE n = "postgres" -> <<"lib", "", "man">>
                                         [] n = "redis" -> <<"">>
                                         [] OTHER -> <<"man", "dev">>]
SmallFlake    == ("redis" :> [input |-> "nixpkgs", pkg |-> "redis"])
                 @@ ("slim" :> [input |-> "nixpkgs-25_05", pkg |-> "postgres"])

Named(n)      == [name |-> n, attr |-> ""]
Plain(pkgs)   == [packages |-> pkgs, driven |-> FALSE, flags |-> << >>, check |-> "unset"]
Slim(pkgs, flags, check) ==
  [packages |-> pkgs, driven |-> TRUE, flags |-> flags, check |-> check]
SmallTomls ==
  {Plain(<<Named("redis"), [name |-> "postgres", attr |-> "slim"]>>),
   Plain(<<Named("redis"), [name |-> "redis", attr |-> "slim"], Named("gone")>>),
   Slim(<<Named("redis"), Named("postgres")>>, ("systemd" :> FALSE) @@ ("icu" :> FALSE), "off"),
   Slim(<<Named("redis"), Named("tz-data"), Named("gone")>>, "systemd" :> TRUE, "unset"),
   Slim(<<Named("tz-data"), Named("tz_data")>>, << >>, "on"),
   Slim(<<Named("redis"), Named("redis")>>, "systemd" :> FALSE, "unset")}
SmallLocks ==
  {<< >>, "nixpkgs" :> "24.11", ("nixpkgs" :> "25.05") @@ ("nixpkgs-25_05" :> unpinned),
   ("nixpkgs" :> "24.11") @@ ("nixpkgs-25_05" :> "25.05")}
=============================================================================
