----------------------------- MODULE FlakeBuild -----------------------------
(***************************************************************************)
(* `pkg flake build`: build the packages of a packages.toml from a flake,  *)
(* push them to a binary cache, write manifest.json.                       *)
(*                                                                         *)
(* The command is a chain of calls of nix, any of which may fail, around   *)
(* two files of the workload's directory: flake.lock, which a developer    *)
(* (`nix flake update`, `git pull`) or nix itself may change between any   *)
(* two calls, and manifest.json, written last with fs::write, which        *)
(* truncates first.  The command may be killed, and be run again.          *)
(*                                                                         *)
(* With a [profile] it builds from a flake of its own making, pinned to    *)
(* what flake.lock said, else from the outputs of the workload's flake.    *)
(* A store path stands for the derivation it is an output of: the revision *)
(* of nixpkgs, the package, the overrides, and whether doCheck is as       *)
(* nixpkgs has it (which may be off), or switched off.                     *)
(***************************************************************************)
EXTENDS Naturals, Sequences, Functions

CONSTANTS
  Names,      \* names of packages and of nixpkgs attributes
  Out,        \* the flake output of a name: hyphens become underscores
  Features,   \* [profile] flags, but for `check`
  Aliases,    \* feature_arg_aliases: override arguments, in preference order
  Args,
  Revisions,  \* of nixpkgs
  Takes,      \* what each package of a revision can be overridden with
  Parts,      \* what the base name of an output ends in
  Split,      \* SPLIT_SUFFIXES
  PartsOf,    \* the outputs nix prints for a package, in its order
  Flake,      \* the workload's flake: output -> input and package it is of
  Tomls,      \* packages.toml files
  Locks,      \* flake.lock files: input -> revision
  NoFile, Torn, Unknown,
  Unpinned,   \* an input that is locked without owner, repo or rev
  MaxFaults,  \* bound: calls of nix and of the file system that fail
  MaxRuns,    \* bound: commands run
  MaxUpdates  \* bound: changes of flake.lock by others

Inputs == {"nixpkgs-25_05", "nixpkgs"}
Checks == {"unset", "on", "off"}

\* A flag is a [profile] entry that is set; `driven` is whether there is one.
Flags      == UNION {[set -> BOOLEAN] : set \in SUBSET Features}
TomlSet    == [packages : Seq([name : Names, attr : Names]), driven : BOOLEAN,
               flags : Flags, check : Checks]
LockSet    == UNION {[set -> Revisions \cup {Unpinned}] : set \in SUBSET Inputs}
Drvs       == [rev : Revisions \cup {Unpinned}, pkg : Names,
               with : SUBSET (Args \X BOOLEAN), checkKept : BOOLEAN]

ASSUME NixAssumption ==
  /\ Aliases \in [Features -> Seq(Args)]
  /\ \A f, g \in Features : f # g => Range(Aliases[f]) \cap Range(Aliases[g]) = {}
  /\ DOMAIN Out = Names
  /\ DOMAIN Takes = Revisions
  /\ \A r \in Revisions : DOMAIN Takes[r] \subseteq Names /\ Range(Takes[r]) \subseteq SUBSET Args
  /\ Split \subseteq Parts
  /\ PartsOf \in [Names -> Seq(Parts)] /\ \A n \in Names : PartsOf[n] # << >>
  /\ Range(Flake) \subseteq [input : Inputs, pkg : Names]

ASSUME FileAssumption ==
  /\ Tomls \subseteq TomlSet /\ Locks \subseteq LockSet
  /\ \A t \in Tomls : ~t.driven => t.flags = << >> /\ t.check = "unset"
  /\ Unpinned \notin Revisions /\ Unknown \notin Revisions \cup {Unpinned}

ASSUME BoundAssumption == MaxFaults \in Nat /\ MaxRuns \in Nat /\ MaxUpdates \in Nat

-----------------------------------------------------------------------------
(* From a profile to override arguments *)

Honours(accepted, f) == Range(Aliases[f]) \cap accepted # {}

\* The first alias of a feature among the accepted arguments, if any.
Chosen(accepted, f) ==
  {Aliases[f][i] : i \in {i \in DOMAIN Aliases[f] :
                            /\ Aliases[f][i] \in accepted
                            /\ \A j \in 1 .. i - 1 : Aliases[f][j] \notin accepted}}

\* Mutant: every alias that is accepted is set.
OverridesAll(accepted, flags) ==
  UNION {(Range(Aliases[f]) \cap accepted) \X {flags[f]} : f \in DOMAIN flags}

\* resolve_overrides.
Overrides(accepted, flags) == UNION {Chosen(accepted, f) \X {flags[f]} : f \in DOMAIN flags}

\* Mutant: only a flag without any alias is reported.
UnhonouredByName(accepted, flags) == {f \in DOMAIN flags : Aliases[f] = << >>}

\* unhonored_flags: accepted by no package.
Unhonoured(accepted, flags) ==
  {f \in DOMAIN flags : \A n \in DOMAIN accepted : ~Honours(accepted[n], f)}

\* read_nixpkgs_url: the first of the two inputs that is there decides, also
\* when it is not pinned.  The set is empty for an error.
Preferred(l) == IF "nixpkgs-25_05" \in DOMAIN l THEN "nixpkgs-25_05" ELSE "nixpkgs"
Pinned(l)    == {l[i] : i \in {Preferred(l)} \cap DOMAIN l} \ {Unpinned}

\* Mutant: counted from zero where there is no main output.
PrimaryOrZero(parts) ==
  LET main == {i \in DOMAIN parts : parts[i] \notin Split}
  IN  IF main = {} THEN 0 ELSE CHOOSE i \in main : \A j \in main : i <= j

\* pick_primary_output.
Primary(parts) ==
  LET main == {i \in DOMAIN parts : parts[i] \notin Split}
  IN  IF main = {} THEN 1 ELSE CHOOSE i \in main : \A j \in main : i <= j

-----------------------------------------------------------------------------
VARIABLES
  lock,      \* flake.lock
  manifest,  \* manifest.json
  cache,     \* the outputs in the binary cache
  job,       \* the current or last command
  runs, faults, updates

vars == <<lock, manifest, cache, job, runs, faults, updates>>

\* A command: packages.toml, whether it pushes, the revision and the accepted
\* arguments of a profile, the package and the output at hand, what is built;
\* and, for the properties, whether the lock has been changed under it,
\* whether a push failed, and the manifest it began with.
NoJob == [pc |-> "idle", result |-> "none",
          toml |-> [packages |-> << >>, driven |-> FALSE, flags |-> << >>, check |-> "unset"],
          push |-> FALSE, rev |-> Unknown, accepted |-> << >>,
          next |-> 1, drv |-> Unknown, part |-> 1, entries |-> << >>,
          moved |-> FALSE, warned |-> FALSE, old |-> NoFile]

Init ==
  /\ lock \in Locks /\ manifest = NoFile /\ cache = {}
  /\ job = NoJob /\ runs = 0 /\ faults = 0 /\ updates = 0

\* Someone else changes flake.lock.
Update(l) ==
  /\ updates < MaxUpdates /\ l # lock
  /\ lock' = l /\ updates' = updates + 1
  /\ job' = [job EXCEPT !.moved = job.pc # "idle"]
  /\ UNCHANGED <<manifest, cache, runs, faults>>

-----------------------------------------------------------------------------
At(step)   == job.pc = step /\ UNCHANGED <<lock, runs, updates>>
NoFault    == UNCHANGED faults
Fault      == faults < MaxFaults /\ faults' = faults + 1
Goto(step) == job' = [job EXCEPT !.pc = step]
\* Of a command that has ended only its result is left.
Stop(why)  == job' = [NoJob EXCEPT !.result = why]
Fails(why) == Stop(why) /\ Fault /\ UNCHANGED <<manifest, cache>>

Packages == job.toml.packages
Here     == Packages[job.next]

\* packages.toml is read, and flake.nix looked for.
Start(t, push) ==
  /\ job.pc = "idle" /\ runs < MaxRuns /\ runs' = runs + 1
  /\ \/ /\ job' = [NoJob EXCEPT !.pc = IF t.driven THEN "pin" ELSE "build",
                                !.toml = t, !.push = push, !.old = manifest]
        /\ NoFault
     \/ Stop("invalidRequest") /\ Fault
  /\ UNCHANGED <<lock, manifest, cache, updates>>

\* The revision that a build with a profile is pinned to.
Pin ==
  /\ At("pin") /\ UNCHANGED <<manifest, cache>>
  /\ \/ \E r \in Pinned(lock) : job' = [job EXCEPT !.rev = r, !.pc = "discover"] /\ NoFault
     \/ Pinned(lock) = {} /\ Stop("notPinned") /\ NoFault

\* insert of a map.
Put(f, n, value) == [m \in DOMAIN f \cup {n} |-> IF m = n THEN value ELSE f[m]]

\* Mutant: a package that was asked about is asked about again.
DiscoverAgain(r, n) ==
  IF n \in DOMAIN job.accepted THEN Goto("discover")
  ELSE job' = [job EXCEPT !.accepted = Put(@, n, Takes[r][n])]

\* The answer of nix about a package, if there was none before.
Learn(r, n) ==
  job' = [job EXCEPT !.next = @ + 1,
                     !.accepted = IF n \in DOMAIN @ THEN @ ELSE Put(@, n, Takes[r][n])]

\* discover_all_override_args: one `nix eval` for each name.
Discover ==
  /\ At("discover") /\ job.next <= Len(Packages) /\ UNCHANGED <<manifest, cache>>
  /\ \/ Here.name \in DOMAIN Takes[job.rev] /\ Learn(job.rev, Here.name) /\ NoFault
     \/ Here.name \notin DOMAIN Takes[job.rev] /\ Stop("evalFailed") /\ NoFault
     \/ Here.name \notin DOMAIN job.accepted /\ Fails("evalFailed")

\* A flag that no package honours is an error; else the flake is generated.
Generate ==
  /\ At("discover") /\ job.next > Len(Packages) /\ UNCHANGED <<manifest, cache>>
  /\ \/ /\ Unhonoured(job.accepted, job.toml.flags) # {}
        /\ Stop("unhonoured") /\ NoFault
     \/ /\ Unhonoured(job.accepted, job.toml.flags) = {}
        /\ \/ job' = [job EXCEPT !.next = 1, !.pc = "build"] /\ NoFault
           \/ Fails("flakeNotWritten")

-----------------------------------------------------------------------------
(* nix build *)

OutputOf(toml, pkg) == Out[IF toml.driven \/ pkg.attr = "" THEN pkg.name ELSE pkg.attr]

\* Mutant: the generated flake is not pinned.
DriftingDrv(n) ==
  [rev |-> IF Pinned(lock) = {} THEN job.rev ELSE CHOOSE r \in Pinned(lock) : TRUE,
   pkg |-> n, with |-> Overrides(job.accepted[n], job.toml.flags),
   checkKept |-> job.toml.check # "off"]

\* generate_self_contained_flake: the derivation of an output.
ProfileDrv(n) ==
  [rev |-> job.rev, pkg |-> n, with |-> Overrides(job.accepted[n], job.toml.flags),
   checkKept |-> job.toml.check # "off"]

\* Nix refuses a flake that defines an output twice.
Ambiguous ==
  \E i, j \in DOMAIN Packages : i # j /\ Out[Packages[i].name] = Out[Packages[j].name]

Built(drv) ==
  job' = [job EXCEPT !.drv = drv, !.part = 1, !.pc = IF job.push THEN "push" ELSE "record"]

BuildProfile ==
  /\ At("build") /\ job.next <= Len(Packages) /\ job.toml.driven
  /\ UNCHANGED <<manifest, cache>> /\ NoFault
  /\ \/ ~Ambiguous /\ Built(ProfileDrv(Here.name))
     \/ Ambiguous /\ Stop("buildFailed")

\* nix locks what the workload's flake.lock leaves open, and builds from that.
BuildOutput ==
  /\ job.pc = "build" /\ job.next <= Len(Packages) /\ ~job.toml.driven
  /\ UNCHANGED <<manifest, cache, runs, updates>> /\ NoFault
  /\ LET output == OutputOf(job.toml, Here)
         open   == {out.input : out \in Range(Flake)} \ DOMAIN lock
     IN  /\ \E new \in [open -> Revisions] :
              lock' = [i \in DOMAIN lock \cup open |-> IF i \in open THEN new[i] ELSE lock[i]]
         /\ \/ /\ output \in DOMAIN Flake
               /\ Built([rev |-> lock'[Flake[output].input], pkg |-> Flake[output].pkg,
                         with |-> {}, checkKept |-> TRUE])
            \/ output \notin DOMAIN Flake /\ Stop("buildFailed")

\* nix fails, or prints no path.
BuildFails ==
  /\ At("build") /\ job.next <= Len(Packages)
  /\ Fails("buildFailed") \/ Fails("noOutput")

-----------------------------------------------------------------------------
(* Pushing and writing *)

Outputs(drv) == {drv} \X DOMAIN PartsOf[drv.pkg]

\* Mutant: only the first output is pushed.
AfterFirst == job.part = 1

\* push_to_substituter: the last output has been pushed.
LastPart == job.part = Len(PartsOf[job.drv.pkg])

\* One `nix copy` for each output; the first that fails ends the pushing of
\* this package, with a warning.
Push ==
  /\ At("push") /\ UNCHANGED manifest
  /\ \/ /\ cache' = cache \cup {<<job.drv, job.part>>} /\ NoFault
        /\ \/ LastPart /\ Goto("record")
           \/ ~LastPart /\ job' = [job EXCEPT !.part = @ + 1]
     \/ job' = [job EXCEPT !.warned = TRUE, !.pc = "record"] /\ Fault /\ UNCHANGED cache

\* Mutant: the manifest is written as the packages are built.
RecordAndSave ==
  /\ At("record") /\ NoFault /\ UNCHANGED cache
  /\ job' = [job EXCEPT !.pc = "build", !.next = @ + 1,
               !.entries = Put(@, Here.name, <<job.drv, Primary(PartsOf[job.drv.pkg])>>)]
  /\ manifest' = [packages |-> job'.entries, rev |-> job.rev,
                  flags |-> job.toml.flags, check |-> job.toml.check]

\* entries.insert: of two packages of one name the later stays.
Record ==
  /\ At("record") /\ NoFault /\ UNCHANGED <<manifest, cache>>
  /\ job' = [job EXCEPT !.pc = "build", !.next = @ + 1,
               !.entries = Put(@, Here.name, <<job.drv, Primary(PartsOf[job.drv.pkg])>>)]

\* The revision that the manifest names is read from the lock as it is now.
Recorded == IF Pinned(lock) = {} THEN Unknown ELSE CHOOSE r \in Pinned(lock) : TRUE

ReadRevision ==
  /\ At("build") /\ job.next > Len(Packages)
  /\ job' = [job EXCEPT !.rev = Recorded, !.pc = "open"]
  /\ NoFault /\ UNCHANGED <<manifest, cache>>

\* fs::write truncates the file first.
OpenManifest ==
  /\ At("open")
  /\ \/ manifest' = Torn /\ Goto("write") /\ NoFault /\ UNCHANGED cache
     \/ Fails("notWritten")

WriteManifest ==
  /\ At("write")
  /\ \/ /\ manifest' = [packages |-> job.entries, rev |-> job.rev,
                        flags |-> job.toml.flags, check |-> job.toml.check]
        /\ Stop("ok") /\ NoFault /\ UNCHANGED cache
     \/ Fails("notWritten")

\* The process is killed.
Kill ==
  /\ job.pc # "idle" /\ At(job.pc) /\ Stop("killed")
  /\ NoFault /\ UNCHANGED <<manifest, cache>>

Step ==
  \/ Pin \/ Discover \/ Generate \/ BuildProfile \/ BuildOutput \/ BuildFails
  \/ Push \/ Record \/ ReadRevision \/ OpenManifest \/ WriteManifest

Next ==
  \/ \E l \in Locks : Update(l)
  \/ \E t \in Tomls, push \in BOOLEAN : Start(t, push)
  \/ Step \/ Kill

Spec     == Init /\ [][Next]_vars
FairSpec == Spec /\ WF_vars(Step)
-----------------------------------------------------------------------------
(* Properties *)

Pcs     == {"idle", "pin", "discover", "build", "push", "record", "open", "write"}
Results == {"none", "ok", "killed", "invalidRequest", "notPinned", "evalFailed", "unhonoured",
            "flakeNotWritten", "buildFailed", "noOutput", "notWritten"}

\* Of a manifest that is whole.
IsWhole == manifest \notin {NoFile, Torn}

\* The type of every variable; every path is an output that its package has.
TypeOK ==
  /\ DOMAIN lock \subseteq Inputs /\ Range(lock) \subseteq Revisions \cup {Unpinned}
  /\ \A path \in cache : path[1] \in Drvs /\ path \in Outputs(path[1])
  /\ job.pc \in Pcs /\ job.result \in Results /\ job.toml \in Tomls \cup {NoJob.toml}
  /\ job.rev \in Revisions \cup {Unknown}
  /\ job.next \in 1 .. Len(Packages) + 1
  /\ \A n \in DOMAIN job.accepted : job.accepted[n] \in SUBSET Args
  /\ job.pc \in {"push", "record"} => job.drv \in Drvs /\ job.part \in DOMAIN PartsOf[job.drv.pkg]
  /\ \A n \in DOMAIN job.entries : job.entries[n] \in Outputs(job.entries[n][1])
  /\ IsWhole => \A n \in DOMAIN manifest.packages :
       n \in Names /\ manifest.packages[n] \in Outputs(manifest.packages[n][1])

DrvOf(m, n) == m.packages[n][1]
Ends(why)   == job.pc # "idle" /\ job'.pc = "idle" /\ job'.result = why

\* A manifest states what produced its paths.  Of the flags and the check of
\* the [profile] it records, each flag changed some package, no package was
\* changed in any other way, and doCheck was switched off where, and only where,
\* `check` says so.
ProfileIsHonest ==
  IsWhole /\ (DOMAIN manifest.flags # {} \/ manifest.check # "unset") =>
    LET m == manifest
        names == DOMAIN m.packages
        Sets(f, arg) == arg[1] \in Range(Aliases[f]) /\ arg[2] = m.flags[f]
    IN  /\ \A f \in DOMAIN m.flags : \E n \in names : \E arg \in DrvOf(m, n).with : Sets(f, arg)
        /\ \A n \in names : \A arg \in DrvOf(m, n).with : \E f \in DOMAIN m.flags : Sets(f, arg)
        /\ \A n \in names : DrvOf(m, n).checkKept = (m.check # "off")

\* What packages.toml asks for: a path for each package and no other; of the
\* main output if there is one, of the last entry's derivation; or, with a
\* profile, of the package of that name with the argument that its revision of
\* nixpkgs prefers set for each flag it can honour.
AsAsked(toml, paths) ==
  LET AskedFor == {toml.packages[i].name : i \in DOMAIN toml.packages}
      Asked(n) == {i \in DOMAIN toml.packages :
                     toml.packages[i].name = n /\ \A j \in DOMAIN toml.packages :
                                                    j > i => toml.packages[j].name # n}
      Of(drv, f) == {arg \in drv.with : arg[1] \in Range(Aliases[f])}
      Taken(drv, f) == {i \in DOMAIN Aliases[f] : Aliases[f][i] \in Takes[drv.rev][drv.pkg]}
  IN  /\ DOMAIN paths = AskedFor
      /\ \A n \in AskedFor :
           LET drv   == paths[n][1]
               parts == PartsOf[drv.pkg]
           IN  /\ parts[paths[n][2]] \in Split => Range(parts) \subseteq Split
               /\ ~toml.driven => \A i \in Asked(n) :
                    drv.pkg = Flake[OutputOf(toml, toml.packages[i])].pkg
               /\ toml.driven => drv.pkg = n /\ \A f \in DOMAIN toml.flags :
                    \/ Taken(drv, f) = {} /\ Of(drv, f) = {}
                    \/ \E i \in Taken(drv, f) :
                         /\ \A j \in Taken(drv, f) : i <= j
                         /\ Of(drv, f) = {<<Aliases[f][i], toml.flags[f]>>}

\* With Ok, the manifest has what packages.toml asks for.
SuccessMeansBuilt == [][Ends("ok") => AsAsked(job.toml, manifest'.packages)]_vars

\* What the comment above the last reading of flake.lock says: it is the actual
\* revision of nixpkgs, the one the paths were built from, that is recorded, where
\* one is recorded at all.
RevisionIsActual ==
  [][Ends("ok") /\ manifest'.rev # Unknown =>
       \A n \in DOMAIN job.entries : DrvOf(manifest', n).rev = manifest'.rev]_vars

\* With a profile all paths are from one revision, whatever happened to
\* flake.lock.  And where the manifest names another revision than that of a
\* path, it is for one of two causes: someone changed flake.lock during the
\* command, or the path is of an output of the workload's flake that is from the
\* other of its inputs.  (That both occur shows in RevisionIsActual.)
WrongRevisionHasACause ==
  [][Ends("ok") =>
       /\ ~job.moved /\ manifest'.rev # Unknown => \A n \in DOMAIN job.entries :
            \/ DrvOf(manifest', n).rev = manifest'.rev
            \/ ~job.toml.driven /\ \E i \in DOMAIN Packages :
                 Packages[i].name = n /\ Flake[OutputOf(job.toml, Packages[i])].input # Preferred(lock)
       /\ job.toml.driven => \A n, o \in DOMAIN job.entries :
            DrvOf(manifest', n).rev = DrvOf(manifest', o).rev]_vars

\* With Ok and no warning, the cache has every output of every package in the
\* manifest, if there is a cache to push to.
SuccessMeansPushed ==
  [][Ends("ok") /\ job.push /\ ~job.warned =>
       \A n \in DOMAIN manifest'.packages : Outputs(DrvOf(manifest', n)) \subseteq cache]_vars

\* A command that does not return Ok leaves the manifest as it was, unless it
\* is killed, or fails, while it writes it.
FailureKeepsManifest ==
  [][job.pc # "idle" /\ job'.pc = "idle" /\ job'.result # "ok" =>
       manifest' = job.old \/ (manifest' = Torn /\ job'.result \in {"killed", "notWritten"})]_vars

\* Every command ends.
Termination == job.pc # "idle" ~> job.pc = "idle"
=============================================================================
