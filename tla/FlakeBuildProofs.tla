-------------------------- MODULE FlakeBuildProofs --------------------------
(***************************************************************************)
(* What `pkg flake build` keeps to, for every workload, nixpkgs and cache: *)
(* of the manifest it leaves when it fails, and of the one it writes.      *)
(***************************************************************************)
EXTENDS FlakeBuild, TLAPS, WellFoundedInduction

-----------------------------------------------------------------------------
(* Types *)

Paths     == UNION {Outputs(drv) : drv \in Drvs}
Answers   == UNION {[set -> SUBSET Args] : set \in SUBSET Names}
Entries   == UNION {[set -> Paths] : set \in SUBSET Names}
Manifests == {NoFile, Torn} \cup
             [packages : Entries, rev : Revisions \cup {Unknown}, flags : Flags, check : Checks]
JobSet    == [pc : Pcs, result : Results, toml : Tomls \cup {NoJob.toml}, push : BOOLEAN,
              rev : Revisions \cup {Unknown}, accepted : Answers, next : Nat,
              drv : Drvs \cup {Unknown}, part : Nat, entries : Entries,
              moved : BOOLEAN, warned : BOOLEAN, old : Manifests]

JobType   == job \in JobSet
LockType  == DOMAIN lock \subseteq Inputs /\ Range(lock) \subseteq Revisions \cup {Unpinned}
FileType  == manifest \in Manifests
CacheType == cache \subseteq Paths

LEMMA PutFacts ==
  ASSUME NEW f, NEW n, NEW v
  PROVE  /\ DOMAIN Put(f, n, v) = DOMAIN f \cup {n}
         /\ Put(f, n, v)[n] = v
         /\ \A m \in DOMAIN f : m # n => Put(f, n, v)[m] = f[m]
  BY DEF Put

LEMMA PutType ==
  ASSUME NEW S, NEW f \in UNION {[set -> S] : set \in SUBSET Names}, NEW n \in Names, NEW v \in S
  PROVE  Put(f, n, v) \in UNION {[set -> S] : set \in SUBSET Names}
  <1>1. PICK set \in SUBSET Names : f \in [set -> S]
    OBVIOUS
  <1>2. Put(f, n, v) \in [set \cup {n} -> S]
    BY <1>1 DEF Put
  <1>3. set \cup {n} \in SUBSET Names
    OBVIOUS
  <1> QED BY <1>2, <1>3

LEMMA PutTypes ==
  ASSUME NEW n \in Names
  PROVE  /\ \A f \in Answers, v \in SUBSET Args : Put(f, n, v) \in Answers
         /\ \A f \in Entries, v \in Paths : Put(f, n, v) \in Entries
  BY PutType DEF Answers, Entries

LEMMA NothingYet ==
  /\ << >> \in Answers /\ << >> \in Entries /\ << >> \in Flags
  /\ NoJob.toml \in TomlSet /\ Tomls \subseteq TomlSet
  <1>1. \A S : << >> \in [{} -> S]
    OBVIOUS
  <1>2. << >> \in Answers /\ << >> \in Entries /\ << >> \in Flags
    BY <1>1 DEF Answers, Entries, Flags
  <1>3. NoJob.toml \in TomlSet
    BY <1>2 DEF NoJob, TomlSet, Checks
  <1> QED BY <1>2, <1>3, FileAssumption

LEMMA NoJobOK == NoJob \in JobSet
  BY NothingYet DEF NoJob, JobSet, Pcs, Results, Manifests

LEMMA StopOK ==
  ASSUME NEW why \in Results, Stop(why)
  PROVE  /\ JobType' /\ job'.pc = "idle" /\ job'.result = why
         /\ job'.toml = NoJob.toml /\ job'.next = 1 /\ job'.accepted = << >>
         /\ job'.entries = << >> /\ job'.rev = Unknown
  <1>1. NoJob \in JobSet /\ NoJob.pc = "idle" /\ NoJob.next = 1 /\ NoJob.rev = Unknown
        /\ NoJob.accepted = << >> /\ NoJob.entries = << >>
    BY NoJobOK DEF NoJob
  <1> QED BY <1>1 DEF Stop, JobType, JobSet

-----------------------------------------------------------------------------
(* The invariant of the types: in addition to the type of each variable,   *)
(* where a command is in packages.toml and in the outputs of a package,    *)
(* and, with a profile, what it has asked nix.                             *)

NamedBefore(packages, k) == {packages[i].name : i \in 1 .. k - 1}

Within ==
  /\ job.next \in 1 .. Len(Packages) + 1
  /\ job.pc \in {"push", "record"} =>
       /\ job.next <= Len(Packages) /\ job.drv \in Drvs
       /\ job.part \in DOMAIN PartsOf[job.drv.pkg]
  /\ job.pc \in {"open", "write"} => job.next = Len(Packages) + 1
  /\ job.pc \in {"pin", "discover"} => job.toml.driven
  /\ job.pc = "pin" => job.next = 1 /\ job.accepted = << >>

Answered ==
  job.toml.driven =>
    /\ job.pc \in {"discover", "build", "push", "record"} => job.rev \in Revisions
    /\ job.pc = "discover" => DOMAIN job.accepted = NamedBefore(Packages, job.next)
    /\ job.pc \in {"build", "push", "record", "open", "write"} =>
         /\ DOMAIN job.accepted = NamedBefore(Packages, Len(Packages) + 1)
         /\ Unhonoured(job.accepted, job.toml.flags) = {}

Types == JobType /\ LockType /\ FileType /\ CacheType /\ Within /\ Answered

LEMMA Package ==
  ASSUME JobType, NEW i \in 1 .. Len(Packages)
  PROVE  /\ Packages \in Seq([name : Names, attr : Names])
         /\ Packages[i].name \in Names /\ Packages[i].attr \in Names
  <1>1. job.toml \in TomlSet
    BY NothingYet DEF JobType, JobSet
  <1>2. Packages \in Seq([name : Names, attr : Names])
    BY <1>1 DEF TomlSet, Packages
  <1>3. \A S : \A q \in Seq(S) : \A j \in 1 .. Len(q) : q[j] \in S
    OBVIOUS
  <1>4. Packages[i] \in [name : Names, attr : Names]
    BY <1>2, <1>3
  <1> QED BY <1>2, <1>4

LEMMA Least ==
  ASSUME NEW S \in SUBSET Nat, S # {}
  PROVE  \E i \in S : \A j \in S : i <= j
  <1>1. \E i \in S : \A j \in S : <<j, i>> \notin OpToRel(<, Nat)
    BY WFMin, NatLessThanWellFounded, Zenon
  <1>2. \A i, j \in Nat : <<j, i>> \notin OpToRel(<, Nat) => i <= j
    BY DEF OpToRel
  <1> QED BY <1>1, <1>2

LEMMA MainOutput ==
  ASSUME NEW drv \in Drvs
  PROVE  <<drv, Primary(PartsOf[drv.pkg])>> \in Paths
  <1>1. drv.pkg \in Names /\ PartsOf[drv.pkg] \in Seq(Parts) /\ PartsOf[drv.pkg] # << >>
    BY NixAssumption DEF Drvs
  <1>2. \A parts \in Seq(Parts) : parts # << >> => 1 \in DOMAIN parts
    OBVIOUS
  <1>3. Primary(PartsOf[drv.pkg]) \in DOMAIN PartsOf[drv.pkg]
    <2> DEFINE parts == PartsOf[drv.pkg]
               main == {i \in DOMAIN parts : parts[i] \notin Split}
    <2>1. CASE main = {}
      BY <1>1, <1>2, <2>1 DEF Primary
    <2>2. CASE main # {}
      <3>1. main \in SUBSET Nat
        BY <1>1
      <3>2. \E i \in main : \A j \in main : i <= j
        BY <3>1, <2>2, Least
      <3>3. (CHOOSE i \in main : \A j \in main : i <= j) \in main
        BY <3>2
      <3> QED BY <2>2, <3>3 DEF Primary
    <2> QED BY <2>1, <2>2
  <1> QED BY <1>3 DEF Paths, Outputs

LEMMA TypesStop ==
  ASSUME NEW why \in Results, Stop(why)
  PROVE  JobType' /\ Within' /\ Answered'
  <1>1. NoJob.toml.packages = << >> /\ ~NoJob.toml.driven
    BY DEF NoJob
  <1>2. /\ JobType' /\ job'.pc = "idle" /\ job'.next = 1
        /\ job'.toml.packages = << >> /\ ~job'.toml.driven
    BY <1>1, StopOK
  <1> QED BY <1>2 DEF Within, Answered, Packages

LEMMA TypesUpdate ==
  ASSUME Types, NEW l \in Locks, Update(l)
  PROVE  Types'
  <1> DEFINE lockOf(set) == [set -> Revisions \cup {Unpinned}]
  <1>0. PICK set \in SUBSET Inputs : l \in lockOf(set)
    BY FileAssumption DEF LockSet
  <1>1. JobType' /\ LockType' /\ FileType' /\ CacheType'
    <2>1. JobType' /\ FileType' /\ CacheType'
      BY DEF Types, Update, JobType, JobSet, FileType, CacheType
    <2>2. lock' = l
      BY DEF Update
    <2>3. LockType'
      BY <1>0, <2>2 DEF LockType, Range
    <2> QED BY <2>1, <2>3
  <1>2. job' = [job EXCEPT !.moved = job.pc # "idle"]
    BY DEF Update
  <1>3. Within' /\ Answered'
    BY <1>2 DEF Types, JobType, JobSet, Within, Answered, Packages, NamedBefore
  <1> QED BY <1>1, <1>3 DEF Types

LEMMA TypesStart ==
  ASSUME Types, NEW t \in Tomls, NEW push \in BOOLEAN, Start(t, push)
  PROVE  Types'
  <1>1. LockType' /\ FileType' /\ CacheType'
    BY DEF Types, Start, LockType, FileType, CacheType
  <1>2. CASE Stop("invalidRequest")
    BY <1>1, <1>2, TypesStop DEF Types, Results
  <1>3. CASE job' = [NoJob EXCEPT !.pc = IF t.driven THEN "pin" ELSE "build",
                                  !.toml = t, !.push = push, !.old = manifest]
    <2>1. JobType'
      BY <1>3, NoJobOK DEF Types, JobType, JobSet, FileType, Pcs
    <2>2. /\ job'.toml = t /\ job'.pc = IF t.driven THEN "pin" ELSE "build"
          /\ job'.next = 1 /\ job'.accepted = << >>
      BY <1>3, NoJobOK DEF JobSet, NoJob
    <2>3. t.packages \in Seq([name : Names, attr : Names])
      BY NothingYet DEF TomlSet
    <2>4. Within' /\ Answered'
      BY <2>2, <2>3 DEF Within, Answered, Packages
    <2> QED BY <1>1, <2>1, <2>4 DEF Types
  <1> QED BY <1>2, <1>3 DEF Start

\* A step that stops, or that leaves the files alone.
LEMMA TypesFiles ==
  ASSUME Types, UNCHANGED <<lock, manifest, cache>>
  PROVE  /\ LockType' /\ FileType' /\ CacheType'
         /\ \A why \in Results : Stop(why) => Types'
  <1>1. LockType' /\ FileType' /\ CacheType'
    BY DEF Types, LockType, FileType, CacheType
  <1>2. ASSUME NEW why \in Results, Stop(why) PROVE Types'
    BY <1>1, <1>2, TypesStop DEF Types
  <1> QED BY <1>1, <1>2

LEMMA TypesPin ==
  ASSUME Types, Pin
  PROVE  Types'
  <1>1. UNCHANGED <<lock, manifest, cache>> /\ job.pc = "pin"
    BY DEF Pin, At
  <1>2. CASE Stop("notPinned")
    BY <1>1, <1>2, TypesFiles DEF Results
  <1>3. ASSUME NEW r \in Pinned(lock), job' = [job EXCEPT !.rev = r, !.pc = "discover"] PROVE Types'
    <2>1. r \in Revisions
      BY DEF Types, LockType, Pinned, Range
    <2>2. JobType'
      BY <1>3, <2>1 DEF Types, JobType, JobSet, Pcs
    <2>3. job'.toml = job.toml /\ job'.pc = "discover" /\ job'.next = job.next /\ job'.rev = r
          /\ job'.accepted = job.accepted
      BY <1>3 DEF Types, JobType, JobSet
    <2>4. Packages' = Packages /\ job.next = 1 /\ job.accepted = << >>
      BY <1>1, <2>3 DEF Packages, Types, Within
    <2>5. Within'
      BY <1>1, <2>3, <2>4 DEF Types, Within
    <2>6. NamedBefore(Packages, 1) = {}
      BY DEF NamedBefore
    <2>7. Answered'
      BY <2>1, <2>3, <2>4, <2>6 DEF Answered
    <2> QED BY <1>1, <2>2, <2>5, <2>7, TypesFiles DEF Types
  <1> QED BY <1>2, <1>3 DEF Pin

LEMMA TypesDiscover ==
  ASSUME Types, Discover
  PROVE  Types'
  <1>1. UNCHANGED <<lock, manifest, cache>> /\ job.pc = "discover" /\ job.next \in 1 .. Len(Packages)
    BY DEF Discover, At, Types, Within
  <1>2. CASE Stop("evalFailed")
    BY <1>1, <1>2, TypesFiles DEF Results
  <1>3. CASE Learn(job.rev, Here.name) /\ Here.name \in DOMAIN Takes[job.rev]
    <2> DEFINE n == Here.name
               answers == IF n \in DOMAIN job.accepted THEN job.accepted
                          ELSE Put(job.accepted, n, Takes[job.rev][n])
    <2>1. n \in Names /\ n = Packages[job.next].name
      BY <1>1, Package DEF Types, Here
    <2>2. job.toml.driven /\ job.rev \in Revisions
      BY <1>1 DEF Types, Within, Answered
    <2>3. Takes[job.rev][n] \in Range(Takes[job.rev])
      BY <1>3 DEF Range
    <2>4. Takes[job.rev][n] \in SUBSET Args
      BY <2>2, <2>3, NixAssumption
    <2>5. answers \in Answers
      BY <2>1, <2>4, PutTypes DEF Types, JobType, JobSet
    <2>6. DOMAIN answers = DOMAIN job.accepted \cup {n}
      <3>1. CASE n \in DOMAIN job.accepted
        BY <3>1
      <3>2. CASE n \notin DOMAIN job.accepted
        <4>1. DOMAIN Put(job.accepted, n, Takes[job.rev][n]) = DOMAIN job.accepted \cup {n}
          BY DEF Put
        <4> QED BY <3>2, <4>1, Zenon
      <3> QED BY <3>1, <3>2
    <2>7. job' = [job EXCEPT !.next = job.next + 1, !.accepted = answers]
      BY <1>3, Zenon DEF Learn
    <2> HIDE DEF answers
    <2>. PICK a \in Answers : /\ DOMAIN a = DOMAIN job.accepted \cup {n}
                              /\ job' = [job EXCEPT !.next = job.next + 1, !.accepted = a]
      BY <2>5, <2>6, <2>7, Zenon
    <2>8. JobType'
      <3>1. job \in JobSet
        BY DEF Types, JobType
      <3>2. job.next + 1 \in Nat
        BY <3>1 DEF JobSet
      <3>3. [job EXCEPT !.next = job.next + 1] \in JobSet
        BY <3>1, <3>2 DEF JobSet
      <3> QED BY <3>3 DEF JobType, JobSet
    <2>9. job'.toml = job.toml /\ job'.pc = "discover" /\ job'.next = job.next + 1
          /\ job'.rev = job.rev /\ job'.accepted = a
      <3> job \in JobSet
        BY DEF Types, JobType
      <3> QED BY <1>1 DEF JobSet
    <2>10. Packages' = Packages /\ Packages \in Seq([name : Names, attr : Names])
      BY <2>9, <1>1, Package DEF Packages, Types
    <2>11. Within'
      BY <1>1, <2>2, <2>9, <2>10 DEF Within
    <2>12. NamedBefore(Packages, job.next + 1) = NamedBefore(Packages, job.next) \cup {n}
      BY <1>1, <2>1 DEF NamedBefore
    <2>13. DOMAIN job.accepted = NamedBefore(Packages, job.next)
      BY <1>1, <2>2 DEF Types, Answered
    <2>14. Answered'
      BY <1>1, <2>2, <2>9, <2>10, <2>12, <2>13 DEF Answered
    <2> QED BY <1>1, <2>8, <2>11, <2>14, TypesFiles DEF Types
  <1> QED BY <1>2, <1>3 DEF Discover, Fails

LEMMA TypesGenerate ==
  ASSUME Types, Generate
  PROVE  Types'
  <1>1. UNCHANGED <<lock, manifest, cache>> /\ job.pc = "discover" /\ job.next = Len(Packages) + 1
    BY DEF Generate, At, Types, Within
  <1>2. CASE Stop("unhonoured") \/ Stop("flakeNotWritten")
    BY <1>1, <1>2, TypesFiles DEF Results
  <1>3. CASE Unhonoured(job.accepted, job.toml.flags) = {}
             /\ job' = [job EXCEPT !.next = 1, !.pc = "build"]
    <2>1. job \in JobSet
      BY DEF Types, JobType
    <2>2. JobType'
      BY <1>3, <2>1 DEF JobType, JobSet, Pcs
    <2>3. job'.toml = job.toml /\ job'.pc = "build" /\ job'.next = 1 /\ job'.rev = job.rev
          /\ job'.accepted = job.accepted
      BY <1>3, <2>1 DEF JobSet
    <2>4. Packages' = Packages
      BY <2>3 DEF Packages
    <2>5. 1 \in 1 .. Len(Packages) + 1
      BY <1>1 DEF Types, Within
    <2>6. Within'
      BY <2>3, <2>4, <2>5 DEF Within
    <2>7. Answered'
      BY <1>1, <1>3, <2>3, <2>4 DEF Types, Answered
    <2> QED BY <1>1, <2>2, <2>6, <2>7, TypesFiles DEF Types
  <1> QED BY <1>2, <1>3 DEF Generate, Fails

\* What nix has answered stays as it was while packages are built.
LEMMA TypesBuilding ==
  ASSUME Types, JobType', job'.toml = job.toml, job'.accepted = job.accepted,
         job.pc \in {"build", "push", "record", "open"},
         job'.pc \in {"build", "push", "record", "open", "write"},
         job'.pc \in {"build", "push", "record"} =>
           job'.rev = job.rev /\ job.pc \in {"build", "push", "record"},
         job'.next \in 1 .. Len(Packages) + 1,
         job'.pc \in {"push", "record"} =>
           /\ job'.next <= Len(Packages) /\ job'.drv \in Drvs
           /\ job'.part \in DOMAIN PartsOf[job'.drv.pkg],
         job'.pc \in {"open", "write"} => job'.next = Len(Packages) + 1
  PROVE  Packages' = Packages /\ Within' /\ Answered'
  <1>1. Packages' = Packages
    BY DEF Packages
  <1>2. Within'
    BY <1>1 DEF Within
  <1>3. Answered'
    BY <1>1 DEF Types, Answered
  <1> QED BY <1>1, <1>2, <1>3

LEMMA ChosenType ==
  ASSUME NEW accepted \in SUBSET Args, NEW flags \in Flags
  PROVE  Overrides(accepted, flags) \in SUBSET (Args \X BOOLEAN)
  <1>1. \A f : Chosen(accepted, f) \subseteq accepted
    BY DEF Chosen
  <1>2. \A f \in DOMAIN flags : flags[f] \in BOOLEAN
    BY DEF Flags
  <1> QED BY <1>1, <1>2 DEF Overrides

LEMMA TypesBuilt ==
  ASSUME Types, NEW drv \in Drvs, Built(drv), job.pc = "build", job.next <= Len(Packages)
  PROVE  JobType' /\ Within' /\ Answered'
  <1>1. job \in JobSet
    BY DEF Types, JobType
  <1>2. job' = [job EXCEPT !.drv = drv, !.part = 1, !.pc = IF job.push THEN "push" ELSE "record"]
    BY DEF Built
  <1>3. JobType'
    BY <1>1, <1>2 DEF JobType, JobSet, Pcs
  <1>4. /\ job'.toml = job.toml /\ job'.accepted = job.accepted /\ job'.rev = job.rev
        /\ job'.next = job.next /\ job'.drv = drv /\ job'.part = 1
        /\ job'.pc \in {"push", "record"}
    BY <1>1, <1>2 DEF JobSet
  <1>5. drv.pkg \in Names
    BY DEF Drvs
  <1>6. PartsOf[drv.pkg] \in Seq(Parts) /\ PartsOf[drv.pkg] # << >>
    BY <1>5, NixAssumption
  <1>7. 1 \in DOMAIN PartsOf[drv.pkg]
    BY <1>6
  <1> QED BY <1>3, <1>4, <1>7, TypesBuilding DEF Types, Within

LEMMA TypesBuildProfile ==
  ASSUME Types, BuildProfile
  PROVE  Types'
  <1>1. UNCHANGED <<lock, manifest, cache>> /\ job.pc = "build" /\ job.next \in 1 .. Len(Packages)
        /\ job.toml.driven
    BY DEF BuildProfile, At, Types, Within
  <1>2. CASE Stop("buildFailed")
    BY <1>1, <1>2, TypesFiles DEF Results
  <1>3. CASE Built(ProfileDrv(Here.name))
    <2>1. Here.name \in Names /\ Here.name = Packages[job.next].name
      BY <1>1, Package DEF Types, Here
    <2>2. Here.name \in DOMAIN job.accepted
      BY <1>1, <2>1 DEF Types, Answered, NamedBefore, Within
    <2>3. job.accepted[Here.name] \in SUBSET Args /\ job.rev \in Revisions
      BY <1>1, <2>2 DEF Types, JobType, JobSet, Answers, Answered
    <2>4. job.toml.flags \in Flags
      BY NothingYet DEF Types, JobType, JobSet, TomlSet
    <2>5. Overrides(job.accepted[Here.name], job.toml.flags) \in SUBSET (Args \X BOOLEAN)
      BY <2>3, <2>4, ChosenType
    <2>6. ProfileDrv(Here.name) \in Drvs
      BY <2>1, <2>3, <2>5 DEF ProfileDrv, Drvs
    <2> QED BY <1>1, <1>3, <2>6, TypesBuilt, TypesFiles DEF Types
  <1> QED BY <1>2, <1>3 DEF BuildProfile

LEMMA TypesBuildFails ==
  ASSUME Types, BuildFails
  PROVE  Types'
  BY TypesFiles DEF BuildFails, Fails, At, Results

FlakeInputs == {out.input : out \in Range(Flake)}

LEMMA FlakeOutput ==
  /\ FlakeInputs \subseteq Inputs
  /\ \A output \in DOMAIN Flake : Flake[output].input \in FlakeInputs /\ Flake[output].pkg \in Names
  <1>1. \A out \in Range(Flake) : out.input \in Inputs /\ out.pkg \in Names
    BY NixAssumption
  <1>2. \A output \in DOMAIN Flake : Flake[output] \in Range(Flake)
    BY DEF Range
  <1> QED BY <1>1, <1>2 DEF FlakeInputs

\* What nix makes of flake.lock: what it leaves open is locked.
LEMMA Locking ==
  ASSUME LockType, BuildOutput
  PROVE  /\ LockType' /\ DOMAIN lock' = DOMAIN lock \cup FlakeInputs
         /\ \A i \in DOMAIN lock : lock'[i] = lock[i]
  <1>1. PICK new \in [FlakeInputs \ DOMAIN lock -> Revisions] :
          lock' = [i \in DOMAIN lock \cup (FlakeInputs \ DOMAIN lock) |->
                     IF i \in FlakeInputs \ DOMAIN lock THEN new[i] ELSE lock[i]]
    BY DEF BuildOutput, FlakeInputs
  <1>2. DOMAIN lock' = DOMAIN lock \cup FlakeInputs /\ \A i \in DOMAIN lock : lock'[i] = lock[i]
    BY <1>1
  <1>3. \A i \in FlakeInputs \ DOMAIN lock : lock'[i] \in Revisions
    BY <1>1
  <1>4. \A i \in DOMAIN lock : lock'[i] \in Revisions \cup {Unpinned}
    BY <1>2 DEF LockType, Range
  <1>5. DOMAIN lock' \subseteq Inputs
    BY <1>2, FlakeOutput DEF LockType
  <1>6. Range(lock') \subseteq Revisions \cup {Unpinned}
    BY <1>2, <1>3, <1>4 DEF Range
  <1> QED BY <1>2, <1>5, <1>6 DEF LockType

OutputDrv(output) ==
  [rev |-> lock'[Flake[output].input], pkg |-> Flake[output].pkg, with |-> {}, checkKept |-> TRUE]

LEMMA BuildOutputCases ==
  ASSUME BuildOutput
  PROVE  \/ Stop("buildFailed")
         \/ /\ OutputOf(job.toml, Here) \in DOMAIN Flake
            /\ Built(OutputDrv(OutputOf(job.toml, Here)))
  BY Zenon DEF BuildOutput, OutputDrv

LEMMA TypesBuildOutput ==
  ASSUME Types, BuildOutput
  PROVE  Types'
  <1>1. UNCHANGED <<manifest, cache>> /\ job.pc = "build" /\ job.next \in 1 .. Len(Packages)
    BY DEF BuildOutput, Types, Within
  <1>2. LockType' /\ FileType' /\ CacheType'
    BY <1>1, Locking DEF Types, FileType, CacheType
  <1>3. CASE Stop("buildFailed")
    BY <1>2, <1>3, TypesStop DEF Types, Results
  <1>4. ASSUME NEW output \in DOMAIN Flake, Built(OutputDrv(output)) PROVE Types'
    <2>1. Flake[output].input \in DOMAIN lock' /\ Flake[output].pkg \in Names
      BY Locking, FlakeOutput DEF Types
    <2>2. lock'[Flake[output].input] \in Revisions \cup {Unpinned}
      BY <1>2, <2>1 DEF LockType, Range
    <2>3. OutputDrv(output) \in Drvs
      BY <2>1, <2>2 DEF OutputDrv, Drvs
    <2> QED BY <1>1, <1>2, <1>4, <2>3, TypesBuilt DEF Types
  <1> QED BY <1>3, <1>4, BuildOutputCases

LEMMA TypesPush ==
  ASSUME Types, Push
  PROVE  Types'
  <1>1. UNCHANGED <<lock, manifest>> /\ job.pc = "push" /\ job \in JobSet
    BY DEF Push, At, Types, JobType
  <1>2. /\ job.next \in 1 .. Len(Packages) /\ job.drv \in Drvs
        /\ job.part \in DOMAIN PartsOf[job.drv.pkg]
    BY <1>1 DEF Types, Within
  <1>3. PartsOf[job.drv.pkg] \in Seq(Parts)
    BY <1>2, NixAssumption DEF Drvs
  <1>4. <<job.drv, job.part>> \in Paths
    BY <1>2 DEF Paths, Outputs
  <1>5. LockType' /\ FileType' /\ CacheType'
    BY <1>1, <1>4 DEF Push, Types, LockType, FileType, CacheType
  <1>6. CASE Goto("record")
    <2>1. JobType'
      BY <1>1, <1>6 DEF Goto, JobType, JobSet, Pcs
    <2>2. /\ job'.toml = job.toml /\ job'.accepted = job.accepted /\ job'.rev = job.rev
          /\ job'.next = job.next /\ job'.drv = job.drv /\ job'.part = job.part
          /\ job'.pc = "record"
      BY <1>1, <1>6 DEF Goto, JobSet
    <2> QED BY <1>1, <1>2, <1>5, <2>1, <2>2, TypesBuilding DEF Types
  <1>7. CASE job' = [job EXCEPT !.warned = TRUE, !.pc = "record"]
    <2>1. JobType'
      BY <1>1, <1>7 DEF JobType, JobSet, Pcs
    <2>2. /\ job'.toml = job.toml /\ job'.accepted = job.accepted /\ job'.rev = job.rev
          /\ job'.next = job.next /\ job'.drv = job.drv /\ job'.part = job.part
          /\ job'.pc = "record"
      BY <1>1, <1>7 DEF JobSet
    <2> QED BY <1>1, <1>2, <1>5, <2>1, <2>2, TypesBuilding DEF Types
  <1>8. CASE ~LastPart /\ job' = [job EXCEPT !.part = job.part + 1]
    <2>1. job.part + 1 \in DOMAIN PartsOf[job.drv.pkg]
      BY <1>2, <1>3, <1>8 DEF LastPart
    <2>2. JobType'
      BY <1>1, <1>8 DEF JobType, JobSet
    <2>3. /\ job'.toml = job.toml /\ job'.accepted = job.accepted /\ job'.rev = job.rev
          /\ job'.next = job.next /\ job'.drv = job.drv /\ job'.part = job.part + 1
          /\ job'.pc = "push"
      BY <1>1, <1>8 DEF JobSet
    <2> QED BY <1>1, <1>2, <1>5, <2>1, <2>2, <2>3, TypesBuilding DEF Types
  <1> QED BY <1>6, <1>7, <1>8 DEF Push

LEMMA Recording ==
  ASSUME Types, Record
  PROVE  /\ UNCHANGED <<lock, manifest, cache>> /\ job.pc = "record" /\ JobType'
         /\ job.next \in 1 .. Len(Packages) /\ job.drv \in Drvs
         /\ Here.name \in Names /\ Here.name = Packages[job.next].name
         /\ job' = [job EXCEPT !.pc = "build", !.next = job.next + 1, !.entries = job'.entries]
         /\ DOMAIN job'.entries = DOMAIN job.entries \cup {Here.name}
         /\ job'.entries[Here.name] = <<job.drv, Primary(PartsOf[job.drv.pkg])>>
         /\ \A n \in DOMAIN job.entries : n # Here.name => job'.entries[n] = job.entries[n]
  <1> DEFINE path == <<job.drv, Primary(PartsOf[job.drv.pkg])>>
             new == Put(job.entries, Here.name, path)
  <1>1. UNCHANGED <<lock, manifest, cache>> /\ job.pc = "record" /\ job \in JobSet
    BY DEF Record, At, Types, JobType
  <1>2. job.next \in 1 .. Len(Packages) /\ job.drv \in Drvs
    BY <1>1 DEF Types, Within
  <1>3. Here.name \in Names /\ Here.name = Packages[job.next].name
    BY <1>2, Package DEF Types, Here
  <1>4. new \in Entries
    <2>1. path \in Paths
      BY <1>2, MainOutput
    <2>2. job.entries \in Entries
      BY <1>1 DEF JobSet
    <2> QED BY <1>3, <2>1, <2>2, PutTypes
  <1>5. job' = [job EXCEPT !.pc = "build", !.next = job.next + 1, !.entries = new]
    BY Zenon DEF Record
  <1>6. /\ DOMAIN new = DOMAIN job.entries \cup {Here.name} /\ new[Here.name] = path
        /\ \A n \in DOMAIN job.entries : n # Here.name => new[n] = job.entries[n]
    BY DEF Put
  <1> HIDE DEF path, new
  <1>. PICK entries \in Entries :
         /\ entries = new /\ job' = [job EXCEPT !.pc = "build", !.next = job.next + 1, !.entries = entries]
    BY <1>4, <1>5
  <1>7. job'.entries = entries
    BY <1>1 DEF JobSet
  <1>8. job.next + 1 \in Nat
    BY <1>1 DEF JobSet
  <1>9. [job EXCEPT !.pc = "build", !.next = job.next + 1] \in JobSet
    BY <1>1, <1>8 DEF JobSet, Pcs
  <1>10. JobType'
    BY <1>9 DEF JobType, JobSet
  <1>11. job'.entries = new
    BY <1>7
  <1>12. /\ DOMAIN job'.entries = DOMAIN job.entries \cup {Here.name} /\ job'.entries[Here.name] = path
         /\ \A n \in DOMAIN job.entries : n # Here.name => job'.entries[n] = job.entries[n]
    BY <1>6, <1>11, Zenon
  <1> QED BY <1>1, <1>2, <1>3, <1>7, <1>10, <1>12 DEF path

LEMMA TypesRecord ==
  ASSUME Types, Record
  PROVE  Types'
  <1>1. /\ job'.toml = job.toml /\ job'.accepted = job.accepted /\ job'.rev = job.rev
        /\ job'.next = job.next + 1 /\ job'.pc = "build"
    BY Recording DEF Types, JobType, JobSet
  <1>2. job.next + 1 \in 1 .. Len(Packages) + 1
    BY Recording, Package DEF Types
  <1> QED BY <1>1, <1>2, Recording, TypesBuilding, TypesFiles DEF Types

LEMMA TypesReadRevision ==
  ASSUME Types, ReadRevision
  PROVE  Types'
  <1>1. /\ UNCHANGED <<lock, manifest, cache>> /\ job.pc = "build" /\ job.next = Len(Packages) + 1
        /\ job \in JobSet /\ job' = [job EXCEPT !.rev = Recorded, !.pc = "open"]
    BY DEF ReadRevision, At, Types, JobType, Within
  <1>2. Recorded \in Revisions \cup {Unknown}
    <2>1. Pinned(lock) \subseteq Revisions
      BY DEF Types, LockType, Pinned, Range
    <2> QED BY <2>1 DEF Recorded
  <1>3. JobType'
    BY <1>1, <1>2 DEF JobType, JobSet, Pcs
  <1>4. /\ job'.toml = job.toml /\ job'.accepted = job.accepted
        /\ job'.next = job.next /\ job'.pc = "open"
    BY <1>1 DEF JobSet
  <1>5. job'.next \in 1 .. Len(Packages) + 1
    BY <1>1, <1>4 DEF Types, Within
  <1> QED BY <1>1, <1>3, <1>4, <1>5, TypesBuilding, TypesFiles DEF Types

LEMMA TypesOpenManifest ==
  ASSUME Types, OpenManifest
  PROVE  Types'
  <1>1. lock' = lock /\ cache' = cache /\ job.pc = "open" /\ job \in JobSet
    BY DEF OpenManifest, Fails, At, Types, JobType
  <1>2. CASE Fails("notWritten")
    BY <1>1, <1>2, TypesFiles DEF Fails, Results
  <1>3. CASE manifest' = Torn /\ Goto("write")
    <2>1. LockType' /\ FileType' /\ CacheType'
      BY <1>1, <1>3 DEF Types, LockType, FileType, Manifests, CacheType
    <2>2. JobType'
      BY <1>1, <1>3 DEF Goto, JobType, JobSet, Pcs
    <2>3. /\ job'.toml = job.toml /\ job'.accepted = job.accepted
          /\ job'.next = job.next /\ job'.pc = "write"
      BY <1>1, <1>3 DEF Goto, JobSet
    <2>4. job'.next = Len(Packages) + 1 /\ job'.next \in 1 .. Len(Packages) + 1
      BY <1>1, <2>3 DEF Types, Within
    <2> QED BY <1>1, <2>1, <2>2, <2>3, <2>4, TypesBuilding DEF Types
  <1> QED BY <1>2, <1>3 DEF OpenManifest

LEMMA TypesWriteManifest ==
  ASSUME Types, WriteManifest
  PROVE  Types'
  <1>1. lock' = lock /\ cache' = cache /\ job.pc = "write" /\ job \in JobSet
    BY DEF WriteManifest, Fails, At, Types, JobType
  <1>2. CASE Fails("notWritten")
    BY <1>1, <1>2, TypesFiles DEF Fails, Results
  <1>3. CASE Stop("ok") /\ manifest' = [packages |-> job.entries, rev |-> job.rev,
                                        flags |-> job.toml.flags, check |-> job.toml.check]
    <2>1. job.toml \in TomlSet
      BY <1>1, NothingYet DEF JobSet
    <2>2. job.toml.flags \in Flags /\ job.toml.check \in Checks
      BY <2>1 DEF TomlSet
    <2>3. job.entries \in Entries /\ job.rev \in Revisions \cup {Unknown}
      BY <1>1 DEF JobSet
    <2>4. LockType' /\ FileType' /\ CacheType'
      BY <1>1, <1>3, <2>2, <2>3 DEF Types, LockType, FileType, Manifests, CacheType
    <2> QED BY <1>3, <2>4, TypesStop DEF Types, Results
  <1> QED BY <1>2, <1>3 DEF WriteManifest

LEMMA TypesNext ==
  ASSUME Types, [Next]_vars
  PROVE  Types'
  <1>1. CASE Kill
    BY <1>1, TypesFiles DEF Kill, At, Results
  <1>2. CASE UNCHANGED vars
    <2>1. UNCHANGED <<lock, manifest, cache, job>>
      BY <1>2 DEF vars
    <2>2. JobType' /\ Within' /\ Answered'
      BY <2>1 DEF Types, JobType, Within, Answered, Packages
    <2> QED BY <2>1, <2>2, TypesFiles DEF Types
  <1> QED BY <1>1, <1>2, TypesUpdate, TypesStart, TypesPin, TypesDiscover, TypesGenerate,
             TypesBuildProfile, TypesBuildOutput, TypesBuildFails, TypesPush, TypesRecord,
             TypesReadRevision, TypesOpenManifest, TypesWriteManifest DEF Next, Step

LEMMA TypesInit ==
  ASSUME Init
  PROVE  Types
  <1>1. lock \in LockSet
    BY FileAssumption DEF Init
  <1>2. LockType
    BY <1>1 DEF LockSet, LockType, Range
  <1>3. JobType /\ FileType /\ CacheType
    BY NoJobOK DEF Init, JobType, FileType, Manifests, CacheType
  <1>4. job.pc = "idle" /\ job.next = 1 /\ ~job.toml.driven /\ job.toml.packages = << >>
    BY DEF Init, NoJob
  <1>5. Within /\ Answered
    BY <1>4 DEF Within, Answered, Packages
  <1> QED BY <1>2, <1>3, <1>5 DEF Types

LEMMA TypesHold == Spec => []Types
  BY TypesInit, TypesNext, PTL DEF Spec

LEMMA TypesImply == Types => TypeOK
  <1> SUFFICES ASSUME Types PROVE TypeOK
    OBVIOUS
  <1>1. \A path \in Paths : path[1] \in Drvs /\ path \in Outputs(path[1])
    BY DEF Paths, Outputs
  <1>2. job \in JobSet
    BY DEF Types, JobType
  <1>3. \A e \in Entries : DOMAIN e \subseteq Names /\ \A n \in DOMAIN e : e[n] \in Paths
    BY DEF Entries
  <1>4. \A n \in DOMAIN job.accepted : job.accepted[n] \in SUBSET Args
    BY <1>2 DEF JobSet, Answers
  <1>5. \A n \in DOMAIN job.entries : job.entries[n] \in Outputs(job.entries[n][1])
    BY <1>1, <1>2, <1>3 DEF JobSet
  <1>6. IsWhole => \A n \in DOMAIN manifest.packages :
          n \in Names /\ manifest.packages[n] \in Outputs(manifest.packages[n][1])
    BY <1>1, <1>3 DEF Types, FileType, Manifests, IsWhole
  <1>7. \A path \in cache : path[1] \in Drvs /\ path \in Outputs(path[1])
    BY <1>1 DEF Types, CacheType
  <1> QED BY <1>2, <1>4, <1>5, <1>6, <1>7 DEF Types, LockType, Within, TypeOK, JobSet

\* Every file, cache and command is of its type, and every recorded path is an
\* output that its package has.
THEOREM TypeCorrect == Spec => []TypeOK
  BY TypesHold, TypesImply, PTL

-----------------------------------------------------------------------------
(* What every step leaves of a command that goes on *)

Carried == /\ job'.toml = job.toml /\ job'.push = job.push
           /\ job'.moved = job.moved /\ job'.old = job.old

Stops == \E why \in Results : Stop(why)

LEMMA StepCarries ==
  ASSUME Types, Step
  PROVE  Stops \/ Carried
  <1>1. job \in JobSet
    BY DEF Types, JobType
  <1>2. CASE Pin
    BY <1>1, <1>2 DEF Pin, JobSet, Stops, Carried, Results
  <1>3. CASE Discover
    BY <1>1, <1>3 DEF Discover, Learn, Fails, JobSet, Stops, Carried, Results
  <1>4. CASE Generate
    BY <1>1, <1>4 DEF Generate, Fails, JobSet, Stops, Carried, Results
  <1>5. CASE BuildProfile
    BY <1>1, <1>5 DEF BuildProfile, Built, JobSet, Stops, Carried, Results
  <1>6. CASE BuildOutput
    BY <1>1, <1>6, BuildOutputCases DEF Built, JobSet, Stops, Carried, Results
  <1>7. CASE BuildFails
    BY <1>7 DEF BuildFails, Fails, Stops, Results
  <1>8. CASE Push
    BY <1>1, <1>8 DEF Push, Goto, JobSet, Stops, Carried, Results
  <1>9. CASE Record
    BY <1>1, <1>9, Recording DEF JobSet, Carried
  <1>10. CASE ReadRevision
    BY <1>1, <1>10 DEF ReadRevision, JobSet, Carried
  <1>11. CASE OpenManifest
    BY <1>1, <1>11 DEF OpenManifest, Goto, Fails, JobSet, Stops, Carried, Results
  <1>12. CASE WriteManifest
    BY <1>12 DEF WriteManifest, Fails, Stops, Results
  <1> QED BY <1>2, <1>3, <1>4, <1>5, <1>6, <1>7, <1>8, <1>9, <1>10, <1>11, <1>12 DEF Step

LEMMA StopsFacts ==
  ASSUME Stops
  PROVE  job'.pc = "idle" /\ job'.entries = << >>
  BY StopOK DEF Stops

\* A change of flake.lock touches nothing else of a command but `moved`.
LEMMA UpdateCarries ==
  ASSUME Types, NEW l \in Locks, Update(l)
  PROVE  /\ UNCHANGED <<manifest, cache>>
         /\ job'.toml = job.toml /\ job'.push = job.push /\ job'.old = job.old
         /\ job'.pc = job.pc /\ job'.rev = job.rev /\ job'.accepted = job.accepted
         /\ job'.next = job.next /\ job'.drv = job.drv /\ job'.part = job.part
         /\ job'.entries = job.entries /\ job'.warned = job.warned
         /\ job.pc # "idle" => job'.moved
  BY DEF Types, JobType, JobSet, Update

LEMMA StartCarries ==
  ASSUME Types, NEW t \in Tomls, NEW push \in BOOLEAN, Start(t, push)
  PROVE  /\ job.pc = "idle" /\ UNCHANGED <<lock, manifest, cache>>
         /\ \/ Stops
            \/ /\ job'.pc = (IF t.driven THEN "pin" ELSE "build") /\ job'.toml = t
               /\ job'.next = 1 /\ job'.entries = << >> /\ ~job'.warned /\ ~job'.moved
               /\ job'.old = manifest
  <1>1. NoJob \in JobSet /\ NoJob.entries = << >> /\ NoJob.next = 1
        /\ ~NoJob.warned /\ ~NoJob.moved
    BY NoJobOK DEF NoJob
  <1>2. CASE Stop("invalidRequest")
    BY <1>2 DEF Start, Stops, Results
  <1>3. CASE job' = [NoJob EXCEPT !.pc = IF t.driven THEN "pin" ELSE "build",
                                  !.toml = t, !.push = push, !.old = manifest]
    BY <1>1, <1>3 DEF Start, JobSet
  <1> QED BY <1>2, <1>3 DEF Start

-----------------------------------------------------------------------------
(* The manifest of a command that fails *)

\* Until it is opened for writing the manifest is the one it began with.
Kept ==
  /\ job.pc \notin {"idle", "write"} => manifest = job.old
  /\ job.pc = "write" => manifest = Torn

LEMMA KeptNext ==
  ASSUME Types, Kept, [Next]_vars
  PROVE  Kept'
  <1>1. ASSUME NEW l \in Locks, Update(l) PROVE Kept'
    BY <1>1, UpdateCarries DEF Kept
  <1>2. ASSUME NEW t \in Tomls, NEW push \in BOOLEAN, Start(t, push) PROVE Kept'
    BY <1>2, StartCarries, StopsFacts DEF Kept
  <1>3. CASE Kill
    BY <1>3, StopOK DEF Kill, Results, Kept
  <1>4. CASE Stops
    BY <1>4, StopsFacts DEF Kept
  <1>5. ASSUME OpenManifest, ~Stops PROVE Kept'
    <2>1. Goto("write") /\ manifest' = Torn
      BY <1>5 DEF OpenManifest, Fails, Stops, Results
    <2>2. job'.pc = "write"
      BY <2>1 DEF Goto, Types, JobType, JobSet
    <2> QED BY <2>1, <2>2 DEF Kept
  <1>6. ASSUME Step, ~Stops, ~OpenManifest PROVE Kept'
    <2>1. manifest' = manifest /\ job.pc \notin {"idle", "open", "write"} /\ job'.old = job.old
      BY <1>6, StepCarries DEF Step, Pin, Discover, Generate, BuildProfile, BuildOutput,
         BuildFails, Fails, Push, Record, ReadRevision, WriteManifest, At, Stops, Results, Carried
    <2>2. job'.pc # "write"
      BY <1>6 DEF Step, Pin, Discover, Learn, Generate, BuildProfile, BuildOutput, Built,
         BuildFails, Fails, Push, Record, ReadRevision, WriteManifest, At, Goto, Stops, Results,
         Types, JobType, JobSet
    <2> QED BY <2>1, <2>2 DEF Kept
  <1>7. CASE UNCHANGED vars
    BY <1>7 DEF vars, Kept
  <1> QED BY <1>1, <1>2, <1>3, <1>4, <1>5, <1>6, <1>7 DEF Next

LEMMA KeptStep ==
  ASSUME Types, Kept, Next, job.pc # "idle", job'.pc = "idle", job'.result # "ok"
  PROVE  manifest' = job.old \/ (manifest' = Torn /\ job'.result \in {"killed", "notWritten"})
  <1>1. job.pc = "write" \/ manifest = job.old
    BY DEF Kept
  <1>2. \A l \in Locks : ~Update(l)
    BY UpdateCarries
  <1>3. \A t \in Tomls, push \in BOOLEAN : ~Start(t, push)
    BY DEF Start
  <1>4. CASE Kill
    BY <1>1, <1>4, StopOK DEF Kill, Kept, Results
  <1>5. CASE WriteManifest
    <2>1. ~Stop("ok")
      BY StopOK DEF Results
    <2>2. manifest' = manifest /\ job.pc = "write" /\ Stop("notWritten")
      BY <1>5, <2>1 DEF WriteManifest, Fails, At
    <2>3. job'.result = "notWritten"
      BY <2>2, StopOK DEF Results
    <2> QED BY <2>2, <2>3 DEF Kept
  <1>6. CASE OpenManifest
    <2>1. job.pc = "open" /\ ~Goto("write")
      BY <1>6 DEF OpenManifest, At, Goto, Types, JobType, JobSet
    <2>2. manifest' = manifest
      BY <1>6, <2>1 DEF OpenManifest, Fails
    <2> QED BY <1>1, <2>1, <2>2
  <1>7. ASSUME Step, ~WriteManifest, ~OpenManifest
        PROVE  manifest' = manifest /\ job.pc # "write"
    BY <1>7 DEF Step, Pin, Discover, Generate, BuildProfile, BuildOutput,
       BuildFails, Fails, Push, Record, ReadRevision, At
  <1> QED BY <1>1, <1>2, <1>3, <1>4, <1>5, <1>6, <1>7 DEF Next

\* A command that does not return Ok leaves the manifest as it was, unless it
\* is killed, or fails, while it writes it.
THEOREM FailureKeeps == Spec => FailureKeepsManifest
  <1>1. Init => Kept
    BY DEF Init, Kept, NoJob
  <1>2. Spec => [](Types /\ Kept)
    BY <1>1, TypesInit, TypesNext, KeptNext, PTL DEF Spec
  <1>3. Types /\ Kept /\ [Next]_vars =>
        [job.pc # "idle" /\ job'.pc = "idle" /\ job'.result # "ok" =>
           manifest' = job.old \/ (manifest' = Torn /\ job'.result \in {"killed", "notWritten"})]_vars
    BY KeptStep
  <1> QED BY <1>2, <1>3, PTL DEF Spec, FailureKeepsManifest

-----------------------------------------------------------------------------
(* What has been pushed *)

Pushed ==
  job.push /\ ~job.warned =>
    /\ \A n \in DOMAIN job.entries : Outputs(job.entries[n][1]) \subseteq cache
    /\ job.pc = "push" => {job.drv} \X (1 .. job.part - 1) \subseteq cache
    /\ job.pc = "record" => Outputs(job.drv) \subseteq cache

LEMMA PushedStop ==
  ASSUME Stops
  PROVE  Pushed'
  BY StopsFacts DEF Pushed

\* A step that neither pushes nor records.
LEMMA PushedKeeps ==
  ASSUME Pushed, cache' = cache, job'.entries = job.entries, job'.push = job.push,
         job'.warned = job.warned, job'.pc = "push" => job'.part = 1,
         job'.pc # "record" \/ ~job.push
  PROVE  Pushed'
  BY DEF Pushed

LEMMA PushedNext ==
  ASSUME Types, Pushed, [Next]_vars
  PROVE  Pushed'
  <1>0. job \in JobSet
    BY DEF Types, JobType
  <1>1. ASSUME NEW l \in Locks, Update(l) PROVE Pushed'
    BY <1>1, UpdateCarries DEF Pushed
  <1>2. ASSUME NEW t \in Tomls, NEW push \in BOOLEAN, Start(t, push) PROVE Pushed'
    BY <1>2, StartCarries, PushedStop DEF Pushed
  <1>3. CASE Kill
    BY <1>3, PushedStop DEF Kill, Stops, Results
  <1>4. CASE Pin
    BY <1>0, <1>4, PushedStop, PushedKeeps DEF Pin, JobSet, Stops, Results
  <1>5. CASE Discover
    BY <1>0, <1>5, PushedStop, PushedKeeps DEF Discover, Learn, Fails, At, JobSet, Stops, Results
  <1>6. CASE Generate
    BY <1>0, <1>6, PushedStop, PushedKeeps DEF Generate, Fails, JobSet, Stops, Results
  <1>7. CASE BuildProfile
    BY <1>0, <1>7, PushedStop, PushedKeeps DEF BuildProfile, Built, JobSet, Stops, Results
  <1>8. CASE BuildOutput
    <2>1. cache' = cache
      BY <1>8 DEF BuildOutput
    <2> QED BY <1>0, <1>8, <2>1, BuildOutputCases, PushedStop, PushedKeeps
            DEF Built, JobSet, Stops, Results
  <1>9. CASE BuildFails
    BY <1>9, PushedStop DEF BuildFails, Fails, Stops, Results
  <1>10. CASE Push
    <2>1. job.pc = "push" /\ cache \subseteq cache'
      BY <1>10 DEF Push, At
    <2>2. PartsOf[job.drv.pkg] \in Seq(Parts) /\ job.part \in DOMAIN PartsOf[job.drv.pkg]
      BY <2>1, NixAssumption DEF Types, Within, Drvs
    <2>3. CASE job' = [job EXCEPT !.warned = TRUE, !.pc = "record"]
      BY <1>0, <2>3 DEF Pushed, JobSet
    <2>4. CASE cache' = cache \cup {<<job.drv, job.part>>} /\ LastPart /\ Goto("record")
      <3>1. /\ job'.push = job.push /\ job'.warned = job.warned /\ job'.drv = job.drv
            /\ job'.pc = "record" /\ job'.entries = job.entries
        BY <1>0, <2>4 DEF Goto, JobSet
      <3>2. DOMAIN PartsOf[job.drv.pkg] = (1 .. job.part - 1) \cup {job.part}
        BY <2>2, <2>4 DEF LastPart
      <3>3. Outputs(job.drv) = ({job.drv} \X (1 .. job.part - 1)) \cup {<<job.drv, job.part>>}
        BY <3>2 DEF Outputs
      <3> QED BY <2>1, <2>4, <3>1, <3>3 DEF Pushed
    <2>5. CASE cache' = cache \cup {<<job.drv, job.part>>} /\ job' = [job EXCEPT !.part = job.part + 1]
      <3>1. /\ job'.push = job.push /\ job'.warned = job.warned /\ job'.drv = job.drv
            /\ job'.pc = "push" /\ job'.entries = job.entries /\ job'.part = job.part + 1
        BY <1>0, <2>1, <2>5 DEF JobSet
      <3>2. 1 .. job'.part - 1 = (1 .. job.part - 1) \cup {job.part}
        BY <2>2, <3>1
      <3> QED BY <2>1, <2>5, <3>1, <3>2 DEF Pushed
    <2> QED BY <1>10, <2>3, <2>4, <2>5 DEF Push
  <1>11. CASE Record
    <2>1. /\ job'.push = job.push /\ job'.warned = job.warned /\ job'.pc = "build"
          /\ job.pc = "record" /\ cache' = cache
      BY <1>0, <1>11, Recording DEF JobSet
    <2>2. job'.entries[Here.name][1] = job.drv
      BY <1>11, Recording
    <2> QED BY <1>11, <2>1, <2>2, Recording DEF Pushed
  <1>12. CASE ReadRevision
    BY <1>0, <1>12, PushedKeeps DEF ReadRevision, JobSet
  <1>13. CASE OpenManifest
    BY <1>0, <1>13, PushedStop, PushedKeeps DEF OpenManifest, Goto, Fails, JobSet, Stops, Results
  <1>14. CASE WriteManifest
    BY <1>14, PushedStop DEF WriteManifest, Fails, Stops, Results
  <1>15. CASE UNCHANGED vars
    BY <1>15 DEF vars, Pushed
  <1> QED BY <1>1, <1>2, <1>3, <1>4, <1>5, <1>6, <1>7, <1>8, <1>9, <1>10, <1>11, <1>12,
             <1>13, <1>14, <1>15 DEF Next, Step

\* Only the last step returns Ok, with the manifest made of the command.
LEMMA EndOk ==
  ASSUME Types, Next, Ends("ok")
  PROVE  /\ job.pc = "write" /\ UNCHANGED <<lock, cache>> /\ WriteManifest
         /\ manifest' = [packages |-> job.entries, rev |-> job.rev,
                         flags |-> job.toml.flags, check |-> job.toml.check]
  <1>1. \A why \in Results : Stop(why) => why = "ok"
    BY StopOK DEF Ends
  <1>2. \A l \in Locks : ~Update(l)
    BY UpdateCarries DEF Ends
  <1>3. \A t \in Tomls, push \in BOOLEAN : ~Start(t, push)
    BY DEF Start, Ends
  <1>4. ~Kill
    BY <1>1 DEF Kill, Results
  <1>5. WriteManifest \/ ~Step
    BY <1>1, BuildOutputCases, Recording DEF Types, JobType, JobSet, Ends, Step, Pin, Discover, Learn,
       Generate, BuildProfile, Built, BuildFails, Fails, Push, Record, ReadRevision,
       OpenManifest, At, Goto, Results
  <1>6. WriteManifest
    BY <1>2, <1>3, <1>4, <1>5 DEF Next
  <1>7. ~Stop("notWritten")
    BY <1>1 DEF Results
  <1> QED BY <1>6, <1>7 DEF WriteManifest, Fails, At

\* With Ok and no warning, every output of every package in the manifest is in
\* the cache, if there is a cache to push to.
THEOREM PushedIfOk == Spec => SuccessMeansPushed
  <1>1. Init => Pushed
    BY DEF Init, Pushed, NoJob
  <1>2. Spec => [](Types /\ Pushed)
    BY <1>1, TypesInit, TypesNext, PushedNext, PTL DEF Spec
  <1>3. ASSUME Types, Pushed, Next, Ends("ok"), job.push, ~job.warned
        PROVE  \A n \in DOMAIN manifest'.packages : Outputs(DrvOf(manifest', n)) \subseteq cache
    <2>1. manifest'.packages = job.entries
      BY <1>3, EndOk
    <2> QED BY <1>3, <2>1 DEF Pushed, DrvOf
  <1>4. Types /\ Pushed /\ [Next]_vars =>
        [Ends("ok") /\ job.push /\ ~job.warned =>
           \A n \in DOMAIN manifest'.packages : Outputs(DrvOf(manifest', n)) \subseteq cache]_vars
    BY <1>3
  <1> QED BY <1>2, <1>4, PTL DEF Spec, SuccessMeansPushed

-----------------------------------------------------------------------------
(* What a manifest states of a profile *)

MadeFor(drv, n) ==
  /\ drv.with = Overrides(job.accepted[n], job.toml.flags)
  /\ drv.checkKept = (job.toml.check # "off")

Building == {"build", "push", "record", "open", "write"}

\* Of each package before the next there is an entry, made for it.
Made ==
  /\ job.pc \in {"pin", "discover"} => job.entries = << >>
  /\ job.toml.driven /\ job.pc \in Building =>
       /\ DOMAIN job.entries = NamedBefore(Packages, job.next)
       /\ \A n \in DOMAIN job.entries : MadeFor(job.entries[n][1], n)
       /\ job.pc \in {"push", "record"} => MadeFor(job.drv, Here.name)

LEMMA MadeStop ==
  ASSUME Stops
  PROVE  Made'
  BY StopsFacts DEF Made, Building

\* A step that makes no entry.
LEMMA MadeKeeps ==
  ASSUME Types, Made, job'.toml = job.toml, job'.accepted = job.accepted,
         job'.entries = job.entries, job'.next = job.next, job.pc \in Building, job'.pc \in Building,
         job'.pc \in {"push", "record"} =>
           \/ ~job.toml.driven
           \/ job'.drv = job.drv /\ job.pc \in {"push", "record"}
           \/ job'.drv = ProfileDrv(Here.name)
  PROVE  Made'
  <1>1. Packages' = Packages /\ Here' = Here
    BY DEF Packages, Here
  <1>2. \A n : MadeFor(ProfileDrv(n), n)
    BY DEF MadeFor, ProfileDrv
  <1> QED BY <1>1, <1>2 DEF Made, Building, MadeFor

LEMMA MadeNext ==
  ASSUME Types, Made, [Next]_vars
  PROVE  Made'
  <1>0. job \in JobSet
    BY DEF Types, JobType
  <1>1. ASSUME NEW l \in Locks, Update(l) PROVE Made'
    BY <1>1, UpdateCarries DEF Made, MadeFor, Building, Packages, Here
  <1>2. ASSUME NEW t \in Tomls, NEW push \in BOOLEAN, Start(t, push) PROVE Made'
    <2>1. Stops \/ (job'.entries = << >> /\ (~job'.toml.driven \/ job'.pc = "pin"))
      BY <1>2, StartCarries
    <2> QED BY <2>1, MadeStop DEF Made, Building
  <1>3. CASE Kill
    BY <1>3, MadeStop DEF Kill, Stops, Results
  <1>4. CASE Pin
    BY <1>0, <1>4, MadeStop DEF Pin, At, Made, Building, JobSet, Stops, Results
  <1>5. CASE Discover
    BY <1>0, <1>5, MadeStop DEF Discover, Learn, Fails, At, Made, Building, JobSet, Stops, Results
  <1>6. CASE Generate
    <2>1. job.entries = << >>
      BY <1>6 DEF Generate, At, Made
    <2>2. CASE job' = [job EXCEPT !.next = 1, !.pc = "build"]
      <3>1. job'.entries = << >> /\ job'.next = 1 /\ job'.pc = "build"
        BY <1>0, <2>1, <2>2 DEF JobSet
      <3> QED BY <3>1 DEF Made, NamedBefore
    <2> QED BY <1>6, <2>2, MadeStop DEF Generate, Fails, Stops, Results
  <1>7. CASE BuildProfile
    BY <1>0, <1>7, MadeStop, MadeKeeps DEF BuildProfile, Built, At, Building, JobSet, Stops, Results
  <1>8. CASE BuildOutput
    <2>1. ~job.toml.driven /\ job.pc = "build"
      BY <1>8 DEF BuildOutput
    <2>2. CASE Stop("buildFailed")
      BY <2>2, MadeStop DEF Stops, Results
    <2>3. ASSUME NEW drv, Built(drv) PROVE Made'
      <3>1. /\ job'.toml = job.toml /\ job'.pc \in {"push", "record"}
        BY <1>0, <2>3 DEF Built, JobSet
      <3> QED BY <2>1, <3>1 DEF Made
    <2> QED BY <1>8, <2>2, <2>3, BuildOutputCases
  <1>9. CASE BuildFails
    BY <1>9, MadeStop DEF BuildFails, Fails, Stops, Results
  <1>10. CASE Push
    BY <1>0, <1>10, MadeKeeps DEF Push, Goto, At, Building, JobSet
  <1>11. CASE Record
    <2>1. /\ job'.toml = job.toml /\ job'.accepted = job.accepted
          /\ job'.pc = "build" /\ job'.next = job.next + 1 /\ job.pc = "record"
      BY <1>0, <1>11, Recording DEF JobSet
    <2>2. Packages' = Packages
      BY <2>1 DEF Packages
    <2>3. NamedBefore(Packages, job.next + 1) = NamedBefore(Packages, job.next) \cup {Here.name}
      BY <1>11, Recording DEF NamedBefore
    <2>4. job'.entries[Here.name][1] = job.drv
      BY <1>11, Recording
    <2>5. ASSUME job.toml.driven, NEW n \in DOMAIN job'.entries
          PROVE  MadeFor(job'.entries[n][1], n)
      <3>1. CASE n = Here.name
        BY <2>1, <2>4, <2>5, <3>1 DEF Made, Building
      <3>2. CASE n # Here.name
        BY <1>11, <2>1, <2>5, <3>2, Recording DEF Made, Building
      <3> QED BY <3>1, <3>2
    <2>6. ASSUME job.toml.driven PROVE DOMAIN job'.entries = NamedBefore(Packages', job'.next)
      BY <1>11, <2>1, <2>2, <2>3, <2>6, Recording DEF Made, Building
    <2>7. ASSUME job.toml.driven
          PROVE  (\A n \in DOMAIN job.entries : MadeFor(job.entries[n][1], n))'
      BY <2>1, <2>5, <2>7 DEF MadeFor
    <2> QED BY <2>1, <2>6, <2>7 DEF Made
  <1>12. CASE ReadRevision
    BY <1>0, <1>12, MadeKeeps DEF ReadRevision, At, Building, JobSet
  <1>13. CASE OpenManifest
    BY <1>0, <1>13, MadeStop, MadeKeeps
       DEF OpenManifest, Goto, Fails, At, Building, JobSet, Stops, Results
  <1>14. CASE WriteManifest
    BY <1>14, MadeStop DEF WriteManifest, Fails, Stops, Results
  <1>15. CASE UNCHANGED vars
    BY <1>15 DEF vars, Made, MadeFor, Building, Packages, Here
  <1> QED BY <1>1, <1>2, <1>3, <1>4, <1>5, <1>6, <1>7, <1>8, <1>9, <1>10, <1>11, <1>12,
             <1>13, <1>14, <1>15 DEF Next, Step

\* A flag that a package honours is set by one of its aliases, and by no other
\* argument.
LEMMA ChosenFacts ==
  ASSUME NEW accepted, NEW f \in Features
  PROVE  /\ Chosen(accepted, f) \subseteq Range(Aliases[f])
         /\ Honours(accepted, f) => Chosen(accepted, f) # {}
  <1> DEFINE names == Aliases[f]
             taken == {i \in DOMAIN names : names[i] \in accepted}
  <1>1. names \in Seq(Args)
    BY NixAssumption
  <1>2. Chosen(accepted, f) \subseteq Range(names)
    BY DEF Chosen, Range
  <1>3. ASSUME Honours(accepted, f) PROVE Chosen(accepted, f) # {}
    <2>1. taken # {} /\ taken \in SUBSET Nat
      BY <1>1, <1>3 DEF Honours, Range
    <2>2. PICK i \in taken : \A j \in taken : i <= j
      BY <2>1, Least
    <2>3. \A j \in 1 .. i - 1 : names[j] \notin accepted
      <3>1. i \in Nat /\ i \in 1 .. Len(names)
        BY <1>1, <2>2
      <3> QED BY <1>1, <2>2, <3>1
    <2>4. names[i] \in Chosen(accepted, f)
      BY <2>2, <2>3 DEF Chosen
    <2> QED BY <2>4
  <1> QED BY <1>2, <1>3

LEMMA HonestWrite ==
  ASSUME Types, Made, WriteManifest,
         manifest' = [packages |-> job.entries, rev |-> job.rev,
                      flags |-> job.toml.flags, check |-> job.toml.check],
         DOMAIN manifest'.flags # {} \/ manifest'.check # "unset"
  PROVE  ProfileIsHonest'
  <1> DEFINE names == DOMAIN job.entries
             drv(n) == job.entries[n][1]
             flags == job.toml.flags
             Sets(f, arg) == arg[1] \in Range(Aliases[f]) /\ arg[2] = flags[f]
  <1>1. /\ manifest'.packages = job.entries /\ manifest'.flags = flags
        /\ manifest'.check = job.toml.check
    OBVIOUS
  <1>2. job.pc = "write" /\ job.next = Len(Packages) + 1
    BY DEF WriteManifest, At, Types, Within
  <1>3. job.toml \in Tomls \cup {NoJob.toml} /\ job.toml \in TomlSet
    BY NothingYet DEF Types, JobType, JobSet
  <1>4. flags \in Flags
    BY <1>3 DEF TomlSet
  <1>5. DOMAIN flags \subseteq Features
    BY <1>4 DEF Flags
  <1>6. job.toml.driven
    <2>1. NoJob.toml.flags = << >> /\ NoJob.toml.check = "unset"
      BY DEF NoJob
    <2>2. ~job.toml.driven => flags = << >> /\ job.toml.check = "unset"
      BY <1>3, <2>1, FileAssumption
    <2> QED BY <1>1, <2>2
  <1>7. /\ names = DOMAIN job.accepted /\ Unhonoured(job.accepted, flags) = {}
        /\ \A n \in names : MadeFor(drv(n), n)
    BY <1>2, <1>6 DEF Types, Answered, Made, Building
  <1>8. \A f \in DOMAIN flags : \E n \in names : \E arg \in drv(n).with : Sets(f, arg)
    <2> SUFFICES ASSUME NEW f \in DOMAIN flags
                 PROVE  \E n \in names : \E arg \in drv(n).with : Sets(f, arg)
      OBVIOUS
    <2>1. PICK n \in names : Honours(job.accepted[n], f)
      BY <1>7 DEF Unhonoured
    <2>2. PICK name \in Chosen(job.accepted[n], f) : TRUE
      BY <1>5, <2>1, ChosenFacts
    <2>3. Sets(f, <<name, flags[f]>>)
      BY <1>5, <2>2, ChosenFacts
    <2>4. <<name, flags[f]>> \in Overrides(job.accepted[n], flags)
      BY <2>2 DEF Overrides
    <2>5. drv(n).with = Overrides(job.accepted[n], flags)
      BY <1>7, <2>1 DEF MadeFor
    <2>6. \E arg \in drv(n).with : Sets(f, arg)
      BY <2>3, <2>4, <2>5
    <2> QED BY <2>1, <2>6
  <1>9. \A n \in names : \A arg \in drv(n).with : \E f \in DOMAIN flags : Sets(f, arg)
    <2> SUFFICES ASSUME NEW n \in names, NEW arg \in drv(n).with
                 PROVE  \E f \in DOMAIN flags : Sets(f, arg)
      OBVIOUS
    <2>1. arg \in Overrides(job.accepted[n], flags)
      BY <1>7 DEF MadeFor
    <2>2. PICK f \in DOMAIN flags : arg \in Chosen(job.accepted[n], f) \X {flags[f]}
      BY <2>1 DEF Overrides
    <2>3. Sets(f, arg)
      BY <1>5, <2>2, ChosenFacts
    <2> QED BY <2>3
  <1>10. \A n \in names : drv(n).checkKept = (job.toml.check # "off")
    BY <1>7 DEF MadeFor
  <1> HIDE DEF flags
  <1> QED BY <1>1, <1>8, <1>9, <1>10 DEF ProfileIsHonest, DrvOf

LEMMA HonestNext ==
  ASSUME Types, Made, ProfileIsHonest, [Next]_vars
  PROVE  ProfileIsHonest'
  <1>1. CASE manifest' = manifest
    BY <1>1 DEF ProfileIsHonest, IsWhole, DrvOf
  <1>2. CASE manifest' = Torn
    BY <1>2 DEF ProfileIsHonest, IsWhole
  <1>3. CASE WriteManifest /\ manifest' = [packages |-> job.entries, rev |-> job.rev,
                                           flags |-> job.toml.flags, check |-> job.toml.check]
    BY <1>3, HonestWrite DEF ProfileIsHonest
  <1>4. \/ manifest' = manifest \/ manifest' = Torn
        \/ WriteManifest /\ manifest' = [packages |-> job.entries, rev |-> job.rev,
                                         flags |-> job.toml.flags, check |-> job.toml.check]
    BY DEF Next, vars, Update, Start, Kill, Step, Pin, Discover, Generate, BuildProfile,
       BuildOutput, BuildFails, Fails, Push, Record, ReadRevision, OpenManifest, WriteManifest
  <1> QED BY <1>1, <1>2, <1>3, <1>4

\* Of the flags and the check that a manifest records, each flag changed some
\* package, no package was changed in any other way, and tests were left out
\* where `check` says so.
THEOREM Honest == Spec => []ProfileIsHonest
  <1>1. Init => Made /\ ProfileIsHonest
    BY DEF Init, Made, Building, NoJob, ProfileIsHonest, IsWhole
  <1>2. Types /\ Made /\ ProfileIsHonest /\ [Next]_vars => Types' /\ Made' /\ ProfileIsHonest'
    BY TypesNext, MadeNext, HonestNext
  <1> QED BY <1>1, <1>2, TypesInit, PTL DEF Spec

-----------------------------------------------------------------------------
(* The revision that a manifest states *)

LEMMA PinnedOne ==
  ASSUME NEW l, NEW r \in Pinned(l)
  PROVE  Pinned(l) = {r} /\ r = l[Preferred(l)] /\ Preferred(l) \in DOMAIN l
  BY DEF Pinned

\* With a profile, all is built from the revision that flake.lock had at first.
OnePinned ==
  /\ job.pc \in Building =>
       /\ \A n, o \in DOMAIN job.entries : job.entries[n][1].rev = job.entries[o][1].rev
       /\ job.pc \in {"build", "push", "record"} \/ ~job.moved =>
            \A n \in DOMAIN job.entries : job.entries[n][1].rev = job.rev
       /\ job.pc \in {"push", "record"} => job.drv.rev = job.rev
  /\ ~job.moved /\ job.pc \in {"discover", "build", "push", "record"} => Pinned(lock) = {job.rev}

\* Without, each path is from what flake.lock has for an output of its name.
From(drv, i) ==
  LET output == OutputOf(job.toml, Packages[i])
  IN  Flake[output].input \in DOMAIN lock /\ drv.rev = lock[Flake[output].input]

AsLocked ==
  ~job.moved /\ job.pc \in Building =>
    /\ \A n \in DOMAIN job.entries : \E i \in DOMAIN Packages :
         Packages[i].name = n /\ From(job.entries[n][1], i)
    /\ job.pc \in {"push", "record"} => From(job.drv, job.next)

Revs ==
  /\ ~job.moved /\ job.pc \in {"open", "write"} => job.rev = Recorded
  /\ job.toml.driven => OnePinned
  /\ ~job.toml.driven => AsLocked

LEMMA RevsStop ==
  ASSUME Stops
  PROVE  Revs'
  <1>1. job'.pc = "idle" /\ ~job'.toml.driven
    BY StopOK DEF Stops, NoJob
  <1> QED BY <1>1 DEF Revs, AsLocked, Building

\* A step that builds nothing and leaves the revision and the lock as they were.
LEMMA RevsKeeps ==
  ASSUME Types, Revs, Carried, job'.entries = job.entries, job'.rev = job.rev, lock' = lock,
         job'.next = job.next, job'.drv = job.drv,
         \/ job.pc \in {"push", "record"} /\ job'.pc \in {"push", "record"}
         \/ job.pc = "open" /\ job'.pc = "write"
  PROVE  Revs'
  <1>1. Packages' = Packages /\ Recorded' = Recorded
    BY DEF Packages, Recorded, Carried
  <1>2. job.toml.driven => OnePinned'
    BY DEF Revs, OnePinned, Building, Carried
  <1>3. ~job.toml.driven => AsLocked'
    BY <1>1 DEF Revs, AsLocked, From, Building, Carried
  <1> QED BY <1>1, <1>2, <1>3 DEF Revs, Carried

LEMMA RevsUpdate ==
  ASSUME Types, Revs, NEW l \in Locks, Update(l)
  PROVE  Revs'
  <1>1. CASE job.pc = "idle"
    BY <1>1, UpdateCarries DEF Revs, OnePinned, AsLocked, Building
  <1>2. CASE job.pc # "idle"
    BY <1>2, UpdateCarries DEF Revs, OnePinned, AsLocked, Building
  <1> QED BY <1>1, <1>2

LEMMA RevsBuildOutput ==
  ASSUME Types, Revs, BuildOutput
  PROVE  Revs'
  <1>1. CASE Stop("buildFailed")
    BY <1>1, RevsStop DEF Stops, Results
  <1>2. ASSUME NEW output \in DOMAIN Flake, output = OutputOf(job.toml, Here), Built(OutputDrv(output))
        PROVE  Revs'
    <2>0. ~job.toml.driven /\ job.pc = "build" /\ job.next \in 1 .. Len(Packages)
      BY DEF BuildOutput, Types, Within
    <2>1. job \in JobSet
      BY DEF Types, JobType
    <2> DEFINE made == OutputDrv(output)
    <2> HIDE DEF made
    <2>2. /\ job'.toml = job.toml /\ job'.moved = job.moved /\ job'.entries = job.entries
          /\ job'.next = job.next /\ job'.drv = made /\ job'.pc \in {"push", "record"}
      BY <1>2, <2>1 DEF Built, JobSet, made
    <2>3. Packages' = Packages
      BY <2>2 DEF Packages
    <2>4. Flake[output].input \in DOMAIN lock' /\ made.rev = lock'[Flake[output].input]
      BY Locking, FlakeOutput DEF Types, OutputDrv, made
    <2>5. Here = Packages[job.next]
      BY DEF Here
    <2>6. From(job.drv, job.next)'
      BY <1>2, <2>2, <2>3, <2>4, <2>5 DEF From
    <2>7. \A drv, i : From(drv, i) => LET output2 == OutputOf(job.toml, Packages[i])
                                      IN  /\ Flake[output2].input \in DOMAIN lock'
                                          /\ drv.rev = lock'[Flake[output2].input]
      BY Locking DEF Types, From
    <2>8. ASSUME ~job.moved
          PROVE  (\A n \in DOMAIN job.entries : \E i \in DOMAIN Packages :
                   Packages[i].name = n /\ From(job.entries[n][1], i))'
      BY <2>0, <2>2, <2>3, <2>7, <2>8 DEF Revs, AsLocked, Building, From
    <2> QED BY <2>0, <2>2, <2>6, <2>8 DEF Revs, AsLocked
  <1> QED BY <1>1, <1>2, BuildOutputCases

LEMMA RevsRecord ==
  ASSUME Types, Revs, Record
  PROVE  Revs'
  <1>1. /\ job'.toml = job.toml /\ job'.rev = job.rev /\ job'.moved = job.moved /\ lock' = lock
        /\ job'.pc = "build" /\ job.pc = "record" /\ job.next \in 1 .. Len(Packages)
    BY Recording DEF Types, JobType, JobSet
  <1>2. Packages' = Packages /\ Here = Packages[job.next] /\ Packages \in Seq([name : Names, attr : Names])
    BY <1>1, Package DEF Packages, Here, Types
  <1>3. job'.entries[Here.name][1] = job.drv
    BY Recording
  <1>4. ASSUME job.toml.driven PROVE OnePinned'
    <2>1. job.drv.rev = job.rev /\ \A n \in DOMAIN job.entries : job.entries[n][1].rev = job.rev
      BY <1>1, <1>4 DEF Revs, OnePinned, Building
    <2>2. \A n \in DOMAIN job'.entries : job'.entries[n][1].rev = job.rev
      BY <1>3, <2>1, Recording
    <2> QED BY <1>1, <1>4, <2>2 DEF Revs, OnePinned
  <1>5. ASSUME ~job.toml.driven, ~job.moved
        PROVE  (\A n \in DOMAIN job.entries : \E i \in DOMAIN Packages :
                 Packages[i].name = n /\ From(job.entries[n][1], i))'
    <2>1. From(job.drv, job.next) /\ job.next \in DOMAIN Packages
      BY <1>1, <1>2, <1>5 DEF Revs, AsLocked, Building
    <2>2. \A n \in DOMAIN job.entries : \E i \in DOMAIN Packages :
            Packages[i].name = n /\ From(job.entries[n][1], i)
      BY <1>1, <1>5 DEF Revs, AsLocked, Building
    <2>3. \A n \in DOMAIN job'.entries : \E i \in DOMAIN Packages :
            Packages[i].name = n /\ From(job'.entries[n][1], i)
      BY <1>2, <1>3, <2>1, <2>2, Recording
    <2> QED BY <1>1, <1>2, <2>3 DEF From
  <1> QED BY <1>1, <1>4, <1>5 DEF Revs, AsLocked

LEMMA RevsReadRevision ==
  ASSUME Types, Revs, ReadRevision
  PROVE  Revs'
  <1>1. /\ job \in JobSet /\ job' = [job EXCEPT !.rev = Recorded, !.pc = "open"]
        /\ lock' = lock /\ job.pc = "build"
    BY DEF ReadRevision, At, Types, JobType
  <1>2. /\ job'.toml = job.toml /\ job'.moved = job.moved /\ job'.entries = job.entries
        /\ job'.pc = "open" /\ job'.rev = Recorded
    BY <1>1 DEF JobSet
  <1>3. Packages' = Packages /\ Recorded' = Recorded
    BY <1>1, <1>2 DEF Packages, Recorded
  <1>4. ASSUME job.toml.driven PROVE OnePinned'
    <2>1. ~job.moved => Recorded = job.rev
      BY <1>1, <1>4 DEF Revs, OnePinned, Recorded
    <2> QED BY <1>1, <1>2, <1>4, <2>1 DEF Revs, OnePinned, Building
  <1>5. ~job.toml.driven => AsLocked'
    BY <1>1, <1>2, <1>3 DEF Revs, AsLocked, From, Building
  <1> QED BY <1>2, <1>3, <1>4, <1>5 DEF Revs

LEMMA RevsNext ==
  ASSUME Types, Made, Revs, [Next]_vars
  PROVE  Revs'
  <1>0. job \in JobSet
    BY DEF Types, JobType
  <1>2. ASSUME NEW t \in Tomls, NEW push \in BOOLEAN, Start(t, push) PROVE Revs'
    <2>1. \/ Stops
          \/ job'.entries = << >> /\ job'.pc = (IF job'.toml.driven THEN "pin" ELSE "build")
      BY <1>2, StartCarries
    <2> QED BY <2>1, RevsStop DEF Revs, OnePinned, AsLocked, Building
  <1>3. CASE Kill
    BY <1>3, RevsStop DEF Kill, Stops, Results
  <1>4. CASE Pin
    <2>1. lock' = lock /\ job.pc = "pin" /\ job.toml.driven
      BY <1>4 DEF Pin, At, Types, Within
    <2>2. ASSUME NEW r \in Pinned(lock), job' = [job EXCEPT !.rev = r, !.pc = "discover"] PROVE Revs'
      <3>1. job'.rev = r /\ job'.pc = "discover" /\ job'.toml = job.toml
        BY <1>0, <2>2 DEF JobSet
      <3> QED BY <2>1, <3>1, PinnedOne DEF Revs, OnePinned, Building
    <2> QED BY <1>4, <2>2, RevsStop DEF Pin, Stops, Results
  <1>5. CASE Discover
    <2>1. /\ lock' = lock /\ job.pc = "discover" /\ job.toml.driven
      BY <1>5 DEF Discover, At, Types, Within
    <2>2. CASE Learn(job.rev, Here.name)
      <3>1. job'.rev = job.rev /\ job'.pc = "discover" /\ job'.toml = job.toml /\ job'.moved = job.moved
        BY <1>0, <2>1, <2>2 DEF Learn, JobSet
      <3> QED BY <2>1, <3>1 DEF Revs, OnePinned, Building
    <2> QED BY <1>5, <2>2, RevsStop DEF Discover, Fails, Stops, Results
  <1>6. CASE Generate
    <2>1. lock' = lock /\ job.pc = "discover" /\ job.toml.driven /\ job.entries = << >>
      BY <1>6 DEF Generate, At, Types, Within, Made
    <2>2. CASE job' = [job EXCEPT !.next = 1, !.pc = "build"]
      <3>1. /\ job'.rev = job.rev /\ job'.pc = "build" /\ job'.toml = job.toml
            /\ job'.moved = job.moved /\ job'.entries = << >>
        BY <1>0, <2>1, <2>2 DEF JobSet
      <3> QED BY <2>1, <3>1 DEF Revs, OnePinned, Building
    <2> QED BY <1>6, <2>2, RevsStop DEF Generate, Fails, Stops, Results
  <1>7. CASE BuildProfile
    <2>1. lock' = lock /\ job.pc = "build" /\ job.toml.driven
      BY <1>7 DEF BuildProfile, At
    <2>2. CASE Built(ProfileDrv(Here.name))
      <3> DEFINE drv == ProfileDrv(Here.name)
      <3>1. drv.rev = job.rev
        BY DEF ProfileDrv
      <3> HIDE DEF drv
      <3>2. /\ job'.rev = job.rev /\ job'.pc \in {"push", "record"} /\ job'.toml = job.toml
            /\ job'.moved = job.moved /\ job'.entries = job.entries /\ job'.drv = drv
        BY <1>0, <2>2 DEF Built, JobSet, drv
      <3> QED BY <2>1, <3>1, <3>2 DEF Revs, OnePinned, Building
    <2> QED BY <1>7, <2>2, RevsStop DEF BuildProfile, Stops, Results
  <1>8. CASE BuildFails
    BY <1>8, RevsStop DEF BuildFails, Fails, Stops, Results
  <1>9. CASE Push
    <2>1. /\ lock' = lock /\ job.pc = "push" /\ job'.pc \in {"push", "record"} /\ job'.rev = job.rev
          /\ job'.entries = job.entries /\ job'.next = job.next /\ job'.drv = job.drv /\ Carried
      BY <1>0, <1>9 DEF Push, Goto, At, JobSet, Carried
    <2> QED BY <2>1, RevsKeeps
  <1>10. CASE OpenManifest
    <2>1. CASE Goto("write")
      <3>1. /\ lock' = lock /\ job.pc = "open" /\ job'.pc = "write" /\ job'.rev = job.rev
            /\ job'.entries = job.entries /\ job'.next = job.next /\ job'.drv = job.drv /\ Carried
        BY <1>0, <1>10, <2>1 DEF OpenManifest, Goto, At, JobSet, Carried
      <3> QED BY <3>1, RevsKeeps
    <2> QED BY <1>10, <2>1, RevsStop DEF OpenManifest, Fails, Stops, Results
  <1>11. CASE WriteManifest
    BY <1>11, RevsStop DEF WriteManifest, Fails, Stops, Results
  <1>12. CASE UNCHANGED vars
    BY <1>12 DEF vars, Revs, OnePinned, AsLocked, From, Building, Packages, Recorded
  <1> QED BY <1>2, <1>3, <1>4, <1>5, <1>6, <1>7, <1>8, <1>9, <1>10, <1>11, <1>12, RevsUpdate,
             RevsBuildOutput, RevsRecord, RevsReadRevision DEF Next, Step

LEMMA RevisionStep ==
  ASSUME Types, Revs, Next, Ends("ok")
  PROVE  /\ ~job.moved /\ manifest'.rev # Unknown => \A n \in DOMAIN job.entries :
              \/ DrvOf(manifest', n).rev = manifest'.rev
              \/ ~job.toml.driven /\ \E i \in DOMAIN Packages :
                   Packages[i].name = n /\ Flake[OutputOf(job.toml, Packages[i])].input # Preferred(lock)
         /\ job.toml.driven => \A n, o \in DOMAIN job.entries :
              DrvOf(manifest', n).rev = DrvOf(manifest', o).rev
  <1>1. job.pc = "write" /\ manifest'.packages = job.entries /\ manifest'.rev = job.rev
    BY EndOk
  <1>2. \A n : DrvOf(manifest', n) = job.entries[n][1]
    BY <1>1 DEF DrvOf
  <1>3. CASE job.toml.driven
    BY <1>1, <1>2, <1>3 DEF Revs, OnePinned, Building
  <1>4. ASSUME ~job.toml.driven, ~job.moved, manifest'.rev # Unknown, NEW n \in DOMAIN job.entries
        PROVE  \/ DrvOf(manifest', n).rev = manifest'.rev
               \/ \E i \in DOMAIN Packages : Packages[i].name = n
                    /\ Flake[OutputOf(job.toml, Packages[i])].input # Preferred(lock)
    <2>1. job.rev = Recorded /\ Recorded # Unknown
      BY <1>1, <1>4 DEF Revs
    <2>2. Recorded \in Pinned(lock)
      BY <2>1 DEF Recorded
    <2>3. Recorded = lock[Preferred(lock)]
      BY <2>2, PinnedOne
    <2>4. PICK i \in DOMAIN Packages : Packages[i].name = n /\ From(job.entries[n][1], i)
      BY <1>1, <1>4 DEF Revs, AsLocked, Building
    <2> QED BY <1>1, <1>2, <2>1, <2>3, <2>4 DEF From
  <1> QED BY <1>3, <1>4

\* With a profile all paths of a manifest are from one revision, whatever changes
\* flake.lock.  And where the revision in the manifest is not the one that a path
\* was built from, there is no third cause: flake.lock changed during the command,
\* or the path is an output of the workload's flake from the other of its inputs.
\* (That the revision is the actual one, as the doc of the manifest says, is false
\* of the code: see RevisionIsActual.)
THEOREM RevisionRecorded == Spec => WrongRevisionHasACause
  <1>1. Init => Made /\ Revs
    BY DEF Init, Made, Building, NoJob, Revs, AsLocked
  <1>2. Types /\ Made /\ Revs /\ [Next]_vars => Types' /\ Made' /\ Revs'
    BY TypesNext, MadeNext, RevsNext
  <1>3. Types /\ Revs /\ [Next]_vars =>
        [Ends("ok") =>
           /\ ~job.moved /\ manifest'.rev # Unknown => \A n \in DOMAIN job.entries :
                \/ DrvOf(manifest', n).rev = manifest'.rev
                \/ ~job.toml.driven /\ \E i \in DOMAIN Packages :
                     Packages[i].name = n /\ Flake[OutputOf(job.toml, Packages[i])].input # Preferred(lock)
           /\ job.toml.driven => \A n, o \in DOMAIN job.entries :
                DrvOf(manifest', n).rev = DrvOf(manifest', o).rev]_vars
    BY RevisionStep
  <1>4. Spec => [](Types /\ Made /\ Revs)
    BY <1>1, <1>2, TypesInit, PTL DEF Spec
  <1> QED BY <1>3, <1>4, PTL DEF Spec, WrongRevisionHasACause

-----------------------------------------------------------------------------
(* What a manifest has for a package *)

\* While nix is asked and packages are built, what was learnt is of one revision.
Learnt ==
  job.toml.driven /\ job.pc \in {"discover", "build", "push", "record"} =>
    \A n \in DOMAIN job.accepted : job.accepted[n] = Takes[job.rev][n]

\* The derivation that the i-th entry of packages.toml asks for.
RightFor(toml, drv, i) ==
  /\ toml.driven => /\ drv.pkg = toml.packages[i].name
                    /\ drv.with = Overrides(Takes[drv.rev][drv.pkg], toml.flags)
  /\ ~toml.driven => drv.pkg = Flake[OutputOf(toml, toml.packages[i])].pkg

\* Nothing of the same name is between the i-th entry and the k-th.
LastBefore(packages, i, k) == \A j \in 1 .. k - 1 : j > i => packages[j].name # packages[i].name

RightBefore(toml, entries, k) ==
  /\ DOMAIN entries = NamedBefore(toml.packages, k)
  /\ \A n \in DOMAIN entries : entries[n][2] = Primary(PartsOf[entries[n][1].pkg])
  /\ \A i \in 1 .. k - 1 :
       LastBefore(toml.packages, i, k) => RightFor(toml, entries[toml.packages[i].name][1], i)

Right ==
  job.pc \in Building =>
    /\ RightBefore(job.toml, job.entries, job.next)
    /\ job.pc \in {"push", "record"} => RightFor(job.toml, job.drv, job.next)

\* What nix said about a package is kept until the revision is read anew.
LEMMA LearntNext ==
  ASSUME Types, Learnt, [Next]_vars
  PROVE  Learnt'
<1>0. job \in JobSet
  BY DEF Types, JobType
<1>1. CASE Stops
  <2>1. job'.pc = "idle"
    BY <1>1, StopsFacts
  <2> QED BY <2>1 DEF Learnt
<1>2. ASSUME NEW l \in Locks, Update(l) PROVE Learnt'
  BY <1>2, UpdateCarries DEF Learnt
<1>3. ASSUME NEW t \in Tomls, NEW push \in BOOLEAN, Start(t, push) PROVE Learnt'
  <2>1. Stops \/ ~job'.toml.driven \/ job'.pc = "pin"
    BY <1>3, StartCarries
  <2> QED BY <1>1, <2>1 DEF Learnt
<1>4. CASE Pin
  <2>1. ASSUME NEW r \in Pinned(lock), job' = [job EXCEPT !.rev = r, !.pc = "discover"] PROVE Learnt'
    <3>1. job'.accepted = << >>
      BY <1>0, <1>4, <2>1 DEF Pin, At, Types, Within, JobSet
    <3> QED BY <3>1 DEF Learnt
  <2> QED BY <1>1, <1>4, <2>1 DEF Pin, Stops, Results
<1>5. CASE Discover
  <2>1. CASE Learn(job.rev, Here.name)
    <3> DEFINE n == Here.name
               answers == IF n \in DOMAIN job.accepted THEN job.accepted
                          ELSE Put(job.accepted, n, Takes[job.rev][n])
    <3>1. job.pc = "discover" /\ job.toml.driven
      BY <1>5 DEF Discover, At, Types, Within
    <3>2. \A m \in DOMAIN answers : answers[m] = Takes[job.rev][m]
      <4>1. \A m \in DOMAIN job.accepted : job.accepted[m] = Takes[job.rev][m]
        BY <3>1 DEF Learnt
      <4>2. CASE n \in DOMAIN job.accepted
        BY <4>1, <4>2
      <4>3. CASE n \notin DOMAIN job.accepted
        <5>1. answers = Put(job.accepted, n, Takes[job.rev][n])
          BY <4>3
        <5> HIDE DEF answers
        <5>2. /\ DOMAIN answers = DOMAIN job.accepted \cup {n}
              /\ answers[n] = Takes[job.rev][n]
              /\ \A m \in DOMAIN job.accepted : m # n => answers[m] = job.accepted[m]
          <6> DEFINE f == job.accepted
                     v == Takes[job.rev][n]
          <6>1. answers = Put(f, n, v)
            BY <5>1
          <6> HIDE DEF f, n, v
          <6>2. /\ DOMAIN answers = DOMAIN f \cup {n} /\ answers[n] = v
                /\ \A m \in DOMAIN f : m # n => answers[m] = f[m]
            BY <6>1 DEF Put
          <6> QED BY <6>2 DEF f, v
        <5>3. ASSUME NEW m \in DOMAIN answers PROVE answers[m] = Takes[job.rev][m]
          <6>1. CASE m = n
            BY <5>2, <6>1, Zenon
          <6>2. CASE m # n /\ m \in DOMAIN job.accepted
            BY <4>1, <5>2, <6>2, Zenon
          <6> QED BY <5>2, <5>3, <6>1, <6>2, Zenon
        <5> QED BY <5>3
      <4> QED BY <4>2, <4>3
    <3>3. job' = [job EXCEPT !.next = job.next + 1, !.accepted = answers]
      BY <2>1, Zenon DEF Learn
    <3> HIDE DEF answers
    <3>4. job'.rev = job.rev /\ job'.accepted = answers
      BY <1>0, <3>3 DEF JobSet
    <3> QED BY <3>2, <3>4 DEF Learnt
  <2> QED BY <1>1, <1>5, <2>1 DEF Discover, Fails, Stops, Results
<1>6. ASSUME job'.toml = job.toml, job'.accepted = job.accepted, job'.rev = job.rev,
             job.pc \in {"discover", "build", "push", "record"}
      PROVE  Learnt'
  BY <1>6 DEF Learnt
<1>7. CASE Generate
  BY <1>0, <1>1, <1>6, <1>7 DEF Generate, Fails, At, JobSet, Stops, Results
<1>8. CASE BuildProfile
  BY <1>0, <1>1, <1>6, <1>8 DEF BuildProfile, Built, At, JobSet, Stops, Results
<1>9. CASE BuildOutput
  <2>1. ~job.toml.driven
    BY <1>9 DEF BuildOutput
  <2>2. Stops \/ job'.toml = job.toml
    BY <1>0, <1>9, BuildOutputCases DEF Built, JobSet, Stops, Results
  <2> QED BY <1>1, <2>1, <2>2 DEF Learnt
<1>10. CASE BuildFails
  BY <1>1, <1>10 DEF BuildFails, Fails, Stops, Results
<1>11. CASE Push
  BY <1>0, <1>6, <1>11 DEF Push, Goto, At, JobSet
<1>12. CASE Record
  <2>1. job'.toml = job.toml /\ job'.accepted = job.accepted /\ job'.rev = job.rev /\ job.pc = "record"
    BY <1>0, <1>12, Recording DEF JobSet
  <2> QED BY <1>6, <2>1
<1>13. CASE ReadRevision
  <2>1. job'.pc = "open"
    BY <1>0, <1>13 DEF ReadRevision, JobSet
  <2> QED BY <2>1 DEF Learnt
<1>14. CASE OpenManifest
  <2>1. Stops \/ job'.pc = "write"
    BY <1>0, <1>14 DEF OpenManifest, Goto, Fails, JobSet, Stops, Results
  <2> QED BY <1>1, <2>1 DEF Learnt
<1>15. CASE WriteManifest
  BY <1>1, <1>15 DEF WriteManifest, Fails, Stops, Results
<1>16. CASE Kill
  BY <1>1, <1>16 DEF Kill, Stops, Results
<1>17. CASE UNCHANGED vars
  BY <1>17 DEF vars, Learnt
<1> QED BY <1>2, <1>3, <1>4, <1>5, <1>7, <1>8, <1>9, <1>10, <1>11, <1>12, <1>13, <1>14,
           <1>15, <1>16, <1>17 DEF Next, Step

\* A command that has ended has built nothing.
LEMMA RightStop ==
  ASSUME Stops
  PROVE  Right'
  BY StopsFacts DEF Right, Building

\* A step that makes no entry.
LEMMA RightKeeps ==
  ASSUME Right, job'.toml = job.toml, job'.entries = job.entries, job'.next = job.next,
         job.pc \in Building, job'.pc \in Building,
         job'.pc \in {"push", "record"} =>
           \/ job'.drv = job.drv /\ job.pc \in {"push", "record"}
           \/ RightFor(job.toml, job'.drv, job.next)
  PROVE  Right'
BY DEF Right

\* The first package is to be built.
LEMMA RightAtFirst ==
  ASSUME job'.entries = << >>, job'.next = 1, job'.pc = "build"
  PROVE  Right'
BY DEF Right, RightBefore, NamedBefore

\* One more entry, over one of the same name.
LEMMA RightEntry ==
  ASSUME NEW toml, NEW old, NEW new, NEW drv, NEW k \in Nat \ {0}, NEW name,
         name = toml.packages[k].name,
         RightBefore(toml, old, k), RightFor(toml, drv, k),
         DOMAIN new = DOMAIN old \cup {name},
         new[name] = <<drv, Primary(PartsOf[drv.pkg])>>,
         \A n \in DOMAIN old : n # name => new[n] = old[n]
  PROVE  RightBefore(toml, new, k + 1)
<1>1. DOMAIN new = NamedBefore(toml.packages, k + 1)
  <2>1. NamedBefore(toml.packages, k + 1) = NamedBefore(toml.packages, k) \cup {name}
    BY DEF NamedBefore
  <2> QED BY <2>1 DEF RightBefore
<1>2. new[name][1] = drv /\ new[name][2] = Primary(PartsOf[drv.pkg])
  OBVIOUS
<1>3. ASSUME NEW n \in DOMAIN new PROVE new[n][2] = Primary(PartsOf[new[n][1].pkg])
  <2>1. CASE n = name
    BY <1>2, <2>1, Zenon
  <2>2. CASE n # name
    <3>1. n \in DOMAIN old /\ new[n] = old[n]
      BY <1>3, <2>2
    <3>2. old[n][2] = Primary(PartsOf[old[n][1].pkg])
      BY <3>1 DEF RightBefore
    <3> QED BY <3>1, <3>2, Zenon
  <2> QED BY <2>1, <2>2
<1>4. ASSUME NEW i \in 1 .. (k + 1) - 1, LastBefore(toml.packages, i, k + 1)
      PROVE  RightFor(toml, new[toml.packages[i].name][1], i)
  <2>1. CASE i = k
    BY <1>2, <2>1, Zenon
  <2>2. CASE i # k
    <3>1. i \in 1 .. k - 1 /\ k > i /\ k \in 1 .. (k + 1) - 1
          /\ \A j \in 1 .. k - 1 : j \in 1 .. (k + 1) - 1
      BY <2>2
    <3>2. name # toml.packages[i].name /\ LastBefore(toml.packages, i, k)
      BY <1>4, <3>1 DEF LastBefore
    <3>3. toml.packages[i].name \in DOMAIN old
      BY <3>1 DEF RightBefore, NamedBefore
    <3>4. RightFor(toml, old[toml.packages[i].name][1], i)
      BY <3>1, <3>2 DEF RightBefore
    <3>5. new[toml.packages[i].name] = old[toml.packages[i].name]
      BY <3>2, <3>3
    <3> QED BY <3>4, <3>5, Zenon
  <2> QED BY <2>1, <2>2
<1> QED BY <1>1, <1>3, <1>4 DEF RightBefore

\* Every entry stays the one that was asked for.
LEMMA RightNext ==
  ASSUME Types, Made, Learnt, Right, [Next]_vars
  PROVE  Right'
<1>0. job \in JobSet
  BY DEF Types, JobType
<1>1. ASSUME NEW l \in Locks, Update(l) PROVE Right'
  BY <1>1, UpdateCarries DEF Right
<1>2. ASSUME NEW t \in Tomls, NEW push \in BOOLEAN, Start(t, push) PROVE Right'
  <2>1. \/ Stops \/ job'.pc = "pin"
        \/ job'.pc = "build" /\ job'.entries = << >> /\ job'.next = 1
    BY <1>2, StartCarries
  <2> QED BY <2>1, RightStop, RightAtFirst DEF Right, Building
<1>3. CASE Kill
  BY <1>3, RightStop DEF Kill, Stops, Results
<1>4. CASE Pin
  BY <1>0, <1>4, RightStop DEF Pin, At, Right, Building, JobSet, Stops, Results
<1>5. CASE Discover
  BY <1>0, <1>5, RightStop DEF Discover, Learn, Fails, At, Right, Building, JobSet, Stops, Results
<1>6. CASE Generate
  <2>1. job.entries = << >>
    BY <1>6 DEF Generate, At, Made
  <2>2. CASE job' = [job EXCEPT !.next = 1, !.pc = "build"]
    <3>1. job'.entries = << >> /\ job'.next = 1 /\ job'.pc = "build"
      BY <1>0, <2>1, <2>2 DEF JobSet
    <3> QED BY <3>1, RightAtFirst
  <2> QED BY <1>6, <2>2, RightStop DEF Generate, Fails, Stops, Results
<1>7. CASE BuildProfile
  <2> DEFINE n   == Here.name
             drv == ProfileDrv(n)
  <2>1. job.pc = "build" /\ job.toml.driven /\ job.next \in 1 .. Len(Packages)
    BY <1>7 DEF BuildProfile, At, Types, Within
  <2>2. CASE Built(drv)
    <3>1. n = job.toml.packages[job.next].name
      BY DEF Here, Packages
    <3>2. job.accepted[n] = Takes[job.rev][n]
      <4>1. n \in DOMAIN job.accepted
        BY <2>1, <3>1 DEF Types, Answered, NamedBefore, Packages
      <4> QED BY <2>1, <4>1 DEF Learnt
    <3>3. drv.pkg = n /\ drv.rev = job.rev /\ drv.with = Overrides(job.accepted[n], job.toml.flags)
      BY DEF ProfileDrv
    <3> HIDE DEF drv, n
    <3>4. RightFor(job.toml, drv, job.next)
      <4>1. Takes[drv.rev][drv.pkg] = job.accepted[n]
        BY <3>2, <3>3
      <4> QED BY <2>1, <3>1, <3>3, <4>1 DEF RightFor
    <3>5. /\ job'.toml = job.toml /\ job'.entries = job.entries /\ job'.next = job.next
          /\ job'.drv = drv /\ job'.pc \in {"push", "record"}
      BY <1>0, <2>2 DEF Built, JobSet
    <3> QED BY <2>1, <3>4, <3>5, RightKeeps DEF Building
  <2> QED BY <1>7, <2>2, RightStop DEF BuildProfile, Stops, Results
<1>8. CASE BuildOutput
  <2>1. ~job.toml.driven /\ job.pc = "build"
    BY <1>8 DEF BuildOutput
  <2> DEFINE drv == OutputDrv(OutputOf(job.toml, Here))
  <2>2. CASE Built(drv)
    <3>1. drv.pkg = Flake[OutputOf(job.toml, job.toml.packages[job.next])].pkg
      BY DEF OutputDrv, Here, Packages
    <3> HIDE DEF drv
    <3>2. RightFor(job.toml, drv, job.next)
      BY <2>1, <3>1 DEF RightFor
    <3>3. /\ job'.toml = job.toml /\ job'.entries = job.entries /\ job'.next = job.next
          /\ job'.drv = drv /\ job'.pc \in {"push", "record"}
      BY <1>0, <2>2 DEF Built, JobSet
    <3> QED BY <2>1, <3>2, <3>3, RightKeeps DEF Building
  <2> QED BY <1>8, <2>2, BuildOutputCases, RightStop DEF Stops, Results
<1>9. CASE BuildFails
  BY <1>9, RightStop DEF BuildFails, Fails, Stops, Results
<1>10. CASE Push
  BY <1>0, <1>10, RightKeeps DEF Push, Goto, At, Building, JobSet
<1>11. CASE Record
  <2>1. /\ job'.toml = job.toml /\ job'.pc = "build" /\ job'.next = job.next + 1
        /\ job.pc = "record" /\ job.next \in 1 .. Len(Packages)
    BY <1>0, <1>11, Recording DEF JobSet
  <2>2. Here.name = job.toml.packages[job.next].name
    BY DEF Here, Packages
  <2>3. RightBefore(job.toml, job.entries, job.next) /\ RightFor(job.toml, job.drv, job.next)
    BY <2>1 DEF Right, Building
  <2>4. RightBefore(job.toml, job'.entries, job.next + 1)
    <3> DEFINE toml == job.toml
               old  == job.entries
               new  == job'.entries
               k    == job.next
               name == Here.name
    <3>1. /\ DOMAIN new = DOMAIN old \cup {name}
          /\ new[name] = <<job.drv, Primary(PartsOf[job.drv.pkg])>>
          /\ \A n \in DOMAIN old : n # name => new[n] = old[n]
      BY <1>11, Recording
    <3>2. k \in Nat \ {0}
      BY <1>0, <2>1 DEF JobSet
    <3>3. name = toml.packages[k].name /\ RightBefore(toml, old, k) /\ RightFor(toml, job.drv, k)
      BY <2>2, <2>3
    <3> HIDE DEF toml, old, new, k, name
    <3>4. RightBefore(toml, new, k + 1)
      BY <3>1, <3>2, <3>3, RightEntry
    <3> QED BY <3>4 DEF toml, new, k
  <2> QED BY <2>1, <2>4 DEF Right
<1>12. CASE ReadRevision
  BY <1>0, <1>12, RightKeeps DEF ReadRevision, At, Building, JobSet
<1>13. CASE OpenManifest
  BY <1>0, <1>13, RightStop, RightKeeps
     DEF OpenManifest, Goto, Fails, At, Building, JobSet, Stops, Results
<1>14. CASE WriteManifest
  BY <1>14, RightStop DEF WriteManifest, Fails, Stops, Results
<1>15. CASE UNCHANGED vars
  BY <1>15 DEF vars, Right
<1> QED BY <1>1, <1>2, <1>3, <1>4, <1>5, <1>6, <1>7, <1>8, <1>9, <1>10, <1>11, <1>12,
           <1>13, <1>14, <1>15 DEF Next, Step

\* Of the aliases that a package takes the first is chosen.
LEMMA ChosenIsFirst ==
  ASSUME NEW accepted, NEW f \in Features, NEW taken,
         taken = {i \in DOMAIN Aliases[f] : Aliases[f][i] \in accepted}
  PROVE  \/ taken = {} /\ Chosen(accepted, f) = {}
         \/ \E i \in taken : (\A j \in taken : i <= j) /\ Chosen(accepted, f) = {Aliases[f][i]}
<1> DEFINE names == Aliases[f]
<1>1. names \in Seq(Args) /\ DOMAIN names \in SUBSET Nat
  BY NixAssumption
<1>2. CASE taken = {}
  BY <1>2 DEF Chosen
<1>3. CASE taken # {}
  <2>1. PICK i \in taken : \A j \in taken : i <= j
    BY <1>1, <1>3, Least
  <2>2. ASSUME NEW j \in taken
        PROVE  (\A m \in 1 .. j - 1 : names[m] \notin accepted) <=> j = i
    <3>1. i \in 1 .. Len(names) /\ j \in 1 .. Len(names) /\ i <= j /\ Len(names) \in Nat
      BY <1>1, <2>1, <2>2
    <3>2. CASE j = i
      <4>1. \A m \in 1 .. i - 1 : m \in DOMAIN names /\ ~(i <= m)
        BY <1>1, <3>1
      <4> QED BY <2>1, <3>2, <4>1
    <3>3. CASE j # i
      <4>1. i \in 1 .. j - 1
        BY <3>1, <3>3
      <4> QED BY <2>1, <3>3, <4>1
    <3> QED BY <3>2, <3>3
  <2>3. Chosen(accepted, f) = {names[i]}
    BY <2>1, <2>2 DEF Chosen
  <2> QED BY <2>1, <2>3
<1> QED BY <1>2, <1>3

\* Of the arguments that are set those that are aliases of a feature are the
\* chosen ones, since no argument is an alias of two.
LEMMA SetFor ==
  ASSUME NEW accepted, NEW flags \in Flags, NEW f \in DOMAIN flags
  PROVE  {arg \in Overrides(accepted, flags) : arg[1] \in Range(Aliases[f])}
           = Chosen(accepted, f) \X {flags[f]}
<1>1. DOMAIN flags \subseteq Features
  BY DEF Flags
<1>2. \A g \in DOMAIN flags : Chosen(accepted, g) \subseteq Range(Aliases[g])
  BY <1>1, ChosenFacts
<1>3. \A g \in DOMAIN flags : g # f => Range(Aliases[g]) \cap Range(Aliases[f]) = {}
  BY <1>1, NixAssumption
<1>4. ASSUME NEW arg \in Overrides(accepted, flags), arg[1] \in Range(Aliases[f])
      PROVE  arg \in Chosen(accepted, f) \X {flags[f]}
  <2>1. PICK g \in DOMAIN flags : arg \in Chosen(accepted, g) \X {flags[g]}
    BY DEF Overrides
  <2>2. arg[1] \in Range(Aliases[g])
    BY <1>2, <2>1
  <2>3. g = f
    BY <1>3, <1>4, <2>2
  <2> QED BY <2>1, <2>3
<1>5. ASSUME NEW arg \in Chosen(accepted, f) \X {flags[f]}
      PROVE  arg \in Overrides(accepted, flags) /\ arg[1] \in Range(Aliases[f])
  BY <1>2 DEF Overrides
<1> QED BY <1>4, <1>5

\* The main output is chosen, if there is one.
LEMMA PrimaryIsMain ==
  ASSUME NEW parts \in Seq(Parts), parts[Primary(parts)] \in Split
  PROVE  Range(parts) \subseteq Split
<1> DEFINE main == {i \in DOMAIN parts : parts[i] \notin Split}
<1>1. ASSUME main # {} PROVE FALSE
  <2>1. main \in SUBSET Nat
    OBVIOUS
  <2>2. \E i \in main : \A j \in main : i <= j
    BY <1>1, <2>1, Least
  <2>3. (CHOOSE i \in main : \A j \in main : i <= j) \in main
    BY <2>2
  <2>4. Primary(parts) \in main
    BY <1>1, <2>3 DEF Primary
  <2> QED BY <2>4
<1> QED BY <1>1 DEF Range

\* A finite set of numbers has a greatest one.
LEMMA Greatest ==
  ASSUME NEW n \in Nat, NEW S \in SUBSET (1 .. n), S # {}
  PROVE  \E i \in S : \A j \in S : j <= i
<1> DEFINE above == {d \in 0 .. n : n - d \in S}
<1>1. above # {} /\ above \in SUBSET Nat
  <2>1. PICK i \in S : TRUE
    OBVIOUS
  <2>2. n - i \in 0 .. n /\ n - (n - i) = i
    OBVIOUS
  <2>3. n - i \in above
    BY <2>2
  <2>4. above \in SUBSET Nat
    OBVIOUS
  <2> HIDE DEF above
  <2> QED BY <2>3, <2>4
<1>2. PICK d \in above : \A e \in above : d <= e
  BY <1>1, Least
<1>3. ASSUME NEW j \in S PROVE j <= n - d
  <2>1. n - j \in above
    <3>1. n - j \in 0 .. n /\ n - (n - j) = j
      OBVIOUS
    <3> QED BY <3>1
  <2> QED BY <1>1, <1>2, <2>1
<1> QED BY <1>2, <1>3

\* Of all packages, what was asked for is what packages.toml asks for.
LEMMA MadeAsAsked ==
  ASSUME Types, Right, job.pc = "write"
  PROVE  AsAsked(job.toml, job.entries)
<1> DEFINE toml == job.toml
           Named == {toml.packages[i].name : i \in DOMAIN toml.packages}
           Asked(n) == {i \in DOMAIN toml.packages :
                          toml.packages[i].name = n /\ \A j \in DOMAIN toml.packages :
                                                         j > i => toml.packages[j].name # n}
           Of(drv, f) == {arg \in drv.with : arg[1] \in Range(Aliases[f])}
           Taken(drv, f) == {i \in DOMAIN Aliases[f] : Aliases[f][i] \in Takes[drv.rev][drv.pkg]}
<1>1. toml \in TomlSet /\ toml.packages \in Seq([name : Names, attr : Names]) /\ toml.flags \in Flags
      /\ job.entries \in Entries
  BY NothingYet DEF Types, JobType, JobSet, TomlSet
<1>2. job.next = Len(toml.packages) + 1 /\ RightBefore(toml, job.entries, job.next)
  BY DEF Types, Within, Right, Building, Packages
<1>3. DOMAIN toml.packages = 1 .. job.next - 1 /\ job.next - 1 = Len(toml.packages)
  BY <1>1, <1>2
<1>4. DOMAIN job.entries = Named
  BY <1>2, <1>3 DEF RightBefore, NamedBefore
<1>5. ASSUME NEW n \in Named
      PROVE  LET drv   == job.entries[n][1]
                 parts == PartsOf[drv.pkg]
             IN  /\ parts[job.entries[n][2]] \in Split => Range(parts) \subseteq Split
                 /\ ~toml.driven => \A i \in Asked(n) :
                      drv.pkg = Flake[OutputOf(toml, toml.packages[i])].pkg
                 /\ toml.driven => drv.pkg = n /\ \A f \in DOMAIN toml.flags :
                      \/ Taken(drv, f) = {} /\ Of(drv, f) = {}
                      \/ \E i \in Taken(drv, f) :
                           /\ \A j \in Taken(drv, f) : i <= j
                           /\ Of(drv, f) = {<<Aliases[f][i], toml.flags[f]>>}
  <2> DEFINE drv   == job.entries[n][1]
             parts == PartsOf[drv.pkg]
  <2>1. drv \in Drvs /\ parts \in Seq(Parts)
    <3>1. job.entries[n] \in Paths
      BY <1>1, <1>4 DEF Entries
    <3>2. drv \in Drvs
      BY <3>1 DEF Paths, Outputs
    <3>3. drv.pkg \in Names
      BY <3>2 DEF Drvs
    <3> QED BY <3>2, <3>3, NixAssumption
  <2>2. parts[job.entries[n][2]] \in Split => Range(parts) \subseteq Split
    <3>1. job.entries[n][2] = Primary(parts)
      BY <1>2, <1>4 DEF RightBefore
    <3> QED BY <2>1, <3>1, PrimaryIsMain
  <2>3. ASSUME NEW i \in Asked(n) PROVE RightFor(toml, drv, i)
    <3>1. LastBefore(toml.packages, i, job.next)
      BY <1>3 DEF LastBefore
    <3>2. i \in 1 .. job.next - 1 /\ toml.packages[i].name = n
      BY <1>3
    <3> QED BY <1>2, <3>1, <3>2 DEF RightBefore
  <2>4. Asked(n) # {}
    <3> DEFINE same == {i \in DOMAIN toml.packages : toml.packages[i].name = n}
    <3>1. same # {} /\ same \in SUBSET (1 .. Len(toml.packages)) /\ Len(toml.packages) \in Nat
      BY <1>1
    <3>2. PICK i \in same : \A j \in same : j <= i
      BY <3>1, Greatest
    <3>3. ASSUME NEW j \in DOMAIN toml.packages, j > i PROVE toml.packages[j].name # n
      <4>1. ~(j <= i)
        BY <1>1, <3>1, <3>3
      <4> QED BY <3>2, <4>1
    <3> QED BY <3>2, <3>3
  <2>5. PICK k \in Asked(n) : RightFor(toml, drv, k)
    BY <2>3, <2>4
  <2>6. ASSUME toml.driven, NEW f \in DOMAIN toml.flags
        PROVE  \/ Taken(drv, f) = {} /\ Of(drv, f) = {}
               \/ \E i \in Taken(drv, f) :
                    /\ \A j \in Taken(drv, f) : i <= j
                    /\ Of(drv, f) = {<<Aliases[f][i], toml.flags[f]>>}
    <3> DEFINE accepted == Takes[drv.rev][drv.pkg]
               taken == Taken(drv, f)
               of == Of(drv, f)
               flag == toml.flags[f]
    <3>1. f \in Features
      BY <1>1 DEF Flags
    <3>2. of = Chosen(accepted, f) \X {flag}
      <4>1. drv.with = Overrides(accepted, toml.flags)
        BY <2>5, <2>6 DEF RightFor
      <4> DEFINE flags == toml.flags
      <4>2. of = {arg \in drv.with : arg[1] \in Range(Aliases[f])} /\ flag = flags[f]
            /\ flags \in Flags /\ f \in DOMAIN flags /\ drv.with = Overrides(accepted, flags)
        BY <1>1, <4>1
      <4> HIDE DEF flags, of, accepted, flag, drv
      <4> QED BY <4>2, SetFor
    <3>3. taken = {i \in DOMAIN Aliases[f] : Aliases[f][i] \in accepted}
      OBVIOUS
    <3> HIDE DEF accepted, taken, of, flag
    <3>4. \/ taken = {} /\ Chosen(accepted, f) = {}
          \/ \E i \in taken : (\A j \in taken : i <= j) /\ Chosen(accepted, f) = {Aliases[f][i]}
      BY <3>1, <3>3, ChosenIsFirst
    <3>5. \/ taken = {} /\ of = {}
          \/ \E i \in taken : (\A j \in taken : i <= j) /\ of = {<<Aliases[f][i], flag>>}
      BY <3>2, <3>4
    <3> QED BY <3>5 DEF taken, of, flag
  <2>7. toml.driven => drv.pkg = n
    BY <2>5 DEF RightFor
  <2>8. ~toml.driven => \A i \in Asked(n) : drv.pkg = Flake[OutputOf(toml, toml.packages[i])].pkg
    BY <2>3 DEF RightFor
  <2> QED BY <2>2, <2>6, <2>7, <2>8
<1> QED BY <1>4, <1>5 DEF AsAsked

\* With Ok, the manifest has a path for each package of packages.toml and no
\* other, of the main output, and of the derivation that was asked for.
THEOREM AskedAndBuilt == Spec => SuccessMeansBuilt
<1>1. Init => Made /\ Learnt /\ Right
  BY DEF Init, Made, Learnt, Right, Building, NoJob
<1>2. Types /\ Made /\ Learnt /\ Right /\ [Next]_vars => Types' /\ Made' /\ Learnt' /\ Right'
  BY TypesNext, MadeNext, LearntNext, RightNext
<1>3. ASSUME Types, Right, Next, Ends("ok")
      PROVE  AsAsked(job.toml, manifest'.packages)
  <2>1. job.pc = "write" /\ manifest'.packages = job.entries
    BY <1>3, EndOk
  <2> QED BY <1>3, <2>1, MadeAsAsked
<1>4. Types /\ Right /\ [Next]_vars => [Ends("ok") => AsAsked(job.toml, manifest'.packages)]_vars
  BY <1>3
<1>5. Spec => [](Types /\ Made /\ Learnt /\ Right)
  BY <1>1, <1>2, TypesInit, PTL DEF Spec
<1> QED BY <1>4, <1>5, PTL DEF Spec, SuccessMeansBuilt
=============================================================================
