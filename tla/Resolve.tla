------------------------------ MODULE Resolve ------------------------------
(***************************************************************************)
(* `pkg resolve`: from package names to the store paths of a channel.      *)
(*                                                                         *)
(* The channel moves: whoever maintains it publishes a new revision, and   *)
(* with it a new store-paths.xz, between any two requests.  Each workload  *)
(* has its packages.toml and its manifest.json, and all share one cache    *)
(* directory of store-paths lists, one file per revision.  Files are       *)
(* written with fs::write, which truncates first; a process that dies, or  *)
(* a full disk, leaves what was written so far.  A text is read and        *)
(* written byte by byte here, so that one command may see, and leave, a    *)
(* line cut short, and two may splice a line that neither of them wrote.   *)
(***************************************************************************)
EXTENDS Naturals, Sequences, SequencesExt

CONSTANTS
  Workloads,     \* directories with a packages.toml
  Names,         \* package names
  Packages,      \* the [[package]] names of a workload, in file order
  Bytes,         \* what texts are made of
  Eol,           \* the byte that ends a line
  Code,          \* the order of bytes
  NameAt,        \* in a path, how many bytes come before the derivation name
  Stems,         \* matches_name: package name -> how a matching name begins
  Endings,      \* -lib, -dev, -info, ...: the ends of secondary outputs
  Keywords,      \* what marks a test artefact
  Published,     \* the revisions of the channel, oldest first: their texts
  RevLength,     \* the length of a revision's name
  Hole,          \* the byte a reader sees where nothing was written
  NoFile, Torn,
  MaxFaults,     \* bound: failed requests, reads and writes
  MaxRuns        \* bound: commands run

Texts == Seq(Bytes \cup {Hole})

ASSUME TextAssumption ==
  /\ Published \in Seq(Seq(Bytes)) /\ Published # << >>
  /\ RevLength \in [DOMAIN Published -> Nat]
  /\ Packages \in [Workloads -> Seq(Names)]
  /\ Eol \in Bytes /\ Hole \notin Bytes

ASSUME MatchAssumption ==
  /\ Stems \in [Names -> SUBSET Seq(Bytes)] /\ NameAt \in Nat
  /\ Endings \subseteq Seq(Bytes) /\ Keywords \subseteq Seq(Bytes)
  /\ Code \in [Bytes \cup {Hole} -> Nat]

\* No channel publishes an empty list.
ASSUME ListAssumption == \A r \in DOMAIN Published : Published[r] # << >>

ASSUME FileAssumption == NoFile \notin Texts /\ NoFile # Torn

ASSUME BoundAssumption == MaxFaults \in Nat /\ MaxRuns \in Nat

Revisions == DOMAIN Published

-----------------------------------------------------------------------------
(* find_store_path *)

\* str::lines, as a set: what lies between two line breaks or ends of the text.
LinesOf(text) ==
  LET Breaks == {0, Len(text) + 1} \cup {i \in DOMAIN text : text[i] = Eol}
      Gaps   == {g \in Breaks \X Breaks :
                   g[1] < g[2] /\ ~ \E i \in Breaks : g[1] < i /\ i < g[2]}
  IN  {SubSeq(text, g[1] + 1, g[2] - 1) : g \in Gaps}

DrvName(line) == SubSeq(line, NameAt + 1, Len(line))

Matches(line, name) ==
  /\ \E stem \in Stems[name] : IsPrefix(stem, DrvName(line))
  /\ Keywords \cap SubSeqs(line) = {}

Secondary(line) == \E ending \in Endings : IsSuffix(ending, line)

Pool(text, name) ==
  LET candidates == {line \in LinesOf(text) : Matches(line, name)}
      primary    == {line \in candidates : ~Secondary(line)}
  IN  IF primary # {} THEN primary ELSE candidates

\* The order of byte strings.
Precedes(a, b) ==
  \E n \in 0 .. Len(a) :
    /\ n <= Len(b) /\ \A i \in 1 .. n : a[i] = b[i]
    /\ n < Len(b) /\ (n = Len(a) \/ Code[a[n + 1]] < Code[b[n + 1]])

\* The order of the sort: derivation names descending, then paths ascending.
Before(a, b) ==
  \/ Precedes(DrvName(b), DrvName(a))
  \/ DrvName(a) = DrvName(b) /\ (Precedes(a, b) \/ a = b)

\* The line find_store_path returns, or none.
Best(text, name) ==
  LET pool == Pool(text, name)
  IN  {line \in pool : \A other \in pool : Before(line, other)}

NamesOf(w) == Range(Packages[w])

\* The map resolve() builds from a text; there is none if a name is missing.
Resolutions(text, w) ==
  LET best == [name \in NamesOf(w) |-> Best(text, name)]
  IN  {found \in [NamesOf(w) -> UNION Range(best)] :
         \A name \in NamesOf(w) : found[name] \in best[name]}

-----------------------------------------------------------------------------
VARIABLES
  head,      \* the channel's current revision
  file,      \* the disk cache: revision -> text, or NoFile
  manifest,  \* each workload's manifest.json, NoFile, or Torn
  job,       \* each workload's current or last `pkg resolve`
  runs, faults,
  unsafe     \* history: revisions whose file was left unfinished, or was
             \* written while another process had it open

vars == <<head, file, manifest, job, runs, faults, unsafe>>

NoJob == [pc |-> "idle", rev |-> 0, key |-> 0, text |-> << >>, pos |-> 1, found |-> << >>,
          old |-> NoFile, result |-> "none"]

Init ==
  /\ head = 1
  /\ file = [r \in Revisions |-> NoFile]
  /\ manifest = [w \in Workloads |-> NoFile]
  /\ job = [w \in Workloads |-> NoJob]
  /\ runs = 0 /\ faults = 0 /\ unsafe = {}

\* The channel is published anew.
Advance ==
  /\ head < Len(Published)
  /\ head' = head + 1
  /\ UNCHANGED <<file, manifest, job, runs, faults, unsafe>>

-----------------------------------------------------------------------------
(* One command *)

\* Mutant: one file for all revisions.
OneFile(rev) == 1

\* cache_path.
CacheKey(rev) == rev

At(w, pc) == job[w].pc = pc
Key(w)    == CacheKey(job[w].key)

Contended ==
  {Key(w) : w \in {v \in Workloads : At(v, "save") /\ \E u \in Workloads \ {v} :
                                       Key(u) = Key(v) /\ job[u].pc \in {"save", "read"}}}

Step(w, r) ==
  /\ job' = [job EXCEPT ![w] = r]
  /\ unsafe' = unsafe \cup Contended'
                      \cup (IF At(w, "save") /\ r.pc = "idle" THEN {Key(w)} ELSE {})

Goto(w, pc)   == Step(w, [job[w] EXCEPT !.pc = pc])
Stop(w, why)  == Step(w, [job[w] EXCEPT !.pc = "idle", !.result = why])
NoFault       == UNCHANGED faults
Fault         == faults < MaxFaults /\ faults' = faults + 1
FailsWith(w, why) == Stop(w, why) /\ Fault /\ UNCHANGED <<file, manifest>>

\* The command reads packages.toml first.
Start(w) ==
  /\ At(w, "idle") /\ runs < MaxRuns
  /\ runs' = runs + 1
  /\ \/ Step(w, [NoJob EXCEPT !.pc = "rev", !.old = manifest[w]]) /\ NoFault
     \/ Step(w, [NoJob EXCEPT !.old = manifest[w], !.result = "specFailed"]) /\ Fault
  /\ UNCHANGED <<head, file, manifest>>

\* fetch_git_revision: what the channel says now, if it is long enough.
Answers(w, r) ==
  \/ RevLength[head] >= 7 /\ Step(w, r)
  \/ RevLength[head] < 7 /\ Stop(w, "channelFailed")

FetchRevision(w) ==
  /\ \/ At(w, "rev") /\ Answers(w, [job[w] EXCEPT !.pc = "key", !.rev = head]) /\ NoFault
     \/ At(w, "key") /\ Answers(w, [job[w] EXCEPT !.pc = "lookup", !.key = head]) /\ NoFault
     \/ (At(w, "rev") \/ At(w, "key")) /\ FailsWith(w, "channelFailed")
  /\ UNCHANGED <<head, file, manifest, runs>>

Lookup(w) ==
  /\ At(w, "lookup")
  /\ \/ file[Key(w)] # NoFile /\ Goto(w, "read")
     \/ file[Key(w)] = NoFile /\ Goto(w, "download")
  /\ NoFault /\ UNCHANGED <<head, file, manifest, runs>>

\* Mutant: the reader stays where it is.
ReadAgain(w) ==
  /\ At(w, "read")
  /\ \/ /\ job[w].pos <= Len(file[Key(w)])
        /\ Step(w, [job[w] EXCEPT !.text = <<file[Key(w)][job[w].pos]>>])
        /\ NoFault
     \/ job[w].pos > Len(file[Key(w)]) /\ Goto(w, "find") /\ NoFault
  /\ UNCHANGED <<head, file, manifest, runs>>

\* read_to_string; a file that cannot be read is downloaded again.
ReadByte(w) ==
  /\ At(w, "read")
  /\ \/ /\ job[w].pos <= Len(file[Key(w)])
        /\ Step(w, [job[w] EXCEPT !.text = Append(@, file[Key(w)][job[w].pos]), !.pos = @ + 1])
        /\ NoFault
     \/ job[w].pos > Len(file[Key(w)]) /\ Goto(w, "find") /\ NoFault
     \/ Step(w, [job[w] EXCEPT !.pc = "download", !.text = << >>, !.pos = 1]) /\ Fault
  /\ UNCHANGED <<head, file, manifest, runs>>

Download(w) ==
  /\ At(w, "download")
  /\ \/ Step(w, [job[w] EXCEPT !.pc = "create", !.text = Published[head], !.pos = 1]) /\ NoFault
     \/ \E why \in {"channelFailed", "decompressFailed"} : FailsWith(w, why)
  /\ UNCHANGED <<head, file, manifest, runs>>

\* Mutant: the last byte is never written.
SavedTooSoon(r) == r.pos >= Len(r.text)

Saved(r) == r.pos > Len(r.text)

Saving(r) == [r EXCEPT !.pc = IF Saved(r) THEN "find" ELSE "save"]

\* fs::write: open and truncate, then write; any error ends the command.
Create(w) ==
  /\ At(w, "create")
  /\ \/ /\ file' = [file EXCEPT ![Key(w)] = << >>]
        /\ Step(w, Saving(job[w])) /\ NoFault
        /\ UNCHANGED manifest
     \/ FailsWith(w, "cacheFailed")
  /\ UNCHANGED <<head, runs>>

\* A write past the end leaves a gap.
WriteAt(text, i, byte) ==
  [k \in 1 .. (IF i > Len(text) THEN i ELSE Len(text)) |->
     IF k = i THEN byte ELSE IF k \in DOMAIN text THEN text[k] ELSE Hole]

SaveByte(w) ==
  /\ At(w, "save")
  /\ \/ /\ file' = [file EXCEPT ![Key(w)] = WriteAt(@, job[w].pos, job[w].text[job[w].pos])]
        /\ Step(w, Saving([job[w] EXCEPT !.pos = @ + 1])) /\ NoFault
        /\ UNCHANGED manifest
     \/ FailsWith(w, "cacheFailed")
  /\ UNCHANGED <<head, runs>>

\* Mutant: the output file is opened before the names are looked up.
OpenThenFind(w) ==
  /\ At(w, "find")
  /\ manifest' = [manifest EXCEPT ![w] = Torn]
  /\ \/ \E found \in Resolutions(job[w].text, w) :
          Step(w, [job[w] EXCEPT !.pc = "open", !.found = found])
     \/ /\ \E name \in NamesOf(w) : Best(job[w].text, name) = {}
        /\ Stop(w, "packageNotFound")
  /\ NoFault /\ UNCHANGED <<head, file, runs>>

Find(w) ==
  /\ At(w, "find")
  /\ \/ \E found \in Resolutions(job[w].text, w) :
          Step(w, [job[w] EXCEPT !.pc = "open", !.found = found])
     \/ /\ \E name \in NamesOf(w) : Best(job[w].text, name) = {}
        /\ Stop(w, "packageNotFound")
  /\ NoFault /\ UNCHANGED <<head, file, manifest, runs>>

\* write_manifest, which is fs::write again.
OpenManifest(w) ==
  /\ At(w, "open")
  /\ \/ manifest' = [manifest EXCEPT ![w] = Torn] /\ Goto(w, "write") /\ NoFault
     \/ FailsWith(w, "manifestFailed")
  /\ UNCHANGED <<head, file, runs>>

WriteManifest(w) ==
  /\ At(w, "write")
  /\ \/ /\ manifest' = [manifest EXCEPT ![w] = [rev |-> job[w].rev, packages |-> job[w].found]]
        /\ Goto(w, "report") /\ NoFault
     \/ FailsWith(w, "manifestFailed")
  /\ UNCHANGED <<head, file, runs>>

\* The closing message slices the first eight bytes off the revision.
Report(w) ==
  /\ At(w, "report")
  /\ \/ RevLength[job[w].rev] >= 8 /\ Stop(w, "ok")
     \/ RevLength[job[w].rev] < 8 /\ Stop(w, "panicked")
  /\ NoFault /\ UNCHANGED <<head, file, manifest, runs>>

\* The process is killed.
Crash(w) ==
  /\ ~At(w, "idle") /\ Stop(w, "crashed")
  /\ NoFault /\ UNCHANGED <<head, file, manifest, runs>>

Work(w) ==
  \/ FetchRevision(w) \/ Lookup(w) \/ ReadByte(w) \/ Download(w) \/ Create(w) \/ SaveByte(w)
  \/ Find(w) \/ OpenManifest(w) \/ WriteManifest(w) \/ Report(w)

Next == Advance \/ \E w \in Workloads : Start(w) \/ Work(w) \/ Crash(w)

Spec     == Init /\ [][Next]_vars
FairSpec == Spec /\ \A w \in Workloads : WF_vars(Work(w))

-----------------------------------------------------------------------------
(* Properties *)

Pcs == {"idle", "rev", "key", "lookup", "read", "download", "create", "save", "find", "open",
        "write", "report"}
Results == {"none", "ok", "panicked", "crashed", "specFailed", "channelFailed",
            "decompressFailed", "cacheFailed", "packageNotFound", "manifestFailed"}

Manifests(w) == [rev : Revisions, packages : [NamesOf(w) -> Texts]]

Job(w) ==
  [pc     : Pcs,
   rev    : Revisions \cup {0},
   key    : Revisions \cup {0},
   text   : Texts,
   pos    : Nat \ {0},
   found  : [NamesOf(w) -> Texts] \cup {<< >>},
   old    : Manifests(w) \cup {NoFile, Torn},
   result : Results]

\* What a command at work has learnt so far, and where its file is.
JobOK(w, r) ==
  /\ r \in Job(w)
  /\ r.pc \in Pcs \ {"idle", "rev"} => r.rev \in Revisions
  /\ r.pc \in Pcs \ {"idle", "rev", "key"} => r.key \in Revisions
  /\ r.pc = "read" => file[CacheKey(r.key)] # NoFile
  /\ r.pc = "save" => file[CacheKey(r.key)] # NoFile /\ r.pos \in DOMAIN r.text
  /\ r.pc \in {"open", "write", "report"} => r.found \in [NamesOf(w) -> Texts]

\* The type of every variable.
TypeOK ==
  /\ head \in Revisions
  /\ DOMAIN file = Revisions /\ \A r \in Revisions : file[r] \in Texts \cup {NoFile}
  /\ DOMAIN manifest = Workloads
  /\ \A w \in Workloads : manifest[w] \in Manifests(w) \cup {NoFile, Torn}
  /\ DOMAIN job = Workloads /\ \A w \in Workloads : JobOK(w, job[w])
  /\ runs \in Nat /\ faults \in Nat /\ unsafe \subseteq Revisions

Written(w) == manifest[w] \notin {NoFile, Torn}

\* A list published since revision r has the byte at that place.
Since(r, i, byte) ==
  \E later \in r .. head : i \in DOMAIN Published[later] /\ Published[later][i] = byte

\* The path lies somewhere in texts put together of lists since revision r, or
\* of gaps between them.
PiecedSince(r, path) ==
  \E later \in r .. head : \E at \in 0 .. Len(Published[later]) :
    \A i \in DOMAIN path : path[i] = Hole \/ Since(r, at + i, path[i])

\* Nothing in a manifest is older than the revision it names, interrupted and
\* overlapping writes included: the revision is read before the list, and every
\* byte of a cache file is from a list at least as new as the revision the file
\* is named for.  The path itself need not be in any of these lists: it may
\* be cut short, or spliced of several.
NeverOlderThanClaimed ==
  \A w \in Workloads : Written(w) =>
    \A name \in NamesOf(w) : PiecedSince(manifest[w].rev, manifest[w].packages[name])

\* What a command concludes from the list it has, be it paths or that there is
\* no such package, it concludes from one whole list of the channel, published
\* while it ran or later than the revision it names; unless the cache file it
\* used was left unfinished by some process or written under its eyes.
OneList(w) ==
  \E r \in job[w].rev .. head :
    \/ job[w].found \in Resolutions(Published[r], w)
    \/ job[w].result = "packageNotFound" /\ Resolutions(Published[r], w) = {}

ConclusionsFromOneList ==
  \A w \in Workloads :
    (job[w].pc \in {"open", "write", "report"} \/ job[w].result \in {"ok", "packageNotFound"})
      => OneList(w) \/ Key(w) \in unsafe

\* A command that fails before it opens its output leaves the previous
\* manifest as it was.
FailureKeepsManifest ==
  \A w \in Workloads :
    job[w].result \in {"specFailed", "channelFailed", "decompressFailed", "cacheFailed",
                       "packageNotFound"} => manifest[w] = job[w].old

\* Every command comes to an end, also when a file grows or shrinks under it.
Termination == \A w \in Workloads : ~At(w, "idle") ~> At(w, "idle")

\* The contract test of git-revision: "All subsequent resolution in this run
\* uses the pinned revision", the one in the manifest.
PinnedRevisionIsUsed ==
  \A w \in Workloads : Written(w) =>
    manifest[w].packages \in Resolutions(Published[manifest[w].rev], w)

\* The doc of fetch_store_paths: it returns the store-paths list for the
\* channel, from the disk cache or not.  Then a command alone at its key works
\* on a whole list.
ListIsWhole ==
  \A w \in Workloads : At(w, "find") => \E r \in Revisions : job[w].text = Published[r]
=============================================================================
