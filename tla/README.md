# Specifications of justpkg

TLA+ specifications of `pkg`, the package tool of justpkg, kept beside its
source. They say what the parts of the tool promise when threads, processes,
servers and disks interleave and fail; TLC checks them on small instances, and
TLAPS proves the most important ones for all instances.

Paths below are relative to `src/main/features/` unless they say otherwise.

## The system

`pkg` turns a list of Nix package names into a root file system image for a
virtual machine. Its commands share a few directories and otherwise run
independently, often at the same time:

| Part | State it keeps | Operations | Interacts with |
|---|---|---|---|
| HTTP client (`pkg/src/core/ureq_client.rs`) | none between calls | `get_bytes`, `get_stream`, and both with a token; retry with backoff | every other part, through the `HttpClient` trait |
| Channel resolution (`resolve/`) | `manifest.json` of a workload; a shared disk cache of store-paths lists | `pkg resolve` | the channel server, which moves; other `pkg resolve` processes through the cache |
| Store path fetcher (`nix/src/core/fetcher.rs`) | the local content addressed store (CAS) | `build_store_path`; `build`, `fetch_to_cas`, `extract_from_cas` over a `flake.lock` | binary caches; the CAS; the destination tree |
| NAR extraction (`nix/src/core/nar.rs`) | the destination tree | `extract_nar` | called by the fetcher |
| Package installation (`vminit/`) | the destination tree | `install_packages` (a thread per package, fallback over substituters), `generate_root_layout` | the fetcher |
| Rootfs build (`rootfs/`) | a temporary tree; the image file | `pkg rootfs build`, `pkg verify-image` | installation; the ext4 library |
| Flake build (`cli/src/flake.rs`) | a temporary flake; `manifest.json` | `pkg flake build` | the `nix` program; a substituter |
| Scaffolding (`cli/src/scaffold.rs`) | two new files | `pkg new` | nothing |
| Configuration (`config/`) | none | `load`, `effective_substituters` | every command |
| Formats and hashes (`nix/src/core/nix_hash.rs`, `nix/src/api/`) | none | base-32, narinfo, `flake.lock` | the fetcher |

What is hard about it:

* **Threads.** `install_packages` runs one thread per package over one tree
  with no lock; what they share is `Path::exists()` and the file system.
* **Processes.** Commands share the CAS and the directory of store-paths lists
  with no lock either, and write files in place.
* **Crashes.** Trees, lists, manifests and images are written where they will
  be read. What an interrupted command leaves behind, the next one finds.
* **The network.** Requests fail, time out and break off; caches hold part of
  a closure; the channel publishes a new list between two requests.
* **Recursion.** Nix references are cyclic.

What makes each part correct:

* HTTP client: one call delivers one whole body or an error, whatever was retried.
* Resolution: a manifest names no newer revision than its paths are from, and a
  command concludes from one whole list, as far as the cache file lets it.
* Installation: success means that the closure of every package is in the tree;
  failure has a reason; a run ends.
* Fetch pipeline: what was fetched can be extracted, verified, more than once.
* Rootfs build: after success the image holds what was declared; a request that
  is refused leaves the earlier image alone.
* Flake build: the manifest names what was built, with the overrides asked for.

`PROJECT.json` lists the parts with what is modelled of each, and under
`hazards` every place in the code where something of this can go wrong.

## The modules

| Module | What it is |
|---|---|
| `Install` | `install_packages`, its fetch threads, the CAS and the tree |
| `InstallInvariant` | the inductive invariant of `Install` |
| `InstallProofs` | proofs about `Install` |
| `InstallCauses` | the inductive invariant behind the causes of its failures |
| `InstallCauseProofs` | proofs about the causes |
| `MCInstall` | small instances for TLC |
| `Resolve` | `pkg resolve`, any number of them, and the channel |
| `ResolveInvariant` | the inductive invariant of `Resolve` |
| `ResolveProofs` | proofs about `Resolve` |
| `MCResolve` | small instances for TLC |
| `HttpCall` | what a request promises its caller |
| `HttpClient` | `UreqClient`, with its inductive invariant |
| `HttpClientProofs` | proofs about `HttpClient`, among them that it implements `HttpCall` |
| `CasPipeline` | `pkg fetch`, `pkg extract` and `pkg build` over a `flake.lock` |
| `CasPipelineInvariant` | the inductive invariant of `CasPipeline` |
| `CasPipelineProofs` | proofs about `CasPipeline` |
| `MCCasPipeline` | a small instance for TLC |
| `RootfsBuild` | `pkg rootfs build` with the root layout, and `pkg verify-image` |
| `RootfsBuildInvariant` | the inductive invariant of `RootfsBuild` |
| `RootfsBuildProofs` | proofs about `RootfsBuild` |
| `MCRootfsBuild` | a small instance for TLC |
| `FlakeBuild` | `pkg flake build`, with `nix` and other writers of `flake.lock` around it |
| `FlakeBuildProofs` | proofs about `FlakeBuild` |
| `MCFlakeBuild` | a small instance for TLC |
| `Sizing` | the size of a rootfs image |
| `Calendar` | the date in a manifest |
| `NixHash` | the codings of digests in base-32 and base-64 |
| `Scaffold` | `pkg new`, by several developers |
| `SmallPartsProofs` | proofs about `Sizing`, `Scaffold`, `Calendar` and `NixHash` |
| `MCLoneParts` | a small instance of each part that works alone, for TLC: `FlakeBuild`, `HttpClient`, `Sizing`, `Calendar`, `NixHash` and `Scaffold` |

### Install

State: `th`, a record per fetch thread (program counter, substituter, the
`visited` set, the paths still to visit, the node of the NAR it extracts);
`disk`, the state of each NAR node of each store path in the destination tree
(`absent`, `empty` between `File::create` and `write_all`, `full`); `cas`, bytes
by digest; `phase` and `result` of the command. `faulty` and `damaged` record
what happened, for the properties; no action reads them.

The recursion of `build_with_closure` is a stack `pending` of store paths:
`Descend` puts the references of a path, in order, before what was pending,
which visits paths in the order of the recursive calls. Each step that another
thread can observe or disturb is an action: the narinfo request, the
`exists()` check, the CAS lookup, the download with its `put`, the
verification, and each node of the NAR. `AfterError` is the loop of
`fetch_with_fallback`. `Crash` kills the process; the tree and the CAS survive,
and `Start` may run the command again with any request.

A store path stands for its hash, its narinfo and its contents. A NAR is the
sequence of its nodes in archive order. The bytes of a NAR differ from cache to
cache (each compresses it its own way), so a blob is a pair of cache and path;
`Garbage` stands for everything else. `FetchNarInfo` and `Download` take from a
request no more than `HttpCall` promises.

### Resolve

State: `head`, the channel's revision, which `Advance` moves; `file`, the disk
cache, a text per revision; `manifest` per workload; `job`, the
command of each workload. `old` in a job and `unsafe` are for the properties.

One action per request and per file operation. A text is a sequence of bytes.
`fs::write` is a truncation (`Create`) and then bytes at the writer's own position
(`SaveByte`), so a kill or a full disk may cut a line short, two writers overlap as
they do on disk and may splice a line that is in no list, a shorter text leaves the
tail of a longer one, and a write past the end leaves a `Hole`. A reader reads byte
by byte (`ReadByte`). A command that fails or is killed leaves the files as they
are. The manifest is `Torn` between its truncation and its completion.

`LinesOf` is `str::lines`; `Matches`, `Secondary`, `Pool`, `Before` and `Best` are
`find_store_path`, on the text of a line, so that they take the stump of a line for a
path just as the code does. Constants say what a byte is and how bytes are ordered,
where in a path the name begins (`NameAt`), how a matching name begins (`Stems`), and
what ends or contains what is not wanted (`Endings`, `Keywords`).

### HttpClient and HttpCall

State: the method called, the number of retries, the response that is being
received and how much of it, what the caller has, the answer; `log` and `cause`
are history. `Retried` is the guard of `retry_with_backoff`; `BodyError` is the
difference between the two kinds of method: `resp.bytes()` goes through
`map_error` and becomes status 0, an error of `io::copy` becomes `Io`.
`HttpCall` is the abstract specification: one step, from "no answer" to an
answer with a body, a refusal with nothing, or a broken transfer with a
beginning. `ImplementsCall` is the refinement, under which the caller's buffer
counts as seen when the call returns. The names of this module carry a prefix
(`HttpSpec`, `HttpInv`), because one run checks it next to others.

### CasPipeline

State: `published`, the version of each source the cache answers with now;
`cas`, the set of blobs in the local store; `tree`, as `disk` in `Install`;
`job`, the command of each process. `owed` (what a faultless `pkg fetch` said it
cached) and, in a job, `was`, `promised`, `got` and `faulty` are for the
properties.

A command takes the entries of its lock file in any order (`Entry`), asks for
the narinfo each time, and goes the way of `fetch_to_cas` (`Download`, `Put`),
of `extract_from_cas` (`Lookup`, `Verify`, and the nodes of the NAR) or of
`build` (`CheckExists`, then whichever of these it needs). Two entries may lock
the same source, which only `build` notices. `Republish` compresses a source
anew, so that its FileHash changes; a `Spoiled` version is one whose contents
are not of its NarHash. The digest of a blob stands for the blob, and what is put is
put under what was received, be it `Garbage`. What a narinfo gives as `FileHash` is
another matter: `NarInfo::parse` asks only for the URL, so it may be missing or
malformed (`NoDigest`), or be the digest of other bytes. `pkg fetch` does not read it;
`Digest` is `file_hash_to_digest`, whose error `pkg extract` returns and `pkg build`
takes for a blob that is not there. A version has its `Compression`, and bytes are
decompressed as the narinfo says that was read last.

Assumed: the store writes a blob in one step; only one command at a time writes
to a tree; what was published before is still served under its own URL.

### RootfsBuild

State: `image`, the file at `image_out` (none, raw after the truncation, or a
file system with its nodes and their owners), and `manifest`, the
`manifest.json` beside `packages.toml`; both outlive a command. The rest is the
command: its `[rootfs]` section `spec`, the `entries` it read, the temporary
`tree`, what is left to do to it (`todo`), and the worklist (`stack`, `listing`)
of `populate_from_host_tree`. `faulty` and `before` are for the properties.

A tree is a function from paths to nodes, a path the sequence of its `Names`. A path
of `packages.toml` is what splitting it at `/` gives, with the empty names of a double or
a trailing slash, and `.`: `Valid` is `validate_vfs_path`, `Vfs` where the path leads.
`WriteFile` fails for a path that ends in one of these, and `Chown`, which hands
the path to the ext4 library as it was declared, may fail for one that has any.
`Over` lays one tree over another, `Put` sets one node.
`Steps` is the code between the installation and the image, in order: the root
layout, a package at a time (`LinkBin`), the users (`WriteDefault`), and the
declared directories, files and binaries. Each is an action that succeeds or,
where the tree is in the way, fails as `create_dir_all` and `fs::write` do.
`Install` is what `Install.tla` proves of a first run that returns `Ok`
(`SuccessMeansInstalled`), and the dependencies, to which this part does nothing
but copy them, are left out. Failures of the installation, the race of two
threads among them, count as faults.

`Resolve` lets `pkg resolve` truncate and rewrite the manifest while a build is
between its look at `exists()` and its read; later it makes no difference.
`Kill` may come at any moment and leaves the image as it is.

Taken on trust, because it is outside the repository: the ext4 library applies
its operations in order, and lists and opens links as links. What its `symlink`
does with a name that is taken is left open: `LinkShell` allows it to refuse and
to replace. Assumed of the host: it lacks the guest's store paths, so that a
write through a link of the root layout, which leads there, fails. Assumed of
packages: their `bin` is not itself a link. Assumed of the two together
(`LinkAssumption`): no declaration leads to or through a link that a package brings,
which the host would follow where it is relative. Assumed of declarations
(`SpecAssumption`): no directory's path ends in `.`, which `create_dir_all` does not
make. File modes and the text of the
generated files are left out, the size of the image is in `Sizing`, and only one
build writes an image at a time. `AsDeclared` is what `packages.toml` and a
manifest ask of an image, with a group only where one is given (for the others see the
run `rootfs_group`), and `Clash`, `BadPath`, `ShellIsTaken` and `BadBinary` are what a
build cannot do; they are about any section and any manifest, and the properties
apply them to the command's.

### FlakeBuild

State: `lock` and `manifest`, the two files beside `packages.toml`; `cache`, the
outputs in the binary cache; `job`, the command. `moved`, `warned` and `old` in
it are for the properties, which is why a command that has ended keeps only its
result.

One action per call of `nix` and per file operation, in the order of `build`:
`Pin` reads `flake.lock`, `Discover` asks `nix eval` about one package,
`Generate` is the guard against flags that no package honours, `BuildProfile`
and `BuildOutput` are `nix build` from the flake of the command's own making and
from the workload's, `Push` is one `nix copy`, `Record` the insertion into the
entries, `ReadRevision` the second look at `flake.lock`, `OpenManifest` and
`WriteManifest` the two halves of `fs::write`. Each call may fail; `Update` is
someone else who changes `flake.lock` at any moment; `Kill` may come at any
moment.

`Overrides`, `Unhonoured`, `Pinned` and `Primary` are `resolve_overrides`,
`unhonored_flags`, `read_nixpkgs_url` and `pick_primary_output`. A store path is
the derivation it is an output of: revision, package, overrides, and `checkKept`, whether
`doCheck` was left as nixpkgs has it. That is not whether tests run: with `check` true or
unset the code overrides nothing (`flake.rs:228`). Of a name it matters to which output name it is turned (`Out`), of
the base name of an output what it ends in (`Parts`).

Assumed of `nix`, which is outside the repository: it builds what it is asked
for or fails; it locks the inputs that the workload's `flake.lock` leaves open,
and writes them there; it refuses a flake that defines an output twice; it
prints the outputs of a package in one order.

### Sizing, Calendar, NixHash and Scaffold

Four parts that stand alone, small enough to share a run with other such parts.

`Sizing`: `size_estimate` and the half that `build_rootfs` adds, as functions of
the two counters of `walk_tree_stats`; the state is the counters while
directories are walked, and `taken`, the blocks that what was found takes in ext4: each
file whole blocks of its own, a directory as many as its entries fill
(`DirBlocks`), a long link one. The widths of the integers are constants, since TLC has
32 bits for all of them. Each block group of an image has the overhead that the code
computes for one, as the comment on it says. The blocks of the extents of large files are
left out.

`Calendar`: the two loops of `days_to_ymd` as recursive functions of the state
they carry, the year or month and the days left; next to them a calendar is moved
on day by day.

`NixHash`: `nix_base32_decode`, `nix_base32_encode` and `base64_decode` with
their shifts, masks and `u8` casts; `Or`, which is `|`, takes the bits one by one.
The state is a digest that grows byte by
byte; the definitions they are compared with speak of its bits. Characters are
numbers, and what is not in the alphabet is left out.

`Scaffold`: `pkg new`, one action per file operation, with a command per
developer, who may break down at any step. `asked` and `broken` are history: for each name,
the arguments of the commands that went on to make it, and whether one of these broke down.
A workload is deleted only while no command is at it. `derive_mac` is there with its
wrapping sums.

## The runs

| Run | Instance | What it shows |
|---|---|---|
| `install_shared` | two packages with a shared dependency and cyclic references, a NAR of a directory, a file and a link, one that is a file, and two that are a link with nothing to depend on; two caches, of which the first lacks the shared dependency and the second one of the links, and both the other; two runs, one fault, kills, requests for none, for unknown and for malformed packages | `CInv`, `IInv`, `SuccessMeansInstalled`, `DamageIsPermanent`, `FailureHasACause`, `FirstCompleteCacheWins`, `Termination` |
| `install_race` | no configured cache, so the default one, which has everything; no fault | `SharedDependenciesAreSafe` is violated |
| `install_rerun` | two runs, one fault or kill | `ExtractionIsIdempotent` is violated |
| `resolve_shared` | two workloads, two commands, three revisions with texts of 3, 3 and 7 bytes and names of 6, 7 and 40 characters, one fault, kills at any byte | `IInv`, `NeverOlderThanClaimed`, `ConclusionsFromOneList`, `FailureKeepsManifest`, `Termination` |
| `resolve_pinned` | one command, two revisions | `PinnedRevisionIsUsed` is violated |
| `resolve_truncated` | two commands, one after the other, a kill; two outputs of a package, a test artefact | `ListIsWhole` is violated |
| `fetch_pipeline` | a source of a directory, a file and a link, one that is a link and published twice, one whose narinfo has no FileHash, and one that fails its hash, with the FileHash of something else; lock files with one input twice, with two, and with each bad one; two processes, two commands, one fault, kills | `IInv`, `UnverifiedStaysOut`, `SuccessMeansExtracted`, `FailureHasACause`, `Termination` |
| `rootfs_build` | four packages, of which one has no `bin`, one a text file in it, and one a link `sh`; three manifests; seven `[rootfs]` sections, which are as `pkg new` makes them, layer two writes on one path in two spellings, write where a package has a binary or the command a directory, name a source that is not there, climb with `..`, name a file like a directory, or put what does not run into a package; two commands, one fault, kills | `IInv`, `BuiltAsDeclared`, `InvalidKeepsImage`, `CleanBuildSucceeds`, `Termination` |
| `rootfs_group` | one build, no fault | `UndeclaredGroupIsRoot` is violated |
| `flake_revision` | one build, no fault, no change of the lock | `RevisionIsActual` is violated |
| `scaffold_overwrite` | two commands, neither breaks down | `NeverOverwritten` is violated |
| `lone_parts` | one at a time: flake builds of six `packages.toml` (by outputs, with two packages of one name, with a name that is gone from nixpkgs, and with a [profile] whose flags some, all or none of the packages honour, under one alias or another, also two names that become one output), four locks (empty, one input, two, and one not pinned), two revisions that differ in what can be overridden, two commands, one fault, one change of the lock, kills | `TypeOK`, `ProfileIsHonest`, `SuccessMeansBuilt`, `WrongRevisionHasACause`, `SuccessMeansPushed`, `FailureKeepsManifest`, `Termination` |
| | a call of each of the four methods, three contents of different length, two refusals, three retries | `HttpInv`, `OnlyOutagesAreRetried`, `ImplementsCall`, `EveryCallReturns` |
| | all days from 1992-12-31 to 2103; digests of up to six bytes of four values; up to four directories of up to 100000 files with counters of about 18 and 30 bits | `DateIsRight`, `Base32IsRight`, `Base64IsRight`, `HeadroomHolds`, `NeverShrinks` |
| | `pkg new` by two developers, two names, two sets of arguments, three commands, one breakdown; names of up to four letters of four | `FilesAreAsAsked`, `SimilarNamesDiffer` |

`IInv` is in each case the inductive invariant of the proofs, of which `TypeOK` is
a part, and so is `HttpInv`; `CInv` is a second one of `Install`.

The runs that end in a violation check what a comment, a test or a contract of
the repository says; `findings` in `PROJECT.json` quotes each and names the
line that departs from it.

### Bounds, and why they are enough

* `MaxRuns` bounds how often a command is started. Two runs of `install` are
  what it takes for one to find what another left; two `resolve` commands
  overlap on a file, and the second reads what the first has left of it, unfinished or
  whole.
* `MaxFaults` bounds failed requests, transfers, reads and writes. One in
  `install_shared` lets a thread lose a substituter, receive wrong bytes or fail on the
  disk while the others go on and a second run follows; kills are not counted and may
  come at any moment.
* Two threads show every race of the code, which is between one writer of a
  path and one other thread. Five paths are enough for a shared dependency in
  a cycle, a package on its own, and one that no cache has. The three kinds of NAR node occur at the root and, for a directory,
  below it.
* `MaxAttempts` is 3, as in the code.
* Two commands let a build start on what a killed or failed one left, and let
  `verify-image` read it. The trees are two levels deep below a store path,
  which is as deep as any step looks. The `[rootfs]` sections have a case for each way in
  which a declaration can meet another, a package, or a path that is not plain.
* Two commands of the pipeline are a fetch and the extraction that relies on it,
  two at once, or a build that is killed and the extraction that follows it.
* Texts of three and of seven bytes, of one and of two lines, let a shorter file
  overwrite a longer one and the reverse, and a line be cut in its name or its version; a
  version of two digits cut to one is another version.
* Two flake builds let one find what another left of the manifest and in the
  cache. One change of the lock may come between any two calls of `nix`; a
  second could only undo it or come again.
* The days include leap years and others, the century that is a leap year
  (2000) and one that is not (2100). Six bytes of a digest are all remainders of
  both codings (which have periods of five and three bytes), and the four byte
  values have ones at both ends, none, all, and mixed. The instance of `Sizing` has
  both counters at their limits, trees of one group and of several, and files that fill
  a block and one byte more.

The theorems hold without any of these bounds.

The runs switch the deadlock check off, because the commands end: after
`MaxRuns` commands, or with the call answered, there is nothing left to do.

### Fairness

`install_shared` assumes that a thread that can take a step takes one
(`WF_vars(ThreadStep(t))`), and that the main thread joins when all are done;
`resolve_shared` and `fetch_pipeline` that a command at work goes on,
`rootfs_build` that a build does (`WF_vars(Build)`), and `lone_parts` that a flake build
does (`Step`) and a call does (`HttpNext`).
The code justifies it: the threads are threads of the operating system and wait
for nothing but system calls and requests, and a request is bounded by the
client's timeouts of 15 and 300 seconds (`ureq_client.rs:12-13`) and by the
number of attempts. Of a flake build it is an
assumption that `nix` returns, which `run_nix` waits for without a limit. Nothing
is assumed of a kill, of the channel's moving, of a change of `flake.lock`, or of
a fault; nor that a command is ever started.

## The proofs

All proofs are by an inductive invariant, in three steps: it holds initially,
each action keeps it, and it implies the property. That of the installation, of
the resolution, of the fetch pipeline and of the rootfs build is `IInv` of
the component, that of the client `HttpInv` (theorem `Invariance`), and TLC checks each as an invariant of a run, too. They
rest on the named
assumptions about the constants in the component's module, which say no more
than what kind of value each constant is and that special values (`NoBlob`,
`Hole`, ...) are special; TLC evaluates them in every run.

`InstallProofs`:

* `TypeCorrect`: `Spec => []TypeOK`.
* `Installed`: `Spec => []SuccessMeansInstalled`. The property is far from
  inductive. It needs to know (1) that what a thread has visited is closed
  under references, but for the path it is at and the paths still pending
  (`WalkIsClosed`), so that a thread that is done has been everywhere in its
  closure; (2) that every visited path has its root node on disk; and (3) that
  a path with a root but a missing or an empty node has a thread that is
  writing it or is yet to come to it (`GapHasExtractor`, `EmptyHasWriter`),
  unless a thread has failed or an earlier run damaged the path. When all
  threads are done and none has failed, nobody is writing, so nothing is
  missing. (3) depends on `RootFirst` and `WrittenInOrder`, and on
  `DamageIsSkipped` and `IdleIsJoined` from one run to the next.
* `DamageStays`: `Spec => []DamageIsPermanent`. A damaged path has a root
  directory, so `exists()` is true, so no thread ever gets to the steps that
  would write it.

`InstallCauseProofs`, from `CInv`, which is inductive beside `IInv`:

* `FailuresExplained`: `Spec => []FailureHasACause`. A step of a thread either
  fails (`Fails`, with a `Reason`) or goes on (`Continues`), and `Outcomes` sorts
  every action into the two. Wrong bytes need a fault, because the CAS files
  bytes under their own digest (`CasIsHonest`) and a thread verifies what it
  asked for (`BytesAsAsked`). A link that is in the way is harder: `RootsAreTaken`
  and `NodesAreTaken` say of every node a thread has yet to write (`Ahead`,
  `NodeAhead`) that if it is there, another thread of the run has the path in its
  closure, or, for a root, that there was an earlier run or an earlier substituter.
  They hold because a thread writes nothing outside its closure
  (`StaysInClosure`), and no node twice for one substituter.
* `FirstComplete`: `Spec => []FirstCompleteCacheWins`. What a thread is at is in
  its closure, and without a fault only a 404 makes it move on.
* `CauseInvariance`: `Spec => []CInv`.

`ResolveProofs`:

* `TypeCorrect`: `Spec => []TypeOK`.
* `NeverOlder`: `Spec => []NeverOlderThanClaimed`. Every byte in a cache file is,
  at its place, from the revision the file is named for or a later one
  (`FilesKeepUp`), since
  a command that writes the file asked for its name before it asked for the
  list; every byte a command has read is no older than the key it read under,
  and the key no older than the revision it will write into the manifest
  (`JobsKeepUp`, `FoundKeepsUp`). A write that is cut short, at
  any byte, and writes that overlap keep this, because they only mix bytes that each
  satisfy it. A line of such a text lies somewhere in it (`LineInText`), so what
  `find_store_path` makes of it is pieced together of lists since that revision
  (`PiecedSince`). The theorem does not say that the path is in one of them: it may be a
  stump or a splice, which `resolve_truncated` shows and `ConclusionsFromOneList` rules
  out where no file was left unfinished and no two met.
* `Conclusions`: `Spec => []ConclusionsFromOneList`. Where no file was left
  unfinished and no two commands met at it, a file is a whole list or is being
  written (`FilesAreWhole`), its writer has the whole list and the file the
  beginning of it, and a reader has the beginning of the file (`WholeJob`). A
  reader at the end of the file so has a whole list, since a writer would have
  met it (`ContentionIsKnown`). `ListAssumption`, that a channel publishes no
  empty list, is needed because an empty list would be complete as soon as the
  file is created: that truncation could meet a reader without leaving `Create`.
* `CoreInvariance` and `Invariance`: the two halves of `IInv`, `Core` for
  `NeverOlder` and `ListsAreWhole` for `Conclusions`.

`HttpClientProofs`:

* `TypeCorrect` and `RetryDiscipline`: `Spec => []OnlyOutagesAreRetried`.
* `Implementation`: `Spec => ImplementsCall`. While a call is under way its
  buffer is empty, or the beginning of the one response that is being received
  (`NothingLeftBehind`); since a stream that has begun is never retried, the
  answer leaves one body or a beginning of one.

`RootfsBuildProofs`, for every set of packages, manifests and `[rootfs]` sections:

* `ImageIsAsDeclared`: `Spec => []BuiltAsDeclared`. The image is the end of a chain.
  Of the temporary tree `Progress` says what it holds after the first k of its
  `Steps`: a tree, with nothing in it that nobody asked for, what the packages
  brought but for what was written over, the links of the packages that have been
  linked, each write that no later one went over, and each directory that was made
  (`Holds`, `HoldsDir`); and of each node why it is what it is (`Justified`), which
  is what tells a step that meets something in its way whose it is. `InTree` adds
  that what is left to do are the other steps, in one order of the packages. With
  all steps done the tree is `Ready`. While it is copied, the image agrees with it,
  and every node that is missing can still be reached: its parent is missing too, or
  it was listed, or its parent is still to be listed (`CopyOK`). So nothing is missing
  when nothing is left (`SameTree`), by taking the shortest path that is missing.
  `OwnersOK` counts off the owners, and the groups that are given, as `Progress` does the
  steps. The last
  link is that `Ready` and `Final` make `AsDeclared` (`ReadyIsDeclared`).
* `CleanBuildIsNotRefused`: `Spec => []CleanBuildSucceeds`. A step of the tree fails
  on a node in its way, and `Justified` says that it is a package's, a link, or
  another declaration's: `Clash`; or on a path that ends in no name, as the chown of the
  image may on one that is not plain: `BadPath`. `LinkShell` fails where bin/sh is taken, and the
  verification where the tree has something that does not run (`BadBinary`).
* `RefusalIsHarmless`: `Spec => []InvalidKeepsImage`. A command has the image it
  found for as long as it is before `Truncate` (`Untouched`), and after it no
  step returns `invalid`. This is what the order of the code gives: the missing
  source of a binary, the latest of the refusals, is met before the image file
  is opened.
* `TypeCorrect` and `Invariance`: `Spec => []TypeOK` and `Spec => []IInv`, the tree, the
  image and the owners step by step; the two properties above are not part of it, but are
  carried along with it in the proof (`Whole`).

They rest on `NameAssumption` (paths are of names, among them those that the code
itself uses), `ContentAssumption` (a package is a tree of directories, files and
links, with a `bin` that is no link; a manifest is a finite map) and
`SpecAssumption` (a section is of sequences, and no directory is declared with a last
`.`), and `CleanBuildIsNotRefused` is for sections without a declaration that leads through
a package's link (`LinkAssumption`), where the model does not follow it.

`ResolveProofs` also has `FailureKeeps`: `Spec => []FailureKeepsManifest`. Until
it opens the manifest a command has the one it found (`Kept`), since no other
command writes it and `Find` settles whether all names were found before.

`CasPipelineProofs`, all from `Core`, which is `IInv` but for `TypeOK`:

* `TypeCorrect`: `Spec => []TypeOK`.
* `Verification`: `Spec => []UnverifiedStaysOut`. The property is preserved by a
  write because the bytes at hand have been verified and are those of the version
  that was asked for (`BytesOK`), which is not after what is published now
  (`StoreOK`).
* `Extracted`: `Spec => SuccessMeansExtracted`. A source that was visited is whole,
  or was there for a build, or is the one at hand (`Handled`), and with nothing left
  to do all sources of the lock were visited (`EntriesOK`). It is whole when its
  last node is written, since those before it are (`Progress`), and nobody else
  writes to the tree (`OneWriter`). That a build passes over a source only because
  of what it found needs `AsFound`.
* `FailuresExplained`: `Spec => FailureHasACause`. What was promised is in the store,
  which loses nothing (`StoreOK`), so where the narinfo's FileHash is that of its own
  bytes and these were promised, `Lookup` finds them; bytes that are not what was asked
  for come from a fault of the command itself or from such a FileHash (`BytesOK`); and a link that is in the way was there
  before, since what a command has not got to is as it found it, unless two entries
  lock the source (`AsFound`, `Twice`). `Ending` shows that each of these results
  comes from one step only.

`FlakeBuildProofs`, in layers, each an invariant that rests on those before:

* `TypeCorrect`: `Spec => []TypeOK`, from `Types`, which adds where a command is
  in its list (`Within`) and that it has the answers of `nix` for the names before
  it (`Answered`). That `pick_primary_output` gives an index of an output is the
  least element of a set of numbers, by well-founded induction.
* `FailureKeeps`: `Spec => FailureKeepsManifest`, from `Kept`, as above.
* `PushedIfOk`: `Spec => SuccessMeansPushed`. Unless a push failed, the cache has
  all outputs of each entry, and of the package at hand those before `part`
  (`Pushed`).
* `Honest`: `Spec => []ProfileIsHonest`. Each entry was made by `ProfileDrv` for its
  own name (`Made`), and a flag that `Unhonoured` does not report is honoured by a
  package that is asked about, so it is among the entries when all are built. The
  assumption that no argument is an alias of two features is needed here, and it
  is what the table of `feature_arg_aliases` gives.
* `RevisionRecorded`: `Spec => WrongRevisionHasACause`. That the recorded revision is
  the actual one is false (`flake_revision`); proved is that a wrong one has one of the two
  causes, and that a profile's paths are of one revision whatever happens to the lock.
  With a profile all entries are from
  `rev` (`OnePinned`), which is what the lock has as long as nobody changed it;
  without, each is from what the lock has for the input of an output of its name
  (`AsLocked`), since `nix` only adds to a lock.
* `AskedAndBuilt`: `Spec => SuccessMeansBuilt`. While packages are built, what is
  known of their arguments is what `rev` takes (`Learnt`), so each derivation is
  the one its entry asks for; and the path under a name is that of the last entry
  of that name so far (`Right`). `resolve_overrides` sets the first alias that is
  accepted (`ChosenIsFirst`) and no other of the feature (`SetFor`).

`SmallPartsProofs`:

* `Headroom`, for every width of the counters and every tree: `SizingSpec => []HeadroomHolds`.
  `TakenOK` bounds what a tree takes by its counters: a block more than its bytes fill for
  each file, and a part of a directory's block for each entry. The size is a quarter more
  than the bytes (`AQuarterMore`) with the overhead of the data's groups, and half of
  that again, which pays for the overhead of the groups it adds (`HalfAgainIsEnough`)
  as long as that is a small part of a group: one block of inode bitmap per group, as ext4
  has it, makes it at most a 31st (`GroupsOwnBlocks`). The rest is enough for the blocks
  that files waste if objects have 6 KiB on average (`RoomForAll`). Without that it is not: 20000
  files of 4097 bytes take 40000 blocks, and the image has 38689.
* `Growth`: `SizingSpec => NeverShrinks`: every function in it is monotonic.
* `WorkloadsAsAsked`, for any number of developers and commands:
  `ScaffoldSpec => []FilesAreAsAsked`. Of a workload for which no command broke down each
  file is of the arguments of those that went on for it, or still to be written or filled
  by one of them (`FileOK`), however they overlap; and a command at work is one of those
  that went on (`WorkOK`). When none is at work, nothing is left to be written.
* `AddressTellsSimilarNames`, for names of every length and any bytes:
  `NameSpec => []SimilarNamesDiffer`. Two sums that wrap differ by the sum of the
  differences of their terms, modulo 256 (`SumsDrift`). One letter makes that the
  difference of two bytes; two swapped neighbours make it, in the weighted sum, that
  difference once or 255 times, which is no multiple of 256 either.
* `DatesAreRight`, for ever: `CalendarSpec => []DateIsRight`. A loop that comes nearer
  to its end with every turn is a function (`LoopEnds`), and what its turns pass back
  holds of the result (`LoopKeeps`). So the loops find a year and a month with so
  many days gone before them (`InYear`, `InMonth`), in terms of the number of days
  before a year, which is 365 a year and one for each leap year (`YearStart`). There is
  only one such year and month (`OneYear`, `OneMonth`), and what `Tomorrow` makes of
  them is that of the next day.

* `DigestsInBase32` and `DigestsInBase64`, for digests of every length and any bytes:
  `HashSpec => []Base32IsRight` and `HashSpec => []Base64IsRight`. What the code ors
  together has no bit in common, so that it is a sum (`OrAdds`): one side is below a
  power of two that divides the other. The window of the encoder then shows the five
  bits of the definition (`FiveBits`). Each character that the decoder ors into a byte
  extends what it has of the lowest bits of that byte by five, at every distance of
  the character from the byte (`PieceAdds`, `CharacterAdds`), until it has all
  (`ByteDecoded`). In base-64 a group of four characters, two, and three are read to
  three bytes, one and two (`GroupRead`, `RestRead`), and a digest has as many as
  that takes (`Len64Is`).

Sums, loops and `Or` are recursive functions. That they exist, and what they compute for
every input, is proved with sets of numbers and their least element (`AllUpTo`), in
place of the induction theorems.

The assumptions of the other modules are the kinds of their constants,
`NixAssumption` (disjoint aliases, a package has an output) and
`WidthAssumption` (256 fits in the smaller width, and the larger is four times as large).

Every safety property that a passing run checks is a theorem. Only model-checked:
liveness (`Termination`, `EveryCallReturns`), which is out of the prover's reach.

## What is not modelled

* The contents of archives, lists and files, the wire format of NARs and the path
  checks of the reader, the parsing of narinfo and `flake.lock`, the text of
  templates and messages. Hashing itself is an external crate.
* Windows: the fallbacks for names and links it cannot represent, and `nix`
  through WSL.
* A response without a length whose connection is closed early, which HTTP
  cannot tell from a whole one.
* Two `pkg install` processes at work on one tree at the same time. Two threads
  of one process show what that could do to the tree.
* Corruption of the CAS on disk.
* Two builds of one image, or two flake builds of one workload, at the same time.
* The parts listed as `not_modelled` in `PROJECT.json`, for the reasons given.

## Observations without a run

* A directory that is declared twice, last for root, keeps the owner of the first:
  `chown` is skipped for root (`build.rs:213`). `BuiltAsDeclared` speaks of other
  owners only.
* A `[[rootfs.file]]` at `/etc/` passes `validate_vfs_path` and fails in `fs::write`
  without anything in its way: `BadPath`. A declared path with a relative link of a package
  in it is followed on the host, even out of the temporary tree, and an absolute link into
  `/nix/store` is on a host that has the store path: `LinkAssumption` leaves both out.
* An error after the truncation leaves a partial image, which
  `pkg verify-image` accepts once the packages' directories are in it: it looks
  at no more than their `bin`.
* The doc of `extract_from_cas` says that the digest is "the same key that
  `fetch_to_cas` produced" (`nix/src/core/fetcher.rs:77-78`). It is that of the
  narinfo at the time of the extraction, and another one when the cache has
  published in between, or where the FileHash is not that of the bytes; and a narinfo
  without a FileHash, which the parser accepts (`nix/src/api/narinfo.rs:74`) and fetch
  does not miss, fails every extraction (`fetcher.rs:92`). `FailureHasACause` names each
  among the causes, and they occur in `fetch_pipeline`. The map
  that `fetch_to_cas` returns for the purpose is not used.
* A revision of seven characters passes the validation
  (`resolve/src/core/store_paths.rs:65`) and makes the closing message panic
  (`cli/src/main.rs:268`): `Report`.
* `NotInAnyCache` is documented as "All substituters returned HTTP 404 for this
  store path" (`vminit/src/api/error.rs:18`); it also stands for a 404 of the
  last substituter about a dependency (`vminit/src/spi/installer.rs:69`).
* A timeout or reset while a body is streamed is `PkgError::Io`, which is not a
  cache miss, so no other substituter is asked; the doc of `is_cache_miss` counts
  "connection refused, TLS error, timeout" as misses
  (`nix/src/api/error.rs:38-39`). `BodyError` has it.
* With a [profile] the paths are of the revision that was pinned, and the manifest names the
  one that `flake.lock` has at the end, which someone may have changed by then: the other
  cause in `WrongRevisionHasACause`.
* An input without owner, repo or rev ends the search where it is the preferred one
  (`?` in `cli/src/flake.rs:283-285`), so that the other input is not tried although
  the doc says "trying keys in order": `Pinned`.
* `derive_mac` gives "each workload" a "unique address"
  (`cli/src/scaffold.rs:53`) within the limits of two bytes: "aca" and "bab" have
  the same. `SimilarNamesDiffer` is what does hold.
* `size_estimate` adds up bytes, not blocks of files, and "25% data headroom"
  (`rootfs/src/core/build.rs:400`) does not hold for many small files: the image for 20000
  files of 4097 bytes is too small for them. `HeadroomHolds` says from which size on it
  is enough.
* Beyond some 26200 objects it asks for more inodes in a group than one block of inode
  bitmap can list. What the ext4 library does then the repository does not say;
  `HeadroomHolds` leaves such trees out (`InodesFit`).

## Plan

Done: the parts above, in the order installation, resolution, HTTP client, fetch
pipeline, rootfs build, flake build, image size and the small parts, with proofs
of every safety property. What would add most next:

1. The composition of `RootfsBuild` with `Install`: that the tree of a first run that
   returns `Ok` is `Installed`.
2. The NAR reader as a parser: the padding of lengths, `safe_path_join`.
