------------------------------ MODULE Install ------------------------------
(***************************************************************************)
(* Parallel installation of packages: install_packages (vminit) driving    *)
(* one NixFetcher::build_store_path per requested package (nix).           *)
(*                                                                         *)
(* One thread per manifest entry walks the closure of its store path depth *)
(* first.  The threads share the destination tree and the local content    *)
(* addressed store, and nothing else: each has its own `visited` set.  A   *)
(* run ends when every thread has been joined, or when the process dies;   *)
(* the tree and the CAS survive and the command may be run again.          *)
(*                                                                         *)
(* A store path stands for its hash, its narinfo and its NAR.  A NAR is    *)
(* the sequence of its nodes in archive order, the root node first.        *)
(***************************************************************************)
EXTENDS Naturals, Sequences, Functions

CONSTANTS
  Paths,         \* store paths
  References,    \* narinfo References of a path, in file order
  Nar,           \* the nodes of a path's NAR, by kind
  Names,         \* package names
  Manifest,      \* package name -> store path, or Malformed
  Malformed,     \* an entry build_store_path rejects before any request
  Requests,      \* the argument lists the command may be run with
  Caches,
  Substituters,  \* the configured caches, in the order they are tried
  DefaultCache,  \* DEFAULT_CACHE_BASE, used when none is configured
  Hosted,        \* what each cache holds
  Garbage,       \* the bytes of a download that went wrong
  NoBlob,
  MaxFaults,     \* bound: network and disk faults over all runs
  MaxRuns        \* bound: how often the command is run

Kinds      == {"directory", "regular", "symlink"}
NodeStates == {"absent", "empty", "full"}
Errors     == {"notFound", "transport", "failed", "exists"}

ASSUME PathsAssumption ==
  /\ References \in [Paths -> Seq(Paths)]
  /\ Nar \in [Paths -> Seq(Kinds)]
  /\ \A p \in Paths :
       /\ Nar[p] # << >>
       /\ Nar[p][1] # "directory" => Len(Nar[p]) = 1
  /\ Malformed \notin Paths

ASSUME CommandAssumption ==
  /\ DOMAIN Manifest \subseteq Names
  /\ \A name \in DOMAIN Manifest : Manifest[name] \in Paths \cup {Malformed}
  /\ Requests \subseteq Seq(Names)

ASSUME CacheAssumption ==
  /\ Substituters \in Seq(Caches)
  /\ DefaultCache \in Caches
  /\ Hosted \in [Caches -> SUBSET Paths]
  /\ Garbage # NoBlob
  /\ {Garbage, NoBlob} \cap (Caches \X Paths) = {}

ASSUME BoundAssumption == MaxFaults \in Nat /\ MaxRuns \in Nat

\* `subs` of install_packages.
Subs == IF Substituters = << >> THEN <<DefaultCache>> ELSE Substituters

Closed(S)  == \A p \in S : Range(References[p]) \subseteq S
Closure(p) == {q \in Paths : \A S \in SUBSET Paths : p \in S /\ Closed(S) => q \in S}

\* The compressed NAR a cache serves for a path; its name is its FileHash.
FileHash(c, p) == <<c, p>>
Blobs          == (Caches \X Paths) \cup {Garbage}

ThreadIds == UNION {DOMAIN request : request \in Requests}

-----------------------------------------------------------------------------
VARIABLES
  phase,     \* "idle" between runs, "fetching" while threads run
  result,    \* what the last run returned
  th,        \* the threads of the run, in entry order
  disk,      \* disk[p][k]: the k-th node of p in the destination tree
  cas,       \* the local CAS: digest -> bytes
  runs, faults,
  faulty,    \* history: this run has met a fault
  damaged    \* history: paths some earlier run left half extracted

vars    == <<phase, result, th, disk, cas, runs, faults, faulty, damaged>>

Complete(p) == \A k \in DOMAIN Nar[p] : disk[p][k] = "full"
Touched(p)  == \E k \in DOMAIN Nar[p] : disk[p][k] # "absent"
Partial     == {p \in Paths : Touched(p) /\ ~Complete(p)}

\* Mutant: the check is left out.
NeverExists(p) == FALSE

\* extract_path.exists().  exists() follows links, and a store path that is
\* itself a link points into the guest's /nix/store, which the host lacks.
Exists(p) == disk[p][1] # "absent" /\ Nar[p][1] # "symlink"

Init ==
  /\ phase = "idle" /\ result = "none" /\ th = << >>
  /\ disk = [p \in Paths |-> [k \in DOMAIN Nar[p] |-> "absent"]]
  /\ cas = [d \in Blobs |-> NoBlob]
  /\ runs = 0 /\ faults = 0 /\ faulty = FALSE /\ damaged = {}

-----------------------------------------------------------------------------
(* The command's main thread *)

NewThread(root) ==
  [pc      |-> IF root = Malformed THEN "done" ELSE "visit",
   root    |-> root,
   sub     |-> 1,
   visited |-> {},
   pending |-> IF root = Malformed THEN << >> ELSE <<root>>,
   cur     |-> root,
   node    |-> 1,
   blob    |-> NoBlob,
   err     |-> IF root = Malformed THEN "failed" ELSE "none"]

Unknown(request) == \E i \in DOMAIN request : request[i] \notin DOMAIN Manifest

Start(request) ==
  /\ phase = "idle" /\ runs < MaxRuns
  /\ runs' = runs + 1 /\ faulty' = FALSE
  /\ \/ /\ Unknown(request)
        /\ result' = "packageNotFound"
        /\ th' = << >> /\ UNCHANGED phase
     \/ /\ request = << >>
        /\ result' = "ok"
        /\ th' = << >> /\ UNCHANGED phase
     \/ /\ ~Unknown(request) /\ request # << >>
        /\ result' = "none" /\ phase' = "fetching"
        /\ th' = [i \in DOMAIN request |-> NewThread(Manifest[request[i]])]
  /\ UNCHANGED <<disk, cas, faults, damaged>>

Report(e) == IF e = "notFound" THEN "notInAnyCache" ELSE "fetchFailed"

FailedThreads == {t \in DOMAIN th : th[t].err # "none"}

\* thread::scope returns once every thread is joined; the first error in
\* entry order is the one that is reported.
Join ==
  /\ phase = "fetching" /\ \A t \in DOMAIN th : th[t].pc = "done"
  /\ phase' = "idle"
  /\ \/ /\ FailedThreads = {}
        /\ result' = "ok" /\ UNCHANGED damaged
     \/ /\ \E t \in FailedThreads :
             /\ \A u \in FailedThreads : t <= u
             /\ result' = Report(th[t].err)
        /\ damaged' = damaged \cup Partial
  /\ UNCHANGED <<th, disk, cas, runs, faults, faulty>>

\* The process is killed; only the tree and the CAS are left.
Crash ==
  /\ phase = "fetching"
  /\ phase' = "idle" /\ result' = "crashed" /\ th' = << >>
  /\ damaged' = damaged \cup Partial
  /\ UNCHANGED <<disk, cas, runs, faults, faulty>>

-----------------------------------------------------------------------------
(* A fetch thread *)

At(t, pc)  == phase = "fetching" /\ t \in DOMAIN th /\ th[t].pc = pc
Cache(t)   == Subs[th[t].sub]
Cur(t)     == th[t].cur

\* Mutant: every error moves on to the next substituter.
AnyErrorIsMiss(e) == TRUE

IsCacheMiss(e) == e \in {"notFound", "transport"}

\* Mutant: `visited` outlives the substituter it was filled for.
KeepVisited(r, e) ==
  IF IsCacheMiss(e) /\ r.sub < Len(Subs)
  THEN [r EXCEPT !.pc = "visit", !.sub = @ + 1, !.pending = <<r.root>>, !.node = 1, !.blob = NoBlob]
  ELSE [r EXCEPT !.pc = "done", !.err = e]

\* Mutant: after the last substituter it is the first one's turn again.
AskAgain(r, e) ==
  IF IsCacheMiss(e)
  THEN [r EXCEPT !.pc = "visit", !.sub = IF r.sub < Len(Subs) THEN r.sub + 1 ELSE 1,
                 !.visited = {}, !.pending = <<r.root>>, !.node = 1, !.blob = NoBlob]
  ELSE [r EXCEPT !.pc = "done", !.err = e]

\* build_store_path has returned e: fetch_with_fallback starts over with the
\* next substituter, or gives up.
AfterError(r, e) ==
  IF IsCacheMiss(e) /\ r.sub < Len(Subs)
  THEN [r EXCEPT !.pc = "visit", !.sub = @ + 1, !.visited = {},
                 !.pending = <<r.root>>, !.node = 1, !.blob = NoBlob]
  ELSE [r EXCEPT !.pc = "done", !.err = e]

Step(t, r)  == th' = [th EXCEPT ![t] = r] /\ UNCHANGED <<phase, result, runs, damaged>>
Fail(t, e)  == Step(t, AfterError(th[t], e))
Goto(t, pc) == Step(t, [th[t] EXCEPT !.pc = pc])
NoFault     == UNCHANGED <<faults, faulty>>
Fault       == faults < MaxFaults /\ faults' = faults + 1 /\ faulty' = TRUE

\* The node is in place: visit the references before what was pending.
Descend(r) ==
  [r EXCEPT !.pc = "visit", !.pending = References[r.cur] \o @, !.node = 1, !.blob = NoBlob]

Visit(t) ==
  /\ At(t, "visit") /\ th[t].pending # << >>
  /\ LET p    == Head(th[t].pending)
         rest == [th[t] EXCEPT !.pending = Tail(@)]
     IN  \/ p \in th[t].visited /\ Step(t, rest)
         \/ /\ p \notin th[t].visited
            /\ Step(t, [rest EXCEPT !.pc = "narinfo", !.cur = p, !.visited = @ \cup {p}])
  /\ NoFault /\ UNCHANGED <<disk, cas>>

Finish(t) ==
  /\ At(t, "visit") /\ th[t].pending = << >>
  /\ Goto(t, "done")
  /\ NoFault /\ UNCHANGED <<disk, cas>>

\* "failed" is every answer but 404 and 2xx, and a narinfo that does not parse.
FetchNarInfo(t) ==
  /\ At(t, "narinfo")
  /\ \/ Cur(t) \in Hosted[Cache(t)] /\ Goto(t, "check") /\ NoFault
     \/ Cur(t) \notin Hosted[Cache(t)] /\ Fail(t, "notFound") /\ NoFault
     \/ \E e \in {"transport", "failed"} : Fail(t, e) /\ Fault
  /\ UNCHANGED <<disk, cas>>

CheckExists(t) ==
  /\ At(t, "check")
  /\ \/ Exists(Cur(t)) /\ Step(t, Descend(th[t]))
     \/ ~Exists(Cur(t)) /\ Goto(t, "lookup")
  /\ NoFault /\ UNCHANGED <<disk, cas>>

\* A CAS that cannot be opened or read is a miss like any other.
LookupCas(t) ==
  /\ At(t, "lookup")
  /\ \/ /\ cas[FileHash(Cache(t), Cur(t))] # NoBlob
        /\ Step(t, [th[t] EXCEPT !.pc = "verify", !.blob = cas[FileHash(Cache(t), Cur(t))]])
     \/ Goto(t, "download")
  /\ NoFault /\ UNCHANGED <<disk, cas>>

\* Mutant: the bytes are filed under the hash that was asked for.
PutAsRequested(blob, c, p) == FileHash(c, p)

\* cas.put names bytes by their own digest, and its errors are ignored.
PutKey(blob, c, p) == blob

Received(t, blob) ==
  /\ Step(t, [th[t] EXCEPT !.pc = "verify", !.blob = blob])
  /\ \/ cas' = [cas EXCEPT ![PutKey(blob, Cache(t), Cur(t))] = blob]
     \/ UNCHANGED cas

Download(t) ==
  /\ At(t, "download")
  /\ \/ Received(t, FileHash(Cache(t), Cur(t))) /\ NoFault
     \/ Received(t, Garbage) /\ Fault
     \/ \E e \in {"transport", "failed"} : Fail(t, e) /\ Fault /\ UNCHANGED cas
  /\ UNCHANGED disk

Verified(blob, p) == \E c \in Caches : blob = FileHash(c, p)

Verify(t) ==
  /\ At(t, "verify")
  /\ \/ /\ Verified(th[t].blob, Cur(t))
        /\ Step(t, [th[t] EXCEPT !.pc = "extract", !.node = 1])
     \/ ~Verified(th[t].blob, Cur(t)) /\ Fail(t, "failed")
  /\ NoFault /\ UNCHANGED <<disk, cas>>

(* extract_nar, straight into the final path, one node after the other *)

Node(t)       == Nar[Cur(t)][th[t].node]
Write(t, s)   == disk' = [disk EXCEPT ![Cur(t)][th[t].node] = s]
\* Mutant: one node too many.
NextNodeOffByOne(r) ==
  IF r.node <= Len(Nar[r.cur]) THEN [r EXCEPT !.pc = "extract", !.node = @ + 1] ELSE Descend(r)

NextNode(r) ==
  IF r.node < Len(Nar[r.cur]) THEN [r EXCEPT !.pc = "extract", !.node = @ + 1] ELSE Descend(r)

MakeDirectory(t) ==
  /\ At(t, "extract") /\ Node(t) = "directory"
  /\ Write(t, "full") /\ Step(t, NextNode(th[t]))
  /\ NoFault /\ UNCHANGED cas

\* File::create truncates what is there; the contents come with write_all.
CreateFile(t) ==
  /\ At(t, "extract") /\ Node(t) = "regular"
  /\ Write(t, "empty") /\ Goto(t, "write")
  /\ NoFault /\ UNCHANGED cas

WriteFile(t) ==
  /\ At(t, "write")
  /\ Write(t, "full") /\ Step(t, NextNode(th[t]))
  /\ NoFault /\ UNCHANGED cas

\* symlink(2) refuses a name that is taken.
MakeSymlink(t) ==
  /\ At(t, "extract") /\ Node(t) = "symlink"
  /\ \/ /\ disk[Cur(t)][th[t].node] = "absent"
        /\ Write(t, "full") /\ Step(t, NextNode(th[t]))
     \/ /\ disk[Cur(t)][th[t].node] # "absent"
        /\ Fail(t, "exists") /\ UNCHANGED disk
  /\ NoFault /\ UNCHANGED cas

DiskError(t) ==
  /\ At(t, "extract") \/ At(t, "write")
  /\ Fail(t, "failed") /\ Fault
  /\ UNCHANGED <<disk, cas>>

ThreadStep(t) ==
  \/ Visit(t) \/ Finish(t) \/ FetchNarInfo(t) \/ CheckExists(t) \/ LookupCas(t)
  \/ Download(t) \/ Verify(t)
  \/ MakeDirectory(t) \/ CreateFile(t) \/ WriteFile(t) \/ MakeSymlink(t) \/ DiskError(t)

Next ==
  \/ \E request \in Requests : Start(request)
  \/ Join \/ Crash
  \/ \E t \in ThreadIds : ThreadStep(t)

Spec     == Init /\ [][Next]_vars
Fairness == WF_vars(Join) /\ \A t \in ThreadIds : WF_vars(ThreadStep(t))
FairSpec == Spec /\ Fairness

-----------------------------------------------------------------------------
(* Properties *)

Pcs == {"visit", "narinfo", "check", "lookup", "download", "verify", "extract", "write", "done"}

Thread ==
  [pc      : Pcs,
   root    : Paths \cup {Malformed},
   sub     : DOMAIN Subs,
   visited : SUBSET Paths,
   pending : Seq(Paths),
   cur     : Paths \cup {Malformed},
   node    : Nat \ {0},
   blob    : Blobs \cup {NoBlob},
   err     : Errors \cup {"none"}]

Results == {"none", "ok", "packageNotFound", "notInAnyCache", "fetchFailed", "crashed"}

\* A thread at work has a path, and a node of that path's NAR.
ThreadOK(r) ==
  /\ r \in Thread
  /\ r.pc # "done" => r.cur \in Paths /\ r.root \in Paths
  /\ r.pc \in {"extract", "write"} => r.node \in DOMAIN Nar[r.cur]

\* The type of every variable.
TypeOK ==
  /\ phase \in {"idle", "fetching"} /\ result \in Results
  /\ \A t \in DOMAIN th : ThreadOK(th[t])
  /\ DOMAIN disk = Paths
  /\ \A p \in Paths : disk[p] \in [DOMAIN Nar[p] -> NodeStates]
  /\ cas \in [Blobs -> Blobs \cup {NoBlob}]
  /\ runs \in Nat /\ faults \in Nat /\ faulty \in BOOLEAN /\ damaged \subseteq Paths

\* install_packages returns Ok only when the whole closure of every requested
\* package is in the tree, whatever the threads did to each other's files;
\* the only gaps are paths that an earlier, failed run had left half written.
SuccessMeansInstalled ==
  phase = "idle" /\ result = "ok" =>
    \A t \in DOMAIN th : \A p \in Closure(th[t].root) : Complete(p) \/ p \in damaged

\* What an interrupted extraction leaves behind, no later run repairs: the
\* exists() check takes the half written path for an installed one.
DamageIsPermanent == \A p \in damaged : ~Complete(p)

\* The ways a link can already be there: another thread has the path in its
\* closure, or the path is itself a link, which exists() does not see, and an
\* earlier run or substituter got as far as making it.
LinkIsTaken(t) ==
  LET p == th[t].cur
  IN  \/ \E u \in DOMAIN th \ {t} : p \in Closure(th[u].root)
      \/ Nar[p][1] = "symlink" /\ (runs > 1 \/ th[t].sub > 1)

\* A thread fails for a reason of this run: a fault it met, a path its last
\* cache lacks, or a link that was there before it.  In particular bytes an
\* earlier run got wrong and put in the CAS never fail a later run.
FailureHasACause ==
  \A t \in DOMAIN th :
    /\ th[t].err \in {"transport", "failed"} => faulty \/ th[t].root = Malformed
    /\ th[t].err = "notFound" => th[t].cur \notin Hosted[Subs[Len(Subs)]]
    /\ th[t].err = "exists" => LinkIsTaken(t)

\* Without a fault, a substituter is passed over only if it lacks a path of
\* the closure: the first that has everything is the last that is asked.
FirstCompleteCacheWins ==
  \A t \in DOMAIN th : ~faulty =>
    \A i \in 1 .. (th[t].sub - 1) : \E p \in Closure(th[t].root) : p \notin Hosted[Subs[i]]

\* Every run ends, cyclic references and all: each request is bounded by the
\* client's timeouts, and each path is visited once per substituter.
Termination == (phase = "fetching") ~> (phase = "idle")

\* The comment on install_packages: because of the exists() check, "shared
\* transitive deps fetched by multiple threads concurrently are safe".  Then a
\* first run whose first cache holds everything and that meets no fault succeeds.
SharedDependenciesAreSafe ==
  /\ phase = "idle" /\ runs = 1 /\ ~faulty
  /\ \A t \in DOMAIN th : th[t].root # Malformed /\ Closure(th[t].root) \subseteq Hosted[Subs[1]]
  => result # "fetchFailed"

\* The same comment: the check "makes extraction idempotent".  Then Ok means
\* that everything is in place, on a first run and on one that follows a failure.
ExtractionIsIdempotent ==
  phase = "idle" /\ result = "ok" =>
    \A t \in DOMAIN th : \A p \in Closure(th[t].root) : Complete(p)
=============================================================================
