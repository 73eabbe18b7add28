---------------------------- MODULE CasPipeline ----------------------------
(***************************************************************************)
(* `pkg fetch`, `pkg extract` and `pkg build` over a flake.lock: the two   *)
(* halves fetch_to_cas and extract_from_cas, and the whole, build, of      *)
(* NixFetcher.                                                             *)
(*                                                                         *)
(* The halves share the local content addressed store, and each asks the   *)
(* binary cache for the narinfo of each entry anew; the cache may have     *)
(* published a source again, compressed differently, in between.  Any      *)
(* process may be killed; the store and the tree survive it.               *)
(*                                                                         *)
(* A source stands for its narHash, and so for its store path.  It refers  *)
(* to no other: the recursion of build_with_closure is in Install.         *)
(***************************************************************************)
EXTENDS Naturals, Sequences, Functions

CONSTANTS
  Sources,    \* what flake.lock files lock
  Nar,        \* the nodes of a source's NAR, by kind, in archive order
  Locks,      \* flake.lock files: entry name -> source
  Versions,   \* bound: how often the cache publishes each source
  Spoiled,    \* what is published with contents that are not of its NarHash
  FileHash,   \* the bytes whose digest a narinfo gives as FileHash, its own or not
  Compression, \* how what is published is compressed
  Garbage,    \* the bytes of a download that went wrong
  NoBlob,     \* no bytes, or a digest that no bytes have
  NoDigest,   \* there is no FileHash, or it does not decode
  Processes,
  MaxFaults,  \* bound: network and disk faults
  MaxRuns     \* bound: commands run

Kinds      == {"directory", "regular", "symlink"}
NodeStates == {"absent", "empty", "full"}
Commands   == {"fetch", "extract", "build"}

\* The compressed NAR of a source as it was published the v-th time.
Published  == UNION {{s} \X (1 .. Versions[s]) : s \in Sources}
Blobs      == Published \cup {Garbage}

ASSUME SourcesAssumption ==
  /\ Sources # {} /\ Nar \in [Sources -> Seq(Kinds)]
  /\ \A s \in Sources : Nar[s] # << >> /\ (Nar[s][1] # "directory" => Len(Nar[s]) = 1)
  /\ \A lock \in Locks : Range(lock) \subseteq Sources
  /\ Versions \in [Sources -> Nat \ {0}] /\ Spoiled \subseteq Published
  /\ Garbage \notin Published /\ NoBlob \notin Blobs /\ NoDigest \notin Blobs
  /\ FileHash \in [Published -> Blobs \cup {NoBlob, NoDigest}]
  /\ DOMAIN Compression = Published

ASSUME BoundAssumption == MaxFaults \in Nat /\ MaxRuns \in Nat

-----------------------------------------------------------------------------
VARIABLES
  published,  \* what the cache answers for each source: its version
  cas,        \* the local store: the blobs in it, each under its own digest
  tree,       \* tree[s][k]: the k-th node of s in the destination
  job,        \* the command of each process
  runs, faults,
  owed        \* history: what a faultless `pkg fetch` has said it cached

vars == <<published, cas, tree, job, runs, faults, owed>>

Nowhere == [s \in Sources |-> [k \in DOMAIN Nar[s] |-> "absent"]]

\* A command: what is left to do, the entry at hand, the version its narinfo
\* is of, the bytes, the next NAR node; and, for the properties, whether it met
\* a fault, what it has fetched, and what tree and promises it began with.
NewJob(cmd, lock) ==
  [cmd |-> cmd, lock |-> lock, todo |-> DOMAIN lock, visited |-> {},
   pc |-> "entry", result |-> "none",
   source |-> CHOOSE s \in Sources : TRUE, version |-> 1, bytes |-> NoBlob, node |-> 1,
   faulty |-> FALSE, got |-> {}, was |-> tree, promised |-> owed]
NoJob == [NewJob("fetch", << >>) EXCEPT !.pc = "idle", !.was = Nowhere, !.promised = {}]

Init ==
  /\ published = [s \in Sources |-> 1]
  /\ cas = {} /\ tree = Nowhere /\ owed = {}
  /\ job = [p \in Processes |-> NoJob]
  /\ runs = 0 /\ faults = 0

\* The cache publishes a source again.
Republish(s) ==
  /\ published[s] < Versions[s]
  /\ published' = [published EXCEPT ![s] = @ + 1]
  /\ UNCHANGED <<cas, tree, job, runs, faults, owed>>

-----------------------------------------------------------------------------
At(p, step) == job[p].pc = step /\ UNCHANGED <<published, runs>>
Cur(p)      == <<job[p].source, job[p].version>>
NoFault     == UNCHANGED faults
Goto(p, step) == job' = [job EXCEPT ![p].pc = step]

\* Of a command that has ended only its result is left.
Stop(p, r)  == job' = [job EXCEPT ![p] = [NoJob EXCEPT !.result = r]]
\* A fault that the command reports.
Fails(p, r) ==
  /\ faults < MaxFaults /\ faults' = faults + 1
  /\ Stop(p, r) /\ UNCHANGED <<cas, tree, owed>>

Writes(cmd) == cmd \in {"extract", "build"}

\* One command at a time writes to the tree.
Start(p, cmd, lock) ==
  /\ job[p].pc = "idle" /\ runs < MaxRuns
  /\ Writes(cmd) => \A q \in Processes : job[q].pc = "idle" \/ ~Writes(job[q].cmd)
  /\ job' = [job EXCEPT ![p] = NewJob(cmd, lock)] /\ runs' = runs + 1
  /\ UNCHANGED <<published, cas, tree, faults, owed>>

\* The entries come in any order: `nodes` is a HashMap.  The narinfo of the
\* entry says which bytes are to be had now.  build passes over a source that
\* it has visited.
Entry(p, e) ==
  LET s == job[p].lock[e]
  IN  /\ At(p, "entry") /\ e \in job[p].todo
      /\ \/ /\ job[p].cmd = "build" /\ s \in job[p].visited
            /\ job' = [job EXCEPT ![p].todo = @ \ {e}]
            /\ NoFault /\ UNCHANGED <<cas, tree, owed>>
         \/ /\ job[p].cmd = "build" => s \notin job[p].visited
            /\ job' = [job EXCEPT
                 ![p].todo = @ \ {e}, ![p].visited = @ \cup {s},
                 ![p].source = s, ![p].version = published[s],
                 ![p].pc = CASE job[p].cmd = "fetch" -> "download"
                             [] job[p].cmd = "extract" -> "lookup"
                             [] job[p].cmd = "build" -> "exists"]
            /\ NoFault /\ UNCHANGED <<cas, tree, owed>>
         \/ Fails(p, "noNarInfo")

\* extract_path.exists(), which follows a link into the guest's store.
Exists(s) == tree[s][1] # "absent" /\ Nar[s][1] # "symlink"

CheckExists(p) ==
  /\ At(p, "exists") /\ Goto(p, IF Exists(job[p].source) THEN "entry" ELSE "lookup")
  /\ NoFault /\ UNCHANGED <<cas, tree, owed>>

\* file_hash_to_digest: NarInfo::parse does not ask for a FileHash.
Digest(p) == FileHash[Cur(p)]

\* The store is asked for that digest.  To extract, a FileHash that does not
\* decode, a blob that is not there or that cannot be read is an error; to
\* build, the blob is downloaded.
Lookup(p) ==
  /\ At(p, "lookup") /\ UNCHANGED <<cas, tree, owed>>
  /\ \/ /\ Digest(p) \in cas /\ NoFault
        /\ job' = [job EXCEPT ![p].bytes = Digest(p), ![p].pc = "verify"]
     \/ Digest(p) \notin cas /\ NoFault /\ job[p].cmd = "build" /\ Goto(p, "download")
     \/ /\ Digest(p) \notin cas /\ NoFault /\ job[p].cmd = "extract"
        /\ Stop(p, IF Digest(p) = NoDigest THEN "noDigest" ELSE "noBlob")
     \/ /\ Digest(p) # NoDigest /\ job[p].cmd = "build"
        /\ faults < MaxFaults /\ faults' = faults + 1
        /\ job' = [job EXCEPT ![p].pc = "download", ![p].faulty = TRUE]
     \/ Digest(p) # NoDigest /\ job[p].cmd = "extract" /\ Fails(p, "unreadable")

\* What was published before is still served under its own URL.
Download(p) ==
  /\ At(p, "download")
  /\ \/ /\ job' = [job EXCEPT ![p].bytes = Cur(p), ![p].pc = "put"]
        /\ NoFault /\ UNCHANGED <<cas, tree, owed>>
     \/ /\ faults < MaxFaults /\ faults' = faults + 1
        /\ job' = [job EXCEPT ![p].bytes = Garbage, ![p].pc = "put", ![p].faulty = TRUE]
        /\ UNCHANGED <<cas, tree, owed>>
     \/ Fails(p, "noNar")

\* Mutant: fetch keeps what it expects, and the bytes elsewhere.
PutKeyAsExpected(p) == IF job[p].cmd = "fetch" THEN Garbage ELSE job[p].bytes

\* The digest under which bytes are put: their own.
PutKey(p) == job[p].bytes

\* fetch fails if the store does; build goes on without it.
Put(p) ==
  /\ At(p, "put") /\ UNCHANGED <<tree, owed>>
  /\ \/ /\ cas' = cas \cup {PutKey(p)} /\ NoFault
        /\ job' = [job EXCEPT ![p].got = @ \cup {Cur(p)},
                              ![p].pc = IF job[p].cmd = "fetch" THEN "entry" ELSE "verify"]
     \/ Fails(p, "notStored") /\ job[p].cmd = "fetch"
     \/ /\ job[p].cmd = "build" /\ faults < MaxFaults /\ faults' = faults + 1
        /\ job' = [job EXCEPT ![p].pc = "verify", ![p].faulty = TRUE]
        /\ UNCHANGED cas

-----------------------------------------------------------------------------
(* Verification and extraction *)

\* Mutant: what can be decompressed is taken.
VerifiedIfWhole(r) == r.bytes # Garbage

\* decompress and verify_nar_hash, as the narinfo says.
Verified(r) ==
  /\ r.bytes \in Published \ Spoiled /\ r.bytes[1] = r.source
  /\ Compression[r.bytes] = Compression[<<r.source, r.version>>]

\* Mutant: what does not verify is downloaded again.
VerifyOrRetry(p) ==
  /\ At(p, "verify") /\ NoFault /\ UNCHANGED <<cas, tree, owed>>
  /\ Goto(p, IF Verified(job[p]) THEN "write" ELSE "download")

Verify(p) ==
  /\ At(p, "verify") /\ NoFault /\ UNCHANGED <<cas, tree, owed>>
  /\ \/ Verified(job[p]) /\ Goto(p, "write")
     \/ ~Verified(job[p]) /\ Stop(p, "unverified")

Node(p) == Nar[job[p].source][job[p].node]
Is(p)   == tree[job[p].source][job[p].node]
Write(p, state) == tree' = [tree EXCEPT ![job[p].source][job[p].node] = state]

\* Mutant: the last node of an archive is left out.
NextNodeOffByOne(p) ==
  IF job[p].node + 1 < Len(Nar[job[p].source])
  THEN job' = [job EXCEPT ![p].node = @ + 1, ![p].pc = "write"]
  ELSE job' = [job EXCEPT ![p].node = 1, ![p].bytes = NoBlob, ![p].pc = "entry"]

\* Mutant: one node more than there is.
NextNodeTooFar(p) ==
  IF job[p].node <= Len(Nar[job[p].source])
  THEN job' = [job EXCEPT ![p].node = @ + 1, ![p].pc = "write"]
  ELSE job' = [job EXCEPT ![p].node = 1, ![p].bytes = NoBlob, ![p].pc = "entry"]

NextNode(p) ==
  IF job[p].node < Len(Nar[job[p].source])
  THEN job' = [job EXCEPT ![p].node = @ + 1, ![p].pc = "write"]
  ELSE job' = [job EXCEPT ![p].node = 1, ![p].bytes = NoBlob, ![p].pc = "entry"]

\* create_dir_all, which a directory that is there does not disturb.
MakeDirectory(p) ==
  /\ At(p, "write") /\ Node(p) = "directory"
  /\ Write(p, "full") /\ NextNode(p) /\ NoFault /\ UNCHANGED <<cas, owed>>

\* File::create truncates a file that is there.
CreateFile(p) ==
  /\ At(p, "write") /\ Node(p) = "regular"
  /\ Write(p, "empty") /\ Goto(p, "fill") /\ NoFault /\ UNCHANGED <<cas, owed>>

FillFile(p) ==
  /\ At(p, "fill")
  /\ Write(p, "full") /\ NextNode(p) /\ NoFault /\ UNCHANGED <<cas, owed>>

\* symlink(2) refuses a name that is there.
MakeSymlink(p) ==
  /\ At(p, "write") /\ Node(p) = "symlink" /\ NoFault /\ UNCHANGED <<cas, owed>>
  /\ \/ Is(p) = "absent" /\ Write(p, "full") /\ NextNode(p)
     \/ Is(p) # "absent" /\ Stop(p, "linkExists") /\ UNCHANGED tree

DiskError(p) ==
  /\ job[p].pc \in {"write", "fill"} /\ At(p, job[p].pc)
  /\ Fails(p, "diskError")

\* Every entry has been dealt with.
Finish(p) ==
  /\ At(p, "entry") /\ job[p].todo = {} /\ Stop(p, "ok")
  /\ owed' = IF job[p].cmd = "fetch" /\ ~job[p].faulty THEN owed \cup job[p].got ELSE owed
  /\ NoFault /\ UNCHANGED <<cas, tree>>

\* The process is killed.
Kill(p) ==
  /\ job[p].pc # "idle" /\ At(p, job[p].pc)
  /\ Stop(p, "killed") /\ NoFault /\ UNCHANGED <<cas, tree, owed>>

Step(p) ==
  \/ (\E e \in job[p].todo : Entry(p, e)) \/ CheckExists(p) \/ Lookup(p)
  \/ Download(p) \/ Put(p) \/ Verify(p)
  \/ MakeDirectory(p) \/ CreateFile(p) \/ FillFile(p) \/ MakeSymlink(p) \/ DiskError(p)
  \/ Finish(p)

Next ==
  \/ \E s \in Sources : Republish(s)
  \/ \E p \in Processes :
       (\E cmd \in Commands, lock \in Locks : Start(p, cmd, lock)) \/ Step(p) \/ Kill(p)

Spec     == Init /\ [][Next]_vars
FairSpec == Spec /\ \A p \in Processes : WF_vars(Step(p))
-----------------------------------------------------------------------------
(* Properties *)

Pcs     == {"idle", "entry", "exists", "lookup", "download", "put", "verify", "write", "fill"}
Results == {"none", "ok", "killed", "noNarInfo", "noDigest", "noBlob", "unreadable", "noNar",
            "notStored", "unverified", "linkExists", "diskError"}

\* The type of every variable, and of what a command holds.
TypeOK ==
  /\ \A s \in Sources : published[s] \in 1 .. Versions[s]
  /\ DOMAIN published = Sources
  /\ cas \subseteq Blobs /\ owed \subseteq Published
  /\ DOMAIN tree = Sources
  /\ \A s \in Sources : tree[s] \in [DOMAIN Nar[s] -> NodeStates]
  /\ DOMAIN job = Processes
  /\ \A p \in Processes :
       /\ job[p].pc \in Pcs /\ job[p].result \in Results /\ job[p].cmd \in Commands
       /\ Cur(p) \in Published /\ job[p].bytes \in Blobs \cup {NoBlob}
       /\ job[p].todo \subseteq DOMAIN job[p].lock
       /\ job[p].node \in DOMAIN Nar[job[p].source]
       /\ job[p].pc = "fill" => Node(p) = "regular"
  /\ runs \in Nat /\ faults \in Nat

Complete(s) == \A k \in DOMAIN Nar[s] : tree[s][k] = "full"
Ends(p, r)  == job[p].pc # "idle" /\ job'[p].pc = "idle" /\ job'[p].result = r

\* `pkg extract` returns Ok only when every source of the lock is whole in the
\* tree, whatever an earlier command has left there.  `pkg build` trusts what
\* is there: it answers for the sources it found nothing of.
SuccessMeansExtracted ==
  [][\A p \in Processes :
       Ends(p, "ok") /\ Writes(job[p].cmd) =>
         \A s \in Range(job[p].lock) :
           \/ Complete(s)
           \/ job[p].cmd = "build" /\ \E k \in DOMAIN Nar[s] : job[p].was[s][k] # "absent"]_vars

\* A source that the cache has only ever published with the wrong contents has
\* nothing of it in the tree: verification comes before the first write, by
\* whatever way the bytes came.
UnverifiedStaysOut ==
  \A s \in Sources :
    (\A v \in 1 .. published[s] : <<s, v>> \in Spoiled) => tree[s] = Nowhere[s]

\* The promise between the two halves, and its limits.  A command that meets no
\* fault itself fails for one of these reasons: the narinfo has no FileHash that
\* decodes, or that of other bytes, which `pkg fetch` does not notice; the bytes
\* it is to extract now are not those that a `pkg fetch`, which ran before it
\* and met no fault, said it cached, as when the cache has published the source
\* again in between; the cache publishes the wrong contents; or a link it makes
\* was there before, perhaps from another entry that locks the same source.
FailureHasACause ==
  [][\A p \in Processes :
       ~job[p].faulty =>
         /\ Ends(p, "noDigest") \/ Ends(p, "noBlob") =>
              Digest(p) # Cur(p) \/ Cur(p) \notin job[p].promised
         /\ Ends(p, "unverified") => Digest(p) # Cur(p) \/ Cur(p) \in Spoiled
         /\ Ends(p, "linkExists") =>
              \/ job[p].was[job[p].source] # Nowhere[job[p].source]
              \/ job[p].cmd = "extract" /\ \E d, e \in DOMAIN job[p].lock :
                   d # e /\ job[p].lock[d] = job[p].source /\ job[p].lock[e] = job[p].source]_vars

\* Every command ends.
Termination == \A p \in Processes : job[p].pc # "idle" ~> job[p].pc = "idle"
=============================================================================
