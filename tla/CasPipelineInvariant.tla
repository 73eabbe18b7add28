------------------------ MODULE CasPipelineInvariant ------------------------
(***************************************************************************)
(* The inductive invariant of CasPipeline: what a command knows of its     *)
(* bytes, of the store, and of the nodes before and after the one it is    *)
(* at.                                                                     *)
(***************************************************************************)
EXTENDS CasPipeline

Names == UNION {DOMAIN lock : lock \in Locks}
\* What may be in the destination.
Trees == {t \in [Sources -> UNION {[DOMAIN Nar[s] -> NodeStates] : s \in Sources}] :
            \A s \in Sources : t[s] \in [DOMAIN Nar[s] -> NodeStates]}

Job ==
  [cmd : Commands, lock : Locks \cup {<< >>}, todo : SUBSET Names, visited : SUBSET Sources,
   pc : Pcs, result : Results, source : Sources, version : Nat, bytes : Blobs \cup {NoBlob},
   node : Nat, faulty : BOOLEAN, got : SUBSET Published, was : Trees,
   promised : SUBSET Published]

\* A command at work on an entry, writing a node, or with a tree to write to.
Busy(r)    == r.pc \notin {"idle", "entry"}
InNar(r)   == r.pc \in {"write", "fill"}
Writing(r) == r.pc # "idle" /\ Writes(r.cmd)

\* Bytes are what was asked for, or what the store has for the FileHash, unless
\* the command met a fault; those it extracts have been verified.
Asked(r) == <<r.source, r.version>>

BytesOK(r) ==
  /\ r.pc = "put" => r.bytes = Asked(r) \/ (r.faulty /\ r.bytes = Garbage)
  /\ r.pc = "verify" => r.bytes \in {Asked(r), FileHash[Asked(r)]} \/ r.faulty
  /\ InNar(r) => Verified(r)

\* Visited are the sources of the entries that were dealt with, and the one at hand.
EntriesOK(r) ==
  /\ r.todo \subseteq DOMAIN r.lock
  /\ r.visited = {r.lock[e] : e \in DOMAIN r.lock \ r.todo}
  /\ Busy(r) => r.source \in r.visited

JobOK(r) ==
  /\ r \in Job /\ EntriesOK(r) /\ BytesOK(r)
  /\ r.version \in 1 .. Versions[r.source] /\ r.node \in DOMAIN Nar[r.source]
  /\ ~InNar(r) => r.node = 1
  /\ r.pc = "fill" => Nar[r.source][r.node] = "regular"
  /\ r.pc \in {"exists", "lookup", "verify", "write", "fill"} => Writes(r.cmd)
  /\ r.pc = "exists" => r.cmd = "build"

\* Bytes that are none of a download gone wrong have been published.
Appeared(bytes) == bytes \in Published => bytes[2] <= published[bytes[1]]

\* What a command knows of the cache and of the store.
StoreOK(r) ==
  /\ r.version <= published[r.source] /\ Appeared(r.bytes)
  /\ r.promised \subseteq cas
  /\ ~r.faulty => r.got \subseteq cas

\* Two entries of an extraction lock the source at hand.
Twice(r) ==
  /\ r.cmd = "extract"
  /\ \E d, e \in DOMAIN r.lock : d # e /\ r.lock[d] = r.source /\ r.lock[e] = r.source

\* A visited source is whole, was there for a build, or is at hand.
Handled(r) ==
  \A s \in r.visited :
    \/ Complete(s)
    \/ r.cmd = "build" /\ \E k \in DOMAIN Nar[s] : r.was[s][k] # "absent"
    \/ Busy(r) /\ s = r.source

\* The nodes before the one at hand are whole.
Progress(r) == InNar(r) => \A k \in 1 .. r.node - 1 : tree[r.source][k] = "full"

\* A source that was not visited, and what is to come of the one at hand, is as
\* the command found it.
AsFound(r) ==
  /\ \A s \in Sources \ r.visited : tree[s] = r.was[s]
  /\ Busy(r) => \/ Twice(r)
                \/ \A k \in DOMAIN Nar[r.source] :
                     k >= r.node /\ (r.pc = "fill" => k # r.node) =>
                       tree[r.source][k] = r.was[r.source][k]

TreeOK(r) == Writing(r) => Handled(r) /\ Progress(r) /\ AsFound(r)

Types ==
  /\ published \in [Sources -> Nat]
  /\ \A s \in Sources : published[s] \in 1 .. Versions[s]
  /\ cas \subseteq Blobs /\ owed \subseteq Published
  /\ tree \in Trees
  /\ job \in [Processes -> Job] /\ \A p \in Processes : JobOK(job[p])
  /\ runs \in Nat /\ faults \in Nat

OneWriter ==
  \A p, q \in Processes : Writing(job[p]) /\ Writing(job[q]) => p = q

\* The conjunction the proofs carry from state to state.
Core ==
  /\ Types /\ OneWriter /\ UnverifiedStaysOut
  /\ owed \subseteq cas /\ \A bytes \in cas : Appeared(bytes)
  /\ \A p \in Processes : StoreOK(job[p]) /\ TreeOK(job[p])

IInv == TypeOK /\ Core
=============================================================================
