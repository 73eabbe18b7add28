-------------------------- MODULE CasPipelineProofs --------------------------
(* What holds of CasPipeline for all sources, locks and numbers of runs. *)
EXTENDS CasPipelineInvariant, SequenceTheorems, TLAPS

-----------------------------------------------------------------------------
(* Lemmas about the constants and the records *)

\* What the assumptions say, in the form the steps need.
LEMMA Constants ==
  /\ (CHOOSE s \in Sources : TRUE) \in Sources
  /\ \A s \in Sources : /\ Len(Nar[s]) \in Nat \ {0} /\ DOMAIN Nar[s] = 1 .. Len(Nar[s])
                        /\ 1 \in DOMAIN Nar[s]
                        /\ \A k \in DOMAIN Nar[s] : Nar[s][k] \in Kinds
                        /\ Versions[s] \in Nat \ {0}
  /\ \A s \in Sources, v \in Nat : v \in 1 .. Versions[s] => <<s, v>> \in Published
  /\ Published \subseteq Blobs /\ Garbage \in Blobs
  /\ Garbage \notin Published /\ NoBlob \notin Blobs /\ NoDigest \notin Blobs
  /\ NoBlob \notin Published
<1>1. ASSUME NEW s \in Sources
      PROVE  /\ Len(Nar[s]) \in Nat \ {0} /\ DOMAIN Nar[s] = 1 .. Len(Nar[s])
             /\ 1 \in DOMAIN Nar[s]
             /\ \A k \in DOMAIN Nar[s] : Nar[s][k] \in Kinds
             /\ Versions[s] \in Nat \ {0}
  <2>1. Nar[s] \in Seq(Kinds) /\ Nar[s] # << >> /\ Versions[s] \in Nat \ {0}
    BY SourcesAssumption
  <2> QED BY <2>1
<1>2. ASSUME NEW s \in Sources, NEW v \in 1 .. Versions[s] PROVE <<s, v>> \in Published
  BY DEF Published
<1> QED BY <1>1, <1>2, SourcesAssumption DEF Blobs

\* A lock maps entries to sources.
LEMMA LocksLockSources ==
  \A lock \in Locks \cup {<< >>} :
    DOMAIN lock \subseteq Names /\ \A e \in DOMAIN lock : lock[e] \in Sources
BY SourcesAssumption DEF Names, Range

\* The empty tree is one.
LEMMA NowhereIsTree == Nowhere \in Trees
<1>1. \A s \in Sources : Nowhere[s] \in [DOMAIN Nar[s] -> NodeStates]
  BY DEF Nowhere, NodeStates
<1> QED BY <1>1 DEF Trees, Nowhere

\* A tree with one node changed.
Changed(t, s, k, state) == [t EXCEPT ![s][k] = state]

\* A node that is written leaves a tree.
LEMMA WrittenTree ==
  ASSUME NEW t \in Trees, NEW s \in Sources, NEW k \in DOMAIN Nar[s], NEW state \in NodeStates,
         NEW u, u = Changed(t, s, k, state)
  PROVE  /\ u \in Trees
         /\ \A x \in Sources \ {s} : u[x] = t[x]
         /\ \A j \in DOMAIN Nar[s] : u[s][j] = IF j = k THEN state ELSE t[s][j]
<1> DEFINE row == [t[s] EXCEPT ![k] = state]
<1>1. t[s] \in [DOMAIN Nar[s] -> NodeStates] /\ DOMAIN t = Sources
  BY DEF Trees
<1>2. /\ row \in [DOMAIN Nar[s] -> NodeStates]
      /\ \A j \in DOMAIN Nar[s] : row[j] = IF j = k THEN state ELSE t[s][j]
  BY <1>1
<1>3. u = [t EXCEPT ![s] = row]
  BY DEF Changed
<1> HIDE DEF row
<1>4. DOMAIN u = Sources /\ u[s] = row /\ \A x \in Sources \ {s} : u[x] = t[x]
  BY <1>1, <1>3
<1>5. \A x \in Sources : u[x] \in [DOMAIN Nar[x] -> NodeStates]
  BY <1>2, <1>4 DEF Trees
<1>6. u \in [Sources -> UNION {[DOMAIN Nar[x] -> NodeStates] : x \in Sources}]
  <2>1. \A x \in Sources : u[x] \in UNION {[DOMAIN Nar[y] -> NodeStates] : y \in Sources}
    BY <1>5
  <2>2. u = [x \in Sources |-> u[x]]
    BY <1>3 DEF Trees
  <2> QED BY <2>1, <2>2
<1>7. u \in Trees
  BY <1>5, <1>6 DEF Trees
<1> QED BY <1>2, <1>4, <1>7

\* The record of a command that has ended.
LEMMA NoJobIs ==
  /\ NoJob = [cmd |-> "fetch", lock |-> << >>, todo |-> {}, visited |-> {},
              pc |-> "idle", result |-> "none",
              source |-> CHOOSE s \in Sources : TRUE, version |-> 1, bytes |-> NoBlob,
              node |-> 1, faulty |-> FALSE, got |-> {}, was |-> Nowhere, promised |-> {}]
  /\ \A why \in Results :
       LET r == [NoJob EXCEPT !.result = why]
       IN  JobOK(r) /\ r.pc = "idle" /\ r.result = why /\ r.source \in Sources
           /\ r.version = 1 /\ r.promised = {} /\ r.got = {}
<1>1. NoJob = [cmd |-> "fetch", lock |-> << >>, todo |-> {}, visited |-> {},
               pc |-> "idle", result |-> "none",
               source |-> CHOOSE s \in Sources : TRUE, version |-> 1, bytes |-> NoBlob,
               node |-> 1, faulty |-> FALSE, got |-> {}, was |-> Nowhere, promised |-> {}]
  <2> DEFINE s0     == CHOOSE s \in Sources : TRUE
             none   == << >>
             absent == Nowhere
  <2>1. DOMAIN none = {}
    OBVIOUS
  <2>2. NoJob = [[cmd |-> "fetch", lock |-> none, todo |-> DOMAIN none, visited |-> {},
                  pc |-> "entry", result |-> "none", source |-> s0, version |-> 1,
                  bytes |-> NoBlob, node |-> 1, faulty |-> FALSE, got |-> {}, was |-> tree,
                  promised |-> owed] EXCEPT !.pc = "idle", !.was = absent, !.promised = {}]
    BY DEF NoJob, NewJob
  <2> HIDE DEF s0, none, absent
  <2>3. NoJob = [cmd |-> "fetch", lock |-> none, todo |-> {}, visited |-> {},
                 pc |-> "idle", result |-> "none", source |-> s0, version |-> 1,
                 bytes |-> NoBlob, node |-> 1, faulty |-> FALSE, got |-> {}, was |-> absent,
                 promised |-> {}]
    BY <2>1, <2>2
  <2> QED BY <2>3 DEF s0, none, absent
<1> SUFFICES ASSUME NEW why \in Results
             PROVE  LET r == [NoJob EXCEPT !.result = why]
                    IN  JobOK(r) /\ r.pc = "idle" /\ r.result = why /\ r.source \in Sources
                        /\ r.version = 1 /\ r.promised = {} /\ r.got = {}
  BY <1>1
<1> DEFINE s0     == CHOOSE s \in Sources : TRUE
           none   == << >>
           absent == Nowhere
           r      == [NoJob EXCEPT !.result = why]
<1>2. /\ s0 \in Sources /\ 1 \in DOMAIN Nar[s0] /\ 1 \in 1 .. Versions[s0]
      /\ DOMAIN none = {} /\ absent \in Trees /\ none \in Locks \cup {<< >>}
  BY Constants, NowhereIsTree
<1>a. NoJob = [cmd |-> "fetch", lock |-> none, todo |-> {}, visited |-> {},
               pc |-> "idle", result |-> "none", source |-> s0, version |-> 1,
               bytes |-> NoBlob, node |-> 1, faulty |-> FALSE, got |-> {}, was |-> absent,
               promised |-> {}]
  BY <1>1
<1> HIDE DEF s0, none, absent
<1>3. r = [cmd |-> "fetch", lock |-> none, todo |-> {}, visited |-> {},
           pc |-> "idle", result |-> why, source |-> s0, version |-> 1, bytes |-> NoBlob,
           node |-> 1, faulty |-> FALSE, got |-> {}, was |-> absent, promised |-> {}]
  <2>1. r = [[cmd |-> "fetch", lock |-> none, todo |-> {}, visited |-> {},
              pc |-> "idle", result |-> "none", source |-> s0, version |-> 1,
              bytes |-> NoBlob, node |-> 1, faulty |-> FALSE, got |-> {}, was |-> absent,
              promised |-> {}] EXCEPT !.result = why]
    BY <1>a, Zenon
  <2> HIDE DEF r
  <2> QED BY <2>1
<1> HIDE DEF r
<1>4. r \in Job
  BY <1>2, <1>3 DEF Job, Commands, Pcs
<1>5. EntriesOK(r)
  BY <1>2, <1>3 DEF EntriesOK, Busy
<1>6. BytesOK(r)
  BY <1>3 DEF BytesOK, InNar
<1>7. JobOK(r)
  BY <1>2, <1>3, <1>4, <1>5, <1>6 DEF JobOK, InNar
<1>8. /\ r.pc = "idle" /\ r.result = why /\ r.source \in Sources
      /\ r.version = 1 /\ r.promised = {} /\ r.got = {} /\ r.bytes = NoBlob
  BY <1>2, <1>3
<1> QED BY <1>7, <1>8 DEF r

-----------------------------------------------------------------------------
(* The invariant *)

\* The types of the records are those of the type invariant.
LEMMA TypesAreTypes == Types => TypeOK
<1> SUFFICES ASSUME Types PROVE TypeOK
  OBVIOUS
<1>1. ASSUME NEW p \in Processes
      PROVE  /\ job[p].pc \in Pcs /\ job[p].result \in Results /\ job[p].cmd \in Commands
             /\ Cur(p) \in Published /\ job[p].bytes \in Blobs \cup {NoBlob}
             /\ job[p].todo \subseteq DOMAIN job[p].lock
             /\ job[p].node \in DOMAIN Nar[job[p].source]
             /\ job[p].pc = "fill" => Node(p) = "regular"
  <2>1. job[p] \in Job /\ JobOK(job[p])
    BY DEF Types
  <2>2. Cur(p) \in Published
    BY <2>1, Constants DEF JobOK, Job, Cur
  <2> QED BY <2>1, <2>2 DEF JobOK, Job, EntriesOK, Node
<1>2. DOMAIN tree = Sources /\ \A s \in Sources : tree[s] \in [DOMAIN Nar[s] -> NodeStates]
  BY DEF Types, Trees
<1> QED BY <1>1, <1>2 DEF Types, TypeOK

\* It holds before anything has run.
LEMMA InitCore == Init => Core
<1> SUFFICES ASSUME Init PROVE Core
  OBVIOUS
<1> DEFINE r == [NoJob EXCEPT !.result = "none"]
<1>1. /\ JobOK(r) /\ r.pc = "idle" /\ r.source \in Sources /\ r.version = 1
      /\ r.promised = {} /\ r.got = {} /\ Appeared(r.bytes)
  BY NoJobIs, Constants DEF Results, Appeared
<1>2. NoJob = r
  BY NoJobIs
<1> HIDE DEF r
<1>3. \A p \in Processes : job[p] = r
  BY <1>2 DEF Init
<1>4. Types
  <2>1. job \in [Processes -> Job]
    BY <1>1, <1>2 DEF Init, JobOK
  <2>2. \A s \in Sources : 1 \in 1 .. Versions[s]
    BY Constants
  <2> QED BY <1>1, <1>3, <2>1, <2>2, NowhereIsTree DEF Init, Types
<1>5. OneWriter
  BY <1>1, <1>3 DEF OneWriter, Writing
<1>6. UnverifiedStaysOut
  BY DEF Init, UnverifiedStaysOut
<1>7. StoreOK(r) /\ TreeOK(r)
  BY <1>1 DEF StoreOK, TreeOK, Writing, Init
<1> QED BY <1>3, <1>4, <1>5, <1>6, <1>7 DEF Core, Init

\* A step of one command, to a record that is right for what it leaves behind.
LEMMA StepCore ==
  ASSUME Core, NEW p \in Processes, NEW r, job' = [job EXCEPT ![p] = r], JobOK(r),
         UNCHANGED published, cas \subseteq cas', cas' \subseteq Blobs,
         \A bytes \in cas' : Appeared(bytes),
         owed' \subseteq Published, owed' \subseteq cas', tree' \in Trees,
         tree' = tree \/ Writing(job[p]),
         Writing(r) => Writing(job[p]) \/ \A q \in Processes \ {p} : ~Writing(job[q]),
         runs' \in Nat, faults' \in Nat,
         UnverifiedStaysOut', StoreOK(job[p])', TreeOK(job[p])'
  PROVE  Core'
<1>1. /\ job' \in [Processes -> Job] /\ job'[p] = r
      /\ \A q \in Processes \ {p} : job'[q] = job[q]
  BY DEF Core, Types, JobOK
<1>2. Types'
  <2>1. \A q \in Processes : JobOK(job'[q])
    BY <1>1 DEF Core, Types
  <2>2. \A q \in Processes : JobOK(job[q])'
    BY <2>1 DEF JobOK, EntriesOK, BytesOK, InNar, Busy
  <2> QED BY <1>1, <2>2 DEF Core, Types
<1>3. OneWriter'
  BY <1>1 DEF Core, OneWriter, Writing
<1>4. ASSUME NEW q \in Processes
      PROVE  StoreOK(job[q])' /\ TreeOK(job[q])'
  <2> SUFFICES ASSUME q # p PROVE StoreOK(job[q])' /\ TreeOK(job[q])'
    OBVIOUS
  <2>1. job'[q] = job[q] /\ StoreOK(job[q]) /\ TreeOK(job[q])
    BY <1>1 DEF Core
  <2>2. StoreOK(job[q])'
    BY <2>1 DEF StoreOK, Appeared
  <2>3. TreeOK(job[q])'
    <3>1. CASE tree' = tree
      BY <2>1, <3>1 DEF TreeOK, Handled, Progress, AsFound, Complete, Writing, Busy, InNar, Twice
    <3>2. CASE Writing(job[p])
      <4>1. ~Writing(job[q])
        BY <3>2 DEF Core, OneWriter
      <4> QED BY <2>1, <4>1 DEF TreeOK, Writing
    <3> QED BY <3>1, <3>2
  <2> QED BY <2>2, <2>3
<1>5. (\A bytes \in cas : Appeared(bytes))'
  BY DEF Appeared
<1> QED BY <1>2, <1>3, <1>4, <1>5 DEF Core

\* A step that leaves the tree alone.
LEMMA QuietCore ==
  ASSUME Core, NEW p \in Processes, NEW r, job' = [job EXCEPT ![p] = r], JobOK(r),
         UNCHANGED <<published, tree>>, cas \subseteq cas', cas' \subseteq Blobs,
         \A bytes \in cas' : Appeared(bytes), Appeared(r.bytes),
         owed' \subseteq Published, owed' \subseteq cas', runs' \in Nat, faults' \in Nat,
         Writing(r) => Writing(job[p]) \/ \A q \in Processes \ {p} : ~Writing(job[q]),
         r.version <= published[r.source], r.promised \subseteq cas',
         ~r.faulty => r.got \subseteq cas', TreeOK(r)
  PROVE  Core'
<1>1. job'[p] = r
  BY DEF Core, Types
<1>2. UnverifiedStaysOut'
  BY DEF Core, UnverifiedStaysOut, Nowhere
<1>3. StoreOK(job[p])'
  BY <1>1 DEF StoreOK, Appeared
<1>4. TreeOK(job[p])'
  BY <1>1 DEF TreeOK, Handled, Progress, AsFound, Complete, Writing, Busy, InNar, Twice
<1>5. tree' \in Trees
  BY DEF Core, Types
<1> QED BY <1>2, <1>3, <1>4, <1>5, StepCore

\* A command that ends leaves nothing to answer for.
LEMMA StopCore ==
  ASSUME Core, NEW p \in Processes, NEW why \in Results, Stop(p, why),
         UNCHANGED <<published, cas, tree, runs>>,
         owed' \subseteq Published, owed' \subseteq cas, faults' \in Nat
  PROVE  Core'
<1> DEFINE r == [NoJob EXCEPT !.result = why]
<1>1. /\ JobOK(r) /\ r.pc = "idle" /\ r.source \in Sources /\ r.version = 1
      /\ r.promised = {} /\ r.got = {} /\ Appeared(r.bytes)
  BY NoJobIs, Constants DEF Appeared
<1>2. job' = [job EXCEPT ![p] = r]
  BY DEF Stop
<1> HIDE DEF r
<1>3. r.version <= published[r.source]
  BY <1>1, Constants DEF Core, Types
<1>4. TreeOK(r) /\ ~Writing(r)
  BY <1>1 DEF TreeOK, Writing
<1>5. cas' \subseteq Blobs /\ runs' \in Nat /\ \A bytes \in cas' : Appeared(bytes)
  BY DEF Core, Types
<1> QED BY <1>1, <1>2, <1>3, <1>4, <1>5, QuietCore

\* The cache publishes a source again, and what was good enough still is.
LEMMA RepublishCore ==
  ASSUME Core, NEW s \in Sources, Republish(s)
  PROVE  Core'
<1>1. /\ published' = [published EXCEPT ![s] = published[s] + 1]
      /\ published[s] < Versions[s] /\ UNCHANGED <<cas, tree, job, runs, faults, owed>>
  BY DEF Republish
<1>2. /\ published' \in [Sources -> Nat]
      /\ \A x \in Sources : published'[x] \in 1 .. Versions[x] /\ published[x] <= published'[x]
  BY <1>1, Constants DEF Core, Types
<1>a. ASSUME NEW bytes, Appeared(bytes) PROVE Appeared(bytes)'
  <2> SUFFICES ASSUME bytes \in Published PROVE bytes[2] <= published'[bytes[1]]
    BY DEF Appeared
  <2>1. PICK x \in Sources : bytes \in {x} \X (1 .. Versions[x])
    BY DEF Published
  <2>2. bytes[1] = x /\ bytes[2] \in 1 .. Versions[x] /\ Versions[x] \in Nat
    BY <2>1, Constants
  <2>3. bytes[2] \in Nat /\ bytes[2] <= published[x] /\ published[x] <= published'[x]
        /\ published[x] \in Nat /\ published'[x] \in Nat
    BY <1>a, <1>2, <2>2 DEF Appeared, Core, Types
  <2> QED BY <2>2, <2>3
<1>3. Types'
  <2>1. \A p \in Processes : JobOK(job[p])'
    BY <1>1 DEF Core, Types, JobOK, EntriesOK, BytesOK, InNar, Busy
  <2> QED BY <1>1, <1>2, <2>1 DEF Core, Types
<1>4. OneWriter'
  BY <1>1 DEF Core, OneWriter, Writing
<1>5. UnverifiedStaysOut'
  <2> SUFFICES ASSUME NEW x \in Sources, \A v \in 1 .. published'[x] : <<x, v>> \in Spoiled
               PROVE  tree[x] = Nowhere[x]
    BY <1>1 DEF UnverifiedStaysOut, Nowhere
  <2>1. \A v \in 1 .. published[x] : v \in 1 .. published'[x]
    BY <1>2 DEF Core, Types
  <2> QED BY <2>1 DEF Core, UnverifiedStaysOut
<1>6. ASSUME NEW p \in Processes
      PROVE  StoreOK(job[p])' /\ TreeOK(job[p])'
  <2>1. StoreOK(job[p]) /\ TreeOK(job[p])
    BY DEF Core
  <2>2. TreeOK(job[p])'
    BY <1>1, <2>1 DEF TreeOK, Handled, Progress, AsFound, Complete, Writing, Busy, InNar, Twice
  <2>3. job[p].source \in Sources /\ job[p].version \in Nat
    BY DEF Core, Types, JobOK, Job
  <2>4. Appeared(job[p].bytes)'
    BY <1>1, <1>a, <2>1 DEF StoreOK
  <2>5. StoreOK(job[p])'
    BY <1>1, <1>2, <2>1, <2>3, <2>4 DEF StoreOK, Core, Types
  <2> QED BY <2>2, <2>5
<1>7. (\A bytes \in cas : Appeared(bytes))'
  BY <1>1, <1>a DEF Core
<1> QED BY <1>1, <1>3, <1>4, <1>5, <1>6, <1>7 DEF Core

-----------------------------------------------------------------------------
(* The actions that leave the tree alone *)

\* A command begins: the tree is as it finds it.
LEMMA StartCore ==
  ASSUME Core, NEW p \in Processes, NEW cmd \in Commands, NEW lock \in Locks,
         Start(p, cmd, lock)
  PROVE  Core'
<1> DEFINE s0 == CHOOSE s \in Sources : TRUE
           r  == NewJob(cmd, lock)
<1>1. s0 \in Sources /\ 1 \in DOMAIN Nar[s0] /\ 1 \in 1 .. Versions[s0]
  BY Constants
<1>2. r = [cmd |-> cmd, lock |-> lock, todo |-> DOMAIN lock, visited |-> {},
           pc |-> "entry", result |-> "none", source |-> s0, version |-> 1, bytes |-> NoBlob,
           node |-> 1, faulty |-> FALSE, got |-> {}, was |-> tree, promised |-> owed]
  BY DEF NewJob
<1>3. /\ job' = [job EXCEPT ![p] = r] /\ runs' = runs + 1
      /\ UNCHANGED <<published, cas, tree, faults, owed>>
      /\ Writes(cmd) => \A q \in Processes : ~Writing(job[q])
  BY DEF Start, Writing
<1> HIDE DEF s0, r
<1>4. r \in Job
  BY <1>1, <1>2, LocksLockSources DEF Job, Pcs, Results, Core, Types
<1>5. EntriesOK(r)
  BY <1>2 DEF EntriesOK, Busy
<1>6. JobOK(r)
  BY <1>1, <1>2, <1>4, <1>5 DEF JobOK, BytesOK, InNar
<1>7. TreeOK(r)
  BY <1>2 DEF TreeOK, Handled, Progress, AsFound, InNar, Busy
<1>8. Writing(r) => \A q \in Processes : ~Writing(job[q])
  BY <1>2, <1>3 DEF Writing
<1>9. r.version <= published[r.source] /\ r.promised \subseteq cas /\ r.got = {}
  BY <1>1, <1>2, Constants DEF Core, Types
<1>10. cas' \subseteq Blobs /\ owed' \subseteq Published /\ owed' \subseteq cas'
       /\ runs' \in Nat /\ faults' \in Nat /\ cas' = cas
       /\ (\A bytes \in cas' : Appeared(bytes)) /\ Appeared(r.bytes)
  BY <1>2, <1>3, Constants DEF Core, Types, Appeared
<1> QED BY <1>3, <1>6, <1>7, <1>8, <1>9, <1>10, QuietCore

\* What is known of a command.
LEMMA Known ==
  ASSUME Core, NEW p \in Processes
  PROVE  /\ job \in [Processes -> Job] /\ job[p] \in Job /\ JobOK(job[p])
         /\ StoreOK(job[p]) /\ TreeOK(job[p])
         /\ cas \subseteq Blobs /\ owed \subseteq Published /\ owed \subseteq cas
         /\ runs \in Nat /\ faults \in Nat
         /\ Appeared(job[p].bytes) /\ \A bytes \in cas : Appeared(bytes)
BY DEF Core, Types, JobOK, StoreOK

\* A command that goes on with the same entry, before its first node.
LEMMA SameEntry ==
  ASSUME NEW c, NEW r, TreeOK(c), c.pc \in Pcs \ {"idle", "entry", "write", "fill"},
         r.pc \in Pcs \ {"idle", "entry", "fill"}, r.cmd = c.cmd, r.lock = c.lock,
         r.visited = c.visited, r.source = c.source, r.was = c.was, r.node = 1, c.node = 1
  PROVE  TreeOK(r)
<1> SUFFICES ASSUME Writing(r) PROVE Handled(r) /\ Progress(r) /\ AsFound(r)
  BY DEF TreeOK
<1>1. Handled(c) /\ AsFound(c) /\ Busy(c) /\ Busy(r)
  BY DEF TreeOK, Writing, Busy
<1>2. Handled(r)
  BY <1>1 DEF Handled
<1>3. Progress(r)
  BY DEF Progress
<1>4. AsFound(r)
  BY <1>1 DEF AsFound, Twice
<1> QED BY <1>2, <1>3, <1>4

\* The fault that a command reports is its end.
LEMMA FailsCore ==
  ASSUME Core, NEW p \in Processes, NEW why \in Results, Fails(p, why),
         UNCHANGED <<published, runs>>
  PROVE  Core'
<1>1. owed' \subseteq Published /\ owed' \subseteq cas /\ faults' \in Nat
  BY Known DEF Fails
<1> QED BY <1>1, StopCore DEF Fails

\* An entry is passed over, or taken up with its source as the command found it;
\* if it was visited before, two entries lock it.
LEMMA EntryCore ==
  ASSUME Core, NEW p \in Processes, NEW e \in job[p].todo, Entry(p, e)
  PROVE  Core'
<1> DEFINE c    == job[p]
           s    == c.lock[e]
           pc   == CASE c.cmd = "fetch" -> "download"
                     [] c.cmd = "extract" -> "lookup"
                     [] c.cmd = "build" -> "exists"
           left == c.todo \ {e}
           seen == c.visited \cup {s}
           now  == published[s]
<1>1. /\ job \in [Processes -> Job] /\ c \in Job /\ JobOK(c) /\ StoreOK(c) /\ TreeOK(c)
      /\ cas \subseteq Blobs /\ owed \subseteq Published /\ owed \subseteq cas
      /\ runs \in Nat /\ faults \in Nat
  BY Known
<1>2. c.pc = "entry" /\ UNCHANGED <<published, runs>>
  BY DEF Entry, At
<1>3. c.lock \in Locks \cup {<< >>} /\ e \in c.todo /\ c.todo \subseteq DOMAIN c.lock
  BY <1>1 DEF JobOK, Job, EntriesOK
<1>4. s \in Sources
  BY <1>3, LocksLockSources
<1>5. /\ published[s] \in 1 .. Versions[s] /\ published[s] \in Nat /\ 1 \in DOMAIN Nar[s]
  BY <1>4, Constants DEF Core, Types
<1>6. CASE Fails(p, "noNarInfo")
  BY <1>2, <1>6, FailsCore DEF Results
<1>7. CASE /\ s \in c.visited /\ UNCHANGED <<faults, cas, tree, owed>>
           /\ job' = [job EXCEPT ![p].todo = c.todo \ {e}]
  <2> DEFINE r == [c EXCEPT !.todo = c.todo \ {e}]
  <2>1. job' = [job EXCEPT ![p] = r]
    BY <1>1, <1>7
  <2> HIDE DEF c, s
  <2>2. /\ r \in Job /\ r.todo = c.todo \ {e} /\ r.lock = c.lock /\ r.visited = c.visited
        /\ r.pc = "entry" /\ r.source = c.source /\ r.version = c.version /\ r.node = c.node
        /\ r.cmd = c.cmd /\ r.faulty = c.faulty /\ r.got = c.got /\ r.was = c.was
        /\ r.promised = c.promised /\ r.bytes = c.bytes
    BY <1>1, <1>2 DEF Job
  <2> HIDE DEF r
  <2>3. EntriesOK(r)
    BY <1>1, <1>3, <1>7, <2>2 DEF JobOK, EntriesOK, Busy, s
  <2>4. JobOK(r)
    BY <1>1, <1>2, <2>2, <2>3 DEF JobOK, BytesOK, InNar
  <2>5. TreeOK(r) /\ (Writing(r) <=> Writing(c))
    BY <1>1, <1>2, <2>2 DEF TreeOK, Handled, Progress, AsFound, Writing, InNar, Busy
  <2>6. r.version <= published[r.source] /\ r.promised \subseteq cas
        /\ (~r.faulty => r.got \subseteq cas)
        /\ Appeared(r.bytes) /\ \A bytes \in cas' : Appeared(bytes)
    BY <1>1, <1>7, <2>2, Known DEF StoreOK
  <2> QED BY <1>1, <1>2, <1>7, <2>1, <2>4, <2>5, <2>6, QuietCore DEF c
<1>8. CASE /\ c.cmd = "build" => s \notin c.visited
           /\ UNCHANGED <<faults, cas, tree, owed>>
           /\ job' = [job EXCEPT
                ![p].todo = left, ![p].visited = seen,
                ![p].source = s, ![p].version = now, ![p].pc = pc]
  <2> DEFINE r == [c EXCEPT !.todo = left, !.visited = seen, !.source = s,
                            !.version = now, !.pc = pc]
  <2>1. job' = [job EXCEPT ![p] = r]
    <3> HIDE DEF s, pc, left, seen, now
    <3> QED BY <1>1, <1>8
  <2>2. /\ pc \in {"download", "lookup", "exists"}
        /\ pc # "download" => Writes(c.cmd)
        /\ pc = "exists" => c.cmd = "build"
    BY <1>1 DEF Job, Commands, Writes
  <2>3. left \subseteq Names /\ seen \subseteq Sources /\ now \in Nat
    BY <1>1, <1>4, <1>5 DEF Job
  <2> HIDE DEF c, s, pc, left, seen, now
  <2>4. /\ r \in Job /\ r.todo = left /\ r.lock = c.lock /\ r.visited = seen
        /\ r.pc = pc /\ r.source = s /\ r.version = now /\ r.node = c.node
        /\ r.cmd = c.cmd /\ r.faulty = c.faulty /\ r.got = c.got /\ r.was = c.was
        /\ r.promised = c.promised /\ r.bytes = c.bytes
    BY <1>1, <1>4, <2>2, <2>3 DEF Job, Pcs
  <2> HIDE DEF r
  <2>5. c.node = 1
    BY <1>1, <1>2 DEF JobOK, InNar
  <2>6. EntriesOK(r)
    BY <1>1, <1>3, <2>4 DEF JobOK, EntriesOK, Busy, s, left, seen
  <2>7. JobOK(r)
    BY <1>5, <2>2, <2>4, <2>5, <2>6 DEF JobOK, BytesOK, InNar, now
  <2>8. Writing(r) <=> Writing(c)
    BY <1>2, <2>2, <2>4 DEF Writing
  <2>9. TreeOK(r)
    <3> SUFFICES ASSUME Writing(r) PROVE Handled(r) /\ Progress(r) /\ AsFound(r)
      BY DEF TreeOK
    <3>1. Handled(c) /\ AsFound(c) /\ ~Busy(c) /\ Busy(r) /\ ~InNar(r)
      BY <1>1, <1>2, <2>2, <2>4, <2>8 DEF TreeOK, Busy, InNar
    <3>2. Handled(r)
      BY <3>1, <2>4 DEF Handled, seen
    <3>3. s \notin c.visited => AsFound(r)
      BY <1>4, <2>4, <3>1 DEF AsFound, seen
    <3>4. ASSUME s \in c.visited PROVE AsFound(r)
      <4>1. c.cmd = "extract"
        BY <1>8, <2>4, <3>4 DEF Writing, Writes
      <4>2. PICK d \in DOMAIN c.lock \ c.todo : c.lock[d] = s
        BY <1>1, <3>4 DEF JobOK, EntriesOK
      <4>3. Twice(r)
        BY <1>3, <2>4, <4>1, <4>2 DEF Twice, s
      <4> QED BY <2>4, <3>1, <4>3 DEF AsFound, seen
    <3> QED BY <3>1, <3>2, <3>3, <3>4 DEF Progress
  <2>10. r.version <= published[r.source] /\ r.promised \subseteq cas
         /\ (~r.faulty => r.got \subseteq cas)
         /\ Appeared(r.bytes) /\ \A bytes \in cas' : Appeared(bytes)
    BY <1>1, <1>5, <1>8, <2>4, Known DEF StoreOK, now
  <2> QED BY <1>1, <1>2, <1>8, <2>1, <2>7, <2>8, <2>9, <2>10, QuietCore DEF c
<1> QED BY <1>6, <1>7, <1>8 DEF Entry, NoFault

\* The step to this.
Moves(p, pc, bytes, faulty, got) ==
  job' = [job EXCEPT ![p] = [job[p] EXCEPT !.pc = pc, !.bytes = bytes,
                                           !.faulty = faulty, !.got = got]]

\* A command that changes its step, its bytes and what it has met, and puts into
\* the store, goes from one right record to the next.
LEMMA MoveCore ==
  ASSUME Core, NEW p \in Processes, NEW pc \in Pcs \ {"idle", "entry", "exists", "fill"},
         NEW bytes \in Blobs \cup {NoBlob}, NEW faulty \in BOOLEAN,
         NEW got \in SUBSET Published,
         Moves(p, pc, bytes, faulty, got),
         job[p].pc \in Pcs \ {"idle", "entry", "write", "fill"},
         UNCHANGED <<published, tree, owed, runs>>, faults' \in Nat,
         cas \subseteq cas', cas' \subseteq Blobs,
         job[p].faulty => faulty,
         pc \in {"lookup", "verify", "write"} => Writes(job[p].cmd),
         pc = "put" => bytes = Cur(p) \/ (faulty /\ bytes = Garbage),
         pc = "verify" => bytes \in {Cur(p), Digest(p)} \/ faulty,
         pc = "write" => bytes = job[p].bytes /\ Verified(job[p]),
         Appeared(bytes), \A x \in cas' : Appeared(x),
         ~faulty => got \subseteq cas'
  PROVE  Core'
<1> DEFINE c == job[p]
           r == [c EXCEPT !.pc = pc, !.bytes = bytes, !.faulty = faulty, !.got = got]
<1>1. /\ c \in Job /\ JobOK(c) /\ StoreOK(c) /\ TreeOK(c)
      /\ owed \subseteq Published /\ owed \subseteq cas /\ runs \in Nat
  BY Known
<1>2. job' = [job EXCEPT ![p] = r]
  BY DEF Moves
<1> HIDE DEF c
<1>3. /\ r \in Job /\ r.todo = c.todo /\ r.lock = c.lock /\ r.visited = c.visited
      /\ r.pc = pc /\ r.source = c.source /\ r.version = c.version /\ r.node = c.node
      /\ r.cmd = c.cmd /\ r.faulty = faulty /\ r.got = got /\ r.was = c.was
      /\ r.promised = c.promised /\ r.bytes = bytes
  BY <1>1 DEF Job
<1> HIDE DEF r
<1>4. c.pc \in Pcs \ {"idle", "entry", "write", "fill"} /\ Cur(p) = <<c.source, c.version>>
      /\ Digest(p) = FileHash[<<c.source, c.version>>]
  BY DEF c, Cur, Digest
<1>5. c.node = 1 /\ Busy(c)
  BY <1>1, <1>4 DEF JobOK, InNar, Busy
<1>6. EntriesOK(r)
  BY <1>1, <1>3, <1>5 DEF JobOK, EntriesOK
<1>7. BytesOK(r)
  <2>1. pc = "write" => Verified(r)
    BY <1>3 DEF Verified, c
  <2> QED BY <1>3, <1>4, <2>1 DEF BytesOK, InNar, Asked
<1>8. JobOK(r)
  BY <1>1, <1>3, <1>5, <1>6, <1>7 DEF JobOK, InNar, c
<1>9. TreeOK(r)
  BY <1>1, <1>3, <1>4, <1>5, SameEntry
<1>10. Writing(r) => Writing(c)
  BY <1>3, <1>4 DEF Writing
<1>11. r.version <= published[r.source] /\ r.promised \subseteq cas'
  BY <1>1, <1>3 DEF StoreOK
<1> QED BY <1>1, <1>2, <1>3, <1>8, <1>9, <1>10, <1>11, QuietCore DEF c

\* A build passes over what it found.
LEMMA CheckExistsCore ==
  ASSUME Core, NEW p \in Processes, CheckExists(p)
  PROVE  Core'
<1> DEFINE c    == job[p]
           pc   == IF Exists(c.source) THEN "entry" ELSE "lookup"
           r    == [c EXCEPT !.pc = pc]
<1>1. /\ job \in [Processes -> Job] /\ c \in Job /\ JobOK(c) /\ StoreOK(c) /\ TreeOK(c)
      /\ cas \subseteq Blobs /\ owed \subseteq Published /\ owed \subseteq cas
      /\ runs \in Nat /\ faults \in Nat
  BY Known
<1>2. /\ c.pc = "exists" /\ job' = [job EXCEPT ![p].pc = pc]
      /\ UNCHANGED <<published, runs, faults, cas, tree, owed>>
  BY DEF CheckExists, At, Goto, NoFault
<1>3. job' = [job EXCEPT ![p] = r]
  BY <1>1, <1>2
<1>4. pc \in {"entry", "lookup"} /\ (pc = "entry" <=> Exists(c.source))
  OBVIOUS
<1> HIDE DEF c, pc
<1>5. /\ r \in Job /\ r.todo = c.todo /\ r.lock = c.lock /\ r.visited = c.visited
      /\ r.pc = pc /\ r.source = c.source /\ r.version = c.version /\ r.node = c.node
      /\ r.cmd = c.cmd /\ r.faulty = c.faulty /\ r.got = c.got /\ r.was = c.was
      /\ r.promised = c.promised /\ r.bytes = c.bytes
  BY <1>1, <1>4 DEF Job, Pcs
<1> HIDE DEF r
<1>6. /\ c.cmd = "build" /\ c.node = 1 /\ Busy(c) /\ Writing(c) /\ c.source \in Sources
      /\ 1 \in DOMAIN Nar[c.source]
  BY <1>1, <1>2, Constants DEF JobOK, InNar, Busy, Writing, Writes, Job
<1>7. JobOK(r)
  BY <1>1, <1>4, <1>5, <1>6 DEF JobOK, EntriesOK, BytesOK, InNar, Writes, Busy
<1>8. TreeOK(r)
  <2>1. CASE pc = "lookup"
    BY <1>1, <1>2, <1>5, <1>6, <2>1, SameEntry DEF Pcs
  <2>2. CASE pc = "entry"
    <3>1. Handled(c) /\ AsFound(c) /\ ~Busy(r) /\ ~InNar(r)
      BY <1>1, <1>5, <1>6, <2>2 DEF TreeOK, Busy, InNar
    <3>2. ~Twice(c)
      BY <1>6 DEF Twice
    <3>3. tree[c.source][1] = c.was[c.source][1]
      BY <1>2, <1>6, <3>1, <3>2 DEF AsFound
    <3>4. c.was[c.source][1] # "absent"
      BY <1>4, <2>2, <3>3 DEF Exists
    <3>5. Handled(r)
      BY <1>5, <1>6, <3>1, <3>4 DEF Handled
    <3>6. AsFound(r)
      BY <1>5, <3>1 DEF AsFound
    <3> QED BY <3>1, <3>5, <3>6 DEF TreeOK, Progress
  <2> QED BY <1>4, <2>1, <2>2
<1>9. r.version <= published[r.source] /\ r.promised \subseteq cas
      /\ (~r.faulty => r.got \subseteq cas)
      /\ Appeared(r.bytes) /\ \A bytes \in cas' : Appeared(bytes)
  BY <1>1, <1>2, <1>5, Known DEF StoreOK
<1> QED BY <1>1, <1>2, <1>3, <1>6, <1>7, <1>8, <1>9, QuietCore DEF c

\* What is in the store is taken from it.
LEMMA LookupCore ==
  ASSUME Core, NEW p \in Processes, Lookup(p)
  PROVE  Core'
<1> DEFINE c == job[p]
           b == Digest(p)
<1>1. /\ job \in [Processes -> Job] /\ c \in Job /\ JobOK(c) /\ StoreOK(c)
      /\ cas \subseteq Blobs /\ owed \subseteq Published /\ owed \subseteq cas
      /\ runs \in Nat /\ faults \in Nat
  BY Known
<1>2. c.pc = "lookup" /\ UNCHANGED <<published, runs, cas, tree, owed>>
  BY DEF Lookup, At
<1>3. Writes(c.cmd) /\ c.bytes \in Blobs \cup {NoBlob}
      /\ c.faulty \in BOOLEAN /\ c.got \in SUBSET Published /\ (~c.faulty => c.got \subseteq cas)
      /\ Appeared(c.bytes) /\ \A x \in cas' : Appeared(x)
  BY <1>1, <1>2, Known DEF JobOK, Job, StoreOK
<1>4. CASE /\ b \in cas /\ NoFault
           /\ job' = [job EXCEPT ![p].bytes = b, ![p].pc = "verify"]
  <2> HIDE DEF b
  <2>1. job' = [job EXCEPT ![p] = [c EXCEPT !.bytes = b, !.pc = "verify"]]
    BY <1>1, <1>4
  <2>2. [c EXCEPT !.bytes = b, !.pc = "verify"]
          = [c EXCEPT !.pc = "verify", !.bytes = b, !.faulty = c.faulty, !.got = c.got]
    <3> HIDE DEF c
    <3> QED BY <1>1 DEF Job
  <2>3. Moves(p, "verify", b, c.faulty, c.got)
    BY <2>1, <2>2 DEF Moves
  <2>4. b \in Blobs \cup {NoBlob} /\ Appeared(b)
    BY <1>1, <1>2, <1>3, <1>4
  <2> QED BY <1>1, <1>2, <1>3, <1>4, <2>3, <2>4, MoveCore DEF NoFault, Pcs, b
<1>5. CASE c.cmd = "build" /\ NoFault /\ Goto(p, "download")
  <2>1. job' = [job EXCEPT ![p] = [c EXCEPT !.pc = "download"]]
    BY <1>1, <1>5 DEF Goto
  <2>2. [c EXCEPT !.pc = "download"]
          = [c EXCEPT !.pc = "download", !.bytes = c.bytes, !.faulty = c.faulty, !.got = c.got]
    <3> HIDE DEF c
    <3> QED BY <1>1 DEF Job
  <2>3. Moves(p, "download", c.bytes, c.faulty, c.got)
    BY <2>1, <2>2 DEF Moves
  <2> QED BY <1>1, <1>2, <1>3, <1>5, <2>3, MoveCore DEF NoFault, Pcs
<1>6. CASE NoFault /\ Stop(p, IF b = NoDigest THEN "noDigest" ELSE "noBlob")
  BY <1>1, <1>2, <1>6, StopCore DEF NoFault, Results
<1>7. CASE /\ faults' = faults + 1
           /\ job' = [job EXCEPT ![p].pc = "download", ![p].faulty = TRUE]
  <2> DEFINE met == TRUE
  <2>1. job' = [job EXCEPT ![p] = [c EXCEPT !.pc = "download", !.faulty = TRUE]]
    BY <1>1, <1>7
  <2>2. [c EXCEPT !.pc = "download", !.faulty = TRUE]
          = [c EXCEPT !.pc = "download", !.bytes = c.bytes, !.faulty = TRUE, !.got = c.got]
    <3> HIDE DEF c
    <3> QED BY <1>1 DEF Job
  <2>3. Moves(p, "download", c.bytes, met, c.got)
    BY <2>1, <2>2 DEF Moves
  <2>4. /\ met \in BOOLEAN /\ (c.faulty => met) /\ (~met => c.got \subseteq cas')
        /\ "download" \in Pcs \ {"idle", "entry", "exists", "fill"}
        /\ c.pc \in Pcs \ {"idle", "entry", "write", "fill"}
    BY <1>2 DEF Pcs
  <2> HIDE DEF met
  <2>5. faults' \in Nat /\ cas \subseteq cas' /\ cas' \subseteq Blobs
    BY <1>1, <1>2, <1>7
  <2> QED BY <1>2, <1>3, <2>3, <2>4, <2>5, MoveCore
<1>8. CASE Fails(p, "unreadable")
  BY <1>2, <1>8, FailsCore DEF Results
<1> QED BY <1>4, <1>5, <1>6, <1>7, <1>8 DEF Lookup

\* What is downloaded is what was asked for, or the command has met a fault.
LEMMA DownloadCore ==
  ASSUME Core, NEW p \in Processes, Download(p)
  PROVE  Core'
<1> DEFINE c == job[p]
           b == Cur(p)
<1>1. /\ job \in [Processes -> Job] /\ c \in Job /\ JobOK(c) /\ StoreOK(c)
      /\ cas \subseteq Blobs /\ runs \in Nat /\ faults \in Nat
  BY Known
<1>2. c.pc = "download" /\ UNCHANGED <<published, runs>>
  BY DEF Download, At
<1>3. b \in Blobs /\ Garbage \in Blobs
      /\ c.faulty \in BOOLEAN /\ c.got \in SUBSET Published /\ (~c.faulty => c.got \subseteq cas)
      /\ Appeared(b) /\ Appeared(Garbage) /\ \A x \in cas : Appeared(x)
  BY <1>1, Constants, Known DEF JobOK, Job, Cur, StoreOK, Appeared
<1>4. CASE /\ job' = [job EXCEPT ![p].bytes = b, ![p].pc = "put"]
           /\ NoFault /\ UNCHANGED <<cas, tree, owed>>
  <2> HIDE DEF b
  <2>1. job' = [job EXCEPT ![p] = [c EXCEPT !.bytes = b, !.pc = "put"]]
    BY <1>1, <1>4
  <2>2. [c EXCEPT !.bytes = b, !.pc = "put"]
          = [c EXCEPT !.pc = "put", !.bytes = b, !.faulty = c.faulty, !.got = c.got]
    <3> HIDE DEF c
    <3> QED BY <1>1 DEF Job
  <2>3. Moves(p, "put", b, c.faulty, c.got)
    BY <2>1, <2>2 DEF Moves
  <2> QED BY <1>1, <1>2, <1>3, <1>4, <2>3, MoveCore DEF NoFault, Pcs, b
<1>5. CASE /\ faults' = faults + 1 /\ UNCHANGED <<cas, tree, owed>>
           /\ job' = [job EXCEPT ![p].bytes = Garbage, ![p].pc = "put", ![p].faulty = TRUE]
  <2> DEFINE met == TRUE
  <2>1. job' = [job EXCEPT ![p] =
                  [c EXCEPT !.bytes = Garbage, !.pc = "put", !.faulty = TRUE]]
    BY <1>1, <1>5
  <2>2. [c EXCEPT !.bytes = Garbage, !.pc = "put", !.faulty = TRUE]
          = [c EXCEPT !.pc = "put", !.bytes = Garbage, !.faulty = TRUE, !.got = c.got]
    <3> HIDE DEF c
    <3> QED BY <1>1 DEF Job
  <2>3. Moves(p, "put", Garbage, met, c.got)
    BY <2>1, <2>2 DEF Moves
  <2>4. /\ met \in BOOLEAN /\ met /\ (c.faulty => met) /\ (~met => c.got \subseteq cas')
        /\ "put" \in Pcs \ {"idle", "entry", "exists", "fill"}
        /\ c.pc \in Pcs \ {"idle", "entry", "write", "fill"}
    BY <1>2 DEF Pcs
  <2> HIDE DEF met
  <2>5. faults' \in Nat /\ cas \subseteq cas' /\ cas' \subseteq Blobs
    BY <1>1, <1>2, <1>5
  <2> QED BY <1>2, <1>3, <1>5, <2>3, <2>4, <2>5, MoveCore
<1>6. CASE Fails(p, "noNar")
  BY <1>2, <1>6, FailsCore DEF Results
<1> QED BY <1>4, <1>5, <1>6 DEF Download

\* What is put into the store is what was asked for, or the command has met a fault.
LEMMA PutCore ==
  ASSUME Core, NEW p \in Processes, Put(p)
  PROVE  Core'
<1> DEFINE c   == job[p]
           b   == Cur(p)
           all == c.got \cup {b}
           met == TRUE
<1>1. /\ job \in [Processes -> Job] /\ c \in Job /\ JobOK(c) /\ StoreOK(c) /\ TreeOK(c)
      /\ cas \subseteq Blobs /\ owed \subseteq Published /\ owed \subseteq cas
      /\ runs \in Nat /\ faults \in Nat
  BY Known
<1>2. c.pc = "put" /\ UNCHANGED <<published, runs, tree, owed>>
  BY DEF Put, At
<1>3. /\ b \in Published /\ c.bytes \in Blobs /\ c.bytes \in Blobs \cup {NoBlob}
      /\ (c.bytes = b \/ (c.faulty /\ c.bytes = Garbage))
      /\ c.faulty \in BOOLEAN /\ c.got \in SUBSET Published /\ (~c.faulty => c.got \subseteq cas)
      /\ all \in SUBSET Published /\ (c.cmd # "fetch" => Writes(c.cmd))
      /\ Appeared(c.bytes) /\ \A x \in cas \cup {c.bytes} : Appeared(x)
  <2>1. b \in Published /\ Published \subseteq Blobs /\ Garbage \in Blobs
    BY <1>1, Constants DEF JobOK, Job, Cur
  <2>2. c.bytes = b \/ (c.faulty /\ c.bytes = Garbage)
    BY <1>1, <1>2 DEF JobOK, BytesOK, Asked, Cur
  <2>3. Appeared(c.bytes) /\ \A x \in cas : Appeared(x)
    BY Known
  <2> QED BY <1>1, <2>1, <2>2, <2>3 DEF Job, StoreOK, Commands, Writes
<1>4. /\ "verify" \in Pcs \ {"idle", "entry", "exists", "fill"}
      /\ c.pc \in Pcs \ {"idle", "entry", "write", "fill"}
  BY <1>2 DEF Pcs
<1>5. CASE /\ cas' = cas \cup {c.bytes} /\ NoFault /\ c.cmd = "fetch"
           /\ job' = [job EXCEPT ![p].got = all, ![p].pc = "entry"]
  <2> DEFINE r == [c EXCEPT !.got = all, !.pc = "entry"]
  <2> HIDE DEF b, all
  <2>1. job' = [job EXCEPT ![p] = r]
    BY <1>1, <1>5
  <2> HIDE DEF c
  <2>2. /\ r \in Job /\ r.todo = c.todo /\ r.lock = c.lock /\ r.visited = c.visited
        /\ r.pc = "entry" /\ r.source = c.source /\ r.version = c.version /\ r.node = c.node
        /\ r.cmd = c.cmd /\ r.faulty = c.faulty /\ r.got = all /\ r.was = c.was
        /\ r.promised = c.promised /\ r.bytes = c.bytes
    BY <1>1, <1>3 DEF Job, Pcs
  <2> HIDE DEF r
  <2>3. JobOK(r)
    BY <1>1, <1>2, <2>2 DEF JobOK, EntriesOK, BytesOK, InNar, Busy
  <2>4. ~Writing(r) /\ TreeOK(r)
    BY <1>5, <2>2 DEF Writing, Writes, TreeOK
  <2>5. r.version <= published[r.source] /\ r.promised \subseteq cas'
        /\ (~r.faulty => r.got \subseteq cas')
        /\ Appeared(r.bytes) /\ \A x \in cas' : Appeared(x)
    BY <1>1, <1>3, <1>5, <2>2 DEF StoreOK, all
  <2>6. cas \subseteq cas' /\ cas' \subseteq Blobs /\ owed' \subseteq cas' /\ runs' \in Nat
        /\ faults' \in Nat /\ owed' \subseteq Published
    BY <1>1, <1>2, <1>3, <1>5 DEF NoFault
  <2> QED BY <1>2, <2>1, <2>3, <2>4, <2>5, <2>6, QuietCore
<1>6. CASE /\ cas' = cas \cup {c.bytes} /\ NoFault /\ c.cmd # "fetch"
           /\ job' = [job EXCEPT ![p].got = all, ![p].pc = "verify"]
  <2>1. job' = [job EXCEPT ![p] = [c EXCEPT !.got = all, !.pc = "verify"]]
    <3> HIDE DEF all
    <3> QED BY <1>1, <1>6
  <2>2. [c EXCEPT !.got = all, !.pc = "verify"]
          = [c EXCEPT !.pc = "verify", !.bytes = c.bytes, !.faulty = c.faulty, !.got = all]
    <3> HIDE DEF c, all
    <3> QED BY <1>1 DEF Job
  <2>3. Moves(p, "verify", c.bytes, c.faulty, all)
    BY <2>1, <2>2 DEF Moves
  <2>4. (~c.faulty => all \subseteq cas') /\ \A x \in cas' : Appeared(x)
    BY <1>3, <1>6
  <2>5. faults' \in Nat /\ cas \subseteq cas' /\ cas' \subseteq Blobs
    BY <1>1, <1>3, <1>6 DEF NoFault
  <2> HIDE DEF all
  <2> QED BY <1>2, <1>3, <1>4, <1>6, <2>3, <2>4, <2>5, MoveCore
<1>7. CASE Fails(p, "notStored")
  BY <1>2, <1>7, FailsCore DEF Results
<1>8. CASE /\ c.cmd = "build" /\ faults' = faults + 1 /\ UNCHANGED cas
           /\ job' = [job EXCEPT ![p].pc = "verify", ![p].faulty = TRUE]
  <2>1. job' = [job EXCEPT ![p] = [c EXCEPT !.pc = "verify", !.faulty = TRUE]]
    BY <1>1, <1>8
  <2>2. [c EXCEPT !.pc = "verify", !.faulty = TRUE]
          = [c EXCEPT !.pc = "verify", !.bytes = c.bytes, !.faulty = TRUE, !.got = c.got]
    <3> HIDE DEF c
    <3> QED BY <1>1 DEF Job
  <2>3. Moves(p, "verify", c.bytes, met, c.got)
    BY <2>1, <2>2 DEF Moves
  <2>4. /\ met \in BOOLEAN /\ (c.faulty => met) /\ (~met => c.got \subseteq cas')
        /\ c.bytes = Cur(p) \/ (met /\ c.bytes = Garbage)
        /\ \A x \in cas' : Appeared(x)
    BY <1>3, <1>8
  <2> HIDE DEF met
  <2>5. faults' \in Nat /\ cas \subseteq cas' /\ cas' \subseteq Blobs /\ Writes(c.cmd)
    BY <1>1, <1>8 DEF Writes
  <2> QED BY <1>2, <1>3, <1>4, <2>3, <2>4, <2>5, MoveCore
<1> QED BY <1>5, <1>6, <1>7, <1>8 DEF Put, PutKey

\* Only what verifies is written, and that is what was asked for.
LEMMA VerifyCore ==
  ASSUME Core, NEW p \in Processes, Verify(p)
  PROVE  Core'
<1> DEFINE c == job[p]
<1>1. /\ job \in [Processes -> Job] /\ c \in Job /\ JobOK(c) /\ StoreOK(c)
      /\ cas \subseteq Blobs /\ owed \subseteq Published /\ owed \subseteq cas
      /\ runs \in Nat /\ faults \in Nat
  BY Known
<1>2. c.pc = "verify" /\ UNCHANGED <<published, runs, cas, tree, owed, faults>>
  BY DEF Verify, At, NoFault
<1>3. CASE Verified(c) /\ Goto(p, "write")
  <2>1. job' = [job EXCEPT ![p] = [c EXCEPT !.pc = "write"]]
    BY <1>1, <1>3 DEF Goto
  <2>2. [c EXCEPT !.pc = "write"]
          = [c EXCEPT !.pc = "write", !.bytes = c.bytes, !.faulty = c.faulty, !.got = c.got]
    <3> HIDE DEF c
    <3> QED BY <1>1 DEF Job
  <2>3. Moves(p, "write", c.bytes, c.faulty, c.got)
    BY <2>1, <2>2 DEF Moves
  <2>5. /\ c.bytes \in Blobs \cup {NoBlob} /\ c.faulty \in BOOLEAN
        /\ c.got \in SUBSET Published /\ (~c.faulty => c.got \subseteq cas') /\ Writes(c.cmd)
        /\ Appeared(c.bytes) /\ \A x \in cas' : Appeared(x)
    BY <1>1, <1>2, Known DEF JobOK, Job, StoreOK
  <2> QED BY <1>1, <1>2, <1>3, <2>3, <2>5, MoveCore DEF Pcs
<1>4. CASE Stop(p, "unverified")
  BY <1>1, <1>2, <1>4, StopCore DEF Results
<1> QED BY <1>3, <1>4 DEF Verify

-----------------------------------------------------------------------------
(* The ends of a command *)

LEMMA FinishCore ==
  ASSUME Core, NEW p \in Processes, Finish(p)
  PROVE  Core'
<1>1. job[p] \in Job /\ StoreOK(job[p]) /\ owed \subseteq Published /\ owed \subseteq cas /\ faults \in Nat
  BY Known
<1>2. job[p].got \subseteq Published /\ (~job[p].faulty => job[p].got \subseteq cas)
  BY <1>1 DEF Job, StoreOK
<1>3. owed' \subseteq Published /\ owed' \subseteq cas
  BY <1>1, <1>2 DEF Finish
<1> QED BY <1>1, <1>3, StopCore DEF Finish, At, NoFault, Results

LEMMA KillCore ==
  ASSUME Core, NEW p \in Processes, Kill(p)
  PROVE  Core'
BY Known, StopCore DEF Kill, At, NoFault, Results

LEMMA DiskErrorCore ==
  ASSUME Core, NEW p \in Processes, DiskError(p)
  PROVE  Core'
BY FailsCore DEF DiskError, At, Results

-----------------------------------------------------------------------------
(* The actions that write to the tree *)

\* To write a node of what has been verified.
LEMMA WrittenNode ==
  ASSUME Core, NEW p \in Processes, InNar(job[p]), NEW state \in NodeStates, Write(p, state),
         UNCHANGED published
  PROVE  /\ tree' \in Trees /\ UnverifiedStaysOut'
         /\ \A x \in Sources \ {job[p].source} : tree'[x] = tree[x]
         /\ \A j \in DOMAIN Nar[job[p].source] :
              tree'[job[p].source][j] =
                IF j = job[p].node THEN state ELSE tree[job[p].source][j]
<1> DEFINE s == job[p].source
           k == job[p].node
           v == job[p].bytes[2]
<1>1. /\ s \in Sources /\ k \in DOMAIN Nar[s] /\ v \in Nat /\ v \in 1 .. Versions[s]
      /\ v <= published[s] /\ <<s, v>> \notin Spoiled /\ tree \in Trees
  <2>1. /\ job[p] \in Job /\ JobOK(job[p]) /\ StoreOK(job[p]) /\ tree \in Trees
    BY Known DEF Core, Types
  <2>2. /\ job[p].bytes \in Published \ Spoiled /\ job[p].bytes[1] = s
        /\ Appeared(job[p].bytes)
    BY <2>1 DEF JobOK, BytesOK, Verified, StoreOK
  <2>3. PICK x \in Sources : job[p].bytes \in {x} \X (1 .. Versions[x])
    BY <2>2 DEF Published
  <2>4. x = s /\ job[p].bytes = <<s, v>> /\ v \in 1 .. Versions[s] /\ Versions[s] \in Nat
    BY <2>2, <2>3, Constants
  <2> QED BY <2>1, <2>2, <2>4 DEF JobOK, Job, Appeared
<1>2. tree' = Changed(tree, s, k, state)
  BY DEF Write, Changed
<1> HIDE DEF s, k, v
<1>3. /\ tree' \in Trees
      /\ \A x \in Sources \ {s} : tree'[x] = tree[x]
      /\ \A j \in DOMAIN Nar[s] : tree'[s][j] = IF j = k THEN state ELSE tree[s][j]
  BY <1>1, <1>2, WrittenTree
<1>4. UnverifiedStaysOut'
  <2> SUFFICES ASSUME NEW x \in Sources, \A n \in 1 .. published[x] : <<x, n>> \in Spoiled
               PROVE  tree'[x] = Nowhere[x]
    BY DEF UnverifiedStaysOut, Nowhere
  <2>1. x # s
    BY <1>1 DEF Core, Types
  <2> QED BY <1>3, <2>1 DEF Core, UnverifiedStaysOut
<1> QED BY <1>3, <1>4 DEF s, k

\* A node is whole: on to the next one, or the source is.
LEMMA WholeNodeCore ==
  ASSUME Core, NEW p \in Processes, InNar(job[p]), Write(p, "full"), NextNode(p),
         UNCHANGED <<published, runs, faults, cas, owed>>
  PROVE  Core'
<1> DEFINE c    == job[p]
           s    == c.source
           next == c.node + 1
           more == [c EXCEPT !.node = next, !.pc = "write"]
           done == [c EXCEPT !.node = 1, !.bytes = NoBlob, !.pc = "entry"]
           r    == IF c.node < Len(Nar[s]) THEN more ELSE done
<1>1. /\ job \in [Processes -> Job] /\ c \in Job /\ JobOK(c) /\ StoreOK(c) /\ TreeOK(c)
      /\ cas \subseteq Blobs /\ owed \subseteq Published /\ owed \subseteq cas
      /\ runs \in Nat /\ faults \in Nat
  BY Known
<1>2. /\ tree' \in Trees /\ UnverifiedStaysOut'
      /\ \A x \in Sources \ {s} : tree'[x] = tree[x]
      /\ \A j \in DOMAIN Nar[s] : tree'[s][j] = IF j = c.node THEN "full" ELSE tree[s][j]
  BY WrittenNode DEF NodeStates
<1>3. job' = [job EXCEPT ![p] = r]
  <2>1. CASE c.node < Len(Nar[s])
    <3>1. job' = [job EXCEPT ![p].node = next, ![p].pc = "write"]
      BY <2>1 DEF NextNode
    <3> HIDE DEF next
    <3>2. job' = [job EXCEPT ![p] = more]
      BY <1>1, <3>1
    <3> QED BY <2>1, <3>2
  <2>2. CASE ~(c.node < Len(Nar[s]))
    <3>1. job' = [job EXCEPT ![p].node = 1, ![p].bytes = NoBlob, ![p].pc = "entry"]
      BY <2>2 DEF NextNode
    <3>2. job' = [job EXCEPT ![p] = done]
      BY <1>1, <3>1
    <3> QED BY <2>2, <3>2
  <2> QED BY <2>1, <2>2
<1> HIDE DEF c
<1>4. /\ s \in Sources /\ Len(Nar[s]) \in Nat \ {0} /\ DOMAIN Nar[s] = 1 .. Len(Nar[s])
      /\ c.node \in 1 .. Len(Nar[s]) /\ next \in Nat /\ 1 \in DOMAIN Nar[s]
  BY <1>1, Constants DEF JobOK, Job
<1>5. Writes(c.cmd) /\ Writing(c) /\ Busy(c) /\ InNar(c)
  BY <1>1 DEF JobOK, InNar, Writing, Busy, c
<1>6. /\ r \in Job /\ r.todo = c.todo /\ r.lock = c.lock /\ r.visited = c.visited
      /\ r.source = c.source /\ r.version = c.version
      /\ r.cmd = c.cmd /\ r.faulty = c.faulty /\ r.got = c.got /\ r.was = c.was
      /\ r.promised = c.promised
      /\ \/ /\ c.node < Len(Nar[s]) /\ r.node = next /\ r.pc = "write" /\ r.bytes = c.bytes
         \/ /\ c.node = Len(Nar[s]) /\ r.node = 1 /\ r.pc = "entry" /\ r.bytes = NoBlob
  <2>1. CASE c.node < Len(Nar[s])
    <3> HIDE DEF next
    <3>1. /\ more \in Job /\ more.todo = c.todo /\ more.lock = c.lock
          /\ more.visited = c.visited /\ more.source = c.source /\ more.version = c.version
          /\ more.cmd = c.cmd /\ more.faulty = c.faulty /\ more.got = c.got
          /\ more.was = c.was /\ more.promised = c.promised /\ more.bytes = c.bytes
          /\ more.node = next /\ more.pc = "write"
      BY <1>1, <1>4 DEF Job, Pcs
    <3> HIDE DEF more
    <3> QED BY <2>1, <3>1
  <2>2. CASE ~(c.node < Len(Nar[s]))
    <3>1. /\ done \in Job /\ done.todo = c.todo /\ done.lock = c.lock
          /\ done.visited = c.visited /\ done.source = c.source /\ done.version = c.version
          /\ done.cmd = c.cmd /\ done.faulty = c.faulty /\ done.got = c.got
          /\ done.was = c.was /\ done.promised = c.promised
          /\ done.node = 1 /\ done.pc = "entry" /\ done.bytes = NoBlob
      BY <1>1 DEF Job, Pcs
    <3>2. c.node = Len(Nar[s])
      BY <1>4, <2>2
    <3> HIDE DEF done, more
    <3> QED BY <2>2, <3>1, <3>2
  <2> QED BY <2>1, <2>2
<1> HIDE DEF r, next
<1>7. JobOK(r)
  <2>1. EntriesOK(r)
    BY <1>1, <1>5, <1>6 DEF JobOK, EntriesOK
  <2>2. BytesOK(r)
    BY <1>1, <1>5, <1>6 DEF JobOK, BytesOK, InNar, Verified
  <2>3. r.node \in DOMAIN Nar[r.source]
    BY <1>4, <1>6 DEF next
  <2> QED BY <1>1, <1>5, <1>6, <2>1, <2>2, <2>3 DEF JobOK, InNar
<1>8. job'[p] = r
  BY <1>1, <1>3
<1>9. StoreOK(job[p])'
  BY <1>1, <1>6, <1>8, Constants DEF StoreOK, Appeared
<1>10. Handled(c) /\ Progress(c) /\ AsFound(c) /\ s \in c.visited
  BY <1>1, <1>5 DEF TreeOK, JobOK, EntriesOK
<1>11. \A j \in 1 .. c.node : tree'[s][j] = "full"
  BY <1>2, <1>4, <1>5, <1>10 DEF Progress
<1>12. Handled(job[p])'
  <2> SUFFICES ASSUME NEW x \in r.visited
               PROVE  \/ Complete(x)'
                      \/ r.cmd = "build" /\ \E k \in DOMAIN Nar[x] : r.was[x][k] # "absent"
                      \/ Busy(r) /\ x = r.source
    BY <1>8 DEF Handled, Busy
  <2>1. CASE x # s
    BY <1>1, <1>2, <1>6, <1>10, <2>1 DEF Handled, Complete, Job
  <2>2. CASE x = s /\ r.pc = "write"
    BY <1>6, <2>2 DEF Busy
  <2>3. CASE x = s /\ c.node = Len(Nar[s])
    BY <1>4, <1>11, <2>3 DEF Complete
  <2> QED BY <1>6, <2>1, <2>2, <2>3
<1>13. Progress(job[p])'
  BY <1>4, <1>6, <1>8, <1>11 DEF Progress, InNar, next
<1>14. AsFound(job[p])'
  <2>1. \A x \in Sources \ r.visited : tree'[x] = r.was[x]
    BY <1>2, <1>6, <1>10 DEF AsFound
  <2>2. ASSUME Busy(r)
        PROVE  \/ Twice(r)
               \/ \A k \in DOMAIN Nar[r.source] :
                    k >= r.node /\ (r.pc = "fill" => k # r.node) =>
                      tree'[r.source][k] = r.was[r.source][k]
    <3>1. r.node = next /\ r.pc = "write"
      BY <1>6, <2>2 DEF Busy
    <3>2. CASE Twice(c)
      BY <1>6, <3>2 DEF Twice
    <3>3. CASE \A k \in DOMAIN Nar[s] : k >= c.node /\ (c.pc = "fill" => k # c.node) =>
                 tree[s][k] = c.was[s][k]
      <4> SUFFICES ASSUME NEW k \in DOMAIN Nar[s], k >= next PROVE tree'[s][k] = c.was[s][k]
        BY <1>6, <3>1
      <4>1. k \in Nat /\ k >= c.node /\ k # c.node
        BY <1>4 DEF next
      <4> QED BY <1>2, <3>3, <4>1
    <3> QED BY <1>5, <1>10, <3>2, <3>3 DEF AsFound
  <2> QED BY <1>8, <2>1, <2>2 DEF AsFound, Busy, Twice
<1>15. TreeOK(job[p])'
  BY <1>12, <1>13, <1>14 DEF TreeOK
<1>16. cas' \subseteq Blobs /\ owed' \subseteq Published /\ owed' \subseteq cas' /\ runs' \in Nat
       /\ faults' \in Nat /\ cas \subseteq cas' /\ \A bytes \in cas' : Appeared(bytes)
  BY <1>1, Known
<1> QED BY <1>2, <1>3, <1>5, <1>7, <1>9, <1>15, <1>16, StepCore DEF c

\* A file is created, or cut short, and is yet to be filled.
LEMMA CreateFileCore ==
  ASSUME Core, NEW p \in Processes, CreateFile(p)
  PROVE  Core'
<1> DEFINE c == job[p]
           s == c.source
           r == [c EXCEPT !.pc = "fill"]
<1>1. /\ job \in [Processes -> Job] /\ c \in Job /\ JobOK(c) /\ StoreOK(c) /\ TreeOK(c)
      /\ cas \subseteq Blobs /\ owed \subseteq Published /\ owed \subseteq cas
      /\ runs \in Nat /\ faults \in Nat
  BY Known
<1>2. /\ c.pc = "write" /\ Node(p) = "regular" /\ Write(p, "empty") /\ InNar(c)
      /\ UNCHANGED <<published, runs, faults, cas, owed>>
  BY DEF CreateFile, At, NoFault, InNar
<1>3. /\ tree' \in Trees /\ UnverifiedStaysOut'
      /\ \A x \in Sources \ {s} : tree'[x] = tree[x]
      /\ \A j \in DOMAIN Nar[s] : tree'[s][j] = IF j = c.node THEN "empty" ELSE tree[s][j]
  BY <1>2, WrittenNode DEF NodeStates
<1>4. job' = [job EXCEPT ![p] = r] /\ Nar[s][c.node] = "regular"
  BY <1>1, <1>2 DEF CreateFile, Goto, Node
<1> HIDE DEF c
<1>5. /\ r \in Job /\ r.todo = c.todo /\ r.lock = c.lock /\ r.visited = c.visited
      /\ r.pc = "fill" /\ r.source = c.source /\ r.version = c.version /\ r.node = c.node
      /\ r.cmd = c.cmd /\ r.faulty = c.faulty /\ r.got = c.got /\ r.was = c.was
      /\ r.promised = c.promised /\ r.bytes = c.bytes
  BY <1>1 DEF Job, Pcs
<1> HIDE DEF r
<1>6. /\ s \in Sources /\ Len(Nar[s]) \in Nat \ {0} /\ DOMAIN Nar[s] = 1 .. Len(Nar[s])
      /\ c.node \in 1 .. Len(Nar[s])
  BY <1>1, Constants DEF JobOK, Job
<1>7. Writes(c.cmd) /\ Writing(c) /\ Busy(c) /\ InNar(c) /\ Busy(r)
  BY <1>1, <1>2, <1>5 DEF JobOK, InNar, Writing, Busy
<1>8. JobOK(r)
  <2>1. EntriesOK(r)
    BY <1>1, <1>5, <1>7 DEF JobOK, EntriesOK
  <2>2. BytesOK(r)
    BY <1>1, <1>5, <1>7 DEF JobOK, BytesOK, InNar, Verified
  <2> QED BY <1>1, <1>4, <1>5, <1>7, <2>1, <2>2 DEF JobOK, InNar
<1>9. job'[p] = r
  BY <1>1, <1>4
<1>10. StoreOK(job[p])'
  BY <1>1, <1>2, <1>5, <1>9 DEF StoreOK, Appeared
<1>11. Handled(c) /\ Progress(c) /\ AsFound(c) /\ s \in c.visited /\ c.visited \subseteq Sources
  BY <1>1, <1>7 DEF TreeOK, JobOK, EntriesOK, Job
<1>12. Handled(job[p])'
  <2> SUFFICES ASSUME NEW x \in c.visited, x # s
               PROVE  \/ Complete(x)'
                      \/ c.cmd = "build" /\ \E k \in DOMAIN Nar[x] : c.was[x][k] # "absent"
    BY <1>5, <1>7, <1>9 DEF Handled, Busy
  <2> QED BY <1>3, <1>11 DEF Handled, Complete
<1>13. Progress(job[p])'
  <2> SUFFICES ASSUME NEW k \in 1 .. c.node - 1 PROVE tree'[s][k] = "full"
    BY <1>5, <1>9 DEF Progress
  <2>1. k \in DOMAIN Nar[s] /\ k # c.node
    BY <1>6
  <2> QED BY <1>3, <1>7, <1>11, <2>1 DEF Progress
<1>14. AsFound(job[p])'
  <2>1. \A x \in Sources \ r.visited : tree'[x] = r.was[x]
    BY <1>3, <1>5, <1>11 DEF AsFound
  <2>2. \/ Twice(r)
        \/ \A k \in DOMAIN Nar[r.source] :
             k >= r.node /\ k # r.node => tree'[r.source][k] = r.was[r.source][k]
    <3>1. CASE Twice(c)
      BY <1>5, <3>1 DEF Twice
    <3>2. CASE \A k \in DOMAIN Nar[s] : k >= c.node /\ (c.pc = "fill" => k # c.node) =>
                 tree[s][k] = c.was[s][k]
      BY <1>3, <1>5, <3>2
    <3> QED BY <1>7, <1>11, <3>1, <3>2 DEF AsFound
  <2> QED BY <1>5, <1>9, <2>1, <2>2 DEF AsFound, Busy, Twice
<1>15. TreeOK(job[p])'
  BY <1>12, <1>13, <1>14 DEF TreeOK
<1>16. cas' \subseteq Blobs /\ owed' \subseteq Published /\ owed' \subseteq cas' /\ runs' \in Nat
       /\ faults' \in Nat /\ cas \subseteq cas' /\ \A bytes \in cas' : Appeared(bytes)
  BY <1>1, <1>2, Known
<1> QED BY <1>2, <1>3, <1>4, <1>7, <1>8, <1>10, <1>15, <1>16, StepCore DEF c

-----------------------------------------------------------------------------
(* The theorems *)

\* Every step keeps the invariant.
LEMMA NextCore == Core /\ [Next]_vars => Core'
<1> SUFFICES ASSUME Core, [Next]_vars PROVE Core'
  OBVIOUS
<1>1. CASE UNCHANGED vars
  <2>1. \A p \in Processes : (StoreOK(job[p]) /\ TreeOK(job[p]))'
    BY <1>1 DEF vars, Core, StoreOK, Appeared, TreeOK, Handled, Progress, AsFound, Complete,
             Writing, Busy, InNar, Twice
  <2>2. Types'
    BY <1>1 DEF vars, Core, Types, JobOK, EntriesOK, BytesOK, InNar, Busy
  <2>3. OneWriter' /\ UnverifiedStaysOut'
    BY <1>1 DEF vars, Core, OneWriter, UnverifiedStaysOut, Writing, Nowhere
  <2> QED BY <1>1, <2>1, <2>2, <2>3 DEF vars, Core, Appeared
<1>2. CASE \E s \in Sources : Republish(s)
  BY <1>2, RepublishCore
<1>3. ASSUME NEW p \in Processes, NEW cmd \in Commands, NEW lock \in Locks,
             Start(p, cmd, lock)
      PROVE  Core'
  BY <1>3, StartCore
<1>4. ASSUME NEW p \in Processes, Kill(p) PROVE Core'
  BY <1>4, KillCore
<1>5. ASSUME NEW p \in Processes, Step(p) PROVE Core'
  <2>1. ASSUME NEW e \in job[p].todo, Entry(p, e) PROVE Core'
    BY <2>1, EntryCore
  <2>2. CASE CheckExists(p)
    BY <2>2, CheckExistsCore
  <2>3. CASE Lookup(p)
    BY <2>3, LookupCore
  <2>4. CASE Download(p)
    BY <2>4, DownloadCore
  <2>5. CASE Put(p)
    BY <2>5, PutCore
  <2>6. CASE Verify(p)
    BY <2>6, VerifyCore
  <2>7. CASE MakeDirectory(p)
    BY <2>7, WholeNodeCore DEF MakeDirectory, At, NoFault, InNar
  <2>8. CASE CreateFile(p)
    BY <2>8, CreateFileCore
  <2>9. CASE FillFile(p)
    BY <2>9, WholeNodeCore DEF FillFile, At, NoFault, InNar
  <2>10. CASE MakeSymlink(p)
    <3>1. CASE Write(p, "full") /\ NextNode(p)
      BY <2>10, <3>1, WholeNodeCore DEF MakeSymlink, At, NoFault, InNar
    <3>2. CASE Stop(p, "linkExists") /\ UNCHANGED tree
      BY <2>10, <3>2, StopCore, Known DEF MakeSymlink, At, NoFault, Results
    <3> QED BY <2>10, <3>1, <3>2 DEF MakeSymlink
  <2>11. CASE DiskError(p)
    BY <2>11, DiskErrorCore
  <2>12. CASE Finish(p)
    BY <2>12, FinishCore
  <2> QED BY <1>5, <2>1, <2>2, <2>3, <2>4, <2>5, <2>6, <2>7, <2>8, <2>9, <2>10, <2>11, <2>12
          DEF Step
<1> QED BY <1>1, <1>2, <1>3, <1>4, <1>5 DEF Next

\* The invariant holds throughout.
LEMMA CoreHolds == Spec => []Core
BY InitCore, NextCore, PTL DEF Spec

\* Every variable has its type, and every command is at a node that its NAR has.
THEOREM TypeCorrect == Spec => []TypeOK
<1>1. Core => TypeOK
  BY TypesAreTypes DEF Core
<1> QED BY <1>1, CoreHolds, PTL

\* The conjunction that TLC checks.
THEOREM Invariance == Spec => []IInv
<1>1. Core => IInv
  BY TypesAreTypes DEF Core, IInv
<1> QED BY <1>1, CoreHolds, PTL

\* Verification comes before the first write: nothing of a source that was never
\* published with the right contents is in the tree.
THEOREM Verification == Spec => []UnverifiedStaysOut
<1>1. Core => UnverifiedStaysOut
  BY DEF Core
<1> QED BY <1>1, CoreHolds, PTL

-----------------------------------------------------------------------------
(* How a command ends *)

\* A step of one command is not a step of another.
LEMMA OthersStay ==
  ASSUME Core, NEW p \in Processes, NEW q \in Processes \ {p}, Step(q)
  PROVE  job'[p] = job[p]
<1>1. job \in [Processes -> Job]
  BY DEF Core, Types
<1>2. ASSUME NEW e \in job[q].todo, Entry(q, e) PROVE job'[p] = job[p]
  BY <1>1, <1>2 DEF Entry, Fails, Stop
<1>3. CASE CheckExists(q)
  BY <1>1, <1>3 DEF CheckExists, Goto
<1>4. CASE Lookup(q)
  BY <1>1, <1>4 DEF Lookup, Goto, Fails, Stop
<1>5. CASE Download(q)
  BY <1>1, <1>5 DEF Download, Fails, Stop
<1>6. CASE Put(q)
  BY <1>1, <1>6 DEF Put, Fails, Stop
<1>7. CASE Verify(q)
  BY <1>1, <1>7 DEF Verify, Goto, Stop
<1>8. CASE MakeDirectory(q)
  BY <1>1, <1>8 DEF MakeDirectory, NextNode
<1>9. CASE CreateFile(q)
  BY <1>1, <1>9 DEF CreateFile, Goto
<1>10. CASE FillFile(q)
  BY <1>1, <1>10 DEF FillFile, NextNode
<1>11. CASE MakeSymlink(q)
  BY <1>1, <1>11 DEF MakeSymlink, NextNode, Stop
<1>12. CASE DiskError(q)
  BY <1>1, <1>12 DEF DiskError, Fails, Stop
<1>13. CASE Finish(q)
  BY <1>1, <1>13 DEF Finish, Stop
<1> QED BY <1>2, <1>3, <1>4, <1>5, <1>6, <1>7, <1>8, <1>9, <1>10, <1>11, <1>12, <1>13 DEF Step

\* A command ends with the result that it stopped with.
LEMMA StopResult ==
  ASSUME Core, NEW p \in Processes, NEW why \in Results, Stop(p, why)
  PROVE  job'[p].result = why
<1> DEFINE r == [NoJob EXCEPT !.result = why]
<1>1. job' = [job EXCEPT ![p] = r] /\ job \in [Processes -> Job]
  BY DEF Stop, Core, Types
<1>2. r.result = why
  BY NoJobIs
<1> HIDE DEF r
<1> QED BY <1>1, <1>2

\* The results that the properties are about have one step each to end with.
LEMMA Ending ==
  ASSUME Core, [Next]_vars, NEW p \in Processes,
         NEW why \in {"ok", "noDigest", "noBlob", "unverified", "linkExists"}, Ends(p, why)
  PROVE  \/ why = "ok" /\ Finish(p)
         \/ why \in {"noDigest", "noBlob"} /\ Lookup(p) /\ Digest(p) \notin cas
         \/ why = "unverified" /\ Verify(p) /\ ~Verified(job[p])
         \/ why = "linkExists" /\ MakeSymlink(p) /\ Is(p) # "absent"
<1>1. /\ job[p].pc # "idle" /\ job'[p].pc = "idle" /\ job'[p].result = why
      /\ job \in [Processes -> Job] /\ job[p] \in Job
  BY DEF Ends, Core, Types
<1>2. \A x \in Results : Stop(p, x) => x = why
  BY <1>1, StopResult
<1>3. CASE Step(p)
  <2>1. ASSUME NEW e \in job[p].todo, Entry(p, e) PROVE FALSE
    <3>1. ~Fails(p, "noNarInfo")
      BY <1>2 DEF Fails, Results
    <3>2. job[p].cmd \in Commands /\ job[p].pc = "entry"
      BY <1>1, <2>1 DEF Entry, At, Job
    <3>3. job'[p].pc \in {"entry", "download", "lookup", "exists"}
      BY <1>1, <2>1, <3>1, <3>2 DEF Entry, Commands, Job
    <3> QED BY <1>1, <3>3
  <2>2. ~CheckExists(p)
    BY <1>1 DEF CheckExists, Goto, Job
  <2>3. CASE Lookup(p)
    <3>1. ~Fails(p, "unreadable")
      BY <1>2 DEF Fails, Results
    <3>2. ~Goto(p, "download")
      BY <1>1 DEF Goto, Job
    <3>3. ~(job' = [job EXCEPT ![p].bytes = Digest(p), ![p].pc = "verify"])
      BY <1>1 DEF Job
    <3>4. ~(job' = [job EXCEPT ![p].pc = "download", ![p].faulty = TRUE])
      BY <1>1 DEF Job
    <3>5. (Stop(p, "noDigest") \/ Stop(p, "noBlob")) /\ Digest(p) \notin cas
      BY <2>3, <3>1, <3>2, <3>3, <3>4 DEF Lookup
    <3> QED BY <1>2, <2>3, <3>5 DEF Results
  <2>4. ~Download(p)
    <3>1. ~Fails(p, "noNar")
      BY <1>2 DEF Fails, Results
    <3> QED BY <1>1, <3>1 DEF Download, Job
  <2>5. ~Put(p)
    <3>1. ~Fails(p, "notStored")
      BY <1>2 DEF Fails, Results
    <3> QED BY <1>1, <3>1 DEF Put, Job
  <2>6. CASE Verify(p)
    <3>1. ~Goto(p, "write")
      BY <1>1 DEF Goto, Job
    <3>2. Stop(p, "unverified") /\ ~Verified(job[p])
      BY <2>6, <3>1 DEF Verify
    <3> QED BY <1>2, <2>6, <3>2 DEF Results
  <2>7. ~NextNode(p)
    BY <1>1 DEF NextNode, Job
  <2>8. ~MakeDirectory(p) /\ ~FillFile(p)
    BY <2>7 DEF MakeDirectory, FillFile
  <2>9. ~CreateFile(p)
    BY <1>1 DEF CreateFile, Goto, Job
  <2>10. CASE MakeSymlink(p)
    <3>1. Stop(p, "linkExists") /\ Is(p) # "absent"
      BY <2>7, <2>10 DEF MakeSymlink
    <3> QED BY <1>2, <2>10, <3>1 DEF Results
  <2>11. ~DiskError(p)
    BY <1>2 DEF DiskError, Fails, Results
  <2>12. CASE Finish(p)
    BY <1>2, <2>12 DEF Finish, Results
  <2> QED BY <1>3, <2>1, <2>2, <2>3, <2>4, <2>5, <2>6, <2>8, <2>9, <2>10, <2>11, <2>12 DEF Step
<1>4. ~UNCHANGED vars
  BY <1>1 DEF vars
<1>5. ASSUME NEW s \in Sources, Republish(s) PROVE FALSE
  BY <1>1, <1>5 DEF Republish
<1>6. ASSUME NEW q \in Processes, NEW cmd \in Commands, NEW lock \in Locks,
             Start(q, cmd, lock)
      PROVE  FALSE
  <2>1. q # p /\ job'[p] = job[p]
    BY <1>1, <1>6 DEF Start
  <2> QED BY <1>1, <2>1
<1>7. ~Kill(p)
  BY <1>2 DEF Kill, Results
<1>8. ASSUME NEW q \in Processes \ {p}, Step(q) \/ Kill(q) PROVE FALSE
  <2>1. job'[p] = job[p]
    BY <1>1, <1>8, OthersStay DEF Kill, Stop
  <2> QED BY <1>1, <2>1
<1> QED BY <1>3, <1>4, <1>5, <1>6, <1>7, <1>8 DEF Next

\* `pkg extract` returns Ok only with all sources whole in the tree, `pkg build`
\* but for those that it found.
THEOREM Extracted == Spec => SuccessMeansExtracted
<1> DEFINE Whole(p) ==
      \A s \in Range(job[p].lock) :
        \/ Complete(s)
        \/ job[p].cmd = "build" /\ \E k \in DOMAIN Nar[s] : job[p].was[s][k] # "absent"
<1>1. ASSUME Core, [Next]_vars, NEW p \in Processes, Ends(p, "ok"), Writes(job[p].cmd)
      PROVE  Whole(p)
  <2> SUFFICES ASSUME NEW s \in Range(job[p].lock)
               PROVE  \/ Complete(s)
                      \/ /\ job[p].cmd = "build"
                         /\ \E k \in DOMAIN Nar[s] : job[p].was[s][k] # "absent"
    OBVIOUS
  <2>1. job[p].pc = "entry" /\ job[p].todo = {}
    BY <1>1, Ending DEF Finish, At
  <2>2. EntriesOK(job[p]) /\ Handled(job[p])
    BY <1>1, <2>1, Known DEF JobOK, TreeOK, Writing
  <2>3. s \in job[p].visited
    BY <2>1, <2>2 DEF EntriesOK, Range
  <2> QED BY <2>1, <2>2, <2>3 DEF Handled, Busy
<1>2. Core /\ [Next]_vars =>
        [\A p \in Processes : Ends(p, "ok") /\ Writes(job[p].cmd) => Whole(p)]_vars
  BY <1>1
<1> QED BY <1>2, CoreHolds, PTL DEF Spec, SuccessMeansExtracted

\* What a command knows when it fails without a fault of its own.
THEOREM FailuresExplained == Spec => FailureHasACause
<1> DEFINE Cause(p) ==
      /\ Ends(p, "noDigest") \/ Ends(p, "noBlob") =>
           Digest(p) # Cur(p) \/ Cur(p) \notin job[p].promised
      /\ Ends(p, "unverified") => Digest(p) # Cur(p) \/ Cur(p) \in Spoiled
      /\ Ends(p, "linkExists") =>
           \/ job[p].was[job[p].source] # Nowhere[job[p].source]
           \/ job[p].cmd = "extract" /\ \E d, e \in DOMAIN job[p].lock :
                d # e /\ job[p].lock[d] = job[p].source /\ job[p].lock[e] = job[p].source
<1>1. ASSUME Core, [Next]_vars, NEW p \in Processes, ~job[p].faulty
      PROVE  Cause(p)
  <2>1. job[p] \in Job /\ JobOK(job[p]) /\ StoreOK(job[p]) /\ TreeOK(job[p])
    BY <1>1, Known
  <2>2. ASSUME Ends(p, "noDigest") \/ Ends(p, "noBlob"), Digest(p) = Cur(p)
        PROVE  Cur(p) \notin job[p].promised
    <3>1. Digest(p) \notin cas
      BY <1>1, <2>2, Ending
    <3> QED BY <2>1, <2>2, <3>1 DEF StoreOK
  <2>3. ASSUME Ends(p, "unverified"), Digest(p) = Cur(p) PROVE Cur(p) \in Spoiled
    <3>1. job[p].pc = "verify" /\ ~Verified(job[p])
      BY <1>1, <2>3, Ending DEF Verify, At
    <3>2. job[p].bytes = Cur(p) /\ Cur(p) \in Published
      BY <1>1, <2>1, <2>3, <3>1, Constants DEF JobOK, BytesOK, Asked, Job, Cur, Digest
    <3> QED BY <3>1, <3>2 DEF Verified, Cur
  <2>4. ASSUME Ends(p, "linkExists")
        PROVE  job[p].was[job[p].source] # Nowhere[job[p].source] \/ Twice(job[p])
    <3> DEFINE c == job[p]
    <3>1. c.pc = "write" /\ Is(p) # "absent"
      BY <1>1, <2>4, Ending DEF MakeSymlink, At
    <3>2. /\ c.source \in Sources /\ c.node \in DOMAIN Nar[c.source] /\ c.node \in Nat
          /\ AsFound(c) /\ Busy(c)
      BY <2>1, <3>1 DEF JobOK, Job, TreeOK, Writing, Busy
    <3>3. tree[c.source][c.node] = c.was[c.source][c.node] \/ Twice(c)
      BY <3>1, <3>2 DEF AsFound
    <3>4. Nowhere[c.source][c.node] = "absent"
      BY <3>2 DEF Nowhere
    <3> QED BY <3>1, <3>3, <3>4 DEF Is
  <2> QED BY <2>2, <2>3, <2>4 DEF Twice
<1>2. Core /\ [Next]_vars => [\A p \in Processes : ~job[p].faulty => Cause(p)]_vars
  BY <1>1
<1> QED BY <1>2, CoreHolds, PTL DEF Spec, FailureHasACause
=============================================================================
