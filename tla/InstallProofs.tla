--------------------------- MODULE InstallProofs ---------------------------
(* What holds of Install for every closure, cache and request. *)
EXTENDS InstallInvariant, SequenceTheorems, TLAPS

-----------------------------------------------------------------------------
(* Lemmas about the operators the threads are built from *)

\* There is always a substituter to ask, the first among them.
LEMMA SubsType ==
  /\ Subs \in Seq(Caches) /\ Len(Subs) \in Nat \ {0} /\ 1 \in DOMAIN Subs
  /\ DOMAIN Subs = 1 .. Len(Subs)
<1>1. Subs \in Seq(Caches)
  BY CacheAssumption DEF Subs
<1>2. Subs # << >>
  BY DEF Subs
<1> QED BY <1>1, <1>2

\* A NAR has a first node.
LEMMA NarType ==
  ASSUME NEW p \in Paths
  PROVE  /\ Nar[p] \in Seq(Kinds) /\ Len(Nar[p]) \in Nat \ {0}
         /\ DOMAIN Nar[p] = 1 .. Len(Nar[p]) /\ 1 \in DOMAIN Nar[p]
         /\ Nar[p][1] # "directory" => Len(Nar[p]) = 1
BY PathsAssumption

\* A thread starts as a thread.
LEMMA NewThreadType ==
  ASSUME NEW root \in Paths \cup {Malformed}
  PROVE  ThreadOK(NewThread(root))
BY SubsType, NarType, PathsAssumption DEF NewThread, ThreadOK, Thread, Pcs, Errors, Blobs

\* fetch_with_fallback starts over, or gives up, with a well formed thread.
LEMMA AfterErrorType ==
  ASSUME NEW r, ThreadOK(r), r.pc # "done", NEW e \in Errors
  PROVE  ThreadOK(AfterError(r, e))
<1>1. r \in Thread /\ r.cur \in Paths /\ r.root \in Paths /\ 1 \in DOMAIN Nar[r.cur]
  BY NarType DEF ThreadOK
<1>2. CASE IsCacheMiss(e) /\ r.sub < Len(Subs)
  <2> DEFINE q    == <<r.root>>
             next == r.sub + 1
             one  == 1
  <2>1. AfterError(r, e) = [r EXCEPT !.pc = "visit", !.sub = next, !.visited = {},
                              !.pending = q, !.node = one, !.blob = NoBlob]
    BY <1>2 DEF AfterError
  <2>2. next \in DOMAIN Subs /\ q \in Seq(Paths) /\ one \in Nat \ {0}
    BY <1>1, <1>2, SubsType DEF Thread
  <2>3. one = 1
    OBVIOUS
  <2> HIDE DEF q, next, one
  <2>4. AfterError(r, e) \in Thread
    BY <1>1, <2>1, <2>2 DEF Thread, Pcs
  <2> QED BY <1>1, <2>1, <2>3, <2>4 DEF ThreadOK, Thread
<1>3. CASE ~(IsCacheMiss(e) /\ r.sub < Len(Subs))
  <2>1. AfterError(r, e) = [r EXCEPT !.pc = "done", !.err = e]
    BY <1>3 DEF AfterError
  <2> QED BY <1>1, <2>1 DEF ThreadOK, Thread, Pcs
<1> QED BY <1>2, <1>3

\* Going on to the references keeps the thread well formed.
LEMMA DescendType ==
  ASSUME NEW r, ThreadOK(r), r.pc # "done"
  PROVE  ThreadOK(Descend(r))
<1>1. r \in Thread /\ r.cur \in Paths /\ r.root \in Paths /\ 1 \in DOMAIN Nar[r.cur]
  BY NarType DEF ThreadOK
<1> DEFINE q   == References[r.cur] \o r.pending
           one == 1
<1>2. q \in Seq(Paths)
  BY <1>1, PathsAssumption DEF Thread
<1>3. Descend(r) = [r EXCEPT !.pc = "visit", !.pending = q, !.node = one, !.blob = NoBlob]
  BY DEF Descend
<1>5. one = 1
  OBVIOUS
<1>6. one \in Nat \ {0}
  OBVIOUS
<1> HIDE DEF q, one
<1>4. Descend(r) \in Thread
  BY <1>1, <1>2, <1>3, <1>6 DEF Thread, Pcs
<1> QED BY <1>1, <1>3, <1>4, <1>5 DEF ThreadOK, Thread

\* So does going on to the next node: the index stays within the NAR.
LEMMA NextNodeType ==
  ASSUME NEW r, ThreadOK(r), r.pc \in Extracting
  PROVE  ThreadOK(NextNode(r))
<1>1. r \in Thread /\ r.cur \in Paths /\ r.root \in Paths /\ r.node \in DOMAIN Nar[r.cur]
  BY DEF ThreadOK, Extracting
<1>2. CASE r.node < Len(Nar[r.cur])
  <2>1. NextNode(r) = [r EXCEPT !.pc = "extract", !.node = r.node + 1]
    BY <1>2 DEF NextNode
  <2>2. r.node + 1 \in DOMAIN Nar[r.cur] /\ r.node + 1 \in Nat \ {0}
    BY <1>1, <1>2, NarType
  <2>3. NextNode(r) \in Thread
    BY <1>1, <2>1, <2>2 DEF Thread, Pcs
  <2> QED BY <1>1, <2>1, <2>2, <2>3 DEF ThreadOK, Thread
<1>3. CASE ~(r.node < Len(Nar[r.cur]))
  BY <1>3, DescendType DEF NextNode, Extracting
<1> QED BY <1>2, <1>3

\* Any step between the two ends of a fetch keeps the type.
LEMMA GotoType ==
  ASSUME NEW r, ThreadOK(r), r.pc # "done", NEW pc \in Pcs \ Extracting
  PROVE  ThreadOK([r EXCEPT !.pc = pc])
BY DEF ThreadOK, Thread, Extracting

\* What is read, from the CAS or the network, is a blob.
LEMMA BlobType ==
  ASSUME NEW r, ThreadOK(r), r.pc # "done", NEW b \in Blobs
  PROVE  ThreadOK([r EXCEPT !.pc = "verify", !.blob = b])
BY DEF ThreadOK, Thread, Pcs

\* Taking the next path off the list keeps the type.
LEMMA VisitType ==
  ASSUME NEW r, ThreadOK(r), r.pc # "done", r.pending # << >>
  PROVE  /\ ThreadOK([r EXCEPT !.pending = Tail(@)])
         /\ ThreadOK([r EXCEPT !.pending = Tail(@), !.pc = "narinfo", !.cur = Head(r.pending),
                               !.visited = @ \cup {Head(r.pending)}])
<1> DEFINE q == Tail(r.pending)
           p == Head(r.pending)
           v == r.visited \cup {p}
<1>1. r \in Thread /\ r.cur \in Paths /\ r.root \in Paths
  BY DEF ThreadOK
<1>2. q \in Seq(Paths) /\ p \in Paths /\ v \in SUBSET Paths
  BY <1>1 DEF Thread
<1> HIDE DEF q, p, v
<1>3. ThreadOK([r EXCEPT !.pending = q])
  BY <1>1, <1>2 DEF ThreadOK, Thread
<1>4. [r EXCEPT !.pending = q, !.pc = "narinfo", !.cur = p, !.visited = v] \in Thread
  BY <1>1, <1>2 DEF Thread, Pcs
<1>5. ThreadOK([r EXCEPT !.pending = q, !.pc = "narinfo", !.cur = p, !.visited = v])
  BY <1>1, <1>2, <1>4 DEF ThreadOK, Thread
<1> QED BY <1>3, <1>5 DEF q, p, v

\* An extraction starts at the first node of the NAR.
LEMMA ExtractType ==
  ASSUME NEW r, ThreadOK(r), r.pc # "done"
  PROVE  ThreadOK([r EXCEPT !.pc = "extract", !.node = 1])
<1> DEFINE one == 1
<1>1. one \in Nat \ {0} /\ (r.cur \in Paths => one \in DOMAIN Nar[r.cur])
  BY NarType
<1> HIDE DEF one
<1>2. ThreadOK([r EXCEPT !.pc = "extract", !.node = one])
  BY <1>1 DEF ThreadOK, Thread, Pcs
<1> QED BY <1>2 DEF one

\* To go from creating a file to writing it keeps the node.
LEMMA WritingType ==
  ASSUME NEW r, ThreadOK(r), r.pc = "extract"
  PROVE  ThreadOK([r EXCEPT !.pc = "write"])
BY DEF ThreadOK, Thread, Pcs

\* What Step says of the threads.
LEMMA StepFrame ==
  ASSUME NEW t \in DOMAIN th, NEW r, Step(t, r)
  PROVE  /\ DOMAIN th' = DOMAIN th /\ th'[t] = r
         /\ \A u \in DOMAIN th \ {t} : th'[u] = th[u]
         /\ UNCHANGED <<phase, result, runs, damaged>>
BY DEF Step

\* A step that only replaces one thread keeps the type of the rest.
LEMMA StepType ==
  ASSUME TypeOK, NEW t \in DOMAIN th, NEW r, ThreadOK(r), Step(t, r)
  PROVE  \A u \in DOMAIN th' : ThreadOK(th'[u])
BY StepFrame DEF TypeOK

\* Writing one node keeps the type of the tree.
LEMMA WriteType ==
  ASSUME TypeOK, NEW t \in DOMAIN th, th[t].pc \in Extracting, NEW s \in NodeStates, Write(t, s)
  PROVE  /\ DOMAIN disk' = Paths
         /\ \A p \in Paths : disk'[p] \in [DOMAIN Nar[p] -> NodeStates]
         /\ disk'[th[t].cur][th[t].node] = s
         /\ \A p \in Paths : \A k \in DOMAIN Nar[p] :
              ~(p = th[t].cur /\ k = th[t].node) => disk'[p][k] = disk[p][k]
<1>1. th[t].cur \in Paths /\ th[t].node \in DOMAIN Nar[th[t].cur]
  BY DEF TypeOK, ThreadOK, Extracting
<1>2. disk' = [disk EXCEPT ![th[t].cur] = [disk[th[t].cur] EXCEPT ![th[t].node] = s]]
  BY DEF Write, Cur
<1> QED BY <1>1, <1>2 DEF TypeOK

-----------------------------------------------------------------------------
(* Type correctness *)

\* What a step of a thread has to preserve for TypeOK to survive.
LEMMA StepKeepsType ==
  ASSUME TypeOK, NEW t \in DOMAIN th, NEW r, ThreadOK(r), Step(t, r),
         NoFault \/ Fault,
         DOMAIN disk' = Paths,
         \A p \in Paths : disk'[p] \in [DOMAIN Nar[p] -> NodeStates],
         cas' \in [Blobs -> Blobs \cup {NoBlob}]
  PROVE  TypeOK'
<1>1. \A u \in DOMAIN th' : ThreadOK(th'[u])
  BY StepType
<1>2. UNCHANGED <<phase, result, runs, damaged>>
  BY DEF Step
<1>3. faults' \in Nat
  BY DEF TypeOK, NoFault, Fault
<1>4. faulty' \in BOOLEAN
  BY Zenon DEF TypeOK, NoFault, Fault
<1> QED BY <1>1, <1>2, <1>3, <1>4 DEF TypeOK

\* Every step of a thread preserves TypeOK.
LEMMA ThreadStepType ==
  ASSUME TypeOK, NEW t, ThreadStep(t)
  PROVE  TypeOK'
<1> DEFINE r == th[t]
<1>1. t \in DOMAIN th /\ ThreadOK(r) /\ r.pc # "done" /\ r.cur \in Paths
  BY DEF TypeOK, ThreadStep, At, Visit, Finish, FetchNarInfo, CheckExists, LookupCas, Download,
         Verify, MakeDirectory, CreateFile, WriteFile, MakeSymlink, DiskError, ThreadOK
<1>2. /\ DOMAIN disk = Paths /\ \A p \in Paths : disk[p] \in [DOMAIN Nar[p] -> NodeStates]
      /\ cas \in [Blobs -> Blobs \cup {NoBlob}]
  BY DEF TypeOK
<1>3. Cache(t) \in Caches /\ FileHash(Cache(t), Cur(t)) \in Blobs
  BY <1>1, SubsType DEF ThreadOK, Thread, Cache, Cur, FileHash, Blobs
<1>4. \A e \in Errors : ThreadOK(AfterError(r, e))
  BY <1>1, AfterErrorType
<1>5. \A pc \in Pcs \ Extracting : ThreadOK([r EXCEPT !.pc = pc])
  BY <1>1, GotoType
<1>6. \A b \in Blobs : ThreadOK([r EXCEPT !.pc = "verify", !.blob = b])
  BY <1>1, BlobType
<1>7. ThreadOK(Descend(r))
  BY <1>1, DescendType
<1>8. \A s \in NodeStates : Write(t, s) /\ r.pc \in Extracting =>
        /\ DOMAIN disk' = Paths
        /\ \A p \in Paths : disk'[p] \in [DOMAIN Nar[p] -> NodeStates]
  BY <1>1, WriteType
<1>9. /\ {"notFound", "transport", "failed", "exists"} \subseteq Errors
      /\ {"done", "check", "lookup", "download"} \subseteq Pcs \ Extracting
      /\ {"empty", "full"} \subseteq NodeStates
  BY DEF Errors, Pcs, Extracting, NodeStates
<1> HIDE DEF r
<1>v. CASE Visit(t)
  <2>1. r.pending # << >>
    BY <1>v DEF Visit, r
  <2>2. CASE Step(t, [r EXCEPT !.pending = Tail(@)])
    BY <1>1, <1>2, <1>v, <2>1, <2>2, VisitType, StepKeepsType DEF Visit
  <2>3. CASE Step(t, [r EXCEPT !.pending = Tail(@), !.pc = "narinfo", !.cur = Head(r.pending),
                               !.visited = @ \cup {Head(r.pending)}])
    BY <1>1, <1>2, <1>v, <2>1, <2>3, VisitType, StepKeepsType DEF Visit
  <2> QED BY <1>v, <2>2, <2>3 DEF Visit, r
<1>f. CASE Finish(t)
  BY <1>1, <1>2, <1>5, <1>9, <1>f, StepKeepsType DEF Finish, Goto, r
<1>n. CASE FetchNarInfo(t)
  BY <1>1, <1>2, <1>4, <1>5, <1>9, <1>n, StepKeepsType DEF FetchNarInfo, Goto, Fail, r
<1>c. CASE CheckExists(t)
  BY <1>1, <1>2, <1>5, <1>7, <1>9, <1>c, StepKeepsType DEF CheckExists, Goto, r
<1>l. CASE LookupCas(t)
  <2>1. CASE Goto(t, "download")
    BY <1>1, <1>2, <1>5, <1>9, <1>l, <2>1, StepKeepsType DEF LookupCas, Goto, r
  <2>2. CASE /\ cas[FileHash(Cache(t), Cur(t))] # NoBlob
             /\ Step(t, [th[t] EXCEPT !.pc = "verify", !.blob = cas[FileHash(Cache(t), Cur(t))]])
    <3>1. cas[FileHash(Cache(t), Cur(t))] \in Blobs
      BY <1>2, <1>3, <2>2
    <3> QED BY <1>1, <1>2, <1>6, <1>l, <2>2, <3>1, StepKeepsType DEF LookupCas, r
  <2> QED BY <1>l, <2>1, <2>2 DEF LookupCas
<1>d. CASE Download(t)
  <2>1. \A b \in Blobs : Received(t, b) => cas' \in [Blobs -> Blobs \cup {NoBlob}]
    BY <1>2 DEF Received, PutKey
  <2>2. Garbage \in Blobs
    BY DEF Blobs
  <2>3. \A b \in Blobs : Received(t, b) /\ (NoFault \/ Fault) => TypeOK'
    BY <1>1, <1>2, <1>6, <1>d, <2>1, StepKeepsType DEF Download, Received, r
  <2>4. \A e \in Errors : Fail(t, e) /\ Fault /\ UNCHANGED cas => TypeOK'
    BY <1>1, <1>2, <1>4, <1>d, StepKeepsType DEF Download, Fail, r
  <2> QED BY <1>3, <1>9, <1>d, <2>2, <2>3, <2>4 DEF Download
<1>y. CASE Verify(t)
  <2>1. ThreadOK([r EXCEPT !.pc = "extract", !.node = 1])
    BY <1>1, ExtractType
  <2> QED BY <1>1, <1>2, <1>4, <1>9, <1>y, <2>1, StepKeepsType DEF Verify, Fail, r
<1>m. CASE MakeDirectory(t)
  <2>1. r.pc \in Extracting /\ ThreadOK(NextNode(r))
    BY <1>1, <1>m, NextNodeType DEF MakeDirectory, At, Extracting, r
  <2> QED BY <1>1, <1>2, <1>8, <1>9, <1>m, <2>1, StepKeepsType DEF MakeDirectory, r
<1>o. CASE CreateFile(t)
  <2>1. r.pc = "extract" /\ r.pc \in Extracting
    BY <1>o DEF CreateFile, At, Extracting, r
  <2>2. ThreadOK([r EXCEPT !.pc = "write"])
    BY <1>1, <2>1, WritingType
  <2> QED BY <1>1, <1>2, <1>8, <1>9, <1>o, <2>1, <2>2, StepKeepsType DEF CreateFile, Goto, r
<1>w. CASE WriteFile(t)
  <2>1. r.pc \in Extracting /\ ThreadOK(NextNode(r))
    BY <1>1, <1>w, NextNodeType DEF WriteFile, At, Extracting, r
  <2> QED BY <1>1, <1>2, <1>8, <1>9, <1>w, <2>1, StepKeepsType DEF WriteFile, r
<1>s. CASE MakeSymlink(t)
  <2>1. r.pc \in Extracting /\ ThreadOK(NextNode(r))
    BY <1>1, <1>s, NextNodeType DEF MakeSymlink, At, Extracting, r
  <2> QED BY <1>1, <1>2, <1>4, <1>8, <1>9, <1>s, <2>1, StepKeepsType DEF MakeSymlink, Fail, r
<1>e. CASE DiskError(t)
  BY <1>1, <1>2, <1>4, <1>9, <1>e, StepKeepsType DEF DiskError, Fail, r
<1> QED BY <1>v, <1>f, <1>n, <1>c, <1>l, <1>d, <1>y, <1>m, <1>o, <1>w, <1>s, <1>e DEF ThreadStep

\* TypeOK holds at first.
LEMMA InitType == Init => TypeOK
<1> SUFFICES ASSUME Init PROVE TypeOK
  OBVIOUS
<1>1. DOMAIN th = {}
  BY DEF Init
<1>2. cas \in [Blobs -> Blobs \cup {NoBlob}]
  BY DEF Init
<1>3. DOMAIN disk = Paths /\ \A p \in Paths : disk[p] \in [DOMAIN Nar[p] -> NodeStates]
  BY DEF Init, NodeStates
<1>4. faulty \in BOOLEAN /\ damaged \subseteq Paths
  BY Zenon DEF Init
<1> QED BY <1>1, <1>2, <1>3, <1>4 DEF Init, TypeOK, Results

\* The command starts with well formed threads.
LEMMA StartType ==
  ASSUME TypeOK, NEW request \in Requests, Start(request)
  PROVE  TypeOK'
<1>f. faulty' \in BOOLEAN
  BY Zenon DEF Start
<1>r. runs' \in Nat
  BY DEF Start, TypeOK
<1>1. CASE th' = << >> /\ phase' = phase /\ result' \in {"packageNotFound", "ok"}
  <2>1. DOMAIN th' = {}
    BY <1>1
  <2> QED BY <1>1, <1>f, <1>r, <2>1 DEF Start, TypeOK, Results
<1>2. CASE /\ ~Unknown(request) /\ result' = "none" /\ phase' = "fetching"
           /\ th' = [i \in DOMAIN request |-> NewThread(Manifest[request[i]])]
  <2>1. \A i \in DOMAIN request : ThreadOK(NewThread(Manifest[request[i]]))
    BY <1>2, CommandAssumption, NewThreadType DEF Unknown
  <2>2. DOMAIN th' = DOMAIN request /\ \A i \in DOMAIN request : ThreadOK(th'[i])
    BY <1>2, <2>1
  <2> QED BY <1>2, <1>f, <1>r, <2>2 DEF Start, TypeOK, Results
<1> QED BY <1>1, <1>2 DEF Start

\* TypeOK is inductive by itself.
LEMMA NextType == TypeOK /\ [Next]_vars => TypeOK'
<1> SUFFICES ASSUME TypeOK, [Next]_vars PROVE TypeOK'
  OBVIOUS
<1>1. ASSUME NEW request \in Requests, Start(request) PROVE TypeOK'
  BY <1>1, StartType
<1>2. CASE Join
  <2>1. result' \in Results /\ damaged' \subseteq Paths
    BY <1>2 DEF Join, Report, Results, Partial, TypeOK
  <2> QED BY <1>2, <2>1 DEF Join, TypeOK
<1>3. CASE Crash
  <2>1. result' \in Results /\ damaged' \subseteq Paths
    BY <1>3 DEF Crash, Results, Partial, TypeOK
  <2> QED BY <1>3, <2>1 DEF Crash, TypeOK
<1>4. ASSUME NEW t \in ThreadIds, ThreadStep(t) PROVE TypeOK'
  BY <1>4, ThreadStepType
<1>5. CASE UNCHANGED vars
  BY <1>5 DEF vars, TypeOK
<1> QED BY <1>1, <1>2, <1>3, <1>4, <1>5 DEF Next

\* Every variable keeps its type, for every closure, every layout of NARs,
\* every list of caches and any number of threads.
THEOREM TypeCorrect == Spec => []TypeOK
BY InitType, NextType, PTL DEF Spec

-----------------------------------------------------------------------------
(* Sequences as sets *)

\* The empty list has no elements.
LEMMA RangeOfEmpty == Range(<< >>) = {}
BY DEF Range

\* A list of one.
LEMMA RangeOfOne == ASSUME NEW x PROVE Range(<<x>>) = {x}
BY DEF Range

\* Taking the head off a list loses no other element.
LEMMA RangeOfTail ==
  ASSUME NEW S, NEW s \in Seq(S), s # << >>
  PROVE  Range(s) = {Head(s)} \cup Range(Tail(s))
<1>1. /\ Tail(s) \in Seq(S) /\ Len(Tail(s)) = Len(s) - 1 /\ Len(s) \in Nat \ {0}
      /\ \A i \in 1 .. Len(Tail(s)) : Tail(s)[i] = s[i + 1]
  BY HeadTailProperties
<1>2. Range(s) = {s[i] : i \in 1 .. Len(s)} /\ Range(Tail(s)) = {Tail(s)[i] : i \in 1 .. Len(Tail(s))}
  BY <1>1, RangeEquality
<1>3. Head(s) = s[1]
  OBVIOUS
<1>4. ASSUME NEW i \in 1 .. Len(s) PROVE s[i] \in {Head(s)} \cup Range(Tail(s))
  <2>1. CASE i = 1
    BY <1>3, <2>1
  <2>2. CASE i # 1
    <3>1. i - 1 \in 1 .. Len(Tail(s)) /\ (i - 1) + 1 = i
      BY <1>1, <2>2
    <3>2. Tail(s)[i - 1] = s[i]
      BY <1>1, <3>1
    <3> QED BY <1>2, <3>1, <3>2
  <2> QED BY <2>1, <2>2
<1>5. ASSUME NEW i \in 1 .. Len(Tail(s)) PROVE Tail(s)[i] \in Range(s)
  BY <1>1, <1>2
<1>6. Head(s) \in Range(s)
  BY <1>1, <1>2, <1>3
<1> QED BY <1>2, <1>4, <1>5, <1>6

-----------------------------------------------------------------------------
(* What a step of a thread does to its record and to the tree *)

\* After an error a thread starts over or is done, and it writes nothing.
LEMMA AfterErrorFacts ==
  ASSUME NEW r, ThreadOK(r), NEW e \in Errors
  PROVE  /\ AfterError(r, e).cur = r.cur /\ AfterError(r, e).root = r.root
         /\ \/ /\ IsCacheMiss(e)
               /\ AfterError(r, e).pc = "visit" /\ AfterError(r, e).err = r.err
               /\ AfterError(r, e).visited = {} /\ AfterError(r, e).pending = <<r.root>>
            \/ AfterError(r, e).pc = "done" /\ AfterError(r, e).err = e
<1>1. r \in Thread
  BY DEF ThreadOK
<1>2. CASE IsCacheMiss(e) /\ r.sub < Len(Subs)
  <2>1. AfterError(r, e) = [r EXCEPT !.pc = "visit", !.sub = r.sub + 1, !.visited = {},
                              !.pending = <<r.root>>, !.node = 1, !.blob = NoBlob]
    BY <1>2 DEF AfterError
  <2> QED BY <1>1, <1>2, <2>1 DEF Thread
<1>3. CASE ~(IsCacheMiss(e) /\ r.sub < Len(Subs))
  <2>1. AfterError(r, e) = [r EXCEPT !.pc = "done", !.err = e]
    BY <1>3 DEF AfterError
  <2> QED BY <1>1, <2>1 DEF Thread
<1> QED BY <1>2, <1>3

\* Descend's fields, spelled out.
LEMMA DescendFacts ==
  ASSUME NEW r, ThreadOK(r)
  PROVE  /\ Descend(r).pc = "visit" /\ Descend(r).err = r.err
         /\ Descend(r).root = r.root /\ Descend(r).cur = r.cur
         /\ Descend(r).visited = r.visited /\ Descend(r).pending = References[r.cur] \o r.pending
BY DEF Descend, ThreadOK, Thread

\* NextNode's fields, spelled out.
LEMMA NextNodeFacts ==
  ASSUME NEW r, ThreadOK(r), r.pc \in Extracting
  PROVE  \/ /\ r.node + 1 \in DOMAIN Nar[r.cur]
            /\ NextNode(r).pc = "extract" /\ NextNode(r).node = r.node + 1
            /\ NextNode(r).err = r.err /\ NextNode(r).root = r.root /\ NextNode(r).cur = r.cur
            /\ NextNode(r).visited = r.visited /\ NextNode(r).pending = r.pending
         \/ r.node = Len(Nar[r.cur]) /\ NextNode(r) = Descend(r)
<1>1. r \in Thread /\ r.cur \in Paths /\ r.node \in DOMAIN Nar[r.cur]
  BY DEF ThreadOK, Extracting
<1>2. CASE r.node < Len(Nar[r.cur])
  <2>1. NextNode(r) = [r EXCEPT !.pc = "extract", !.node = r.node + 1]
    BY <1>2 DEF NextNode
  <2>2. r.node + 1 \in DOMAIN Nar[r.cur]
    BY <1>1, <1>2, NarType
  <2> QED BY <1>1, <2>1, <2>2 DEF Thread
<1>3. CASE ~(r.node < Len(Nar[r.cur]))
  BY <1>1, <1>3, NarType DEF NextNode
<1> QED BY <1>2, <1>3

\* A step that leaves the tree alone, and does not end an extraction.
Quiet(t) ==
  /\ UNCHANGED disk
  /\ th[t].pc \notin Extracting
  /\ th'[t].pc \in Extracting =>
       /\ th[t].pc = "verify" /\ th'[t].pc = "extract"
       /\ th'[t].node = 1 /\ th'[t].cur = th[t].cur

\* A step that breaks an extraction off.
Failing(t) ==
  /\ UNCHANGED disk
  /\ th[t].pc \in Extracting /\ th'[t].pc = "done" /\ th'[t].err # "none"

\* A step that creates a file, or completes a node and goes on.
Creating(t) ==
  /\ th[t].pc = "extract" /\ Nar[th[t].cur][th[t].node] = "regular"
  /\ Write(t, "empty") /\ th'[t] = [th[t] EXCEPT !.pc = "write"]

Completing(t) ==
  /\ th[t].pc \in Extracting
  /\ Write(t, "full") /\ th'[t] = NextNode(th[t])

\* What all steps of a thread have in common, and the four kinds there are.
LEMMA ThreadStepShape ==
  ASSUME TypeOK, NEW t, ThreadStep(t)
  PROVE  /\ phase = "fetching" /\ t \in DOMAIN th /\ ThreadOK(th[t]) /\ th[t].pc # "done"
         /\ DOMAIN th' = DOMAIN th /\ \A u \in DOMAIN th \ {t} : th'[u] = th[u]
         /\ UNCHANGED <<phase, result, runs, damaged>>
         /\ th[t].err # "none" => th'[t].err # "none"
         /\ th'[t].pc \in Missing =>
              /\ th'[t].cur = th[t].cur
              /\ th[t].pc \in Missing \/ ~Exists(th[t].cur)
         /\ Quiet(t) \/ Failing(t) \/ Creating(t) \/ Completing(t)
<1>1. phase = "fetching" /\ t \in DOMAIN th /\ ThreadOK(th[t]) /\ th[t].pc # "done"
  BY DEF TypeOK, ThreadStep, At, Visit, Finish, FetchNarInfo, CheckExists, LookupCas, Download,
         Verify, MakeDirectory, CreateFile, WriteFile, MakeSymlink, DiskError
<1>2. \A r : Step(t, r) =>
        /\ DOMAIN th' = DOMAIN th /\ th'[t] = r /\ \A u \in DOMAIN th \ {t} : th'[u] = th[u]
        /\ UNCHANGED <<phase, result, runs, damaged>>
  BY <1>1, StepFrame
<1> DEFINE r == th[t]
<1>3. \A e \in Errors :
        /\ AfterError(r, e).cur = r.cur
        /\ AfterError(r, e).pc \in {"visit", "done"}
        /\ AfterError(r, e).err \in {r.err, e}
        /\ ~IsCacheMiss(e) => AfterError(r, e).pc = "done" /\ AfterError(r, e).err = e
  BY <1>1, AfterErrorFacts
<1>4. Descend(r).pc = "visit" /\ Descend(r).err = r.err /\ Descend(r).cur = r.cur
  BY <1>1, DescendFacts
<1>5. r \in Thread
  BY <1>1 DEF ThreadOK
<1>6. /\ {"notFound", "transport", "failed", "exists"} \subseteq Errors /\ "none" \notin Errors
      /\ ~IsCacheMiss("failed") /\ ~IsCacheMiss("exists")
  BY DEF Errors, IsCacheMiss
<1>7. r.pc \in Extracting =>
        /\ NextNode(r).pc \in {"extract", "visit"} /\ NextNode(r).err = r.err
        /\ NextNode(r).cur = r.cur
  BY <1>1, <1>4, NextNodeFacts
<1>8. \A b : LET q == [r EXCEPT !.pc = "verify", !.blob = b]
            IN  q.pc = "verify" /\ q.err = r.err /\ q.cur = r.cur
  BY <1>5 DEF Thread
<1>9. LET q == [r EXCEPT !.pc = "extract", !.node = 1]
      IN  q.pc = "extract" /\ q.err = r.err /\ q.cur = r.cur /\ q.node = 1
  BY <1>5 DEF Thread
<1>10. LET q == [r EXCEPT !.pending = Tail(@), !.pc = "narinfo", !.cur = Head(r.pending),
                          !.visited = @ \cup {Head(r.pending)}]
       IN  q.pc = "narinfo" /\ q.err = r.err
  BY <1>5 DEF Thread
<1> HIDE DEF r
<1>v. CASE Visit(t)
  <2>1. CASE Step(t, [r EXCEPT !.pending = Tail(@)]) /\ r.pc = "visit"
    BY <1>1, <1>2, <1>5, <1>v, <2>1 DEF Visit, Quiet, Extracting, Missing, Thread, r
  <2>2. CASE /\ r.pc = "visit"
             /\ Step(t, [r EXCEPT !.pending = Tail(@), !.pc = "narinfo", !.cur = Head(r.pending),
                                  !.visited = @ \cup {Head(r.pending)}])
    BY <1>1, <1>2, <1>10, <1>v, <2>2 DEF Visit, Quiet, Extracting, Missing, r
  <2> QED BY <1>v, <2>1, <2>2 DEF Visit, At, r
<1>f. CASE Finish(t)
  BY <1>1, <1>2, <1>5, <1>f DEF Finish, Goto, At, Quiet, Extracting, Missing, Thread, r
<1>n. CASE FetchNarInfo(t)
  <2>1. ASSUME NEW e \in Errors, Fail(t, e) PROVE Quiet(t) /\ (th[t].err # "none" => th'[t].err # "none")
                                                /\ th'[t].pc \notin Missing
    BY <1>2, <1>3, <1>6, <1>n, <2>1 DEF FetchNarInfo, Fail, At, Quiet, Extracting, Missing, r
  <2>2. CASE Goto(t, "check")
    BY <1>1, <1>2, <1>5, <1>n, <2>2 DEF FetchNarInfo, Goto, At, Quiet, Extracting, Missing, Thread, r
  <2>3. CASE \E e \in Errors : Fail(t, e)
    BY <1>1, <1>2, <2>1, <2>3 DEF Fail
  <2> QED BY <1>6, <1>n, <2>2, <2>3 DEF FetchNarInfo
<1>c. CASE CheckExists(t)
  BY <1>1, <1>2, <1>4, <1>5, <1>c DEF CheckExists, Goto, At, Cur, Quiet, Extracting, Missing, Thread, r
<1>l. CASE LookupCas(t)
  <2>1. CASE Goto(t, "download")
    BY <1>1, <1>2, <1>5, <1>l, <2>1 DEF LookupCas, Goto, At, Quiet, Extracting, Missing, Thread, r
  <2>2. CASE \E b : Step(t, [r EXCEPT !.pc = "verify", !.blob = b])
    <3> PICK b : Step(t, [r EXCEPT !.pc = "verify", !.blob = b])
      BY <2>2
    <3>1. th'[t] = [r EXCEPT !.pc = "verify", !.blob = b]
      BY <1>2
    <3>2. th'[t].pc = "verify" /\ th'[t].err = r.err /\ th'[t].cur = r.cur
      BY <1>8, <3>1
    <3> QED BY <1>1, <1>2, <1>l, <2>2, <3>2 DEF LookupCas, At, Quiet, Extracting, Missing, r
  <2> QED BY <1>l, <2>1, <2>2 DEF LookupCas, r
<1>d. CASE Download(t)
  <2>1. ASSUME NEW e \in Errors, Fail(t, e) PROVE Quiet(t) /\ (th[t].err # "none" => th'[t].err # "none")
                                                /\ th'[t].pc \notin Missing
    BY <1>2, <1>3, <1>6, <1>d, <2>1 DEF Download, Fail, At, Quiet, Extracting, Missing, r
  <2>2. CASE \E b : Received(t, b)
    <3>1. th'[t].pc = "verify" /\ th'[t].err = r.err /\ th'[t].cur = r.cur
      BY <1>2, <1>8, <2>2 DEF Received, r
    <3> QED BY <1>1, <1>2, <1>d, <2>2, <3>1 DEF Download, Received, At, Quiet, Extracting, Missing, r
  <2>3. CASE \E e \in Errors : Fail(t, e)
    BY <1>1, <1>2, <2>1, <2>3 DEF Fail
  <2> QED BY <1>6, <1>d, <2>2, <2>3 DEF Download
<1>y. CASE Verify(t)
  <2>1. CASE Step(t, [r EXCEPT !.pc = "extract", !.node = 1])
    BY <1>1, <1>2, <1>9, <1>y, <2>1 DEF Verify, At, Quiet, Extracting, Missing, r
  <2>2. CASE Fail(t, "failed")
    BY <1>1, <1>2, <1>3, <1>6, <1>y, <2>2 DEF Verify, Fail, At, Quiet, Extracting, Missing, r
  <2> QED BY <1>y, <2>1, <2>2 DEF Verify, r
<1>m. CASE MakeDirectory(t)
  BY <1>1, <1>2, <1>7, <1>m DEF MakeDirectory, At, Completing, Extracting, Missing, r
<1>o. CASE CreateFile(t)
  BY <1>1, <1>2, <1>5, <1>o DEF CreateFile, Goto, At, Node, Cur, Creating, Extracting, Missing, Thread, r
<1>w. CASE WriteFile(t)
  BY <1>1, <1>2, <1>7, <1>w DEF WriteFile, At, Completing, Extracting, Missing, r
<1>s. CASE MakeSymlink(t)
  <2>1. CASE Write(t, "full") /\ Step(t, NextNode(th[t]))
    BY <1>1, <1>2, <1>7, <1>s, <2>1 DEF MakeSymlink, At, Completing, Extracting, Missing, r
  <2>2. CASE Fail(t, "exists") /\ UNCHANGED disk
    BY <1>1, <1>2, <1>3, <1>6, <1>s, <2>2 DEF MakeSymlink, Fail, At, Failing, Extracting, Missing, r
  <2> QED BY <1>s, <2>1, <2>2 DEF MakeSymlink
<1>e. CASE DiskError(t)
  BY <1>1, <1>2, <1>3, <1>6, <1>e DEF DiskError, Fail, At, Failing, Extracting, Missing, r
<1> QED BY <1>v, <1>f, <1>n, <1>c, <1>l, <1>d, <1>y, <1>m, <1>o, <1>w, <1>s, <1>e DEF ThreadStep

\* The tree only grows, and only where the thread is.
LEMMA DiskStep ==
  ASSUME TypeOK, NEW t, ThreadStep(t)
  PROVE  /\ th[t].pc \in Extracting => th[t].cur \in Paths /\ th[t].node \in DOMAIN Nar[th[t].cur]
         /\ \A p \in Paths : \A k \in DOMAIN Nar[p] :
              /\ disk'[p][k] = "absent" => disk[p][k] = "absent"
              /\ ~(th[t].pc \in Extracting /\ p = th[t].cur /\ k = th[t].node) =>
                   disk'[p][k] = disk[p][k]
              /\ Creating(t) /\ p = th[t].cur /\ k = th[t].node => disk'[p][k] = "empty"
              /\ Completing(t) /\ p = th[t].cur /\ k = th[t].node => disk'[p][k] = "full"
<1>1. t \in DOMAIN th /\ ThreadOK(th[t])
  BY ThreadStepShape
<1>2. th[t].pc \in Extracting => th[t].cur \in Paths /\ th[t].node \in DOMAIN Nar[th[t].cur]
  BY <1>1 DEF ThreadOK, Extracting
<1>3. CASE UNCHANGED disk /\ ~Creating(t) /\ ~Completing(t)
  BY <1>2, <1>3
<1>4. CASE Creating(t)
  <2>1. Write(t, "empty") /\ "empty" \in NodeStates /\ th[t].pc \in Extracting /\ ~Completing(t)
    <3>1. Write(t, "empty") /\ "empty" \in NodeStates /\ th[t].pc \in Extracting
      BY <1>4 DEF Creating, NodeStates, Extracting
    <3>2. ~Completing(t)
      <4>1. disk'[th[t].cur][th[t].node] = "empty"
        BY <1>1, <3>1, WriteType
      <4>2. Write(t, "full") => disk'[th[t].cur][th[t].node] = "full"
        BY <1>1, <3>1, WriteType DEF NodeStates
      <4> QED BY <4>1, <4>2 DEF Completing
    <3> QED BY <3>1, <3>2
  <2> QED BY <1>1, <1>2, <2>1, WriteType
<1>5. CASE Completing(t) /\ ~Creating(t)
  <2>1. Write(t, "full") /\ "full" \in NodeStates /\ th[t].pc \in Extracting
    BY <1>5 DEF Completing, NodeStates
  <2> QED BY <1>1, <1>2, <1>5, <2>1, WriteType
<1>6. Quiet(t) \/ Failing(t) \/ Creating(t) \/ Completing(t)
  BY ThreadStepShape
<1> QED BY <1>3, <1>4, <1>5, <1>6 DEF Quiet, Failing

-----------------------------------------------------------------------------
(* The conjuncts of the inductive invariant, one thread step at a time *)

\* A thread writes the root of a NAR before the rest.
LEMMA RootFirstStep ==
  ASSUME TypeOK, RootFirst, WrittenInOrder, NEW t, ThreadStep(t)
  PROVE  RootFirst'
<1> SUFFICES ASSUME NEW p \in Paths, disk'[p][1] = "absent", NEW k \in DOMAIN Nar[p]
             PROVE  disk'[p][k] = "absent"
  BY DEF RootFirst
<1>1. disk[p][1] = "absent" /\ disk[p][k] = "absent"
  BY DiskStep, NarType DEF RootFirst
<1>2. CASE ~(th[t].pc \in Extracting /\ p = th[t].cur /\ k = th[t].node)
  BY <1>1, <1>2, DiskStep
<1>3. CASE th[t].pc \in Extracting /\ p = th[t].cur /\ k = th[t].node
  <2>1. t \in DOMAIN th
    BY ThreadStepShape
  <2>2. k = 1
    BY <1>1, <1>3, <2>1, NarType DEF WrittenInOrder
  <2> QED BY <2>2
<1> QED BY <1>2, <1>3

\* Only regular files are ever empty.
LEMMA LinksAreWholeStep ==
  ASSUME TypeOK, LinksAreWhole, NEW t, ThreadStep(t)
  PROVE  LinksAreWhole'
<1> SUFFICES ASSUME NEW p \in Paths, NEW k \in DOMAIN Nar[p], Nar[p][k] = "symlink"
             PROVE  disk'[p][k] # "empty"
  BY DEF LinksAreWhole
<1>1. disk[p][k] # "empty"
  BY DEF LinksAreWhole
<1>2. CASE disk'[p][k] = disk[p][k]
  BY <1>1, <1>2
<1>3. CASE p = th[t].cur /\ k = th[t].node /\ Creating(t)
  BY <1>3 DEF Creating
<1>4. CASE p = th[t].cur /\ k = th[t].node /\ Completing(t)
  BY <1>4, DiskStep
<1>5. CASE UNCHANGED disk
  BY <1>1, <1>5
<1> QED BY <1>2, <1>3, <1>4, <1>5, DiskStep, ThreadStepShape DEF Quiet, Failing

\* A thread passes no node it has not written.
LEMMA WrittenInOrderStep ==
  ASSUME TypeOK, WrittenInOrder, NEW t, ThreadStep(t)
  PROVE  WrittenInOrder'
<1> SUFFICES ASSUME NEW u \in DOMAIN th', th'[u].pc \in Extracting,
                    NEW j \in 1 .. (th'[u].node - 1)
             PROVE  disk'[th'[u].cur][j] # "absent"
  BY DEF WrittenInOrder
<1>1. /\ t \in DOMAIN th /\ DOMAIN th' = DOMAIN th
      /\ \A v \in DOMAIN th \ {t} : th'[v] = th[v]
      /\ Quiet(t) \/ Failing(t) \/ Creating(t) \/ Completing(t)
  BY ThreadStepShape
<1>2. \A v \in DOMAIN th : ThreadOK(th[v])
  BY DEF TypeOK
<1>3. ASSUME NEW v \in DOMAIN th, th[v].pc \in Extracting, NEW i \in 1 .. (th[v].node - 1)
      PROVE  i \in DOMAIN Nar[th[v].cur] /\ disk'[th[v].cur][i] # "absent"
  <2>1. th[v].cur \in Paths /\ th[v].node \in DOMAIN Nar[th[v].cur]
    BY <1>2, <1>3 DEF ThreadOK, Extracting
  <2>2. i \in DOMAIN Nar[th[v].cur]
    BY <2>1, NarType
  <2> QED BY <1>3, <2>1, <2>2, DiskStep DEF WrittenInOrder
<1>4. CASE u # t
  BY <1>1, <1>3, <1>4
<1>5. CASE u = t /\ Quiet(t)
  BY <1>5 DEF Quiet
<1>6. CASE u = t /\ Failing(t)
  BY <1>6 DEF Failing, Extracting
<1>7. CASE u = t /\ Creating(t)
  <2>1. th'[t].cur = th[t].cur /\ th'[t].node = th[t].node /\ th[t].pc \in Extracting
    BY <1>1, <1>2, <1>7 DEF Creating, Extracting, ThreadOK, Thread
  <2> QED BY <1>1, <1>3, <1>7, <2>1
<1>8. CASE u = t /\ Completing(t)
  <2>1. th[t].pc \in Extracting /\ th'[t] = NextNode(th[t]) /\ ThreadOK(th[t])
    BY <1>1, <1>2, <1>8 DEF Completing
  <2>2. NextNode(th[t]).pc = "extract" /\ NextNode(th[t]).node = th[t].node + 1
        /\ NextNode(th[t]).cur = th[t].cur
    BY <1>8, <2>1, NextNodeFacts, DescendFacts DEF Extracting
  <2>3. th[t].cur \in Paths /\ th[t].node \in DOMAIN Nar[th[t].cur] /\ th[t].node \in Nat
    BY <2>1, NarType DEF ThreadOK, Extracting, Thread
  <2>4. disk'[th[t].cur][th[t].node] = "full"
    BY <1>8, <2>3, DiskStep
  <2>5. j \in 1 .. (th[t].node - 1) \/ j = th[t].node
    BY <1>8, <2>1, <2>2, <2>3
  <2> QED BY <1>1, <1>3, <1>8, <2>1, <2>2, <2>4, <2>5
<1> QED BY <1>1, <1>4, <1>5, <1>6, <1>7, <1>8

\* An excuse is good for the rest of the run.
LEMMA ExcuseStays ==
  ASSUME TypeOK, NEW t, ThreadStep(t), NEW p, Excused(p)
  PROVE  Excused(p)'
<1>1. /\ t \in DOMAIN th /\ DOMAIN th' = DOMAIN th
      /\ \A u \in DOMAIN th \ {t} : th'[u] = th[u]
      /\ damaged' = damaged
      /\ th[t].err # "none" => th'[t].err # "none"
  BY ThreadStepShape
<1> QED BY <1>1 DEF Excused, FailedThreads

\* A thread that fails excuses every gap of the run.
LEMMA FailingExcuses ==
  ASSUME TypeOK, NEW t, ThreadStep(t), Failing(t), NEW p
  PROVE  Excused(p)'
<1>1. t \in DOMAIN th'
  BY ThreadStepShape
<1> QED BY <1>1 DEF Excused, FailedThreads, Failing

\* An empty file keeps its writer, or its excuse.
LEMMA EmptyHasWriterStep ==
  ASSUME TypeOK, EmptyHasWriter, NEW t, ThreadStep(t)
  PROVE  EmptyHasWriter'
<1> SUFFICES ASSUME NEW p \in Paths, NEW k \in DOMAIN Nar[p], disk'[p][k] = "empty",
                    ~Excused(p)'
             PROVE  \E u \in DOMAIN th' : WritingAt(u, p, k)'
  BY DEF EmptyHasWriter
<1>1. /\ t \in DOMAIN th /\ DOMAIN th' = DOMAIN th
      /\ \A u \in DOMAIN th \ {t} : th'[u] = th[u]
      /\ Quiet(t) \/ Creating(t) \/ Completing(t)
  BY ThreadStepShape, FailingExcuses
<1>2. ThreadOK(th[t])
  BY <1>1 DEF TypeOK
<1>3. CASE Creating(t) /\ p = th[t].cur /\ k = th[t].node
  BY <1>1, <1>2, <1>3 DEF Creating, WritingAt, ThreadOK, Thread
<1>4. CASE ~(Creating(t) /\ p = th[t].cur /\ k = th[t].node)
  <2>1. disk[p][k] = "empty" /\ ~(Completing(t) /\ p = th[t].cur /\ k = th[t].node)
    BY <1>1, <1>4, DiskStep DEF Quiet
  <2>2. PICK u \in DOMAIN th : WritingAt(u, p, k)
    BY <2>1, ExcuseStays DEF EmptyHasWriter
  <2>3. u # t
    BY <1>1, <2>1, <2>2 DEF WritingAt, Quiet, Creating, Extracting
  <2> QED BY <1>1, <2>2, <2>3 DEF WritingAt
<1> QED BY <1>3, <1>4

\* A missing node keeps an extractor that comes to it, or its excuse.
LEMMA GapHasExtractorStep ==
  ASSUME TypeOK, GapHasExtractor, NEW t, ThreadStep(t)
  PROVE  GapHasExtractor'
<1> SUFFICES ASSUME NEW p \in Paths, NEW k \in DOMAIN Nar[p],
                    disk'[p][1] # "absent", disk'[p][k] = "absent", ~Excused(p)'
             PROVE  \E u \in DOMAIN th' : ComingTo(u, p, k)'
  BY DEF GapHasExtractor
<1>1. /\ t \in DOMAIN th /\ DOMAIN th' = DOMAIN th
      /\ \A u \in DOMAIN th \ {t} : th'[u] = th[u]
      /\ Quiet(t) \/ Creating(t) \/ Completing(t)
  BY ThreadStepShape, FailingExcuses
<1>2. ThreadOK(th[t])
  BY <1>1 DEF TypeOK
<1>3. /\ th[t].pc \in Extracting => th[t].cur \in Paths /\ th[t].node \in DOMAIN Nar[th[t].cur]
      /\ DOMAIN Nar[p] = 1 .. Len(Nar[p]) /\ Len(Nar[p]) \in Nat
      /\ disk[p][k] = "absent"
      /\ Creating(t) \/ Completing(t) => ~(p = th[t].cur /\ k = th[t].node)
  BY DiskStep, NarType
\* If t was on its way to the gap, it still is.
<1>4. ASSUME th[t].pc \in Extracting, p = th[t].cur, th[t].node <= k
      PROVE  ComingTo(t, p, k)'
  <2>1. CASE Creating(t)
    BY <1>2, <1>4, <2>1 DEF Creating, ComingTo, Extracting, ThreadOK, Thread
  <2>2. CASE Completing(t)
    <3>1. th[t].node + 1 <= k /\ th[t].node # Len(Nar[th[t].cur])
      BY <1>3, <1>4, <2>2
    <3>2. /\ NextNode(th[t]).pc = "extract" /\ NextNode(th[t]).node = th[t].node + 1
          /\ NextNode(th[t]).cur = th[t].cur
      BY <1>2, <1>4, <3>1, NextNodeFacts
    <3> QED BY <1>4, <2>2, <3>1, <3>2 DEF Completing, ComingTo, Extracting
  <2> QED BY <1>1, <1>4, <2>1, <2>2 DEF Quiet
<1>5. CASE disk[p][1] # "absent"
  <2>1. PICK u \in DOMAIN th : ComingTo(u, p, k)
    BY <1>3, <1>5, ExcuseStays DEF GapHasExtractor
  <2> QED BY <1>1, <1>4, <2>1 DEF ComingTo
<1>6. CASE disk[p][1] = "absent"
  <2>1. th[t].pc \in Extracting /\ p = th[t].cur /\ th[t].node = 1
    BY <1>6, DiskStep, NarType
  <2> QED BY <1>1, <1>3, <1>4, <2>1
<1> QED BY <1>5, <1>6

\* No thread gets to write a damaged path.
LEMMA DamageIsSkippedStep ==
  ASSUME TypeOK, DamageIsSkipped, NEW t, ThreadStep(t)
  PROVE  DamageIsSkipped'
<1>1. /\ t \in DOMAIN th /\ DOMAIN th' = DOMAIN th
      /\ \A u \in DOMAIN th \ {t} : th'[u] = th[u]
      /\ damaged' = damaged
      /\ th'[t].pc \in Missing =>
           th'[t].cur = th[t].cur /\ (th[t].pc \in Missing \/ ~Exists(th[t].cur))
  BY ThreadStepShape
<1>2. \A u \in DOMAIN th' : th'[u].pc \in Missing => th'[u].cur \notin damaged'
  BY <1>1 DEF DamageIsSkipped
<1>3. ASSUME NEW p \in damaged PROVE ~Complete(p)' /\ Exists(p)'
  <2>1. p \in Paths
    BY DEF TypeOK
  <2>2. ~(th[t].pc \in Extracting /\ p = th[t].cur)
    BY <1>1 DEF DamageIsSkipped, Extracting, Missing
  <2>3. \A k \in DOMAIN Nar[p] : disk'[p][k] = disk[p][k]
    BY <2>1, <2>2, DiskStep
  <2> QED BY <2>1, <2>3, NarType DEF DamageIsSkipped, Complete, Exists
<1> QED BY <1>1, <1>2, <1>3 DEF DamageIsSkipped

-----------------------------------------------------------------------------
(* The walk through the closure *)

SameWalk(r, s) ==
  s.root = r.root /\ s.cur = r.cur /\ s.visited = r.visited /\ s.pending = r.pending

Skips(r, s) ==
  /\ r.pc = "visit" /\ s.pc = "visit" /\ r.pending # << >> /\ Head(r.pending) \in r.visited
  /\ s.root = r.root /\ s.visited = r.visited /\ s.pending = Tail(r.pending)

Enters(r, s) ==
  /\ r.pc = "visit" /\ s.pc = "narinfo" /\ r.pending # << >>
  /\ s.root = r.root /\ s.cur = Head(r.pending)
  /\ s.visited = r.visited \cup {Head(r.pending)} /\ s.pending = Tail(r.pending)

Ends(r, s)     == r.pc = "visit" /\ r.pending = << >> /\ s.pc = "done" /\ SameWalk(r, s)
Proceeds(r, s) == r.pc \in Fetching /\ s.pc \in Fetching /\ SameWalk(r, s)

StartsOver(r, s) == s.pc = "visit" /\ s.root = r.root /\ s.visited = {} /\ s.pending = <<r.root>>

GoesOn(r, s) ==
  /\ r.pc \in Fetching /\ s.pc = "visit" /\ disk'[r.cur][1] # "absent"
  /\ s.root = r.root /\ s.visited = r.visited /\ s.pending = References[r.cur] \o r.pending

WalkMoves(r, s) ==
  \/ Skips(r, s) \/ Enters(r, s) \/ Ends(r, s) \/ Proceeds(r, s)
  \/ StartsOver(r, s) \/ GoesOn(r, s)

\* How a step of a thread moves its walk.
LEMMA WalkShape ==
  ASSUME TypeOK, WrittenInOrder, NEW t, ThreadStep(t)
  PROVE  \/ th'[t].err # "none"
         \/ th'[t].err = th[t].err /\ WalkMoves(th[t], th'[t])
<1>1. t \in DOMAIN th /\ ThreadOK(th[t]) /\ th[t].pc # "done" /\ th[t].cur \in Paths
  BY ThreadStepShape DEF ThreadOK
<1>2. \A r : Step(t, r) => th'[t] = r
  BY <1>1, StepFrame
<1> DEFINE r == th[t]
<1>3. \A e \in Errors : Fail(t, e) =>
        \/ th'[t].err # "none"
        \/ th'[t].err = r.err /\ StartsOver(r, th'[t])
  BY <1>1, <1>2, AfterErrorFacts DEF Fail, StartsOver, Errors
<1>4. r \in Thread
  BY <1>1 DEF ThreadOK
<1>5. \A pc : LET q == [r EXCEPT !.pc = pc] IN q.pc = pc /\ q.err = r.err /\ SameWalk(r, q)
  BY <1>4 DEF Thread, SameWalk
<1>6. \A b : LET q == [r EXCEPT !.pc = "verify", !.blob = b]
            IN  q.pc = "verify" /\ q.err = r.err /\ SameWalk(r, q)
  BY <1>4 DEF Thread, SameWalk
<1>7. LET q == [r EXCEPT !.pc = "extract", !.node = 1]
      IN  q.pc = "extract" /\ q.err = r.err /\ SameWalk(r, q)
  BY <1>4 DEF Thread, SameWalk
<1>8. LET q == [r EXCEPT !.pending = Tail(@)]
      IN  q.pc = r.pc /\ q.err = r.err /\ q.root = r.root /\ q.visited = r.visited
          /\ q.pending = Tail(r.pending)
  BY <1>4 DEF Thread
<1>9. LET q == [r EXCEPT !.pending = Tail(@), !.pc = "narinfo", !.cur = Head(r.pending),
                         !.visited = @ \cup {Head(r.pending)}]
      IN  /\ q.pc = "narinfo" /\ q.err = r.err /\ q.root = r.root /\ q.cur = Head(r.pending)
          /\ q.visited = r.visited \cup {Head(r.pending)} /\ q.pending = Tail(r.pending)
  BY <1>4 DEF Thread
<1>10. /\ Descend(r).pc = "visit" /\ Descend(r).err = r.err /\ Descend(r).root = r.root
       /\ Descend(r).visited = r.visited /\ Descend(r).pending = References[r.cur] \o r.pending
  BY <1>1, DescendFacts
<1>11. {"notFound", "transport", "failed", "exists"} \subseteq Errors
  BY DEF Errors
<1>12. ASSUME NEW pc, Goto(t, pc)
       PROVE  th'[t].pc = pc /\ th'[t].err = r.err /\ SameWalk(r, th'[t])
  <2>1. th'[t] = [r EXCEPT !.pc = pc]
    BY <1>2, <1>12 DEF Goto
  <2> QED BY <1>5, <2>1
<1>13. ASSUME Completing(t)
       PROVE  th'[t].err = r.err /\ WalkMoves(r, th'[t])
  <2>1. /\ r.pc \in Extracting /\ r.pc \in Fetching /\ th'[t] = NextNode(r)
        /\ r.node \in DOMAIN Nar[r.cur]
    BY <1>1, <1>13 DEF Completing, Extracting, Fetching, ThreadOK
  <2>2. CASE /\ NextNode(r).pc = "extract" /\ NextNode(r).err = r.err /\ NextNode(r).root = r.root
             /\ NextNode(r).cur = r.cur /\ NextNode(r).visited = r.visited
             /\ NextNode(r).pending = r.pending
    BY <2>1, <2>2 DEF WalkMoves, Proceeds, SameWalk, Fetching
  <2>3. CASE NextNode(r) = Descend(r)
    <3>1. disk'[r.cur][r.node] = "full"
      BY <1>1, <1>13, <2>1, DiskStep
    <3>2. CASE r.node = 1
      BY <1>10, <2>1, <2>3, <3>1, <3>2 DEF WalkMoves, GoesOn
    <3>3. CASE r.node # 1
      <4>1. 1 \in 1 .. (r.node - 1) /\ 1 \in DOMAIN Nar[r.cur]
        BY <1>1, <2>1, <3>3, NarType
      <4>2. disk[r.cur][1] # "absent"
        BY <1>1, <2>1, <4>1 DEF WrittenInOrder
      <4>3. disk'[r.cur][1] # "absent"
        BY <1>1, <4>1, <4>2, DiskStep
      <4> QED BY <1>10, <2>1, <2>3, <4>3 DEF WalkMoves, GoesOn
    <3> QED BY <3>2, <3>3
  <2> QED BY <1>1, <2>1, <2>2, <2>3, NextNodeFacts
<1> HIDE DEF r
<1>v. CASE Visit(t)
  <2>1. r.pc = "visit" /\ r.pending # << >>
    BY <1>v DEF Visit, At, r
  <2>2. CASE Head(r.pending) \in r.visited /\ Step(t, [r EXCEPT !.pending = Tail(@)])
    BY <1>2, <1>8, <2>1, <2>2 DEF WalkMoves, Skips, r
  <2>3. CASE Step(t, [r EXCEPT !.pending = Tail(@), !.pc = "narinfo", !.cur = Head(r.pending),
                               !.visited = @ \cup {Head(r.pending)}])
    BY <1>2, <1>9, <2>1, <2>3 DEF WalkMoves, Enters, r
  <2> QED BY <1>v, <2>2, <2>3 DEF Visit, r
<1>f. CASE Finish(t)
  BY <1>12, <1>f DEF Finish, At, WalkMoves, Ends, r
<1>n. CASE FetchNarInfo(t)
  <2>1. CASE Goto(t, "check")
    BY <1>12, <1>n, <2>1 DEF FetchNarInfo, At, WalkMoves, Proceeds, Fetching, r
  <2>2. CASE \E e \in Errors : Fail(t, e)
    BY <1>3, <2>2 DEF WalkMoves, r
  <2> QED BY <1>11, <1>n, <2>1, <2>2 DEF FetchNarInfo
<1>c. CASE CheckExists(t)
  <2>1. CASE Goto(t, "lookup")
    BY <1>12, <1>c, <2>1 DEF CheckExists, At, WalkMoves, Proceeds, Fetching, r
  <2>2. CASE Exists(r.cur) /\ Step(t, Descend(r)) /\ UNCHANGED disk
    BY <1>2, <1>10, <1>c, <2>2 DEF CheckExists, At, Exists, WalkMoves, GoesOn, Fetching, r
  <2> QED BY <1>c, <2>1, <2>2 DEF CheckExists, Cur, r
<1>l. CASE LookupCas(t)
  <2>1. CASE Goto(t, "download")
    BY <1>12, <1>l, <2>1 DEF LookupCas, At, WalkMoves, Proceeds, Fetching, r
  <2>2. CASE \E b : Step(t, [r EXCEPT !.pc = "verify", !.blob = b])
    <3> PICK b : Step(t, [r EXCEPT !.pc = "verify", !.blob = b])
      BY <2>2
    <3>1. th'[t] = [r EXCEPT !.pc = "verify", !.blob = b]
      BY <1>2
    <3>2. th'[t].pc = "verify" /\ th'[t].err = r.err /\ SameWalk(r, th'[t])
      BY <1>6, <3>1
    <3> QED BY <1>l, <3>2 DEF LookupCas, At, WalkMoves, Proceeds, Fetching, r
  <2> QED BY <1>l, <2>1, <2>2 DEF LookupCas, r
<1>d. CASE Download(t)
  <2>1. CASE \E e \in Errors : Fail(t, e)
    BY <1>3, <2>1 DEF WalkMoves, r
  <2>2. CASE \E b : Received(t, b)
    <3> PICK b : Received(t, b)
      BY <2>2
    <3>1. th'[t] = [r EXCEPT !.pc = "verify", !.blob = b]
      BY <1>2 DEF Received, r
    <3>2. th'[t].pc = "verify" /\ th'[t].err = r.err /\ SameWalk(r, th'[t])
      BY <1>6, <3>1
    <3> QED BY <1>d, <3>2 DEF Download, At, WalkMoves, Proceeds, Fetching, r
  <2> QED BY <1>11, <1>d, <2>1, <2>2 DEF Download
<1>y. CASE Verify(t)
  <2>1. CASE Step(t, [r EXCEPT !.pc = "extract", !.node = 1])
    BY <1>2, <1>7, <1>y, <2>1 DEF Verify, At, WalkMoves, Proceeds, Fetching, r
  <2> QED BY <1>3, <1>11, <1>y, <2>1 DEF Verify, WalkMoves, r
<1>m. CASE MakeDirectory(t)
  BY <1>2, <1>13, <1>m DEF MakeDirectory, At, Completing, Extracting, r
<1>o. CASE CreateFile(t)
  BY <1>12, <1>o DEF CreateFile, At, WalkMoves, Proceeds, Fetching, r
<1>w. CASE WriteFile(t)
  BY <1>2, <1>13, <1>w DEF WriteFile, At, Completing, Extracting, r
<1>s. CASE MakeSymlink(t)
  BY <1>2, <1>3, <1>11, <1>13, <1>s DEF MakeSymlink, At, Completing, Extracting, WalkMoves, r
<1>e. CASE DiskError(t)
  BY <1>3, <1>11, <1>e DEF DiskError, WalkMoves, r
<1> QED BY <1>v, <1>f, <1>n, <1>c, <1>l, <1>d, <1>y, <1>m, <1>o, <1>w, <1>s, <1>e DEF ThreadStep, r

\* The visited set stays closed but for the frontier.
LEMMA WalkIsClosedStep ==
  ASSUME TypeOK, WrittenInOrder, WalkIsClosed, NEW t, ThreadStep(t)
  PROVE  WalkIsClosed'
<1> SUFFICES ASSUME NEW u \in DOMAIN th', th'[u].err = "none"
             PROVE  Covers(th[u])'
  BY DEF WalkIsClosed
<1>1. /\ t \in DOMAIN th /\ DOMAIN th' = DOMAIN th
      /\ \A v \in DOMAIN th \ {t} : th'[v] = th[v]
  BY ThreadStepShape
<1>2. \A p \in Paths : disk[p][1] # "absent" => disk'[p][1] # "absent"
  BY DiskStep, NarType
<1>3. CASE u # t
  <2>1. th'[u] = th[u] /\ Covers(th[u]) /\ th[u].visited \subseteq Paths
    BY <1>1, <1>3 DEF WalkIsClosed, TypeOK, ThreadOK, Thread
  <2> QED BY <1>2, <2>1 DEF Covers, Reached
<1>4. CASE u = t
  <2> DEFINE r == th[t]
             s == th'[t]
  <2>1. ThreadOK(r) /\ r.pc # "done" /\ r.err = "none" /\ WalkMoves(r, s)
    BY <1>4, WalkShape, ThreadStepShape
  <2>2. Covers(r)
    BY <1>1, <2>1 DEF WalkIsClosed
  <2>3. r.visited \subseteq Paths /\ r.pending \in Seq(Paths) /\ r.cur \in Paths
    BY <2>1 DEF ThreadOK, Thread
  <2>4. References[r.cur] \in Seq(Paths)
    BY <2>3, PathsAssumption
  <2> HIDE DEF r, s
  <2>5. CASE Skips(r, s)
    <3>1. Reached(r) = Reached(s)
      BY <2>3, <2>5, RangeOfTail DEF Skips, Reached
    <3> QED BY <1>2, <1>4, <2>2, <2>3, <2>5, <3>1 DEF Skips, Covers, Fetching, Reached, s
  <2>6. CASE Enters(r, s)
    <3>1. Reached(r) = Reached(s)
      BY <2>3, <2>6, RangeOfTail DEF Enters, Reached
    <3> QED BY <1>2, <1>4, <2>2, <2>3, <2>6, <3>1 DEF Enters, Covers, Fetching, Reached, s
  <2>7. CASE Ends(r, s)
    BY <1>2, <1>4, <2>2, <2>3, <2>7 DEF Ends, SameWalk, Covers, Fetching, Reached, s
  <2>8. CASE Proceeds(r, s)
    BY <1>2, <1>4, <2>2, <2>3, <2>8 DEF Proceeds, SameWalk, Covers, Fetching, Reached, s
  <2>9. CASE StartsOver(r, s)
    <3>1. Reached(s) = {r.root}
      BY <2>9, RangeOfOne DEF StartsOver, Reached
    <3> QED BY <1>4, <2>9, <3>1 DEF StartsOver, Covers, Fetching, Reached, s
  <2>10. CASE GoesOn(r, s)
    <3>1. Reached(s) = Reached(r) \cup Range(References[r.cur])
      BY <2>3, <2>4, <2>10, RangeConcatenation DEF GoesOn, Reached
    <3> QED BY <1>2, <1>4, <2>2, <2>3, <2>10, <3>1 DEF GoesOn, Covers, Fetching, Reached, s
  <2> QED BY <2>1, <2>5, <2>6, <2>7, <2>8, <2>9, <2>10 DEF WalkMoves
<1> QED BY <1>3, <1>4

-----------------------------------------------------------------------------
(* The steps of the main thread *)

\* The invariant holds at first.
LEMMA InitInv == Init => IInv
<1> SUFFICES ASSUME Init PROVE IInv
  OBVIOUS
<1>1. TypeOK
  BY InitType
<1>2. DOMAIN th = {} /\ damaged = {} /\ phase = "idle" /\ result = "none"
  BY DEF Init
<1>3. \A p \in Paths : \A k \in DOMAIN Nar[p] : disk[p][k] = "absent"
  BY DEF Init
<1>4. Partial = {}
  BY <1>3 DEF Partial, Touched
<1> QED BY <1>1, <1>2, <1>3, <1>4, NarType
        DEF IInv, RootFirst, LinksAreWhole, WrittenInOrder, EmptyHasWriter, GapHasExtractor,
            WalkIsClosed, IdleIsJoined, DamageIsSkipped

\* A new thread has only its root ahead of it.
LEMMA NewThreadFacts ==
  ASSUME NEW root \in Paths \cup {Malformed}
  PROVE  /\ NewThread(root).pc \in {"visit", "done"}
         /\ NewThread(root).err = "none" =>
              /\ NewThread(root).pc = "visit" /\ NewThread(root).visited = {}
              /\ NewThread(root).root = root /\ NewThread(root).pending = <<root>>
BY DEF NewThread

\* A run starts from a tree whose gaps are all excused as damage.
LEMMA StartInv ==
  ASSUME IInv, NEW request \in Requests, Start(request)
  PROVE  IInv'
<1>1. TypeOK'
  BY StartType DEF IInv
<1>2. UNCHANGED <<disk, damaged>> /\ phase = "idle" /\ Partial \subseteq damaged
  BY DEF Start, IInv, IdleIsJoined
<1>3. RootFirst' /\ LinksAreWhole'
  BY <1>2 DEF IInv, RootFirst, LinksAreWhole
<1>4. \A p \in Paths : \A k \in DOMAIN Nar[p] :
        \/ disk[p][k] = "empty"
        \/ disk[p][1] # "absent" /\ disk[p][k] = "absent"
        => p \in damaged
  BY <1>2, NarType DEF Partial, Touched, Complete
<1>5. EmptyHasWriter' /\ GapHasExtractor'
  BY <1>2, <1>4 DEF EmptyHasWriter, GapHasExtractor, Excused
<1>6. Partial' = Partial
  BY <1>2 DEF Partial, Touched, Complete
<1>7. \A p \in damaged : ~Complete(p)' /\ Exists(p)'
  BY <1>2 DEF IInv, DamageIsSkipped, Complete, Exists
<1>8. CASE th' = << >> /\ phase' = "idle"
  <2>1. DOMAIN th' = {}
    BY <1>8
  <2> QED BY <1>1, <1>2, <1>3, <1>5, <1>6, <1>7, <2>1
          DEF IInv, WrittenInOrder, WalkIsClosed, IdleIsJoined, FailedThreads, DamageIsSkipped
<1>9. CASE /\ ~Unknown(request) /\ phase' = "fetching"
           /\ th' = [i \in DOMAIN request |-> NewThread(Manifest[request[i]])]
  <2>1. \A t \in DOMAIN th' : \E root \in Paths \cup {Malformed} : th'[t] = NewThread(root)
    BY <1>9, CommandAssumption DEF Unknown
  <2>2. \A t \in DOMAIN th' :
          /\ th'[t].pc \in {"visit", "done"}
          /\ th'[t].err = "none" => /\ th'[t].pc = "visit" /\ th'[t].visited = {}
                                    /\ th'[t].pending = <<th'[t].root>>
    BY <2>1, NewThreadFacts
  <2>3. WalkIsClosed'
    BY <2>2, RangeOfOne DEF WalkIsClosed, Covers, Reached, Fetching
  <2>4. WrittenInOrder'
    BY <2>2 DEF WrittenInOrder, Extracting
  <2>5. DamageIsSkipped'
    BY <1>2, <1>7, <2>2 DEF DamageIsSkipped, Missing
  <2> QED BY <1>1, <1>3, <1>5, <1>9, <2>3, <2>4, <2>5 DEF IInv, IdleIsJoined
<1> QED BY <1>2, <1>8, <1>9 DEF Start

\* A path the run has left half written has a root, and the root is no link.
LEMMA PartialExists ==
  ASSUME IInv, NEW p \in Partial
  PROVE  p \in Paths /\ ~Complete(p) /\ Exists(p)
<1>1. p \in Paths /\ Touched(p) /\ ~Complete(p)
  BY DEF Partial
<1>2. disk[p][1] # "absent"
  BY <1>1 DEF IInv, RootFirst, Touched
<1>3. Nar[p][1] # "symlink"
  <2>1. SUFFICES ASSUME Nar[p][1] = "symlink" PROVE Complete(p)
    BY <1>1
  <2>2. Len(Nar[p]) = 1 /\ DOMAIN Nar[p] = 1 .. 1 /\ 1 \in DOMAIN Nar[p]
    BY <1>1, <2>1, NarType
  <2>3. disk[p][1] \in NodeStates /\ disk[p][1] # "empty"
    BY <1>1, <2>1, <2>2 DEF IInv, TypeOK, LinksAreWhole
  <2>4. disk[p][1] = "full"
    BY <1>2, <2>3 DEF NodeStates
  <2> QED BY <2>2, <2>4 DEF Complete
<1> QED BY <1>1, <1>2, <1>3 DEF Exists

\* Once all threads have stopped and none has failed, nothing new is half done.
LEMMA JoinedIsWhole ==
  ASSUME IInv, FailedThreads = {}, \A t \in DOMAIN th : th[t].pc = "done"
  PROVE  Partial \subseteq damaged
<1> SUFFICES ASSUME NEW p \in Partial, p \notin damaged PROVE FALSE
  OBVIOUS
<1>1. p \in Paths /\ disk[p][1] # "absent"
  BY PartialExists DEF Exists
<1>2. PICK k \in DOMAIN Nar[p] : disk[p][k] # "full"
  BY PartialExists DEF Complete
<1>3. disk[p][k] \in NodeStates
  BY <1>1 DEF IInv, TypeOK
<1>4. CASE disk[p][k] = "empty"
  BY <1>1, <1>4 DEF IInv, EmptyHasWriter, Excused, WritingAt
<1>5. CASE disk[p][k] = "absent"
  BY <1>1, <1>5 DEF IInv, GapHasExtractor, Excused, ComingTo, Extracting
<1> QED BY <1>2, <1>3, <1>4, <1>5 DEF NodeStates

\* Join and Crash: the threads are gone or done, and the damage is recorded.
LEMMA StopInv ==
  ASSUME IInv, phase' = "idle", UNCHANGED disk, TypeOK',
         \/ th' = << >>
         \/ UNCHANGED th /\ \A t \in DOMAIN th : th[t].pc = "done",
         \/ damaged' = damaged \cup Partial /\ result' # "ok"
         \/ damaged' = damaged /\ Partial \subseteq damaged /\ UNCHANGED th /\ FailedThreads = {}
  PROVE  IInv'
<1>1. Partial' = Partial /\ Partial \subseteq damaged' /\ damaged \subseteq damaged'
  BY DEF Partial, Touched, Complete
<1>2. \A t \in DOMAIN th' : t \in DOMAIN th /\ th'[t] = th[t] /\ th'[t].pc = "done"
  <2>1. CASE th' = << >>
    BY <2>1
  <2>2. CASE UNCHANGED th /\ \A t \in DOMAIN th : th[t].pc = "done"
    BY <2>2
  <2> QED BY <2>1, <2>2
<1>3. RootFirst' /\ LinksAreWhole'
  BY DEF IInv, RootFirst, LinksAreWhole
<1>4. \A p \in Paths : \A k \in DOMAIN Nar[p] :
        \/ disk[p][k] = "empty"
        \/ disk[p][1] # "absent" /\ disk[p][k] = "absent"
        => p \in damaged'
  BY <1>1, NarType DEF Partial, Touched, Complete
<1>5. EmptyHasWriter' /\ GapHasExtractor'
  BY <1>4 DEF EmptyHasWriter, GapHasExtractor, Excused
<1>6. WrittenInOrder'
  BY <1>2 DEF WrittenInOrder, Extracting
<1>7. WalkIsClosed'
  BY <1>2 DEF IInv, WalkIsClosed, Covers, Reached
<1>8. IdleIsJoined'
  BY <1>1, <1>2 DEF IdleIsJoined, FailedThreads
<1>9. DamageIsSkipped'
  <2>1. \A p \in damaged' : ~Complete(p) /\ Exists(p)
    BY PartialExists DEF IInv, DamageIsSkipped
  <2> QED BY <1>2, <2>1 DEF DamageIsSkipped, Complete, Exists, Missing
<1> QED BY <1>3, <1>5, <1>6, <1>7, <1>8, <1>9 DEF IInv

\* Joining the threads turns the gaps of a failed run into damage.
LEMMA JoinInv ==
  ASSUME IInv, Join
  PROVE  IInv'
<1>1. TypeOK'
  BY NextType DEF IInv, Next
<1>2. CASE FailedThreads = {} /\ result' = "ok" /\ UNCHANGED damaged
  BY <1>1, <1>2, JoinedIsWhole, StopInv DEF Join
<1>3. CASE damaged' = damaged \cup Partial /\ \E t \in FailedThreads : result' = Report(th[t].err)
  BY <1>1, <1>3, StopInv DEF Join, Report
<1> QED BY <1>2, <1>3 DEF Join

\* So does the death of the process.
LEMMA CrashInv ==
  ASSUME IInv, Crash
  PROVE  IInv'
<1>1. TypeOK'
  BY NextType DEF IInv, Next
<1> QED BY <1>1, StopInv DEF Crash

\* A step of a thread preserves every conjunct.
LEMMA ThreadStepInv ==
  ASSUME IInv, NEW t, ThreadStep(t)
  PROVE  IInv'
<1>1. TypeOK' /\ phase' = "fetching"
  BY ThreadStepType, ThreadStepShape DEF IInv
<1> QED BY <1>1, RootFirstStep, LinksAreWholeStep, WrittenInOrderStep, EmptyHasWriterStep,
           GapHasExtractorStep, WalkIsClosedStep, DamageIsSkippedStep DEF IInv, IdleIsJoined

\* The invariant is inductive.
LEMMA NextInv == IInv /\ [Next]_vars => IInv'
<1> SUFFICES ASSUME IInv, [Next]_vars PROVE IInv'
  OBVIOUS
<1>1. CASE UNCHANGED vars
  BY <1>1 DEF vars, IInv, TypeOK, RootFirst, LinksAreWhole, WrittenInOrder, EmptyHasWriter,
     GapHasExtractor, WalkIsClosed, IdleIsJoined, DamageIsSkipped, Excused, FailedThreads,
     WritingAt, ComingTo, Covers, Reached, Partial, Touched, Complete, Exists
<1> QED BY <1>1, StartInv, JoinInv, CrashInv, ThreadStepInv DEF Next

\* The invariant of the walk, the archives and the runs holds in every state,
\* whatever the threads, the caches and the disk do.
THEOREM Invariance == Spec => []IInv
BY InitInv, NextInv, PTL DEF Spec

-----------------------------------------------------------------------------
(* What the invariant gives *)

\* A thread that has finished without error has been to its whole closure.
LEMMA DoneHasClosure ==
  ASSUME IInv, NEW t \in DOMAIN th, th[t].pc = "done", th[t].err = "none",
         NEW p \in Closure(th[t].root)
  PROVE  p \in Paths /\ disk[p][1] # "absent"
<1> DEFINE r == th[t]
<1>1. Covers(r) /\ r.visited \in SUBSET Paths
  BY DEF IInv, WalkIsClosed, TypeOK, ThreadOK, Thread
<1>2. r.pending = << >> /\ r.pc \notin Fetching
  BY <1>1 DEF Covers, Fetching
<1>3. Reached(r) = r.visited
  BY <1>2, RangeOfEmpty DEF Reached
<1>4. r.root \in r.visited /\ Closed(r.visited)
  BY <1>1, <1>2, <1>3 DEF Covers, Closed
<1>5. p \in Paths /\ p \in r.visited
  BY <1>1, <1>4 DEF Closure
<1> QED BY <1>1, <1>2, <1>5 DEF Covers

\* Ok means installed: whatever the threads did to each other's files, every
\* path of every requested closure is complete, or was damaged before.
THEOREM Installed == Spec => []SuccessMeansInstalled
<1>1. IInv => SuccessMeansInstalled
  <2> SUFFICES ASSUME IInv, phase = "idle", result = "ok", NEW t \in DOMAIN th,
                      NEW p \in Closure(th[t].root), p \notin damaged
               PROVE  Complete(p)
    BY DEF SuccessMeansInstalled
  <2>1. Partial \subseteq damaged /\ th[t].pc = "done" /\ th[t].err = "none"
    BY DEF IInv, IdleIsJoined, FailedThreads
  <2>2. p \in Paths /\ disk[p][1] # "absent"
    BY <2>1, DoneHasClosure
  <2>3. Touched(p)
    BY <2>2, NarType DEF Touched
  <2> QED BY <2>1, <2>2, <2>3 DEF Partial
<1> QED BY <1>1, Invariance, PTL

\* Damage is permanent: a path that a failed run left half written is never
\* made whole by a later one.
THEOREM DamageStays == Spec => []DamageIsPermanent
<1>1. IInv => DamageIsPermanent
  BY DEF IInv, DamageIsSkipped, DamageIsPermanent
<1> QED BY <1>1, Invariance, PTL
=============================================================================
