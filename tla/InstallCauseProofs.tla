------------------------- MODULE InstallCauseProofs -------------------------
(* Why an installation fails, and which cache it takes: for every number of *)
(* threads, packages and caches.                                            *)
EXTENDS InstallCauses, InstallProofs

-----------------------------------------------------------------------------
(* Lemmas about closures and records *)

\* A path is in its own closure, which is closed.
LEMMA ClosureIsClosed ==
  ASSUME NEW p \in Paths
  PROVE  /\ p \in Closure(p) /\ Closure(p) \subseteq Paths
         /\ \A q \in Closure(p) : Range(References[q]) \subseteq Closure(p)
<1>1. \A q \in Paths : Range(References[q]) \subseteq Paths
  <2> SUFFICES ASSUME NEW q \in Paths, NEW i \in DOMAIN References[q]
               PROVE  References[q][i] \in Paths
    BY DEF Range
  <2>1. References[q] \in Seq(Paths)
    BY PathsAssumption
  <2> QED BY <2>1
<1>2. ASSUME NEW q \in Closure(p), NEW x \in Range(References[q]) PROVE x \in Closure(p)
  <2>1. q \in Paths /\ x \in Paths
    BY <1>1 DEF Closure
  <2>2. ASSUME NEW S \in SUBSET Paths, p \in S, Closed(S) PROVE x \in S
    BY <2>2 DEF Closure, Closed
  <2> QED BY <2>1, <2>2 DEF Closure
<1> QED BY <1>2 DEF Closure

\* What an error leaves of a thread.
LEMMA AfterErrorAll ==
  ASSUME NEW r, ThreadOK(r), NEW e \in Errors
  PROVE  LET q == AfterError(r, e)
         IN  /\ q.root = r.root /\ q.cur = r.cur
             /\ \/ /\ IsCacheMiss(e) /\ r.sub < Len(Subs) /\ q.sub = r.sub + 1
                   /\ q.pc = "visit" /\ q.err = r.err
                   /\ q.visited = {} /\ q.pending = <<r.root>>
                \/ /\ ~(IsCacheMiss(e) /\ r.sub < Len(Subs)) /\ q.sub = r.sub
                   /\ q.pc = "done" /\ q.err = e
                   /\ q.visited = r.visited /\ q.pending = r.pending
<1>1. r \in Thread
  BY DEF ThreadOK
<1>2. CASE IsCacheMiss(e) /\ r.sub < Len(Subs)
  <2> DEFINE next == r.sub + 1
             q    == <<r.root>>
  <2>1. AfterError(r, e) = [r EXCEPT !.pc = "visit", !.sub = next, !.visited = {},
                              !.pending = q, !.node = 1, !.blob = NoBlob]
    BY <1>2 DEF AfterError
  <2> HIDE DEF next, q
  <2>2. LET x == AfterError(r, e)
        IN  /\ x.root = r.root /\ x.cur = r.cur /\ x.sub = next
            /\ x.pc = "visit" /\ x.err = r.err /\ x.visited = {} /\ x.pending = q
    BY <1>1, <2>1 DEF Thread
  <2> QED BY <1>2, <2>2 DEF next, q
<1>3. CASE ~(IsCacheMiss(e) /\ r.sub < Len(Subs))
  <2>1. AfterError(r, e) = [r EXCEPT !.pc = "done", !.err = e]
    BY <1>3 DEF AfterError
  <2> QED BY <1>1, <1>3, <2>1 DEF Thread
<1> QED BY <1>2, <1>3

\* A thread at work has no error, and is where it has been.
LEMMA AtWork ==
  ASSUME IInv, CInv, NEW t \in DOMAIN th, th[t].pc # "done"
  PROVE  /\ th[t].err = "none" /\ th[t].root \in Paths /\ th[t].cur \in Paths
         /\ th[t].sub \in 1 .. Len(Subs) /\ Subs[th[t].sub] \in Caches
         /\ th[t].cur \in Closure(th[t].root)
         /\ th[t].pc \in Fetching => th[t].cur \in th[t].visited
<1>1. ThreadOK(th[t]) /\ ThreadKnows(th[t])
  BY DEF IInv, TypeOK, CInv
<1>2. th[t].err = "none" /\ th[t].root # Malformed /\ th[t].root \in Paths /\ th[t].cur \in Paths
  BY <1>1, PathsAssumption DEF ThreadKnows, ThreadOK
<1>3. Covers(th[t])
  BY <1>2 DEF IInv, WalkIsClosed
<1>4. th[t].sub \in 1 .. Len(Subs) /\ Subs[th[t].sub] \in Caches
  BY <1>1, SubsType DEF ThreadOK, Thread
<1> QED BY <1>1, <1>2, <1>3, <1>4 DEF ThreadKnows, StaysInClosure, Covers

-----------------------------------------------------------------------------
(* The two kinds of steps: to fail, and to go on *)

\* Why build_store_path may return e.
Reason(t, e) ==
  /\ e = "notFound" => th[t].cur \notin Hosted[Cache(t)]
  /\ e \in {"transport", "failed"} => faulty'
  /\ e = "exists" => /\ th[t].pc = "extract" /\ Node(t) = "symlink"
                     /\ disk[th[t].cur][th[t].node] # "absent"

Fails(t) ==
  /\ UNCHANGED disk
  /\ \E e \in Errors : th'[t] = AfterError(th[t], e) /\ Reason(t, e)

\* What a step that does not fail does to the record of its thread.
Continues(r, q) ==
  /\ q.root = r.root /\ q.sub = r.sub /\ q.err = r.err
  /\ StaysInClosure(q)
  /\ \A p \in Paths : Ahead(q, p) =>
       Ahead(r, p) /\ ~(r.pc \in Extracting /\ p = r.cur /\ r.node = 1)
  /\ q.pc \in Missing =>
       /\ q.cur = r.cur
       /\ \A k \in DOMAIN Nar[q.cur] : NodeAhead(q, k) =>
            /\ r.pc \in Missing => NodeAhead(r, k)
            /\ ~(r.pc \in Extracting /\ k = r.node)

\* A step that only moves on, before the extraction.
LEMMA MovesOn ==
  ASSUME NEW r, NEW q, StaysInClosure(r), r.pc \notin Extracting,
         q.root = r.root, q.sub = r.sub, q.err = r.err, q.cur = r.cur,
         q.visited = r.visited, q.pending = r.pending,
         \/ q.pc = "done" /\ r.pc = "visit"
         \/ /\ q.pc \in {"check", "lookup", "download", "verify"}
            /\ r.pc \in {"narinfo", "check", "lookup", "download"}
         \/ q.pc = "extract" /\ q.node = 1 /\ r.pc = "verify",
         \A k \in DOMAIN Nar[r.cur] : k \in Nat
  PROVE  Continues(r, q)
<1>1. StaysInClosure(q)
  BY DEF StaysInClosure
<1>2. \A p \in Paths : Ahead(q, p) => Ahead(r, p)
  BY DEF Ahead
<1>3. q.pc \in Missing => \A k \in DOMAIN Nar[q.cur] : r.pc \in Missing => NodeAhead(r, k)
  BY DEF NodeAhead, Extracting
<1> QED BY <1>1, <1>2, <1>3 DEF Continues

\* A node is in place: the references come before what was pending.
LEMMA DescendContinues ==
  ASSUME NEW r, ThreadOK(r), r.root \in Paths, r.cur \in Paths, StaysInClosure(r),
         r.cur \in r.visited, r.pc # "done"
  PROVE  Continues(r, Descend(r))
<1> DEFINE q == Descend(r)
<1>1. /\ q.pc = "visit" /\ q.err = r.err /\ q.root = r.root /\ q.cur = r.cur
      /\ q.visited = r.visited /\ q.pending = References[r.cur] \o r.pending
  BY DescendFacts
<1>2. q.sub = r.sub
  BY DEF Descend, ThreadOK, Thread
<1>3. Range(References[r.cur] \o r.pending) = Range(References[r.cur]) \cup Range(r.pending)
  BY PathsAssumption, RangeConcatenation DEF ThreadOK, Thread
<1> HIDE DEF q
<1>4. StaysInClosure(q)
  <2>1. r.root # Malformed /\ r.cur \in Closure(r.root)
    BY PathsAssumption DEF StaysInClosure
  <2>2. Range(References[r.cur]) \subseteq Closure(r.root)
    BY <2>1, ClosureIsClosed
  <2> QED BY <1>1, <1>3, <2>1, <2>2 DEF StaysInClosure
<1>5. \A p \in Paths : Ahead(q, p) => Ahead(r, p) /\ p # r.cur
  BY <1>1 DEF Ahead
<1> QED BY <1>1, <1>2, <1>4, <1>5 DEF Continues, Missing, q

\* A node is whole: the next one, or the references.
LEMMA NextNodeContinues ==
  ASSUME NEW r, ThreadOK(r), r.root \in Paths, r.cur \in Paths, StaysInClosure(r),
         r.cur \in r.visited, r.pc \in Extracting
  PROVE  Continues(r, NextNode(r))
<1> DEFINE q == NextNode(r)
<1>1. CASE q = Descend(r)
  BY <1>1, DescendContinues DEF Extracting
<1>2. CASE /\ q.pc = "extract" /\ q.node = r.node + 1
           /\ q.err = r.err /\ q.root = r.root /\ q.cur = r.cur
           /\ q.visited = r.visited /\ q.pending = r.pending
  <2>1. r.node \in DOMAIN Nar[r.cur] /\ DOMAIN Nar[r.cur] = 1 .. Len(Nar[r.cur])
        /\ Len(Nar[r.cur]) \in Nat /\ r.node \in Nat \ {0}
    BY NarType DEF ThreadOK, Thread, Extracting
  <2>2. q.sub = r.sub
    BY <1>2, DescendFacts DEF NextNode, ThreadOK, Thread
  <2> HIDE DEF q
  <2>3. StaysInClosure(q)
    BY <1>2 DEF StaysInClosure
  <2>4. \A p \in Paths : Ahead(q, p) => Ahead(r, p) /\ p # r.cur
    BY <1>2, <2>1 DEF Ahead
  <2>5. \A k \in DOMAIN Nar[q.cur] : NodeAhead(q, k) => NodeAhead(r, k) /\ k # r.node
    BY <1>2, <2>1 DEF NodeAhead
  <2> QED BY <1>2, <2>2, <2>3, <2>4, <2>5 DEF Continues, q
<1> QED BY <1>1, <1>2, NextNodeFacts

\* A path is taken off the list, and may be entered.
LEMMA VisitContinues ==
  ASSUME NEW r, ThreadOK(r), r.pc = "visit", r.pending # << >>, StaysInClosure(r), NEW q,
         \/ q = [r EXCEPT !.pending = Tail(@)]
         \/ /\ Head(r.pending) \notin r.visited
            /\ q = [r EXCEPT !.pending = Tail(@), !.pc = "narinfo", !.cur = Head(r.pending),
                             !.visited = @ \cup {Head(r.pending)}]
  PROVE  Continues(r, q) /\ q.pc # "verify"
<1> DEFINE h    == Head(r.pending)
           rest == Tail(r.pending)
           seen == r.visited \cup {h}
<1>1. /\ r \in Thread /\ h \in Paths /\ rest \in Seq(Paths)
      /\ Range(r.pending) = {h} \cup Range(rest)
  BY RangeOfTail, HeadTailProperties DEF ThreadOK, Thread
<1> HIDE DEF rest, h, seen
<1>2. CASE q = [r EXCEPT !.pending = rest]
  <2>1. /\ q.root = r.root /\ q.sub = r.sub /\ q.err = r.err /\ q.pc = "visit"
        /\ q.cur = r.cur /\ q.visited = r.visited /\ q.pending = rest
    BY <1>1, <1>2 DEF Thread
  <2> QED BY <1>1, <2>1 DEF Continues, StaysInClosure, Ahead, Missing, Extracting
<1>3. CASE h \notin r.visited /\ q = [r EXCEPT !.pending = rest, !.pc = "narinfo", !.cur = h,
                                                !.visited = seen]
  <2>1. /\ q.root = r.root /\ q.sub = r.sub /\ q.err = r.err /\ q.pc = "narinfo"
        /\ q.cur = h /\ q.visited = seen /\ q.pending = rest
    BY <1>1, <1>3 DEF Thread
  <2>2. StaysInClosure(q)
    BY <1>1, <2>1 DEF StaysInClosure, seen
  <2>3. \A p \in Paths : Ahead(q, p) => Ahead(r, p)
    BY <1>3, <2>1 DEF Ahead, seen
  <2> QED BY <2>1, <2>2, <2>3 DEF Continues, Missing, Extracting
<1> QED BY <1>2, <1>3 DEF rest, h, seen

\* Bytes are what was asked for, and the CAS stays as it should be.
LEMMA Outcomes ==
  ASSUME IInv, CInv, NEW t, ThreadStep(t)
  PROVE  /\ \/ Fails(t)
            \/ /\ Continues(th[t], th'[t])
               /\ th'[t].pc = "verify" =>
                    faulty' \/ th'[t].blob = FileHash(Cache(t), th'[t].cur)
         /\ CasIsHonest'
         /\ faulty => faulty'
<1> DEFINE r == th[t]
<1>1. /\ t \in DOMAIN th /\ ThreadOK(r) /\ r.pc # "done" /\ r \in Thread
  BY ThreadStepShape DEF IInv, ThreadOK
<1>2. /\ r.root \in Paths /\ r.cur \in Paths /\ Cache(t) \in Caches
      /\ r.pc \in Fetching => r.cur \in r.visited
  BY <1>1, AtWork DEF Cache
<1>3. StaysInClosure(r) /\ BytesAsAsked(r) /\ CasIsHonest
  BY <1>1 DEF CInv, ThreadKnows
<1>4. \A x : Step(t, x) => th'[t] = x
  BY <1>1, StepFrame
<1>5. /\ {"notFound", "transport", "failed", "exists"} \subseteq Errors
      /\ \A k \in DOMAIN Nar[r.cur] : k \in Nat
  BY <1>2, NarType DEF Errors
<1>6. ASSUME UNCHANGED cas PROVE CasIsHonest'
  BY <1>3, <1>6 DEF CasIsHonest
<1>7. FileHash(Cache(t), r.cur) \in Blobs /\ Garbage \in Blobs /\ Garbage # NoBlob
      /\ FileHash(Cache(t), r.cur) # NoBlob
  BY <1>2, CacheAssumption DEF FileHash, Blobs
<1>8. CASE Visit(t)
  <2> DEFINE rest == [r EXCEPT !.pending = Tail(@)]
             in   == [r EXCEPT !.pending = Tail(@), !.pc = "narinfo", !.cur = Head(r.pending),
                               !.visited = @ \cup {Head(r.pending)}]
  <2>1. /\ r.pc = "visit" /\ r.pending # << >> /\ NoFault /\ UNCHANGED cas
        /\ \/ th'[t] = rest
           \/ Head(r.pending) \notin r.visited /\ th'[t] = in
    BY <1>4, <1>8 DEF Visit, At
  <2>2. Continues(r, th'[t]) /\ th'[t].pc # "verify"
    <3> DEFINE q == th'[t]
    <3> HIDE DEF q, r
    <3>1. q = th'[t]
      BY DEF q
    <3> QED BY <1>1, <1>3, <2>1, <3>1, VisitContinues
  <2> QED BY <1>6, <2>1, <2>2 DEF NoFault
<1>9. CASE Finish(t)
  <2> DEFINE q == [r EXCEPT !.pc = "done"]
  <2>1. th'[t] = q /\ r.pc = "visit" /\ NoFault /\ UNCHANGED cas
    BY <1>4, <1>9 DEF Finish, Goto, At
  <2> HIDE DEF r
  <2>2. /\ q.root = r.root /\ q.sub = r.sub /\ q.err = r.err /\ q.pc = "done"
        /\ q.cur = r.cur /\ q.visited = r.visited /\ q.pending = r.pending
    BY <1>1 DEF Thread
  <2> HIDE DEF q
  <2>3. Continues(r, q)
    BY <1>3, <1>5, <2>1, <2>2, MovesOn DEF Extracting
  <2> QED BY <1>6, <2>1, <2>2, <2>3 DEF NoFault, r
<1>10. CASE FetchNarInfo(t)
  <2>1. r.pc = "narinfo" /\ UNCHANGED <<disk, cas>>
    BY <1>10 DEF FetchNarInfo, At
  <2>2. CASE Goto(t, "check") /\ NoFault
    <3> DEFINE q == [r EXCEPT !.pc = "check"]
    <3>1. th'[t] = q
      BY <1>4, <2>2 DEF Goto
    <3> HIDE DEF r
    <3>2. /\ q.root = r.root /\ q.sub = r.sub /\ q.err = r.err /\ q.pc = "check"
          /\ q.cur = r.cur /\ q.visited = r.visited /\ q.pending = r.pending
      BY <1>1 DEF Thread
    <3> HIDE DEF q
    <3>3. Continues(r, q)
      BY <1>3, <1>5, <2>1, <3>2, MovesOn DEF Extracting
    <3> QED BY <1>6, <2>1, <2>2, <3>1, <3>2, <3>3 DEF NoFault, r
  <2>3. CASE Cur(t) \notin Hosted[Cache(t)] /\ Fail(t, "notFound") /\ NoFault
    BY <1>4, <1>5, <1>6, <2>1, <2>3 DEF Fail, Fails, Reason, Cur, NoFault
  <2>4. ASSUME NEW e \in {"transport", "failed"}, Fail(t, e), Fault PROVE Fails(t) /\ CasIsHonest' /\ faulty'
    BY <1>4, <1>5, <1>6, <2>1, <2>4 DEF Fail, Fails, Reason, Fault
  <2> QED BY <1>10, <2>2, <2>3, <2>4 DEF FetchNarInfo
<1>11. CASE CheckExists(t)
  <2>1. r.pc = "check" /\ NoFault /\ UNCHANGED <<disk, cas>>
    BY <1>11 DEF CheckExists, At
  <2>2. CASE Step(t, Descend(r))
    <3>1. th'[t] = Descend(r) /\ Descend(r).pc = "visit"
      BY <1>1, <1>4, <2>2, DescendFacts
    <3>2. Continues(r, Descend(r))
      BY <1>1, <1>2, <1>3, <2>1, DescendContinues DEF Fetching
    <3> QED BY <1>6, <2>1, <3>1, <3>2 DEF NoFault
  <2>3. CASE Goto(t, "lookup")
    <3> DEFINE q == [r EXCEPT !.pc = "lookup"]
    <3>1. th'[t] = q
      BY <1>4, <2>3 DEF Goto
    <3> HIDE DEF r
    <3>2. /\ q.root = r.root /\ q.sub = r.sub /\ q.err = r.err /\ q.pc = "lookup"
          /\ q.cur = r.cur /\ q.visited = r.visited /\ q.pending = r.pending
      BY <1>1 DEF Thread
    <3> HIDE DEF q
    <3>3. Continues(r, q)
      BY <1>3, <1>5, <2>1, <3>2, MovesOn DEF Extracting
    <3> QED BY <1>6, <2>1, <3>1, <3>2, <3>3 DEF NoFault, r
  <2> QED BY <1>11, <2>2, <2>3 DEF CheckExists
<1>12. ASSUME NEW b, th'[t] = [r EXCEPT !.pc = "verify", !.blob = b],
              r.pc \in {"lookup", "download"}, faulty' \/ b = FileHash(Cache(t), r.cur)
       PROVE  /\ Continues(r, th'[t])
              /\ faulty' \/ th'[t].blob = FileHash(Cache(t), th'[t].cur)
  <2> DEFINE q == [r EXCEPT !.pc = "verify", !.blob = b]
  <2>1. th'[t] = q
    BY <1>12
  <2> HIDE DEF r
  <2>3. /\ q.root = r.root /\ q.sub = r.sub /\ q.err = r.err /\ q.pc = "verify"
        /\ q.cur = r.cur /\ q.visited = r.visited /\ q.pending = r.pending /\ q.blob = b
    BY <1>1 DEF Thread
  <2> HIDE DEF q
  <2>4. Continues(r, q)
    BY <1>3, <1>5, <1>12, <2>3, MovesOn DEF Extracting
  <2> QED BY <1>12, <2>1, <2>3, <2>4
<1>13. CASE LookupCas(t)
  <2>1. r.pc = "lookup" /\ NoFault /\ UNCHANGED <<disk, cas>>
    BY <1>13 DEF LookupCas, At
  <2>2. CASE /\ cas[FileHash(Cache(t), Cur(t))] # NoBlob
             /\ Step(t, [r EXCEPT !.pc = "verify", !.blob = cas[FileHash(Cache(t), Cur(t))]])
    <3> DEFINE b == cas[FileHash(Cache(t), Cur(t))]
    <3>1. b = FileHash(Cache(t), r.cur)
      BY <1>3, <1>7, <2>2 DEF CasIsHonest, Cur
    <3>2. th'[t] = [r EXCEPT !.pc = "verify", !.blob = b]
      BY <1>4, <2>2
    <3> HIDE DEF b
    <3> QED BY <1>6, <1>12, <2>1, <3>1, <3>2 DEF NoFault
  <2>3. CASE Goto(t, "download")
    <3> DEFINE q == [r EXCEPT !.pc = "download"]
    <3>1. th'[t] = q
      BY <1>4, <2>3 DEF Goto
    <3> HIDE DEF r
    <3>2. /\ q.root = r.root /\ q.sub = r.sub /\ q.err = r.err /\ q.pc = "download"
          /\ q.cur = r.cur /\ q.visited = r.visited /\ q.pending = r.pending
      BY <1>1 DEF Thread
    <3> HIDE DEF q
    <3>3. Continues(r, q)
      BY <1>3, <1>5, <2>1, <3>2, MovesOn DEF Extracting
    <3> QED BY <1>6, <2>1, <3>1, <3>2, <3>3 DEF NoFault, r
  <2> QED BY <1>13, <2>2, <2>3 DEF LookupCas
<1>14. CASE Download(t)
  <2>1. r.pc = "download" /\ UNCHANGED disk
    BY <1>14 DEF Download, At
  <2>2. ASSUME NEW b \in Blobs, Received(t, b), faulty' \/ b = FileHash(Cache(t), r.cur)
        PROVE  /\ Continues(r, th'[t]) /\ CasIsHonest'
               /\ faulty' \/ th'[t].blob = FileHash(Cache(t), th'[t].cur)
    <3>1. th'[t] = [r EXCEPT !.pc = "verify", !.blob = b]
      BY <1>4, <2>2 DEF Received
    <3>2. cas' = [cas EXCEPT ![b] = b] \/ UNCHANGED cas
      BY <2>2 DEF Received, PutKey
    <3>3. CasIsHonest'
      BY <1>3, <2>2, <3>2 DEF CasIsHonest, IInv, TypeOK
    <3> QED BY <1>12, <2>1, <2>2, <3>1, <3>3
  <2>3. CASE Received(t, FileHash(Cache(t), Cur(t))) /\ NoFault
    BY <1>7, <2>2, <2>3 DEF Cur, NoFault
  <2>4. CASE Received(t, Garbage) /\ Fault
    BY <1>7, <2>2, <2>4 DEF Fault
  <2>5. ASSUME NEW e \in {"transport", "failed"}, Fail(t, e), Fault, UNCHANGED cas
        PROVE  Fails(t) /\ CasIsHonest' /\ faulty'
    BY <1>4, <1>5, <1>6, <2>1, <2>5 DEF Fail, Fails, Reason, Fault
  <2> QED BY <1>14, <2>3, <2>4, <2>5 DEF Download
<1>15. CASE Verify(t)
  <2>1. r.pc = "verify" /\ NoFault /\ UNCHANGED <<disk, cas>>
    BY <1>15 DEF Verify, At
  <2>2. CASE Step(t, [r EXCEPT !.pc = "extract", !.node = 1])
    <3> DEFINE q == [r EXCEPT !.pc = "extract", !.node = 1]
    <3>1. th'[t] = q
      BY <1>4, <2>2
    <3> HIDE DEF r
    <3>2. /\ q.root = r.root /\ q.sub = r.sub /\ q.err = r.err /\ q.pc = "extract" /\ q.node = 1
          /\ q.cur = r.cur /\ q.visited = r.visited /\ q.pending = r.pending
      BY <1>1 DEF Thread
    <3> HIDE DEF q
    <3>3. Continues(r, q)
      BY <1>3, <1>5, <2>1, <3>2, MovesOn DEF Extracting
    <3> QED BY <1>6, <2>1, <3>1, <3>2, <3>3 DEF NoFault, r
  <2>3. CASE ~Verified(r.blob, Cur(t)) /\ Fail(t, "failed")
    <3>1. faulty
      BY <1>2, <1>3, <2>1, <2>3 DEF BytesAsAsked, Verified, Cache, Cur
    <3> QED BY <1>4, <1>5, <1>6, <2>1, <2>3, <3>1 DEF Fail, Fails, Reason, NoFault
  <2> QED BY <1>15, <2>2, <2>3 DEF Verify
<1>16. ASSUME r.pc \in Extracting, th'[t] = NextNode(r), NoFault, UNCHANGED cas
       PROVE  /\ Continues(r, th'[t]) /\ th'[t].pc # "verify"
              /\ CasIsHonest'
              /\ faulty => faulty'
  <2>1. Continues(r, NextNode(r))
    BY <1>1, <1>2, <1>3, <1>16, NextNodeContinues DEF Extracting, Fetching
  <2>2. NextNode(r).pc \in {"extract", "visit"}
    BY <1>1, <1>16, NextNodeFacts, DescendFacts
  <2> QED BY <1>6, <1>16, <2>1, <2>2 DEF NoFault
<1>17. CASE MakeDirectory(t)
  BY <1>4, <1>16, <1>17 DEF MakeDirectory, At, Extracting
<1>18. CASE CreateFile(t)
  <2> DEFINE q == [r EXCEPT !.pc = "write"]
  <2>1. th'[t] = q /\ r.pc = "extract" /\ NoFault /\ UNCHANGED cas /\ r.cur \in r.visited
    BY <1>2, <1>4, <1>18 DEF CreateFile, Goto, At, Fetching
  <2> HIDE DEF r
  <2>2. /\ q.root = r.root /\ q.sub = r.sub /\ q.err = r.err /\ q.pc = "write"
        /\ q.cur = r.cur /\ q.visited = r.visited /\ q.pending = r.pending /\ q.node = r.node
        /\ r.node \in Nat
    BY <1>1 DEF Thread
  <2> HIDE DEF q
  <2>3. StaysInClosure(q)
    BY <1>3, <2>2 DEF StaysInClosure
  <2>4. \A p \in Paths : Ahead(q, p) => Ahead(r, p) /\ p # r.cur
    BY <2>1, <2>2 DEF Ahead
  <2>5. \A k \in DOMAIN Nar[q.cur] : NodeAhead(q, k) => NodeAhead(r, k) /\ k # r.node
    BY <1>5, <2>1, <2>2 DEF NodeAhead
  <2>6. Continues(r, q)
    BY <2>2, <2>3, <2>4, <2>5 DEF Continues
  <2> QED BY <1>6, <2>1, <2>2, <2>6 DEF NoFault, r
<1>19. CASE WriteFile(t)
  BY <1>4, <1>16, <1>19 DEF WriteFile, At, Extracting
<1>20. CASE MakeSymlink(t)
  <2>1. r.pc = "extract" /\ Node(t) = "symlink" /\ NoFault /\ UNCHANGED cas
    BY <1>20 DEF MakeSymlink, At
  <2>2. CASE Step(t, NextNode(r))
    BY <1>4, <1>16, <2>1, <2>2 DEF Extracting
  <2>3. CASE /\ disk[Cur(t)][r.node] # "absent" /\ Fail(t, "exists") /\ UNCHANGED disk
    BY <1>4, <1>5, <1>6, <2>1, <2>3 DEF Fail, Fails, Reason, Cur, NoFault
  <2> QED BY <1>20, <2>2, <2>3 DEF MakeSymlink
<1>21. CASE DiskError(t)
  BY <1>4, <1>5, <1>6, <1>21 DEF DiskError, Fail, Fails, Reason, Fault
<1> QED BY <1>8, <1>9, <1>10, <1>11, <1>13, <1>14, <1>15, <1>17, <1>18, <1>19, <1>20, <1>21
        DEF ThreadStep

-----------------------------------------------------------------------------
(* The conjuncts of CInv, one thread step at a time *)

\* No step changes what the threads are after.
LEMMA RootsStay ==
  ASSUME IInv, CInv, NEW t, ThreadStep(t)
  PROVE  /\ t \in DOMAIN th /\ DOMAIN th' = DOMAIN th
         /\ \A u \in DOMAIN th : th'[u].root = th[u].root
         /\ \A u \in DOMAIN th, p \in Paths : Shared(u, p)' <=> Shared(u, p)
<1>1. /\ t \in DOMAIN th /\ ThreadOK(th[t]) /\ DOMAIN th' = DOMAIN th
      /\ \A u \in DOMAIN th \ {t} : th'[u] = th[u]
  BY ThreadStepShape DEF IInv
<1>2. th'[t].root = th[t].root
  BY <1>1, Outcomes, AfterErrorAll DEF Fails, Continues
<1>3. \A u \in DOMAIN th : th'[u].root = th[u].root
  BY <1>1, <1>2
<1>4. ASSUME NEW u \in DOMAIN th, NEW p \in Paths PROVE Shared(u, p)' <=> Shared(u, p)
  <2>1. Shared(u, p)' <=> \E v \in DOMAIN th' \ {u} : p \in Closure(th'[v].root)
    BY DEF Shared
  <2>2. \A v \in DOMAIN th : Closure(th'[v].root) = Closure(th[v].root)
    BY <1>3
  <2> QED BY <1>1, <2>1, <2>2 DEF Shared
<1> QED BY <1>1, <1>3, <1>4

\* What a thread finds new in its way is another's work.
LEMMA NewIsShared ==
  ASSUME IInv, CInv, NEW t, ThreadStep(t), NEW u \in DOMAIN th, u # t,
         NEW p \in Paths, NEW k \in DOMAIN Nar[p],
         disk[p][k] = "absent", disk'[p][k] # "absent"
  PROVE  Shared(u, p)
<1>1. t \in DOMAIN th /\ th[t].pc \in Extracting /\ p = th[t].cur
  BY ThreadStepShape, DiskStep DEF IInv
<1>2. p \in Closure(th[t].root)
  BY <1>1, AtWork DEF Extracting
<1> QED BY <1>1, <1>2 DEF Shared

\* A thread keeps to its closure and its bytes.
LEMMA ThreadKnowsStep ==
  ASSUME IInv, CInv, NEW t, ThreadStep(t)
  PROVE  \A u \in DOMAIN th' : ThreadKnows(th[u])'
<1> SUFFICES ASSUME NEW u \in DOMAIN th' PROVE ThreadKnows(th[u])'
  OBVIOUS
<1>1. /\ u \in DOMAIN th /\ t \in DOMAIN th /\ ThreadOK(th[t]) /\ th[t].pc # "done"
      /\ \A v \in DOMAIN th \ {t} : th'[v] = th[v]
  BY ThreadStepShape DEF IInv
<1>2. ThreadKnows(th[u]) /\ (faulty => faulty')
  BY <1>1, Outcomes DEF CInv
<1>3. CASE u # t
  <2>1. th'[u] = th[u]
    BY <1>1, <1>3
  <2> QED BY <1>2, <2>1 DEF ThreadKnows, StaysInClosure, BytesAsAsked
<1>4. CASE u = t
  <2> DEFINE r == th[t]
             q == th'[t]
  <2>1. /\ r.err = "none" /\ r.root \in Paths /\ r.root # Malformed
        /\ r.root \in Closure(r.root) /\ StaysInClosure(r)
    BY <1>1, <1>2, <1>4, AtWork, ClosureIsClosed, PathsAssumption DEF ThreadKnows
  <2>2. CASE Fails(t)
    <3> PICK e \in Errors : q = AfterError(r, e)
      BY <2>2 DEF Fails
    <3>1. /\ q.root = r.root /\ q.cur = r.cur
          /\ \/ q.pc = "visit" /\ q.err = "none" /\ q.visited = {} /\ q.pending = <<r.root>>
             \/ q.pc = "done" /\ q.visited = r.visited /\ q.pending = r.pending
      BY <1>1, <2>1, AfterErrorAll
    <3> HIDE DEF q, r
    <3>2. StaysInClosure(q)
      BY <2>1, <3>1, RangeOfOne DEF StaysInClosure
    <3>3. StaysInClosure(th[u])'
      BY <1>4, <3>2 DEF StaysInClosure, q
    <3> QED BY <1>4, <2>1, <3>1, <3>3 DEF ThreadKnows, BytesAsAsked, q
  <2>3. CASE /\ Continues(r, q)
             /\ q.pc = "verify" => faulty' \/ q.blob = FileHash(Cache(t), q.cur)
    <3>1. q.root = r.root /\ q.sub = r.sub /\ q.err = r.err /\ StaysInClosure(q)
      BY <2>3 DEF Continues
    <3>2. StaysInClosure(th[u])'
      BY <1>4, <3>1 DEF StaysInClosure
    <3>3. BytesAsAsked(th[u])'
      BY <1>4, <2>3, <3>1 DEF BytesAsAsked, Cache
    <3> QED BY <1>4, <2>1, <3>1, <3>2, <3>3 DEF ThreadKnows
  <2> QED BY <2>2, <2>3, Outcomes
<1> QED BY <1>3, <1>4

\* A root node in a thread's way was there before, or is another's.
LEMMA RootsAreTakenStep ==
  ASSUME IInv, CInv, NEW t, ThreadStep(t)
  PROVE  RootsAreTaken'
<1> SUFFICES ASSUME NEW u \in DOMAIN th', NEW p \in Paths,
                    Ahead(th'[u], p), disk'[p][1] # "absent"
             PROVE  SecondTry(u)' \/ Shared(u, p)'
  BY DEF RootsAreTaken, Ahead
<1>1. /\ u \in DOMAIN th /\ t \in DOMAIN th /\ ThreadOK(th[t]) /\ runs' = runs
      /\ \A v \in DOMAIN th \ {t} : th'[v] = th[v]
      /\ 1 \in DOMAIN Nar[p]
      /\ Shared(u, p)' <=> Shared(u, p)
  BY ThreadStepShape, RootsStay, NarType DEF IInv
<1>2. ASSUME Ahead(th[u], p), disk[p][1] # "absent", th'[u].sub = th[u].sub
      PROVE  SecondTry(u)' \/ Shared(u, p)'
  BY <1>1, <1>2 DEF CInv, RootsAreTaken, SecondTry
<1>3. CASE u # t
  <2>1. th'[u] = th[u]
    BY <1>1, <1>3
  <2> QED BY <1>1, <1>2, <1>3, <2>1, NewIsShared
<1>4. CASE u = t
  <2> DEFINE r == th[t]
             q == th'[t]
  <2>1. r.sub \in Nat \ {0}
    BY <1>1, SubsType DEF ThreadOK, Thread
  <2>2. CASE Fails(t)
    <3> PICK e \in Errors : q = AfterError(r, e)
      BY <2>2 DEF Fails
    <3>1. /\ q.cur = r.cur
          /\ \/ q.sub = r.sub + 1
             \/ q.sub = r.sub /\ q.pc = "done" /\ q.visited = r.visited
      BY <1>1, AfterErrorAll
    <3>2. CASE q.sub = r.sub + 1
      BY <1>4, <2>1, <3>2 DEF SecondTry
    <3>3. CASE q.sub = r.sub /\ q.pc = "done" /\ q.visited = r.visited
      <4>1. Ahead(r, p) /\ UNCHANGED disk
        BY <1>4, <2>2, <3>1, <3>3 DEF Ahead, Fails
      <4> QED BY <1>2, <1>4, <3>3, <4>1
    <3> QED BY <3>1, <3>2, <3>3
  <2>3. CASE Continues(r, q)
    <3>1. q.sub = r.sub /\ Ahead(r, p) /\ ~(r.pc \in Extracting /\ p = r.cur /\ 1 = r.node)
      BY <1>4, <2>3 DEF Continues
    <3>2. disk'[p][1] = disk[p][1]
      BY <1>1, <3>1, DiskStep DEF IInv
    <3> QED BY <1>2, <1>4, <3>1, <3>2
  <2> QED BY <2>2, <2>3, Outcomes
<1> QED BY <1>3, <1>4

\* A node in the way of an extraction is another's.
LEMMA NodesAreTakenStep ==
  ASSUME IInv, CInv, NEW t, ThreadStep(t)
  PROVE  NodesAreTaken'
<1> SUFFICES ASSUME NEW u \in DOMAIN th', th'[u].pc \in Missing, Nar[th'[u].cur][1] # "symlink",
                    NEW k \in DOMAIN Nar[th'[u].cur], NodeAhead(th'[u], k),
                    disk'[th'[u].cur][k] # "absent"
             PROVE  Shared(u, th[u].cur)'
  BY DEF NodesAreTaken, NodeAhead
<1>1. /\ u \in DOMAIN th /\ t \in DOMAIN th /\ ThreadOK(th[u]) /\ ThreadOK(th[t])
      /\ \A v \in DOMAIN th \ {t} : th'[v] = th[v]
      /\ th[t].pc # "done" /\ th[t].cur \in Paths
  BY ThreadStepShape DEF IInv, TypeOK, ThreadOK
<1>2. \A p \in Paths : Shared(u, p)' <=> Shared(u, p)
  BY <1>1, RootsStay
<1>3. ASSUME th'[u].cur = th[u].cur, th[u].cur \in Paths, Shared(u, th[u].cur)
      PROVE  Shared(u, th[u].cur)'
  BY <1>1, <1>3, RootsStay DEF Shared
<1>4. CASE u # t
  <2>1. th'[u] = th[u] /\ th[u].cur \in Paths
    BY <1>1, <1>4 DEF ThreadOK, Missing
  <2>2. CASE disk[th[u].cur][k] # "absent"
    BY <1>1, <1>3, <2>1, <2>2 DEF CInv, NodesAreTaken
  <2>3. CASE disk[th[u].cur][k] = "absent"
    BY <1>1, <1>3, <1>4, <2>1, <2>3, NewIsShared
  <2> QED BY <2>2, <2>3
<1>5. CASE u = t
  <2> DEFINE r == th[t]
             q == th'[t]
  <2>1. CASE Fails(t)
    <3> PICK e \in Errors : q = AfterError(r, e)
      BY <2>1 DEF Fails
    <3>1. q.pc \in {"visit", "done"}
      BY <1>1, AfterErrorAll
    <3> QED BY <1>5, <3>1 DEF Missing
  <2>2. CASE Continues(r, q)
    <3>1. /\ q.cur = r.cur
          /\ r.pc \in Missing => NodeAhead(r, k)
          /\ ~(r.pc \in Extracting /\ k = r.node)
      BY <1>5, <2>2 DEF Continues
    <3>2. disk[r.cur][k] # "absent"
      BY <1>1, <1>5, <3>1, DiskStep DEF IInv
    <3>3. r.pc \in Missing
      <4>1. r.pc \in Missing \/ ~Exists(r.cur)
        BY <1>5, ThreadStepShape DEF IInv
      <4>2. disk[r.cur][1] # "absent"
        BY <1>1, <1>5, <3>1, <3>2 DEF IInv, RootFirst
      <4> QED BY <1>5, <3>1, <4>1, <4>2 DEF Exists
    <3>4. Shared(t, r.cur)
      BY <1>1, <1>5, <3>1, <3>2, <3>3 DEF CInv, NodesAreTaken
    <3> QED BY <1>1, <1>3, <1>5, <3>1, <3>4
  <2> QED BY <2>1, <2>2, Outcomes
<1> QED BY <1>4, <1>5

\* A link in the way of a thread is one that FailureHasACause names.
LEMMA LinkInTheWay ==
  ASSUME IInv, CInv, NEW t \in DOMAIN th, th[t].pc = "extract", Node(t) = "symlink",
         disk[th[t].cur][th[t].node] # "absent"
  PROVE  LinkIsTaken(t)
<1> DEFINE r == th[t]
<1>1. r.cur \in Paths /\ r.node \in DOMAIN Nar[r.cur] /\ r.node \in Nat
  BY NarType DEF IInv, TypeOK, ThreadOK
<1>2. CASE Nar[r.cur][1] = "symlink"
  <2>1. r.node = 1
    BY <1>1, <1>2, NarType
  <2>2. Ahead(r, r.cur)
    BY <2>1 DEF Ahead
  <2> QED BY <1>1, <1>2, <2>1, <2>2
          DEF CInv, RootsAreTaken, SecondTry, Shared, LinkIsTaken
<1>3. CASE Nar[r.cur][1] # "symlink"
  <2>1. NodeAhead(r, r.node) /\ r.pc \in Missing
    BY <1>1 DEF NodeAhead, Missing
  <2> QED BY <1>1, <1>3, <2>1 DEF CInv, NodesAreTaken, Shared, LinkIsTaken
<1> QED BY <1>2, <1>3

\* A thread that fails has a cause.
LEMMA FailureHasACauseStep ==
  ASSUME IInv, CInv, NEW t, ThreadStep(t)
  PROVE  FailureHasACause'
<1> SUFFICES ASSUME NEW u \in DOMAIN th'
             PROVE  /\ th'[u].err \in {"transport", "failed"} => faulty' \/ th'[u].root = Malformed
                    /\ th'[u].err = "notFound" => th'[u].cur \notin Hosted[Subs[Len(Subs)]]
                    /\ th'[u].err = "exists" => LinkIsTaken(u)'
  BY DEF FailureHasACause
<1>1. /\ u \in DOMAIN th /\ t \in DOMAIN th /\ ThreadOK(th[t]) /\ th[t].pc # "done"
      /\ \A v \in DOMAIN th \ {t} : th'[v] = th[v]
      /\ DOMAIN th' = DOMAIN th /\ runs' = runs
  BY ThreadStepShape DEF IInv
<1>2. /\ faulty => faulty'
      /\ \A v \in DOMAIN th : th'[v].root = th[v].root
  BY Outcomes, RootsStay
<1>3. ASSUME th'[u].cur = th[u].cur, th'[u].sub = th[u].sub, LinkIsTaken(u) PROVE LinkIsTaken(u)'
  BY <1>1, <1>2, <1>3 DEF LinkIsTaken
<1>4. CASE u # t
  <2>1. th'[u] = th[u]
    BY <1>1, <1>4
  <2> QED BY <1>1, <1>2, <1>3, <2>1 DEF CInv, FailureHasACause
<1>5. CASE u = t
  <2> DEFINE r == th[t]
             q == th'[t]
  <2>1. r.err = "none" /\ r.sub \in 1 .. Len(Subs) /\ Len(Subs) \in Nat
    BY <1>1, AtWork, SubsType
  <2>2. CASE Fails(t)
    <3> PICK e \in Errors : q = AfterError(r, e) /\ Reason(t, e)
      BY <2>2 DEF Fails
    <3>1. CASE q.err = "none"
      BY <1>5, <3>1
    <3>2. CASE /\ ~(IsCacheMiss(e) /\ r.sub < Len(Subs)) /\ q.err = e
               /\ q.sub = r.sub /\ q.cur = r.cur
      <4>1. e = "notFound" => q.cur \notin Hosted[Subs[Len(Subs)]]
        <5>1. e = "notFound" => r.sub = Len(Subs)
          BY <2>1, <3>2 DEF IsCacheMiss
        <5> QED BY <3>2, <5>1 DEF Reason, Cache
      <4>2. e = "exists" => LinkIsTaken(t)'
        BY <1>1, <1>3, <1>5, <3>2, LinkInTheWay DEF Reason
      <4> QED BY <1>5, <3>2, <4>1, <4>2 DEF Reason
    <3> QED BY <1>1, <2>1, <3>1, <3>2, AfterErrorAll
  <2>3. CASE Continues(r, q)
    BY <1>5, <2>1, <2>3 DEF Continues
  <2> QED BY <2>2, <2>3, Outcomes
<1> QED BY <1>4, <1>5

\* A substituter that is passed over lacks something, or there was a fault.
LEMMA FirstCompleteCacheStep ==
  ASSUME IInv, CInv, NEW t, ThreadStep(t)
  PROVE  FirstCompleteCacheWins'
<1> SUFFICES ASSUME NEW u \in DOMAIN th', ~faulty', NEW i \in 1 .. (th'[u].sub - 1)
             PROVE  \E p \in Closure(th'[u].root) : p \notin Hosted[Subs[i]]
  BY DEF FirstCompleteCacheWins
<1>1. /\ u \in DOMAIN th /\ t \in DOMAIN th /\ ThreadOK(th[t]) /\ th[t].pc # "done"
      /\ \A v \in DOMAIN th \ {t} : th'[v] = th[v]
  BY ThreadStepShape DEF IInv
<1>2. ~faulty /\ th'[u].root = th[u].root
  BY <1>1, Outcomes, RootsStay
<1>3. ASSUME i \in 1 .. (th[u].sub - 1) PROVE \E p \in Closure(th'[u].root) : p \notin Hosted[Subs[i]]
  BY <1>1, <1>2, <1>3 DEF CInv, FirstCompleteCacheWins
<1>4. CASE u # t
  BY <1>1, <1>3, <1>4
<1>5. CASE u = t
  <2> DEFINE r == th[t]
             q == th'[t]
  <2>1. r.sub \in Nat /\ r.cur \in Closure(r.root)
    BY <1>1, AtWork
  <2>2. CASE Fails(t)
    <3> PICK e \in Errors : q = AfterError(r, e) /\ Reason(t, e)
      BY <2>2 DEF Fails
    <3>1. CASE IsCacheMiss(e) /\ q.sub = r.sub + 1
      <4>1. r.cur \notin Hosted[Cache(t)]
        BY <3>1 DEF Reason, IsCacheMiss
      <4>2. CASE i = r.sub
        BY <1>2, <1>5, <2>1, <4>1, <4>2 DEF Cache
      <4>3. CASE i # r.sub
        BY <1>3, <1>5, <2>1, <3>1, <4>3
      <4> QED BY <4>2, <4>3
    <3>2. CASE q.sub = r.sub
      BY <1>3, <1>5, <3>2
    <3> QED BY <1>1, <3>1, <3>2, AfterErrorAll
  <2>3. CASE Continues(r, q)
    BY <1>3, <1>5, <2>3 DEF Continues
  <2> QED BY <2>2, <2>3, Outcomes
<1> QED BY <1>4, <1>5

\* A step of a thread preserves every conjunct.
LEMMA ThreadStepCauses ==
  ASSUME IInv, CInv, NEW t, ThreadStep(t)
  PROVE  CInv'
<1>1. FirstRun'
  BY ThreadStepShape DEF IInv, CInv, FirstRun
<1> QED BY <1>1, Outcomes, ThreadKnowsStep, RootsAreTakenStep, NodesAreTakenStep,
           FailureHasACauseStep, FirstCompleteCacheStep DEF CInv

-----------------------------------------------------------------------------
(* The steps of the main thread *)

\* A thread that starts has nothing behind it.
LEMMA NewThreadAll ==
  ASSUME NEW root \in Paths \cup {Malformed}
  PROVE  LET r == NewThread(root)
         IN  /\ r.root = root /\ r.sub = 1 /\ r.cur = root /\ r.visited = {}
             /\ r.pc \in {"visit", "done"}
             /\ \/ root # Malformed /\ r.err = "none" /\ r.pending = <<root>>
                \/ root = Malformed /\ r.err = "failed" /\ r.pc = "done" /\ r.pending = << >>
BY DEF NewThread

\* Without threads there is nothing to explain.
LEMMA NoThreads ==
  ASSUME CInv, th' = << >>, UNCHANGED <<disk, cas>>, FirstRun'
  PROVE  CInv'
<1>1. DOMAIN th' = {}
  OBVIOUS
<1> QED BY <1>1 DEF CInv, CasIsHonest, RootsAreTaken, NodesAreTaken, FailureHasACause,
                    FirstCompleteCacheWins

\* A run starts: on the first one the tree is empty.
LEMMA StartCauses ==
  ASSUME IInv, CInv, NEW request \in Requests, Start(request)
  PROVE  CInv'
<1>1. UNCHANGED <<disk, cas>> /\ runs' = runs + 1 /\ runs \in Nat
  BY DEF Start, IInv, TypeOK
<1>2. FirstRun'
  BY <1>1 DEF FirstRun
<1>3. CASE th' = << >>
  BY <1>1, <1>2, <1>3, NoThreads
<1>4. CASE /\ ~Unknown(request)
           /\ th' = [i \in DOMAIN request |-> NewThread(Manifest[request[i]])]
  <2>1. \A t \in DOMAIN th' : \E root \in Paths \cup {Malformed} : th'[t] = NewThread(root)
    BY <1>4, CommandAssumption DEF Unknown
  <2>2. \A t \in DOMAIN th' :
          /\ th'[t].root \in Paths \cup {Malformed}
          /\ th'[t].sub = 1 /\ th'[t].cur = th'[t].root /\ th'[t].visited = {}
          /\ th'[t].pc \in {"visit", "done"}
          /\ \/ /\ th'[t].root # Malformed /\ th'[t].err = "none"
                /\ th'[t].pending = <<th'[t].root>>
             \/ th'[t].root = Malformed /\ th'[t].err = "failed" /\ th'[t].pc = "done"
    BY <2>1, NewThreadAll
  <2>3. \A t \in DOMAIN th' : ThreadKnows(th[t])'
    <3> SUFFICES ASSUME NEW t \in DOMAIN th' PROVE ThreadKnows(th[t])'
      OBVIOUS
    <3> DEFINE q == th'[t]
    <3>1. ASSUME q.root # Malformed
          PROVE  {q.cur} \cup q.visited \cup Range(q.pending) \subseteq Closure(q.root)
      <4>1. q.root \in Paths /\ q.cur = q.root /\ q.visited = {} /\ q.pending = <<q.root>>
        BY <2>2, <3>1
      <4>2. Range(q.pending) = {q.root} /\ q.root \in Closure(q.root)
        BY <4>1, ClosureIsClosed, RangeOfOne, Zenon
      <4> QED BY <4>1, <4>2
    <3>2. StaysInClosure(th[t])'
      BY <3>1 DEF StaysInClosure
    <3> QED BY <2>2, <3>2 DEF ThreadKnows, BytesAsAsked
  <2>4. RootsAreTaken'
    <3>1. CASE runs = 0
      BY <1>1, <3>1 DEF CInv, FirstRun, RootsAreTaken
    <3>2. CASE runs # 0
      BY <1>1, <3>2 DEF RootsAreTaken, SecondTry
    <3> QED BY <3>1, <3>2
  <2>5. NodesAreTaken'
    BY <2>2 DEF NodesAreTaken, Missing
  <2>6. FailureHasACause'
    BY <2>2 DEF FailureHasACause
  <2>7. FirstCompleteCacheWins'
    <3>1. \A t \in DOMAIN th' : 1 .. (th'[t].sub - 1) = {}
      BY <2>2
    <3> QED BY <3>1 DEF FirstCompleteCacheWins
  <2>8. CasIsHonest'
    BY <1>1 DEF CInv, CasIsHonest
  <2> QED BY <1>2, <2>3, <2>4, <2>5, <2>6, <2>7, <2>8 DEF CInv
<1> QED BY <1>3, <1>4 DEF Start

\* What the causes are about, all but the phase.
Facts == <<th, disk, cas, runs, faulty>>

\* They hold as long as nothing of it changes.
LEMMA SameFacts ==
  ASSUME CInv, UNCHANGED Facts, FirstRun'
  PROVE  CInv'
<1>1. CasIsHonest' /\ \A t \in DOMAIN th' : ThreadKnows(th[t])'
  BY DEF Facts, CInv, CasIsHonest, ThreadKnows, StaysInClosure, BytesAsAsked
<1>2. RootsAreTaken'
  BY DEF Facts, CInv, RootsAreTaken, SecondTry, Shared
<1>3. NodesAreTaken'
  BY DEF Facts, CInv, NodesAreTaken, Shared
<1>4. FailureHasACause' /\ FirstCompleteCacheWins'
  BY DEF Facts, CInv, FailureHasACause, LinkIsTaken, FirstCompleteCacheWins
<1> QED BY <1>1, <1>2, <1>3, <1>4 DEF CInv

\* At first there are no threads, and no files.
LEMMA InitCauses == Init => CInv
<1> SUFFICES ASSUME Init PROVE CInv
  OBVIOUS
<1>1. DOMAIN th = {} /\ phase = "idle" /\ CasIsHonest
  BY DEF Init, CasIsHonest
<1>2. \A p \in Paths : disk[p][1] = "absent"
  BY NarType DEF Init
<1> QED BY <1>1, <1>2 DEF CInv, RootsAreTaken, NodesAreTaken, FirstRun, FailureHasACause,
                          FirstCompleteCacheWins

\* Beside IInv, the invariant is inductive.
LEMMA NextCauses == IInv /\ CInv /\ [Next]_vars => CInv'
<1> SUFFICES ASSUME IInv, CInv, [Next]_vars PROVE CInv'
  OBVIOUS
<1>1. CASE Join
  BY <1>1, SameFacts DEF Join, Facts, CInv, FirstRun
<1>2. CASE Crash
  BY <1>2, NoThreads DEF Crash, CInv, FirstRun
<1>3. CASE UNCHANGED vars
  BY <1>3, SameFacts DEF vars, Facts, CInv, FirstRun
<1> QED BY <1>1, <1>2, <1>3, StartCauses, ThreadStepCauses DEF Next

\* In every state the threads keep to their closures, and what they find in
\* their way was put there by somebody the invariant can name.
THEOREM CauseInvariance == Spec => []CInv
BY InitCauses, NextCauses, Invariance, PTL DEF Spec

\* An installation fails only for a reason of this run: a fault, a path that
\* the last substituter lacks, or a link that was there before the thread.
THEOREM FailuresExplained == Spec => []FailureHasACause
<1>1. CInv => FailureHasACause
  BY DEF CInv
<1> QED BY <1>1, CauseInvariance, PTL

\* Without a fault no thread passes over a substituter that has everything.
THEOREM FirstComplete == Spec => []FirstCompleteCacheWins
<1>1. CInv => FirstCompleteCacheWins
  BY DEF CInv
<1> QED BY <1>1, CauseInvariance, PTL
=============================================================================
