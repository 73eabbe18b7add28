--------------------------- MODULE InstallCauses ---------------------------
(***************************************************************************)
(* The inductive invariant behind FailureHasACause and                     *)
(* FirstCompleteCacheWins: a thread keeps to the closure of its root and   *)
(* to what its cache has given, and finds in its way only what others, an  *)
(* earlier run or an earlier substituter of its own put there.             *)
(***************************************************************************)
EXTENDS InstallInvariant

\* Whatever was put into the CAS, and by whom, bytes are under their own digest.
CasIsHonest == \A d \in Blobs : cas[d] \in {d, NoBlob}

StaysInClosure(r) ==
  r.root # Malformed =>
    {r.cur} \cup r.visited \cup Range(r.pending) \subseteq Closure(r.root)

\* What a thread is to verify is what it asked for, unless this run met a fault.
BytesAsAsked(r) == r.pc = "verify" => faulty \/ r.blob = FileHash(Subs[r.sub], r.cur)

ThreadKnows(r) ==
  /\ StaysInClosure(r) /\ BytesAsAsked(r)
  /\ r.err # "none" => r.pc = "done"
  /\ r.root = Malformed => r.pc = "done" /\ r.sub = 1

Shared(t, p) == \E u \in DOMAIN th \ {t} : p \in Closure(th[u].root)
SecondTry(t) == runs > 1 \/ th[t].sub > 1

\* A path whose root node the thread has yet to write, if it comes to it.
Ahead(r, p) ==
  \/ p \notin r.visited
  \/ /\ p = r.cur
     /\ \/ r.pc \in {"narinfo", "check", "lookup", "download", "verify"}
        \/ r.pc = "extract" /\ r.node = 1

RootsAreTaken ==
  \A t \in DOMAIN th : \A p \in Paths :
    Ahead(th[t], p) /\ disk[p][1] # "absent" => SecondTry(t) \/ Shared(t, p)

\* The nodes a thread has yet to write, once it has seen that there was no root.
NodeAhead(r, k) == (r.pc = "extract" => k >= r.node) /\ (r.pc = "write" => k > r.node)

NodesAreTaken ==
  \A t \in DOMAIN th : th[t].pc \in Missing /\ Nar[th[t].cur][1] # "symlink" =>
    \A k \in DOMAIN Nar[th[t].cur] :
      NodeAhead(th[t], k) /\ disk[th[t].cur][k] # "absent" => Shared(t, th[t].cur)

\* Before the first run there is nothing.
FirstRun ==
  runs = 0 => phase = "idle" /\ \A p \in Paths : disk[p][1] = "absent"

\* What the proofs carry from state to state, beside IInv.
CInv ==
  /\ CasIsHonest /\ \A t \in DOMAIN th : ThreadKnows(th[t])
  /\ RootsAreTaken /\ NodesAreTaken /\ FirstRun
  /\ FailureHasACause /\ FirstCompleteCacheWins
=============================================================================
