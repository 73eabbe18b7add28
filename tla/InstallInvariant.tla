-------------------------- MODULE InstallInvariant --------------------------
(***************************************************************************)
(* The inductive invariant behind SuccessMeansInstalled and                *)
(* DamageIsPermanent.  Its core: a node that is missing or empty in a path *)
(* that has a root is somebody's unfinished work, unless a thread of this  *)
(* run has failed or an earlier run left the path that way; and what a     *)
(* thread has visited is closed under References but for what it is at and *)
(* what it still has to visit.                                             *)
(***************************************************************************)
EXTENDS Install

Fetching   == {"narinfo", "check", "lookup", "download", "verify", "extract", "write"}
Missing    == {"lookup", "download", "verify", "extract", "write"}
Extracting == {"extract", "write"}

\* A NAR is written root first.
RootFirst ==
  \A p \in Paths : disk[p][1] = "absent" => \A k \in DOMAIN Nar[p] : disk[p][k] = "absent"

\* A link is there or it is not.
LinksAreWhole ==
  \A p \in Paths : \A k \in DOMAIN Nar[p] : Nar[p][k] = "symlink" => disk[p][k] # "empty"

\* What a thread has passed in the archive is in the tree.
WrittenInOrder ==
  \A t \in DOMAIN th : th[t].pc \in Extracting =>
    \A j \in 1 .. (th[t].node - 1) : disk[th[t].cur][j] # "absent"

Excused(p)         == p \in damaged \/ FailedThreads # {}
WritingAt(t, p, k) == th[t].pc = "write" /\ th[t].cur = p /\ th[t].node = k
ComingTo(t, p, k)  == th[t].pc \in Extracting /\ th[t].cur = p /\ th[t].node <= k

EmptyHasWriter ==
  \A p \in Paths : \A k \in DOMAIN Nar[p] :
    disk[p][k] = "empty" => Excused(p) \/ \E t \in DOMAIN th : WritingAt(t, p, k)

GapHasExtractor ==
  \A p \in Paths : \A k \in DOMAIN Nar[p] :
    disk[p][1] # "absent" /\ disk[p][k] = "absent" =>
      Excused(p) \/ \E t \in DOMAIN th : ComingTo(t, p, k)

Reached(r) == r.visited \cup Range(r.pending)

\* The walk of a thread that has not failed.
Covers(r) ==
  /\ r.root \in Reached(r)
  /\ r.pc \in Fetching => r.cur \in r.visited
  /\ r.pc = "done" => r.pending = << >>
  /\ \A p \in r.visited :
       \/ r.pc \in Fetching /\ p = r.cur
       \/ Range(References[p]) \subseteq Reached(r) /\ disk[p][1] # "absent"

WalkIsClosed == \A t \in DOMAIN th : th[t].err = "none" => Covers(th[t])

IdleIsJoined ==
  phase = "idle" =>
    /\ Partial \subseteq damaged
    /\ \A t \in DOMAIN th : th[t].pc = "done"
    /\ result = "ok" => FailedThreads = {}

\* A damaged path passes for an installed one, so no thread gets to write it.
DamageIsSkipped ==
  /\ \A p \in damaged : ~Complete(p) /\ Exists(p)
  /\ \A t \in DOMAIN th : th[t].pc \in Missing => th[t].cur \notin damaged

\* The conjunction the proofs carry from state to state.
IInv ==
  /\ TypeOK
  /\ RootFirst /\ LinksAreWhole /\ WrittenInOrder
  /\ EmptyHasWriter /\ GapHasExtractor
  /\ WalkIsClosed /\ IdleIsJoined /\ DamageIsSkipped
=============================================================================
