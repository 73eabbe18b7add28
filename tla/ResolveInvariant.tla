-------------------------- MODULE ResolveInvariant --------------------------
(***************************************************************************)
(* The inductive invariant behind NeverOlderThanClaimed, where the order   *)
(* in which a command asks (revision, key, list) goes through the cache    *)
(* file and its memory into the manifest, and behind                       *)
(* ConclusionsFromOneList, where a list goes that way in one piece.        *)
(***************************************************************************)
EXTENDS Resolve

\* What is in a text, gaps or bytes, is no older than revision r, and in its place.
KeepsUp(r, text) ==
  /\ \E later \in r .. head : Len(text) <= Len(Published[later])
  /\ \A i \in DOMAIN text : text[i] = Hole \/ Since(r, i, text[i])

\* The file of a revision holds nothing older, whoever wrote over whom.
FilesKeepUp == \A r \in Revisions : file[r] # NoFile => KeepsUp(r, file[r])

Keyed == Pcs \ {"idle", "rev", "key"}

JobKeepsUp(r) ==
  /\ r.pc = "key" => r.rev <= head
  /\ r.pc \in {"rev", "key", "lookup"} => r.text = << >> /\ r.pos = 1
  /\ r.pc = "read" => Len(r.text) + 1 = r.pos
  /\ r.pc \in Keyed => r.rev <= r.key /\ r.key <= head /\ KeepsUp(r.key, r.text)

JobsKeepUp == \A w \in Workloads : JobKeepsUp(job[w])

FoundKeepsUp ==
  \A w \in Workloads : job[w].pc \in {"open", "write", "report"} =>
    \A name \in NamesOf(w) : PiecedSince(job[w].rev, job[w].found[name])

Core == TypeOK /\ FilesKeepUp /\ JobsKeepUp /\ FoundKeepsUp /\ NeverOlderThanClaimed

-----------------------------------------------------------------------------
(* What ConclusionsFromOneList needs: the lists are whole where it is safe *)

WholeSince(r, text) == \E q \in r .. head : text = Published[q]

\* a is the first n bytes of b.
FirstOf(a, b, n) == Len(a) = n /\ n <= Len(b) /\ \A i \in 1 .. n : a[i] = b[i]

\* Two at one file, one of them writing.
ContentionIsKnown ==
  \A w \in Workloads : \A v \in Workloads \ {w} :
    At(w, "save") /\ job[v].pc \in {"save", "read"} /\ Key(v) = Key(w) => Key(w) \in unsafe

FilesAreWhole ==
  \A k \in Revisions \ unsafe : file[k] # NoFile =>
    WholeSince(k, file[k]) \/ \E w \in Workloads : At(w, "save") /\ Key(w) = k

\* What a command has in memory, and how far its file has got.
WholeJob(r) ==
  /\ r.pc # "idle" => r.result = "none"
  /\ r.pc = "create" => r.pos = 1
  /\ CacheKey(r.key) \notin unsafe =>
       /\ r.pc \in {"create", "save", "find"} => WholeSince(r.key, r.text)
       /\ r.pc = "save" => FirstOf(file[CacheKey(r.key)], r.text, r.pos - 1)
       /\ r.pc = "read" => FirstOf(r.text, file[CacheKey(r.key)], r.pos - 1)

ListsAreWhole ==
  /\ ContentionIsKnown /\ FilesAreWhole /\ \A w \in Workloads : WholeJob(job[w])
  /\ ConclusionsFromOneList

\* The conjunction the proofs carry from state to state.
IInv == Core /\ ListsAreWhole
=============================================================================
