----------------------- MODULE RootfsBuildInvariant -----------------------
(***************************************************************************)
(* The inductive invariant of RootfsBuild: what the temporary tree holds   *)
(* after so many of its steps, what the image holds while the tree is      *)
(* copied into it, and who owns it after so many declarations.             *)
(***************************************************************************)
EXTENDS RootfsBuild

-----------------------------------------------------------------------------
(* The temporary tree after k of Steps(s, order) *)

LinksEnd(order)    == 1 + Len(order)
UsersEnd(s, order) == LinksEnd(order) + IF s.users THEN 3 ELSE 0
DirsEnd(s, order)  == UsersEnd(s, order) + Len(s.dirs)

\* The packages whose bins have been linked, and the writes that have been made.
LinkedAt(order, k)    == {i \in 1 .. Len(order) : 1 + i <= k}
WritesAt(s, order, k) == {j \in 1 .. Len(Writes(s)) : DirsEnd(s, order) + j <= k}
Linked(m, order, k)   == UNION {BinOf(m[order[i]]) : i \in LinkedAt(order, k)}

\* What the packages brought is there, and only a write has changed it.
KeepsInstalled(t, m, written) ==
  LET installed == Installed(m)
  IN  \A p \in DOMAIN installed : p \in DOMAIN t /\ (t[p] = installed[p] \/ p \in written)

\* These paths of bin are links into the packages.
AreLinks(t, m, paths) ==
  \A p \in paths :
    /\ p \in DOMAIN t
    /\ \E store \in Range(m) : p \in BinOf(store) /\ t[p] = Link(StorePath(store) \o p)

\* Of the writes to a path the last counts.
HoldsWrites(t, s, done) ==
  \A j \in done :
    /\ Writes(s)[j][1] \in DOMAIN t
    /\ (\A i \in done : i > j => Writes(s)[i][1] # Writes(s)[j][1]) =>
         t[Writes(s)[j][1]] = File(Writes(s)[j][2])

HoldsDir(t, path) == path \in DOMAIN t /\ t[path] = Dir

\* A node is there for a reason: directories for one, files and links for others.
Justified(t, s, m) ==
  LET dirs  == DirsIn(Installed(m)) \cup OwnDirs(s) \cup NeededDirs(s)
      files == Solid(s, m) \cup WrittenPaths(s)
      links == Links(m)
  IN  \A p \in DOMAIN t :
        \/ t[p] = Dir /\ p \in dirs
        \/ t[p] # Dir /\ IsFile(t[p]) /\ p \in files
        \/ t[p] # Dir /\ ~IsFile(t[p]) /\ p \in links

\* What the tree holds when these paths of bin have been linked, and these
\* writes made.
Holds(t, s, m, linked, done) ==
  /\ IsTree(t) /\ DOMAIN t \subseteq Expected(s, m) /\ Justified(t, s, m)
  /\ KeepsInstalled(t, m, {Writes(s)[j][1] : j \in done})
  /\ AreLinks(t, m, linked) /\ BinPaths(m) \cap DOMAIN t \subseteq linked
  /\ HoldsWrites(t, s, done)

Progress(t, s, m, order, k) ==
  /\ Holds(t, s, m, Linked(m, order, k), WritesAt(s, order, k))
  /\ LET steps == Steps(s, order)
     IN  \A i \in 1 .. k : steps[i].do = "mkdir" => HoldsDir(t, steps[i].path)

\* Some k steps are done, and the rest is left.
InTree(t, s, m, left) ==
  \E order \in SetToSeqs(DOMAIN m) :
    LET steps == Steps(s, order)
    IN  \E k \in 0 .. Len(steps) :
          left = SubSeq(steps, k + 1, Len(steps)) /\ Progress(t, s, m, order, k)

\* The tree when all is done.
Ready(t, s, m) ==
  /\ Holds(t, s, m, BinPaths(m), DOMAIN Writes(s))
  /\ HoldsDir(t, BinDir) /\ \A p \in MadeDirs(s) : HoldsDir(t, p)

-----------------------------------------------------------------------------
(* The image *)

\* What is in the image is as in the tree, and what is not there yet is found
\* from the directory at hand, or from one on the stack.
CopyOK(nodes, t, dirs, left) ==
  /\ IsTree(nodes)
  /\ \A p \in DOMAIN nodes : p \in DOMAIN t /\ nodes[p] = t[p]
  /\ left \subseteq DOMAIN t \ {<< >>}
  /\ \A p \in left : Front(p) \in DOMAIN nodes
  /\ dirs \in Seq(DOMAIN nodes)
  /\ \A p \in DOMAIN t \ {<< >>} :
       Front(p) \in DOMAIN nodes => p \in DOMAIN nodes \cup left \/ Front(p) \in Range(dirs)

SameTree(t, u) == DOMAIN t = DOMAIN u /\ \A p \in DOMAIN t : t[p] = u[p]

\* What is in the image when the shell has been seen to.
Final(t, s, m) == IF WantsShell(s, m) THEN WithShell(t, s, m) ELSE t

\* The last of the first k declarations of a path has set its owner.
OwnersAt(owner, s, k) ==
  \A i \in 1 .. k :
    LET d == s.dirs[i]
    IN  IsGiven(d) /\ IsLast(s, i, k) =>
          Vfs(d.path) \in DOMAIN owner /\ OwnedAsGiven(owner[Vfs(d.path)], d)

OwnersOK(owner, s, left) ==
  \E k \in 0 .. Len(s.dirs) : left = SubSeq(s.dirs, k + 1, Len(s.dirs)) /\ OwnersAt(owner, s, k)

ImageIsFs == image.state = "fs"

CommandOK ==
  /\ pc # "idle" => spec \in Specs /\ ValidSpec(spec) /\ result = "none"
  /\ pc \notin {"idle", "load"} => entries \in Manifests
  /\ pc # "copy" => listing = {} /\ stack = << >>
  /\ image = [state |-> image.state, nodes |-> image.nodes, owner |-> image.owner]

PhaseOK ==
  /\ pc = "tree" => InTree(tree, spec, entries, todo)
  /\ pc \in {"format", "copy", "shell", "chown", "verify"} => Ready(tree, spec, entries)
  /\ pc = "copy" => ImageIsFs /\ image.owner = << >> /\ CopyOK(image.nodes, tree, stack, listing)
  /\ pc = "shell" => ImageIsFs /\ image.owner = << >> /\ SameTree(image.nodes, tree)
  /\ pc \in {"chown", "verify"} => ImageIsFs /\ SameTree(image.nodes, Final(tree, spec, entries))
  /\ pc \in {"chown", "verify"} /\ WantsShell(spec, entries) => ~HoldsDir(tree, ShellPath)
  /\ pc = "chown" => OwnersOK(image.owner, spec, todo)
  /\ pc = "verify" => OwnersAt(image.owner, spec, Len(spec.dirs))

IInv == TypeOK /\ CommandOK /\ PhaseOK
=============================================================================
