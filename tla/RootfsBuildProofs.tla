------------------------- MODULE RootfsBuildProofs -------------------------
(***************************************************************************)
(* Proofs about RootfsBuild: a request that is refused leaves the image of *)
(* an earlier build alone; a build that succeeds has built what was asked  *)
(* for; and one that fails had a reason to.                                *)
(***************************************************************************)
EXTENDS RootfsBuildInvariant, FiniteSetTheorems, SequenceTheorems, WellFoundedInduction, TLAPS

Paths == Seq(Names)

-----------------------------------------------------------------------------
(* Paths *)

\* A path without its last name.
LEMMA FrontFacts ==
  ASSUME NEW p \in Paths, p # << >>
  PROVE  /\ Front(p) \in Paths /\ Len(p) \in Nat \ {0} /\ Len(Front(p)) = Len(p) - 1
         /\ \A i \in 1 .. Len(p) - 1 : Front(p)[i] = p[i]
<1>1. Len(p) \in Nat \ {0} /\ \A i \in 1 .. Len(p) : p[i] \in Names
  BY DEF Paths
<1> DEFINE n == Len(p) - 1
<1>2. n \in Nat /\ \A i \in 1 .. n : p[i] \in Names
  BY <1>1
<1>3. /\ SubSeq(p, 1, n) \in Paths /\ Len(SubSeq(p, 1, n)) = IF 1 <= n THEN n - 1 + 1 ELSE 0
      /\ \A i \in 1 .. n - 1 + 1 : SubSeq(p, 1, n)[i] = p[1 + i - 1]
  <2> HIDE DEF n
  <2> QED BY <1>2, SubSeqProperties DEF Paths
<1>4. Front(p) = SubSeq(p, 1, n)
  BY DEF Front
<1>7. n = Len(p) - 1
  OBVIOUS
<1> HIDE DEF n
<1>5. ASSUME NEW i \in 1 .. n
      PROVE  Front(p)[i] = p[i]
  <2>1. i \in Int /\ i \in 1 .. n - 1 + 1 /\ 1 + i - 1 = i
    BY <1>2
  <2>2. SubSeq(p, 1, n)[i] = p[1 + i - 1]
    BY <1>3, <2>1
  <2> QED
    BY <1>4, <2>1, <2>2
<1>6. Len(Front(p)) = n
  BY <1>2, <1>3, <1>4
<1> QED
  BY <1>1, <1>3, <1>4, <1>5, <1>6, <1>7

\* Two paths are the same if their fronts and their last names are.
LEMMA SamePath ==
  ASSUME NEW p \in Paths, NEW q \in Paths, Len(p) = Len(q),
         \A i \in 1 .. Len(p) : p[i] = q[i]
  PROVE  p = q
BY DEF Paths

\* The prefixes of a path are paths that agree with it.
LEMMA PrefixFacts ==
  ASSUME NEW p \in Paths, NEW q
  PROVE  q \in Prefixes(p) <=>
           /\ q \in Paths /\ Len(q) <= Len(p) /\ \A i \in 1 .. Len(q) : q[i] = p[i]
<1>1. ASSUME q \in Prefixes(p)
      PROVE  q \in Paths /\ Len(q) <= Len(p) /\ \A i \in 1 .. Len(q) : q[i] = p[i]
  <2>1. PICK l \in 0 .. Len(p) : q = SubSeq(p, 1, l)
    BY <1>1 DEF Prefixes
  <2> QED
    BY <2>1 DEF Paths
<1>2. ASSUME q \in Paths, Len(q) <= Len(p), \A i \in 1 .. Len(q) : q[i] = p[i]
      PROVE  q \in Prefixes(p)
  <2>1. Len(q) \in 0 .. Len(p)
    BY <1>2 DEF Paths
  <2>2. SubSeq(p, 1, Len(q)) \in Paths /\ Len(SubSeq(p, 1, Len(q))) = Len(q)
    BY <2>1 DEF Paths
  <2>3. \A i \in 1 .. Len(q) : SubSeq(p, 1, Len(q))[i] = p[i]
    BY <2>1 DEF Paths
  <2>4. q = SubSeq(p, 1, Len(q))
    BY <1>2, <2>2, <2>3, SamePath
  <2> QED
    BY <2>1, <2>4 DEF Prefixes
<1> QED
  BY <1>1, <1>2

\* The root and the path itself are among them; a prefix's front is a prefix.
LEMMA PrefixesClosed ==
  ASSUME NEW p \in Paths
  PROVE  /\ << >> \in Prefixes(p) /\ p \in Prefixes(p) /\ Prefixes(p) \subseteq Paths
         /\ \A q \in Prefixes(p) \ {<< >>} : Front(q) \in Prefixes(p)
<1>1. << >> \in Paths /\ Len(<< >>) = 0 /\ Len(p) \in Nat
  BY DEF Paths
<1>2. << >> \in Prefixes(p) /\ p \in Prefixes(p) /\ Prefixes(p) \subseteq Paths
  BY <1>1, PrefixFacts
<1>3. ASSUME NEW q \in Prefixes(p), q # << >>
      PROVE  Front(q) \in Prefixes(p)
  <2>1. q \in Paths /\ Len(q) <= Len(p) /\ \A i \in 1 .. Len(q) : q[i] = p[i]
    BY <1>3, PrefixFacts
  <2>2. /\ Front(q) \in Paths /\ Len(q) \in Nat \ {0} /\ Len(Front(q)) = Len(q) - 1
        /\ \A i \in 1 .. Len(q) - 1 : Front(q)[i] = q[i]
    BY <1>3, <2>1, FrontFacts
  <2>3. Len(Front(q)) <= Len(p) /\ \A i \in 1 .. Len(Front(q)) : Front(q)[i] = p[i]
    BY <1>1, <2>1, <2>2
  <2> QED
    BY <2>2, <2>3, PrefixFacts
<1> QED
  BY <1>2, <1>3

\* A path has itself and the prefixes of its front as prefixes.
LEMMA PrefixesOfFront ==
  ASSUME NEW p \in Paths, p # << >>
  PROVE  Prefixes(p) = Prefixes(Front(p)) \cup {p}
<1>1. /\ Front(p) \in Paths /\ Len(p) \in Nat \ {0} /\ Len(Front(p)) = Len(p) - 1
      /\ \A i \in 1 .. Len(p) - 1 : Front(p)[i] = p[i]
  BY FrontFacts
<1>2. ASSUME NEW q \in Prefixes(p), q # p
      PROVE  q \in Prefixes(Front(p))
  <2>1. q \in Paths /\ Len(q) <= Len(p) /\ \A i \in 1 .. Len(q) : q[i] = p[i]
    BY PrefixFacts
  <2>2. Len(q) \in Nat
    BY <2>1 DEF Paths
  <2>3. Len(q) # Len(p)
    BY <1>2, <2>1, SamePath
  <2>4. Len(q) <= Len(Front(p)) /\ \A i \in 1 .. Len(q) : q[i] = Front(p)[i]
    BY <1>1, <2>1, <2>2, <2>3
  <2> QED
    BY <1>1, <2>1, <2>4, PrefixFacts
<1>3. ASSUME NEW q \in Prefixes(Front(p))
      PROVE  q \in Prefixes(p)
  <2>1. q \in Paths /\ Len(q) <= Len(Front(p)) /\ \A i \in 1 .. Len(q) : q[i] = Front(p)[i]
    BY <1>1, PrefixFacts
  <2>2. Len(q) \in Nat
    BY <2>1 DEF Paths
  <2>3. Len(q) <= Len(p) /\ \A i \in 1 .. Len(q) : q[i] = p[i]
    BY <1>1, <2>1, <2>2
  <2> QED
    BY <2>1, <2>3, PrefixFacts
<1> QED
  BY <1>2, <1>3, PrefixesClosed

-----------------------------------------------------------------------------
(* The paths of packages and of the root layout *)

\* Short paths, name by name.
LEMMA ShortPaths ==
  /\ << >> \in Paths /\ Len(<< >>) = 0
  /\ \A a \in Names : <<a>> \in Paths /\ Len(<<a>>) = 1 /\ <<a>>[1] = a
  /\ \A a, b \in Names : <<a, b>> \in Paths /\ Len(<<a, b>>) = 2 /\ <<a, b>>[1] = a /\ <<a, b>>[2] = b
  /\ \A a, b, c \in Names :
       /\ <<a, b, c>> \in Paths /\ Len(<<a, b, c>>) = 3
       /\ <<a, b, c>>[1] = a /\ <<a, b, c>>[2] = b /\ <<a, b, c>>[3] = c
BY DEF Paths

\* The names that the commands themselves use.
LEMMA OwnPaths ==
  /\ BinDir \in Paths /\ Len(BinDir) = 1 /\ BinDir[1] = "bin"
  /\ <<"etc">> \in Paths /\ Len(<<"etc">>) = 1 /\ <<"etc">>[1] = "etc"
  /\ ShellPath \in Paths /\ Len(ShellPath) = 2 /\ ShellPath[1] = "bin" /\ ShellPath[2] = "sh"
  /\ <<"etc", "passwd">> \in Paths /\ Len(<<"etc", "passwd">>) = 2 /\ <<"etc", "passwd">>[1] = "etc"
  /\ <<"etc", "group">> \in Paths /\ Len(<<"etc", "group">>) = 2 /\ <<"etc", "group">>[1] = "etc"
  /\ << >> \in Paths /\ Len(<< >>) = 0
<1>1. /\ "bin" \in Names /\ "sh" \in Names /\ "etc" \in Names /\ "passwd" \in Names
      /\ "group" \in Names
  BY NameAssumption
<1> QED
  BY <1>1, ShortPaths DEF BinDir, ShellPath

\* What is above the paths that a build makes itself.
LEMMA OwnFronts ==
  /\ Front(BinDir) = << >> /\ Front(<<"etc">>) = << >> /\ Front(ShellPath) = BinDir
  /\ Front(<<"etc", "passwd">>) = <<"etc">> /\ Front(<<"etc", "group">>) = <<"etc">>
  /\ Prefixes(BinDir) = {<< >>, BinDir} /\ Prefixes(<<"etc">>) = {<< >>, <<"etc">>}
<1>1. ASSUME NEW p \in Paths, Len(p) = 1
      PROVE  Front(p) = << >> /\ Prefixes(p) = {<< >>, p}
  <2>1. p # << >>
    BY <1>1, ShortPaths
  <2>2. Front(p) \in Paths /\ Len(Front(p)) = 0
    <3>1. Front(p) \in Paths /\ Len(Front(p)) = Len(p) - 1
      BY <2>1, FrontFacts
    <3> QED BY <1>1, <3>1
  <2>3. Front(p) = << >>
    BY <2>2 DEF Paths
  <2>4. Prefixes(<< >>) = {<< >>}
    <3>1. ASSUME NEW q \in Prefixes(<< >>)
          PROVE  q = << >>
      <4>1. q \in Paths /\ Len(q) <= 0
        BY ShortPaths, PrefixFacts
      <4> QED BY <4>1 DEF Paths
    <3> QED BY <3>1, OwnPaths, PrefixesClosed
  <2> QED
    BY <2>1, <2>3, <2>4, PrefixesOfFront
<1>2. ASSUME NEW p \in Paths, NEW q \in Paths, Len(p) = 2, Len(q) = 1, p[1] = q[1]
      PROVE  Front(p) = q
  <2>1. p # << >>
    BY <1>2, ShortPaths
  <2>2. Front(p) \in Paths /\ Len(Front(p)) = 1 /\ \A i \in 1 .. 1 : Front(p)[i] = p[i]
    <3>1. /\ Front(p) \in Paths /\ Len(Front(p)) = Len(p) - 1
          /\ \A i \in 1 .. Len(p) - 1 : Front(p)[i] = p[i]
      BY <2>1, FrontFacts
    <3>2. Len(p) - 1 = 1
      BY <1>2
    <3> QED BY <3>1, <3>2
  <2>3. \A i \in 1 .. 1 : Front(p)[i] = q[i]
    BY <1>2, <2>2
  <2> QED
    BY <1>2, <2>2, <2>3, SamePath
<1>3. /\ Front(BinDir) = << >> /\ Front(<<"etc">>) = << >>
      /\ Prefixes(BinDir) = {<< >>, BinDir} /\ Prefixes(<<"etc">>) = {<< >>, <<"etc">>}
  BY <1>1, OwnPaths
<1>4. Front(ShellPath) = BinDir
  BY <1>2, OwnPaths
<1>5. Front(<<"etc", "passwd">>) = <<"etc">> /\ Front(<<"etc", "group">>) = <<"etc">>
  BY <1>2, OwnPaths
<1> QED
  BY <1>3, <1>4, <1>5

\* A path below a store path is told apart by the store path and the rest.
LEMMA StoreFacts ==
  ASSUME NEW s \in Stores, NEW p \in Paths
  PROVE  LET q == StorePath(s) \o p
         IN  /\ StorePath(s) \in Paths /\ Len(StorePath(s)) = 3
             /\ q \in Paths /\ Len(q) = 3 + Len(p) /\ q[1] = "nix" /\ q[3] = s
             /\ \A i \in 1 .. 3 : q[i] = StorePath(s)[i]
             /\ \A i \in 1 .. Len(p) : q[3 + i] = p[i]
             /\ SubSeq(q, 4, Len(q)) = p
<1> DEFINE q == StorePath(s) \o p
<1>1. /\ StorePath(s) \in Paths /\ Len(StorePath(s)) = 3
      /\ StorePath(s)[1] = "nix" /\ StorePath(s)[3] = s
  <2>1. s \in Names /\ "nix" \in Names /\ "store" \in Names
    BY NameAssumption
  <2> QED
    BY <2>1, ShortPaths DEF StorePath
<1>2. Len(p) \in Nat
  BY DEF Paths
<1> HIDE DEF StorePath
<1>3. /\ q \in Paths /\ Len(q) = 3 + Len(p)
      /\ \A i \in 1 .. 3 + Len(p) : q[i] = IF i <= 3 THEN StorePath(s)[i] ELSE p[i - 3]
  <2> DEFINE r == StorePath(s)
  <2>1. r \in Seq(Names) /\ p \in Seq(Names) /\ Len(r) = 3
    BY <1>1 DEF Paths
  <2> HIDE DEF r
  <2>2. /\ r \o p \in Seq(Names) /\ Len(r \o p) = Len(r) + Len(p)
        /\ \A i \in 1 .. Len(r) + Len(p) : (r \o p)[i] = IF i <= Len(r) THEN r[i] ELSE p[i - Len(r)]
    BY <2>1, ConcatProperties
  <2> QED
    BY <2>1, <2>2 DEF r, Paths
<1>4. \A i \in 1 .. 3 : q[i] = StorePath(s)[i]
  BY <1>2, <1>3
<1>5. ASSUME NEW i \in 1 .. Len(p)
      PROVE  q[3 + i] = p[i]
  <2>1. 3 + i \in 1 .. 3 + Len(p) /\ ~(3 + i <= 3) /\ 3 + i - 3 = i
    BY <1>2
  <2> QED
    BY <1>3, <2>1
<1> HIDE DEF q
<1>6. SubSeq(q, 4, Len(q)) = p
  <2> DEFINE n == Len(q)
  <2>1. n \in Int /\ n = 3 + Len(p) /\ \A i \in 4 .. n : q[i] \in Names
    BY <1>2, <1>3 DEF Paths
  <2> HIDE DEF n
  <2>2. /\ SubSeq(q, 4, n) \in Paths /\ Len(SubSeq(q, 4, n)) = IF 4 <= n THEN n - 4 + 1 ELSE 0
        /\ \A i \in 1 .. n - 4 + 1 : SubSeq(q, 4, n)[i] = q[4 + i - 1]
    BY <2>1, SubSeqProperties DEF Paths
  <2>3. Len(SubSeq(q, 4, n)) = Len(p)
    BY <1>2, <2>1, <2>2
  <2>4. ASSUME NEW i \in 1 .. Len(p)
        PROVE  SubSeq(q, 4, n)[i] = p[i]
    <3>1. i \in 1 .. n - 4 + 1 /\ 4 + i - 1 = 3 + i
      BY <1>2, <2>1
    <3> QED
      BY <1>5, <2>2, <3>1
  <2>5. SubSeq(q, 4, n) = p
    BY <2>2, <2>3, <2>4, SamePath
  <2> QED
    BY <2>5 DEF n
<1>7. q[1] = "nix" /\ q[3] = s
  BY <1>1, <1>4
<1> QED
  BY <1>1, <1>3, <1>4, <1>5, <1>6, <1>7 DEF q

\* The front of a path below a store path.
LEMMA StoreFront ==
  ASSUME NEW s \in Stores, NEW p \in Paths, p # << >>
  PROVE  Front(StorePath(s) \o p) = StorePath(s) \o Front(p)
<1> DEFINE q == StorePath(s) \o p
           r == StorePath(s) \o Front(p)
<1>1. /\ Front(p) \in Paths /\ Len(p) \in Nat \ {0} /\ Len(Front(p)) = Len(p) - 1
      /\ \A i \in 1 .. Len(p) - 1 : Front(p)[i] = p[i]
  BY FrontFacts
<1>2. /\ q \in Paths /\ Len(q) = 3 + Len(p) /\ \A i \in 1 .. 3 : q[i] = StorePath(s)[i]
      /\ \A i \in 1 .. Len(p) : q[3 + i] = p[i]
  BY StoreFacts
<1>3. /\ r \in Paths /\ Len(r) = 3 + Len(Front(p)) /\ \A i \in 1 .. 3 : r[i] = StorePath(s)[i]
      /\ \A i \in 1 .. Len(Front(p)) : r[3 + i] = Front(p)[i]
  BY <1>1, StoreFacts
<1> HIDE DEF q, r
<1>4. q # << >>
  BY <1>1, <1>2
<1>5. /\ Front(q) \in Paths /\ Len(Front(q)) = Len(q) - 1
      /\ \A i \in 1 .. Len(q) - 1 : Front(q)[i] = q[i]
  BY <1>2, <1>4, FrontFacts
<1>6. Len(Front(q)) = Len(r)
  BY <1>1, <1>2, <1>3, <1>5
<1>7. ASSUME NEW i \in 1 .. Len(r)
      PROVE  Front(q)[i] = r[i]
  <2>1. i \in Int /\ 1 <= i /\ i <= 2 + Len(p) /\ Front(q)[i] = q[i]
    BY <1>1, <1>2, <1>3, <1>5
  <2>2. CASE i <= 3
    BY <1>2, <1>3, <2>1, <2>2
  <2>3. CASE i > 3
    <3>1. PICK j \in 1 .. Len(p) - 1 : i = 3 + j
      <4>1. i - 3 \in 1 .. Len(p) - 1 /\ i = 3 + (i - 3)
        BY <1>1, <2>1, <2>3
      <4> QED BY <4>1
    <3>2. j \in 1 .. Len(p) /\ j \in 1 .. Len(Front(p))
      BY <1>1
    <3>3. q[3 + j] = p[j] /\ r[3 + j] = Front(p)[j] /\ Front(p)[j] = p[j]
      BY <1>1, <1>2, <1>3, <3>2
    <3> QED
      BY <2>1, <3>1, <3>3
  <2> QED
    BY <2>1, <2>2, <2>3
<1> QED
  BY <1>3, <1>5, <1>6, <1>7, SamePath DEF q, r

\* Two paths below store paths are one only if both parts are.
LEMMA StoreInjective ==
  ASSUME NEW s1 \in Stores, NEW s2 \in Stores, NEW p1 \in Paths, NEW p2 \in Paths,
         StorePath(s1) \o p1 = StorePath(s2) \o p2
  PROVE  s1 = s2 /\ p1 = p2
<1>1. (StorePath(s1) \o p1)[3] = s1 /\ (StorePath(s2) \o p2)[3] = s2
  BY StoreFacts
<1>2. /\ SubSeq(StorePath(s1) \o p1, 4, Len(StorePath(s1) \o p1)) = p1
      /\ SubSeq(StorePath(s2) \o p2, 4, Len(StorePath(s2) \o p2)) = p2
  BY StoreFacts
<1> DEFINE q1 == StorePath(s1) \o p1
           q2 == StorePath(s2) \o p2
<1>3. /\ q1 = q2 /\ q1[3] = s1 /\ q2[3] = s2
      /\ SubSeq(q1, 4, Len(q1)) = p1 /\ SubSeq(q2, 4, Len(q2)) = p2
  BY <1>1, <1>2
<1> HIDE DEF q1, q2
<1> QED
  BY <1>3, Zenon

-----------------------------------------------------------------------------
(* Kinds of nodes, and changes to a tree *)

\* A node is of one kind.
LEMMA Kinds ==
  /\ ~IsFile(Dir) /\ ~IsLink(Dir)
  /\ \A c : IsFile(File(c)) /\ ~IsLink(File(c)) /\ File(c) # Dir /\ File(c)[2] = c
  /\ \A p : IsLink(Link(p)) /\ ~IsFile(Link(p)) /\ Link(p) # Dir
  /\ \A node : ~(IsFile(node) /\ IsLink(node))
BY DEF IsFile, IsLink, Dir, File, Link

\* Over, path by path.
LEMMA OverFacts ==
  ASSUME NEW f, NEW g
  PROVE  /\ DOMAIN Over(f, g) = DOMAIN f \cup DOMAIN g
         /\ \A p \in DOMAIN f : Over(f, g)[p] = f[p]
         /\ \A p \in DOMAIN g \ DOMAIN f : Over(f, g)[p] = g[p]
BY DEF Over

\* Put changes one path.
LEMMA PutFacts ==
  ASSUME NEW f, NEW p, NEW v
  PROVE  /\ DOMAIN Put(f, p, v) = DOMAIN f \cup {p} /\ Put(f, p, v)[p] = v
         /\ \A q \in DOMAIN f \ {p} : Put(f, p, v)[q] = f[q]
BY DEF Put, Over, Single

\* create_dir_all adds what is missing above a path, and that path.
LEMMA WithDirsFacts ==
  ASSUME NEW t, NEW path
  PROVE  /\ DOMAIN WithDirs(t, path) = DOMAIN t \cup Prefixes(path)
         /\ \A p \in DOMAIN t : WithDirs(t, path)[p] = t[p]
         /\ \A p \in Prefixes(path) \ DOMAIN t : WithDirs(t, path)[p] = Dir
BY DEF WithDirs, Over

\* A tree with the directories above a path, and that path, is a tree.
LEMMA WithDirsTree ==
  ASSUME NEW t, IsTree(t), NEW path \in Paths, Clear(t, path)
  PROVE  /\ IsTree(WithDirs(t, path))
         /\ \A p \in Prefixes(path) : HoldsDir(WithDirs(t, path), p)
<1> DEFINE u == WithDirs(t, path)
<1>1. /\ DOMAIN u = DOMAIN t \cup Prefixes(path) /\ \A p \in DOMAIN t : u[p] = t[p]
      /\ \A p \in Prefixes(path) \ DOMAIN t : u[p] = Dir
  BY WithDirsFacts
<1> HIDE DEF u
<1>2. \A p \in Prefixes(path) : p \in DOMAIN u /\ u[p] = Dir
  BY <1>1 DEF Clear
<1>3. ASSUME NEW p \in DOMAIN u \ {<< >>}
      PROVE  Front(p) \in DOMAIN u /\ u[Front(p)] = Dir
  <2>1. CASE p \in DOMAIN t
    BY <1>1, <1>3, <2>1 DEF IsTree
  <2>2. CASE p \in Prefixes(path)
    BY <1>2, <1>3, <2>2, PrefixesClosed
  <2> QED
    BY <1>1, <2>1, <2>2
<1>4. << >> \in DOMAIN u
  BY <1>1 DEF IsTree
<1> QED
  BY <1>2, <1>3, <1>4 DEF IsTree, HoldsDir, u

\* A node that is no directory may be put into a directory where none is.
LEMMA PutTree ==
  ASSUME NEW t, IsTree(t), NEW path, path # << >>, HoldsDir(t, Front(path)),
         NEW node, path \in DOMAIN t => t[path] # Dir
  PROVE  IsTree(Put(t, path, node))
<1> DEFINE u == Put(t, path, node)
<1>1. /\ DOMAIN u = DOMAIN t \cup {path} /\ \A q \in DOMAIN t \ {path} : u[q] = t[q]
  BY DEF Put, Over, Single
<1> HIDE DEF u
<1>2. ASSUME NEW p \in DOMAIN u \ {<< >>}
      PROVE  Front(p) \in DOMAIN u /\ u[Front(p)] = Dir
  <2>1. Front(p) \in DOMAIN t /\ t[Front(p)] = Dir
    BY <1>1, <1>2 DEF IsTree, HoldsDir
  <2> QED
    BY <1>1, <2>1
<1> QED
  BY <1>1, <1>2 DEF IsTree, u

\* Nodes that are missing may be added to directories that are there.
LEMMA OverTree ==
  ASSUME NEW t, IsTree(t), NEW new, \A p \in DOMAIN new : HoldsDir(t, Front(p))
  PROVE  IsTree(Over(t, new))
<1> DEFINE u == Over(t, new)
<1>1. DOMAIN u = DOMAIN t \cup DOMAIN new /\ \A p \in DOMAIN t : u[p] = t[p]
  BY OverFacts
<1> HIDE DEF u
<1>2. ASSUME NEW p \in DOMAIN u \ {<< >>}
      PROVE  Front(p) \in DOMAIN u /\ u[Front(p)] = Dir
  BY <1>1, <1>2 DEF IsTree, HoldsDir
<1> QED
  BY <1>1, <1>2 DEF IsTree, u

-----------------------------------------------------------------------------
(* What the packages bring *)

\* A store path is a tree of directories, files and links.
LEMMA ContentFacts ==
  ASSUME NEW s \in Stores
  PROVE  /\ IsTree(Content[s]) /\ DOMAIN Content[s] \subseteq Paths
         /\ << >> \in DOMAIN Content[s] /\ Content[s][<< >>] = Dir
         /\ BinDir \in DOMAIN Content[s] => ~IsLink(Content[s][BinDir])
         /\ \A p \in DOMAIN Content[s] :
              Content[s][p] = Dir \/ IsFile(Content[s][p]) \/ IsLink(Content[s][p])
BY ContentAssumption DEF IsTree, Range, Paths

\* A manifest names finitely many packages, each with its store path.
LEMMA ManifestFacts ==
  ASSUME NEW m \in Manifests
  PROVE  Range(m) \subseteq Stores /\ IsFiniteSet(DOMAIN m) /\ \A n \in DOMAIN m : m[n] \in Range(m)
BY ContentAssumption DEF Range

\* What there is in a bin.
LEMMA BinFacts ==
  ASSUME NEW s \in Stores, NEW p \in BinOf(s)
  PROVE  /\ p \in Paths /\ Len(p) = 2 /\ p[1] = "bin" /\ Front(p) = BinDir /\ p \in DOMAIN Content[s]
         /\ BinDir \in DOMAIN Content[s] /\ Content[s][BinDir] = Dir
<1>1. p \in DOMAIN Content[s] /\ p # << >> /\ Front(p) = BinDir /\ Content[s][BinDir] = Dir
  BY DEF BinOf, Children
<1>2. p \in Paths
  BY <1>1, ContentFacts
<1>3. BinDir \in DOMAIN Content[s]
  BY <1>1, ContentFacts DEF IsTree
<1>4. Len(p) \in Nat \ {0} /\ Len(Front(p)) = Len(p) - 1 /\ \A i \in 1 .. Len(p) - 1 : Front(p)[i] = p[i]
  BY <1>1, <1>2, FrontFacts
<1>5. Len(Front(p)) = 1 /\ Front(p)[1] = "bin"
  BY <1>1, OwnPaths
<1>6. Len(p) = 2 /\ p[1] = "bin"
  <2>1. Len(p) - 1 = 1 /\ Len(p) = 2
    <3> DEFINE n == Len(p)
               f == Len(Front(p))
    <3>1. n \in Nat /\ f = n - 1 /\ f = 1
      BY <1>4, <1>5
    <3> HIDE DEF n, f
    <3>2. n - 1 = 1 /\ n = 2
      BY <3>1
    <3> QED BY <3>2 DEF n
  <2>2. Front(p)[1] = p[1]
    BY <1>4, <2>1
  <2> QED BY <1>5, <2>1, <2>2
<1> QED
  BY <1>1, <1>2, <1>3, <1>6

\* Where an installed node comes from.
LEMMA InstalledFacts ==
  ASSUME NEW m \in Manifests
  PROVE  LET t == Installed(m)
         IN  /\ << >> \in DOMAIN t /\ t[<< >>] = Dir
             /\ \A q \in DOMAIN t :
                  \/ q \in Paths /\ Len(q) < 3 /\ t[q] = Dir
                  \/ \E s \in Range(m) : \E p \in DOMAIN Content[s] :
                       q = StorePath(s) \o p /\ q \in Paths /\ Len(q) >= 3 /\ t[q] = Content[s][p]
             /\ \A q \in DOMAIN t \ {<< >>} : q[1] = "nix"
             /\ \A s \in Range(m) : Prefixes(StorePath(s)) \subseteq DOMAIN t
             /\ \A s \in Range(m) : \A p \in DOMAIN Content[s] :
                  StorePath(s) \o p \in DOMAIN t /\ t[StorePath(s) \o p] = Content[s][p]
<1> DEFINE t     == Installed(m)
           above == UNION {Prefixes(StorePath(s)) : s \in Range(m)}
           below == UNION {{StorePath(s) \o p : p \in DOMAIN Content[s]} : s \in Range(m)}
<1>1. /\ DOMAIN t = {<< >>} \cup above \cup below
      /\ \A q \in DOMAIN t : t[q] = IF Len(q) < 3 THEN Dir ELSE Content[q[3]][SubSeq(q, 4, Len(q))]
  <2>1. t = [q \in {<< >>} \cup above \cup below |->
               IF Len(q) < 3 THEN Dir ELSE Content[q[3]][SubSeq(q, 4, Len(q))]]
    BY Zenon DEF Installed
  <2> HIDE DEF t, above, below
  <2> QED BY <2>1
<1> HIDE DEF t
<1>2. ASSUME NEW s \in Range(m), NEW p \in DOMAIN Content[s]
      PROVE  /\ StorePath(s) \o p \in DOMAIN t /\ t[StorePath(s) \o p] = Content[s][p]
             /\ StorePath(s) \o p \in Paths /\ Len(StorePath(s) \o p) >= 3 /\ (StorePath(s) \o p)[1] = "nix"
  <2> DEFINE q == StorePath(s) \o p
  <2>1. s \in Stores /\ p \in Paths
    BY ManifestFacts, ContentFacts
  <2>2. q \in Paths /\ Len(q) = 3 + Len(p) /\ q[1] = "nix" /\ q[3] = s /\ SubSeq(q, 4, Len(q)) = p
    BY <2>1, StoreFacts
  <2>3. q \in DOMAIN t
    <3>1. q \in {StorePath(s) \o r : r \in DOMAIN Content[s]}
      OBVIOUS
    <3> DEFINE under(x) == {StorePath(x) \o r : r \in DOMAIN Content[x]}
    <3>2. below = UNION {under(x) : x \in Range(m)} /\ q \in under(s)
      BY <3>1
    <3> HIDE DEF q, below, above, under
    <3> QED BY <1>1, <3>2
  <2>4. Len(p) \in Nat
    BY <2>1 DEF Paths
  <2> HIDE DEF q
  <2>5. Len(q) >= 3 /\ ~(Len(q) < 3)
    BY <2>2, <2>4
  <2>6. t[q] = Content[s][p]
    BY <1>1, <2>2, <2>3, <2>5
  <2> QED
    BY <2>2, <2>3, <2>5, <2>6 DEF q
<1>3. ASSUME NEW q \in DOMAIN t
      PROVE  /\ \/ q \in Paths /\ Len(q) < 3 /\ t[q] = Dir
                \/ \E s \in Range(m) : \E p \in DOMAIN Content[s] :
                     q = StorePath(s) \o p /\ q \in Paths /\ Len(q) >= 3 /\ t[q] = Content[s][p]
             /\ q # << >> => q[1] = "nix"
  <2>1. CASE q = << >>
    BY <1>1, <2>1, ShortPaths
  <2>2. CASE q \in above
    <3>1. PICK s \in Range(m) : q \in Prefixes(StorePath(s))
      BY <2>2
    <3>2. s \in Stores /\ << >> \in DOMAIN Content[s] /\ StorePath(s) \in Paths /\ Len(StorePath(s)) = 3
      BY ManifestFacts, ContentFacts, StoreFacts, ShortPaths
    <3>3. q \in Paths /\ Len(q) <= 3 /\ \A i \in 1 .. Len(q) : q[i] = StorePath(s)[i]
      BY <3>1, <3>2, PrefixFacts
    <3>4. Len(q) \in Nat
      BY <3>3 DEF Paths
    <3>5. StorePath(s) = StorePath(s) \o << >>
      BY <3>2, ConcatEmptySeq DEF Paths
    <3>6. CASE Len(q) = 3
      <4>1. q = StorePath(s)
        BY <3>2, <3>3, <3>6, SamePath
      <4>2. /\ StorePath(s) \o << >> \in Paths /\ Len(StorePath(s) \o << >>) >= 3
            /\ t[StorePath(s) \o << >>] = Content[s][<< >>] /\ (StorePath(s) \o << >>)[1] = "nix"
        BY <1>2, <3>2
      <4>3. q = StorePath(s) \o << >>
        BY <3>5, <4>1
      <4>4. \E p \in DOMAIN Content[s] :
              q = StorePath(s) \o p /\ q \in Paths /\ Len(q) >= 3 /\ t[q] = Content[s][p]
        BY <3>2, <4>2, <4>3, Zenon
      <4>5. q[1] = "nix"
        BY <4>2, <4>3, Zenon
      <4> QED
        BY <4>4, <4>5
    <3>7. CASE Len(q) < 3
      <4>1. t[q] = Dir
        BY <1>1, <3>7
      <4>2. q # << >> => q[1] = StorePath(s)[1]
        <5>1. q # << >> => Len(q) > 0
          BY <3>3 DEF Paths
        <5> QED
          BY <3>3, <3>4, <5>1
      <4>3. StorePath(s)[1] = "nix"
        BY <1>2, <3>2, <3>5
      <4> QED
        BY <3>3, <3>7, <4>1, <4>2, <4>3
    <3>8. Len(q) = 3 \/ Len(q) < 3
      <4> DEFINE n == Len(q)
      <4>1. n \in Nat /\ n <= 3
        BY <3>3, <3>4
      <4> HIDE DEF n
      <4>2. n = 3 \/ n < 3
        BY <4>1
      <4> QED BY <4>2 DEF n
    <3> QED
      BY <3>6, <3>7, <3>8
  <2>3. CASE q \in below
    <3>0. PICK s \in Range(m) : \E p \in DOMAIN Content[s] : q = StorePath(s) \o p
      BY <2>3
    <3>1. PICK p \in DOMAIN Content[s] : q = StorePath(s) \o p
      BY <3>0
    <3> QED
      BY <1>2, <3>1
  <2> QED
    BY <1>1, <2>1, <2>2, <2>3
<1>4. << >> \in DOMAIN t /\ t[<< >>] = Dir
  <2>1. Len(<< >>) < 3
    BY ShortPaths
  <2> QED
    BY <1>1, <2>1
<1>5. \A s \in Range(m) : Prefixes(StorePath(s)) \subseteq DOMAIN t
  BY <1>1
<1> QED
  BY <1>2, <1>3, <1>4, <1>5 DEF t

\* It is a tree, and its nodes are of the three kinds.
LEMMA InstalledTree ==
  ASSUME NEW m \in Manifests
  PROVE  LET t == Installed(m)
         IN  /\ IsTree(t) /\ DOMAIN t \subseteq Paths
             /\ \A q \in DOMAIN t : t[q] = Dir \/ IsFile(t[q]) \/ IsLink(t[q])
<1> DEFINE t == Installed(m)
<1>1. /\ << >> \in DOMAIN t /\ t[<< >>] = Dir
      /\ \A q \in DOMAIN t :
           \/ q \in Paths /\ Len(q) < 3 /\ t[q] = Dir
           \/ \E s \in Range(m) : \E p \in DOMAIN Content[s] :
                q = StorePath(s) \o p /\ q \in Paths /\ Len(q) >= 3 /\ t[q] = Content[s][p]
      /\ \A s \in Range(m) : Prefixes(StorePath(s)) \subseteq DOMAIN t
      /\ \A s \in Range(m) : \A p \in DOMAIN Content[s] :
           StorePath(s) \o p \in DOMAIN t /\ t[StorePath(s) \o p] = Content[s][p]
  BY InstalledFacts
<1> HIDE DEF t
<1>2. DOMAIN t \subseteq Paths
  BY <1>1
<1>3. ASSUME NEW q \in DOMAIN t
      PROVE  t[q] = Dir \/ IsFile(t[q]) \/ IsLink(t[q])
  BY <1>1, ManifestFacts, ContentFacts
<1>4. ASSUME NEW q \in DOMAIN t, q # << >>
      PROVE  Front(q) \in DOMAIN t /\ t[Front(q)] = Dir
  <2>1. CASE \E s \in Range(m) : \E p \in DOMAIN Content[s] : p # << >> /\ q = StorePath(s) \o p
    <3>0. PICK s \in Range(m) : \E p \in DOMAIN Content[s] : p # << >> /\ q = StorePath(s) \o p
      BY <2>1
    <3>1. PICK p \in DOMAIN Content[s] : p # << >> /\ q = StorePath(s) \o p
      BY <3>0
    <3>2. s \in Stores /\ p \in Paths /\ Front(p) \in DOMAIN Content[s] /\ Content[s][Front(p)] = Dir
      BY <3>1, ManifestFacts, ContentFacts DEF IsTree
    <3>3. Front(q) = StorePath(s) \o Front(p)
      BY <3>1, <3>2, StoreFront
    <3> QED
      BY <1>1, <3>2, <3>3
  <2>2. CASE \E s \in Range(m) : q \in Prefixes(StorePath(s))
    <3>1. PICK s \in Range(m) : q \in Prefixes(StorePath(s))
      BY <2>2
    <3>2. s \in Stores /\ StorePath(s) \in Paths /\ Len(StorePath(s)) = 3
      BY ManifestFacts, StoreFacts, ShortPaths
    <3>3. Front(q) \in Prefixes(StorePath(s)) /\ q \in Paths /\ Len(q) <= 3
      BY <1>4, <3>1, <3>2, PrefixesClosed, PrefixFacts
    <3>4. Front(q) \in DOMAIN t
      BY <1>1, <3>3
    <3>5. Len(q) \in Nat \ {0} /\ Len(Front(q)) = Len(q) - 1
      BY <1>4, <3>3, FrontFacts
    <3>6. ~(Len(Front(q)) >= 3)
      BY <3>3, <3>5
    <3> QED
      BY <1>1, <3>4, <3>6
  <2>3. \/ \E s \in Range(m) : \E p \in DOMAIN Content[s] : p # << >> /\ q = StorePath(s) \o p
        \/ \E s \in Range(m) : q \in Prefixes(StorePath(s))
    <3> DEFINE above == UNION {Prefixes(StorePath(s)) : s \in Range(m)}
               below == UNION {{StorePath(s) \o p : p \in DOMAIN Content[s]} : s \in Range(m)}
    <3>1. q = << >> \/ q \in above \/ q \in below
      <4>1. DOMAIN t = {<< >>} \cup above \cup below
        BY Zenon DEF t, Installed
      <4> HIDE DEF above, below
      <4> QED
        BY <1>4, <4>1
    <3>2. CASE q \in below
      <4>0. PICK s \in Range(m) : \E p \in DOMAIN Content[s] : q = StorePath(s) \o p
        BY <3>2
      <4>1. PICK p \in DOMAIN Content[s] : q = StorePath(s) \o p
        BY <4>0
      <4>2. CASE p = << >>
        <5>1. s \in Stores /\ StorePath(s) \in Paths
          BY ManifestFacts, StoreFacts, ShortPaths
        <5>2. q = StorePath(s)
          BY <4>1, <4>2, <5>1, ConcatEmptySeq DEF Paths
        <5> QED
          BY <5>1, <5>2, PrefixesClosed
      <4> QED
        BY <4>1, <4>2
    <3> QED
      BY <1>4, <3>1, <3>2
  <2> QED
    BY <2>1, <2>2, <2>3
<1>5. IsTree(t)
  BY <1>1, <1>4 DEF IsTree
<1> QED
  BY <1>2, <1>3, <1>5 DEF t

-----------------------------------------------------------------------------
(* Reading packages.toml *)

\* A function on 1 .. n is a sequence.
LEMMA FunctionIsSeq ==
  ASSUME NEW n \in Nat, NEW S, NEW f \in [1 .. n -> S]
  PROVE  f \in Seq(S) /\ Len(f) = n /\ DOMAIN f = 1 .. n
OBVIOUS

\* The elements of a concatenation.
LEMMA Concat ==
  ASSUME NEW S, NEW a \in Seq(S), NEW b \in Seq(S)
  PROVE  /\ a \o b \in Seq(S) /\ Len(a) \in Nat /\ Len(b) \in Nat /\ Len(a \o b) = Len(a) + Len(b)
         /\ \A i \in 1 .. Len(a) : (a \o b)[i] = a[i]
         /\ \A i \in 1 .. Len(b) : (a \o b)[Len(a) + i] = b[i]
<1>1. /\ a \o b \in Seq(S) /\ Len(a \o b) = Len(a) + Len(b)
      /\ \A i \in 1 .. Len(a) + Len(b) : (a \o b)[i] = IF i <= Len(a) THEN a[i] ELSE b[i - Len(a)]
  BY ConcatProperties
<1>2. Len(a) \in Nat /\ Len(b) \in Nat
  BY LenProperties
<1> DEFINE m == Len(a)
           n == Len(b)
           c == a \o b
<1>3. /\ m \in Nat /\ n \in Nat
      /\ \A i \in 1 .. m + n : c[i] = IF i <= m THEN a[i] ELSE b[i - m]
  BY <1>1, <1>2
<1> HIDE DEF m, n, c
<1>4. \A i \in 1 .. m : c[i] = a[i]
  BY <1>3
<1>5. ASSUME NEW i \in 1 .. n
      PROVE  c[m + i] = b[i]
  <2>1. m + i \in 1 .. m + n /\ ~(m + i <= m) /\ m + i - m = i
    BY <1>3
  <2> QED
    BY <1>3, <2>1
<1> QED
  BY <1>1, <1>2, <1>4, <1>5 DEF m, n, c

\* The same, with the lengths by name.
LEMMA ConcatLen ==
  ASSUME NEW S, NEW a \in Seq(S), NEW b \in Seq(S)
  PROVE  \A m, n : Len(a) = m /\ Len(b) = n =>
           /\ a \o b \in Seq(S) /\ Len(a \o b) = m + n
           /\ \A i \in 1 .. m : (a \o b)[i] = a[i]
           /\ \A i \in 1 .. n : (a \o b)[m + i] = b[i]
<1>1. /\ a \o b \in Seq(S) /\ Len(a \o b) = Len(a) + Len(b)
      /\ \A i \in 1 .. Len(a) : (a \o b)[i] = a[i]
      /\ \A i \in 1 .. Len(b) : (a \o b)[Len(a) + i] = b[i]
  BY Concat
<1> QED
  BY <1>1, Zenon

\* A set of numbers that is not empty has a least one.
LEMMA Least ==
  ASSUME NEW S \in SUBSET Nat, S # {}
  PROVE  \E i \in S : \A j \in S : i <= j
<1>1. \E i \in S : \A j \in S : <<j, i>> \notin OpToRel(<, Nat)
  BY WFMin, NatLessThanWellFounded, Zenon
<1>2. \A i, j \in Nat : <<j, i>> \notin OpToRel(<, Nat) => i <= j
  BY DEF OpToRel
<1> QED
  BY <1>1, <1>2

\* A set that has 0, and with a number the next one, has them all.
LEMMA AllUpTo ==
  ASSUME NEW n \in Nat, NEW S, 0 \in S, \A i \in 1 .. n : i - 1 \in S => i \in S
  PROVE  \A i \in 0 .. n : i \in S
<1> SUFFICES ASSUME NEW k \in 0 .. n, k \notin S PROVE FALSE
  OBVIOUS
<1> DEFINE T == {i \in 0 .. n : i \notin S}
<1>1. T \in SUBSET Nat /\ T # {}
  OBVIOUS
<1>2. PICK i \in T : \A j \in T : i <= j
  BY <1>1, Least
<1>3. i \in 1 .. n /\ i - 1 \in 0 .. n
  BY <1>2
<1>4. i - 1 \notin T
  BY <1>2, <1>3
<1> QED
  BY <1>2, <1>3, <1>4

\* The named parts of a path, from one part to the next.
Named(f, n, path) ==
  [i \in 0 .. n |->
     IF i = 0 THEN << >>
     ELSE IF path[i] \in Unnamed THEN f[i - 1] ELSE Append(f[i - 1], path[i])]

\* There is such a function, so that Vfs is its last value.
LEMMA NamedExist ==
  ASSUME NEW n \in Nat, NEW path
  PROVE  \E f : f = Named(f, n, path)
<1> DEFINE S == {k \in 0 .. n : \E f : f = Named(f, k, path)}
<1>1. 0 \in S
  <2>1. Named([i \in {0} |-> << >>], 0, path) = [i \in 0 .. 0 |-> << >>]
    BY DEF Named
  <2>2. [i \in {0} |-> << >>] = [i \in 0 .. 0 |-> << >>]
    OBVIOUS
  <2> QED
    BY <2>1, <2>2
<1>2. ASSUME NEW k \in 1 .. n, k - 1 \in S
      PROVE  k \in S
  <2>1. PICK f : f = Named(f, k - 1, path)
    BY <1>2
  <2>2. /\ DOMAIN f = 0 .. k - 1
        /\ \A i \in 0 .. k - 1 :
             f[i] = IF i = 0 THEN << >>
                    ELSE IF path[i] \in Unnamed THEN f[i - 1] ELSE Append(f[i - 1], path[i])
    BY <2>1 DEF Named
  <2> DEFINE g == [i \in 0 .. k |->
                     IF i = k THEN IF path[k] \in Unnamed THEN f[k - 1] ELSE Append(f[k - 1], path[k])
                     ELSE f[i]]
  <2>3. \A i \in 0 .. k :
          g[i] = IF i = 0 THEN << >>
                 ELSE IF path[i] \in Unnamed THEN g[i - 1] ELSE Append(g[i - 1], path[i])
    <3> TAKE i \in 0 .. k
    <3>1. CASE i = k
      <4>1. g[i - 1] = f[i - 1]
        BY <3>1
      <4> QED
        BY <3>1, <4>1
    <3>2. CASE i # k
      <4>1. g[i] = f[i] /\ i \in 0 .. k - 1
        BY <3>2
      <4>2. i # 0 => g[i - 1] = f[i - 1]
        BY <3>2
      <4> QED
        BY <2>2, <4>1, <4>2
    <3> QED
      BY <3>1, <3>2
  <2>4. g = Named(g, k, path)
    BY <2>3 DEF Named
  <2> QED
    BY <2>4
<1> HIDE DEF S
<1>3. n \in S
  BY <1>1, <1>2, AllUpTo
<1> QED
  BY <1>3 DEF S

\* The named parts of a path are a path.
LEMMA VfsIsPath ==
  ASSUME NEW path \in Paths
  PROVE  Vfs(path) \in Paths
<1> DEFINE n == Len(path)
           f == CHOOSE g : g = Named(g, n, path)
           S == {i \in 0 .. n : f[i] \in Paths}
<1>1. Vfs(path) = f[n]
  BY DEF Vfs, Named
<1>2. n \in Nat /\ \A i \in 1 .. n : path[i] \in Names
  BY DEF Paths
<1> HIDE DEF n
<1>3. f = Named(f, n, path)
  BY <1>2, NamedExist
<1> HIDE DEF f
<1>4. \A i \in 0 .. n :
        f[i] = IF i = 0 THEN << >>
               ELSE IF path[i] \in Unnamed THEN f[i - 1] ELSE Append(f[i - 1], path[i])
  BY <1>3 DEF Named
<1>5. 0 \in S
  <2>1. 0 \in 0 .. n
    BY <1>2
  <2>2. f[0] = << >>
    BY <1>4, <2>1
  <2>3. << >> \in Paths
    BY DEF Paths
  <2> QED
    BY <2>1, <2>2, <2>3
<1>6. ASSUME NEW i \in 1 .. n, i - 1 \in S
      PROVE  i \in S
  <2>1. i \in 0 .. n /\ i # 0
    BY <1>2
  <2>2. f[i] = f[i - 1] \/ f[i] = Append(f[i - 1], path[i])
    BY <1>4, <2>1
  <2>3. f[i - 1] \in Paths /\ path[i] \in Names
    BY <1>2, <1>6
  <2>4. Append(f[i - 1], path[i]) \in Paths
    BY <2>3 DEF Paths
  <2> QED
    BY <2>1, <2>2, <2>3, <2>4
<1> HIDE DEF S
<1>7. n \in S
  <2>1. n \in 0 .. n
    BY <1>2
  <2>2. \A i \in 0 .. n : i \in S
    BY <1>2, <1>5, <1>6, AllUpTo
  <2> QED
    BY <2>1, <2>2
<1> QED
  BY <1>1, <1>7 DEF S

\* A declaration that has been accepted leads somewhere.
LEMMA DeclaredPath ==
  ASSUME NEW s \in Specs, NEW d \in Declarations(s)
  PROVE  Vfs(d.path) \in Paths
<1>1. d.path \in Paths
  BY SpecAssumption DEF Paths
<1> QED
  BY <1>1, VfsIsPath

\* The lists of a section.
LEMMA SpecFacts ==
  ASSUME NEW s \in Specs, ValidSpec(s)
  PROVE  /\ Len(s.dirs) \in Nat /\ DOMAIN s.dirs = 1 .. Len(s.dirs)
         /\ Len(s.files) \in Nat /\ DOMAIN s.files = 1 .. Len(s.files)
         /\ Len(s.binaries) \in Nat /\ DOMAIN s.binaries = 1 .. Len(s.binaries)
         /\ \A i \in DOMAIN s.dirs : s.dirs[i] \in Declarations(s) /\ Vfs(s.dirs[i].path) \in Paths
         /\ \A i \in DOMAIN s.files : s.files[i] \in Declarations(s) /\ Vfs(s.files[i].path) \in Paths
         /\ \A i \in DOMAIN s.binaries :
              s.binaries[i] \in Declarations(s) /\ Vfs(s.binaries[i].path) \in Paths
<1>1. /\ s.dirs \in Seq(Range(s.dirs)) /\ s.files \in Seq(Range(s.files))
      /\ s.binaries \in Seq(Range(s.binaries))
  BY SpecAssumption
<1>2. /\ \A i \in DOMAIN s.dirs : s.dirs[i] \in Declarations(s)
      /\ \A i \in DOMAIN s.files : s.files[i] \in Declarations(s)
      /\ \A i \in DOMAIN s.binaries : s.binaries[i] \in Declarations(s)
  BY DEF Declarations, Range
<1>3. \A d \in Declarations(s) : Vfs(d.path) \in Paths
  BY DeclaredPath
<1> QED
  BY <1>1, <1>2, <1>3, LenProperties

\* What is written: the files, then the binaries.
LEMMA WritesFacts ==
  ASSUME NEW s \in Specs, ValidSpec(s)
  PROVE  /\ Len(Writes(s)) \in Nat /\ DOMAIN Writes(s) = 1 .. Len(Writes(s))
         /\ Len(Writes(s)) = Len(s.files) + Len(s.binaries)
         /\ \A j \in 1 .. Len(s.files) : Writes(s)[j] = <<Vfs(s.files[j].path), s.files[j].content>>
         /\ \A j \in 1 .. Len(s.binaries) :
              Writes(s)[Len(s.files) + j] = <<Vfs(s.binaries[j].path), s.binaries[j].source>>
         /\ \A j \in DOMAIN Writes(s) : Writes(s)[j][1] \in Paths
<1> DEFINE m == Len(s.files)
           n == Len(s.binaries)
           a == [i \in DOMAIN s.files |-> <<Vfs(s.files[i].path), s.files[i].content>>]
           b == [i \in DOMAIN s.binaries |-> <<Vfs(s.binaries[i].path), s.binaries[i].source>>]
           R == {a[i] : i \in DOMAIN s.files} \cup {b[i] : i \in DOMAIN s.binaries}
<1>1. /\ m \in Nat /\ DOMAIN s.files = 1 .. m /\ n \in Nat /\ DOMAIN s.binaries = 1 .. n
      /\ \A i \in 1 .. m : a[i][1] \in Paths
      /\ \A i \in 1 .. n : b[i][1] \in Paths
  BY SpecFacts
<1>2. a \in [1 .. m -> R] /\ b \in [1 .. n -> R]
  BY <1>1
<1>3. Writes(s) = a \o b
  BY DEF Writes
<1>4. /\ \A i \in 1 .. m : a[i] = <<Vfs(s.files[i].path), s.files[i].content>>
      /\ \A i \in 1 .. n : b[i] = <<Vfs(s.binaries[i].path), s.binaries[i].source>>
  BY <1>1
<1> DEFINE W == Writes(s)
<1> HIDE DEF a, b, R, m, n, W
<1>5. a \in Seq(R) /\ Len(a) = m /\ b \in Seq(R) /\ Len(b) = n
  BY <1>1, <1>2, FunctionIsSeq
<1>6. W = a \o b
  BY <1>3 DEF W
<1>7. /\ W \in Seq(R) /\ Len(W) = m + n
      /\ \A i \in 1 .. m : W[i] = a[i]
      /\ \A i \in 1 .. n : W[m + i] = b[i]
  <2>1. /\ a \o b \in Seq(R) /\ Len(a \o b) = m + n
        /\ \A i \in 1 .. m : (a \o b)[i] = a[i]
        /\ \A i \in 1 .. n : (a \o b)[m + i] = b[i]
    BY <1>5, ConcatLen
  <2> QED
    BY <1>6, <2>1, Zenon
<1>8. Len(W) \in Nat /\ DOMAIN W = 1 .. Len(W)
  BY <1>7, LenProperties
<1>9. ASSUME NEW j \in DOMAIN W
      PROVE  W[j][1] \in Paths
  <2>0. j \in 1 .. m + n
    BY <1>7, <1>8
  <2>1. j \in 1 .. m \/ (j - m \in 1 .. n /\ j = m + (j - m))
    BY <1>1, <2>0
  <2> QED
    BY <1>1, <1>7, <2>1
<1>10. /\ \A i \in 1 .. m : W[i] = <<Vfs(s.files[i].path), s.files[i].content>>
       /\ \A i \in 1 .. n : W[m + i] = <<Vfs(s.binaries[i].path), s.binaries[i].source>>
  BY <1>4, <1>7
<1> QED
  BY <1>7, <1>8, <1>9, <1>10 DEF W, m, n

\* What each step is: the bin, the links of each package, the directory and the
\* files of the users, the directories, the files and the binaries.
StepsAre(S, s, order) ==
  LET L == LinksEnd(order)
      U == UsersEnd(s, order)
      D == DirsEnd(s, order)
  IN  /\ \E R : S \in Seq(R)
      /\ L \in Nat /\ U \in Nat /\ D \in Nat /\ Len(S) = D + Len(Writes(s))
      /\ S[1] = [do |-> "mkdir", path |-> BinDir]
      /\ \A i \in 1 .. Len(order) : S[1 + i] = [do |-> "links", name |-> order[i]]
      /\ s.users =>
           /\ S[L + 1] = [do |-> "mkdir", path |-> <<"etc">>]
           /\ S[L + 2] = [do |-> "default", path |-> <<"etc", "passwd">>, content |-> "passwd"]
           /\ S[L + 3] = [do |-> "default", path |-> <<"etc", "group">>, content |-> "group"]
      /\ \A i \in 1 .. Len(s.dirs) : S[U + i] = [do |-> "mkdir", path |-> Vfs(s.dirs[i].path)]
      /\ \A j \in 1 .. Len(Writes(s)) :
           /\ S[D + j].do \in {"write", "copy"}
           /\ S[D + j].path = Writes(s)[j][1] /\ S[D + j].content = Writes(s)[j][2]
           /\ S[D + j].last \in Unnamed => BadPath(s)

\* Steps makes such a sequence.
LEMMA StepsFacts ==
  ASSUME NEW s \in Specs, ValidSpec(s), NEW X, NEW order \in Seq(X)
  PROVE  StepsAre(Steps(s, order), s, order)
<1> DEFINE n  == Len(order)
           u  == IF s.users THEN 3 ELSE 0
           nd == Len(s.dirs)
           nf == Len(s.files)
           nb == Len(s.binaries)
           a  == << [do |-> "mkdir", path |-> BinDir] >>
           b  == [i \in DOMAIN order |-> [do |-> "links", name |-> order[i]]]
           c  == IF s.users
                 THEN << [do |-> "mkdir", path |-> <<"etc">>],
                         [do |-> "default", path |-> <<"etc", "passwd">>, content |-> "passwd"],
                         [do |-> "default", path |-> <<"etc", "group">>, content |-> "group"] >>
                 ELSE << >>
           d  == [i \in DOMAIN s.dirs |-> [do |-> "mkdir", path |-> Vfs(s.dirs[i].path)]]
           e  == [i \in DOMAIN s.files |->
                    [do |-> "write", path |-> Vfs(s.files[i].path), content |-> s.files[i].content,
                     last |-> Last(s.files[i].path)]]
           f  == [i \in DOMAIN s.binaries |->
                    [do |-> "copy", path |-> Vfs(s.binaries[i].path), content |-> s.binaries[i].source,
                     last |-> Last(s.binaries[i].path)]]
           R  == {a[i] : i \in 1 .. 1} \cup {b[i] : i \in 1 .. n} \cup {c[i] : i \in 1 .. u}
                 \cup {d[i] : i \in 1 .. nd} \cup {e[i] : i \in 1 .. nf} \cup {f[i] : i \in 1 .. nb}
           S  == Steps(s, order)
<1>1. /\ n \in Nat /\ DOMAIN order = 1 .. n /\ u \in Nat
      /\ nd \in Nat /\ DOMAIN s.dirs = 1 .. nd /\ nf \in Nat /\ DOMAIN s.files = 1 .. nf
      /\ nb \in Nat /\ DOMAIN s.binaries = 1 .. nb
  BY SpecFacts, LenProperties
<1>2. S = ((((a \o b) \o c) \o d) \o e) \o f
  BY Zenon DEF Steps
<1>3. /\ a[1] = [do |-> "mkdir", path |-> BinDir]
      /\ \A i \in 1 .. n : b[i] = [do |-> "links", name |-> order[i]]
      /\ s.users =>
           /\ c[1] = [do |-> "mkdir", path |-> <<"etc">>]
           /\ c[2] = [do |-> "default", path |-> <<"etc", "passwd">>, content |-> "passwd"]
           /\ c[3] = [do |-> "default", path |-> <<"etc", "group">>, content |-> "group"]
      /\ \A i \in 1 .. nd : d[i] = [do |-> "mkdir", path |-> Vfs(s.dirs[i].path)]
      /\ \A i \in 1 .. nf :
           /\ e[i].do = "write" /\ e[i].path = Vfs(s.files[i].path) /\ e[i].content = s.files[i].content
           /\ e[i].last = Last(s.files[i].path)
      /\ \A i \in 1 .. nb :
           /\ f[i].do = "copy" /\ f[i].path = Vfs(s.binaries[i].path) /\ f[i].content = s.binaries[i].source
           /\ f[i].last = Last(s.binaries[i].path)
  BY <1>1
<1>0. /\ \A i \in 1 .. nf : e[i].last \in Unnamed => BadPath(s)
      /\ \A i \in 1 .. nb : f[i].last \in Unnamed => BadPath(s)
  BY <1>1, <1>3 DEF BadPath, Range
<1>4. /\ a \in [1 .. 1 -> {a[i] : i \in 1 .. 1}] /\ b \in [1 .. n -> {b[i] : i \in 1 .. n}]
      /\ c \in [1 .. u -> {c[i] : i \in 1 .. u}] /\ d \in [1 .. nd -> {d[i] : i \in 1 .. nd}]
      /\ e \in [1 .. nf -> {e[i] : i \in 1 .. nf}] /\ f \in [1 .. nb -> {f[i] : i \in 1 .. nb}]
  BY <1>1
<1>5. /\ {a[i] : i \in 1 .. 1} \subseteq R /\ {b[i] : i \in 1 .. n} \subseteq R
      /\ {c[i] : i \in 1 .. u} \subseteq R /\ {d[i] : i \in 1 .. nd} \subseteq R
      /\ {e[i] : i \in 1 .. nf} \subseteq R /\ {f[i] : i \in 1 .. nb} \subseteq R
  OBVIOUS
<1>6. /\ LinksEnd(order) = 1 + n /\ UsersEnd(s, order) = 1 + n + u
      /\ DirsEnd(s, order) = 1 + n + u + nd /\ (s.users => u = 3)
  BY <1>1 DEF LinksEnd, UsersEnd, DirsEnd
<1>7. /\ Len(Writes(s)) = nf + nb
      /\ \A j \in 1 .. nf : Writes(s)[j] = <<Vfs(s.files[j].path), s.files[j].content>>
      /\ \A j \in 1 .. nb : Writes(s)[nf + j] = <<Vfs(s.binaries[j].path), s.binaries[j].source>>
  BY WritesFacts
<1> HIDE DEF n, u, nd, nf, nb, a, b, c, d, e, f, R, S
<1>8. a \in Seq(R) /\ Len(a) = 1
  <2>1. a \in [1 .. 1 -> R] BY <1>4, <1>5
  <2> QED BY <2>1, FunctionIsSeq
<1>9. b \in Seq(R) /\ Len(b) = n
  <2>1. b \in [1 .. n -> R] BY <1>4, <1>5
  <2> QED BY <1>1, <2>1, FunctionIsSeq
<1>10. c \in Seq(R) /\ Len(c) = u
  <2>1. c \in [1 .. u -> R] BY <1>4, <1>5
  <2> QED BY <1>1, <2>1, FunctionIsSeq
<1>11. d \in Seq(R) /\ Len(d) = nd
  <2>1. d \in [1 .. nd -> R] BY <1>4, <1>5
  <2> QED BY <1>1, <2>1, FunctionIsSeq
<1>12. e \in Seq(R) /\ Len(e) = nf
  <2>1. e \in [1 .. nf -> R] BY <1>4, <1>5
  <2> QED BY <1>1, <2>1, FunctionIsSeq
<1>13. f \in Seq(R) /\ Len(f) = nb
  <2>1. f \in [1 .. nb -> R] BY <1>4, <1>5
  <2> QED BY <1>1, <2>1, FunctionIsSeq
<1> DEFINE p1 == a \o b
           p2 == p1 \o c
           p3 == p2 \o d
           p4 == p3 \o e
<1>14. /\ p1 \in Seq(R) /\ Len(p1) = 1 + n
       /\ \A i \in 1 .. 1 : p1[i] = a[i]
       /\ \A i \in 1 .. n : p1[1 + i] = b[i]
  <2> DEFINE one == 1
  <2>1. Len(a) = one
    BY <1>8
  <2> HIDE DEF one
  <2>2. /\ p1 \in Seq(R) /\ Len(p1) = one + n
        /\ \A i \in 1 .. one : p1[i] = a[i]
        /\ \A i \in 1 .. n : p1[one + i] = b[i]
    BY <1>8, <1>9, <2>1, ConcatLen
  <2> QED
    BY <2>2 DEF one
<1> HIDE DEF p1
<1>15. /\ p2 \in Seq(R) /\ Len(p2) = 1 + n + u
       /\ \A i \in 1 .. 1 + n : p2[i] = p1[i]
       /\ \A i \in 1 .. u : p2[1 + n + i] = c[i]
  BY <1>10, <1>14, ConcatLen
<1> HIDE DEF p2
<1>16. /\ p3 \in Seq(R) /\ Len(p3) = 1 + n + u + nd
       /\ \A i \in 1 .. 1 + n + u : p3[i] = p2[i]
       /\ \A i \in 1 .. nd : p3[1 + n + u + i] = d[i]
  BY <1>11, <1>15, ConcatLen
<1> HIDE DEF p3
<1>17. /\ p4 \in Seq(R) /\ Len(p4) = 1 + n + u + nd + nf
       /\ \A i \in 1 .. 1 + n + u + nd : p4[i] = p3[i]
       /\ \A i \in 1 .. nf : p4[1 + n + u + nd + i] = e[i]
  BY <1>12, <1>16, ConcatLen
<1> HIDE DEF p4
<1>18. /\ S \in Seq(R) /\ Len(S) = 1 + n + u + nd + nf + nb
       /\ \A i \in 1 .. 1 + n + u + nd + nf : S[i] = p4[i]
       /\ \A i \in 1 .. nb : S[1 + n + u + nd + nf + i] = f[i]
  <2>1. S = p4 \o f
    BY <1>2 DEF p1, p2, p3, p4
  <2>2. /\ p4 \o f \in Seq(R) /\ Len(p4 \o f) = 1 + n + u + nd + nf + nb
        /\ \A i \in 1 .. 1 + n + u + nd + nf : (p4 \o f)[i] = p4[i]
        /\ \A i \in 1 .. nb : (p4 \o f)[1 + n + u + nd + nf + i] = f[i]
    BY <1>13, <1>17, ConcatLen
  <2> QED
    BY <2>1, <2>2, Zenon
\* Which part an index is in is a matter of arithmetic.
<1>19. /\ \A i \in 1 .. 1 + n + u + nd : S[i] = p3[i]
       /\ \A i \in 1 .. 1 + n + u : S[i] = p2[i]
       /\ \A i \in 1 .. 1 + n : S[i] = p1[i]
  <2>1. /\ \A i \in 1 .. 1 + n + u + nd + nf : S[i] = p4[i]
        /\ \A i \in 1 .. 1 + n + u + nd : p4[i] = p3[i]
        /\ \A i \in 1 .. 1 + n + u : p3[i] = p2[i]
        /\ \A i \in 1 .. 1 + n : p2[i] = p1[i]
    BY <1>15, <1>16, <1>17, <1>18
  <2>2. n \in Nat /\ u \in Nat /\ nd \in Nat /\ nf \in Nat
    BY <1>1
  <2> QED
    BY <2>1, <2>2
<1>20. S[1] = [do |-> "mkdir", path |-> BinDir]
  BY <1>1, <1>3, <1>14, <1>19
<1>21. \A i \in 1 .. n : S[1 + i] = [do |-> "links", name |-> order[i]]
  <2>1. \A i \in 1 .. n : p1[1 + i] = b[i] /\ b[i] = [do |-> "links", name |-> order[i]]
    BY <1>3, <1>14
  <2>2. \A i \in 1 .. n : 1 + i \in 1 .. 1 + n
    BY <1>1
  <2> QED
    BY <1>19, <2>1, <2>2
<1>22. s.users =>
         /\ S[1 + n + 1] = [do |-> "mkdir", path |-> <<"etc">>]
         /\ S[1 + n + 2] = [do |-> "default", path |-> <<"etc", "passwd">>, content |-> "passwd"]
         /\ S[1 + n + 3] = [do |-> "default", path |-> <<"etc", "group">>, content |-> "group"]
  <2> SUFFICES ASSUME s.users
               PROVE  /\ S[1 + n + 1] = c[1] /\ S[1 + n + 2] = c[2] /\ S[1 + n + 3] = c[3]
    BY <1>3
  <2>1. u = 3 /\ n \in Nat
    BY <1>1, <1>6
  <2>2. \A i \in 1 .. u : p2[1 + n + i] = c[i]
    BY <1>15
  <2>3. \A i \in 1 .. u : 1 + n + i \in 1 .. 1 + n + u
    BY <2>1
  <2>4. \A i \in 1 .. u : S[1 + n + i] = c[i]
    BY <1>19, <2>2, <2>3
  <2> QED
    BY <2>1, <2>4
<1>23. \A i \in 1 .. nd : S[1 + n + u + i] = [do |-> "mkdir", path |-> Vfs(s.dirs[i].path)]
  <2>1. \A i \in 1 .. nd :
          p3[1 + n + u + i] = d[i] /\ d[i] = [do |-> "mkdir", path |-> Vfs(s.dirs[i].path)]
    BY <1>3, <1>16
  <2>2. \A i \in 1 .. nd : 1 + n + u + i \in 1 .. 1 + n + u + nd
    BY <1>1
  <2> QED
    BY <1>19, <2>1, <2>2
<1>24. ASSUME NEW j \in 1 .. nf + nb
       PROVE  /\ S[1 + n + u + nd + j].do \in {"write", "copy"}
              /\ S[1 + n + u + nd + j].path = Writes(s)[j][1]
              /\ S[1 + n + u + nd + j].content = Writes(s)[j][2]
              /\ S[1 + n + u + nd + j].last \in Unnamed => BadPath(s)
  <2>1. CASE j \in 1 .. nf
    <3>0. 1 + n + u + nd + j \in 1 .. 1 + n + u + nd + nf
      BY <1>1, <2>1
    <3>1. S[1 + n + u + nd + j] = e[j]
      BY <1>17, <1>18, <2>1, <3>0, Zenon
    <3> QED
      BY <1>0, <1>3, <1>7, <2>1, <3>1
  <2>2. CASE j \notin 1 .. nf
    <3>1. PICK i \in 1 .. nb : j = nf + i
      <4>1. j - nf \in 1 .. nb /\ j = nf + (j - nf)
        BY <1>1, <2>2
      <4> QED BY <4>1
    <3>2. S[1 + n + u + nd + j] = f[i]
      <4>1. 1 + n + u + nd + j = 1 + n + u + nd + nf + i
        BY <1>1, <3>1
      <4> QED BY <1>18, <4>1
    <3> QED
      BY <1>0, <1>3, <1>7, <3>1, <3>2
  <2> QED
    BY <2>1, <2>2
<1>25. Len(S) = DirsEnd(s, order) + Len(Writes(s))
  <2> DEFINE l == Len(S)
             w == Len(Writes(s))
  <2>1. l = 1 + n + u + nd + nf + nb /\ w = nf + nb
    BY <1>7, <1>18
  <2> HIDE DEF l, w
  <2>2. l = DirsEnd(s, order) + w
    BY <1>1, <1>6, <2>1
  <2> QED BY <2>2 DEF l, w
<1>26. LinksEnd(order) \in Nat /\ UsersEnd(s, order) \in Nat /\ DirsEnd(s, order) \in Nat
  BY <1>1, <1>6
<1>27. /\ s.users =>
            /\ S[LinksEnd(order) + 1] = [do |-> "mkdir", path |-> <<"etc">>]
            /\ S[LinksEnd(order) + 2] = [do |-> "default", path |-> <<"etc", "passwd">>, content |-> "passwd"]
            /\ S[LinksEnd(order) + 3] = [do |-> "default", path |-> <<"etc", "group">>, content |-> "group"]
       /\ \A i \in 1 .. nd : S[UsersEnd(s, order) + i] = [do |-> "mkdir", path |-> Vfs(s.dirs[i].path)]
  BY <1>6, <1>22, <1>23, Zenon
<1>28. \A j \in 1 .. Len(Writes(s)) :
         /\ S[DirsEnd(s, order) + j].do \in {"write", "copy"}
         /\ S[DirsEnd(s, order) + j].path = Writes(s)[j][1]
         /\ S[DirsEnd(s, order) + j].content = Writes(s)[j][2]
         /\ S[DirsEnd(s, order) + j].last \in Unnamed => BadPath(s)
  BY <1>6, <1>7, <1>24, Zenon
<1> QED
  BY <1>18, <1>20, <1>21, <1>25, <1>26, <1>27, <1>28, Zenon DEF S, n, nd, StepsAre

\* The packages come in some order, and all of them.
LEMMA OrderFacts ==
  ASSUME NEW m \in Manifests, NEW order \in SetToSeqs(DOMAIN m)
  PROVE  /\ order \in Seq(DOMAIN m) /\ Len(order) \in Nat /\ DOMAIN order = 1 .. Len(order)
         /\ \A n \in DOMAIN m : \E i \in 1 .. Len(order) : order[i] = n
<1> DEFINE card == Cardinality(DOMAIN m)
<1>1. IsFiniteSet(DOMAIN m) /\ card \in Nat
  BY ManifestFacts, FS_CardinalityType
<1>2. order \in [1 .. card -> DOMAIN m] /\ \A i, j \in 1 .. card : i # j => order[i] # order[j]
  BY DEF SetToSeqs
<1>3. order \in Injection(1 .. card, DOMAIN m)
  BY <1>2 DEF Injection, IsInjective
<1>4. Cardinality(1 .. card) = card
  <2> HIDE DEF card
  <2>1. Cardinality(1 .. card) = IF 1 > card THEN 0 ELSE card - 1 + 1
    BY <1>1, FS_Interval
  <2> QED BY <1>1, <2>1
<1>5. order \in Surjection(1 .. card, DOMAIN m)
  BY <1>1, <1>3, <1>4, FS_Injection
<1>6. \A n \in DOMAIN m : \E i \in 1 .. card : order[i] = n
  BY <1>5 DEF Surjection
<1> HIDE DEF card
<1>7. order \in Seq(DOMAIN m) /\ Len(order) = card /\ DOMAIN order = 1 .. card
  BY <1>1, <1>2, FunctionIsSeq
<1>8. Len(order) \in Nat /\ DOMAIN order = 1 .. Len(order)
  BY <1>1, <1>7, Zenon
<1>9. \A n \in DOMAIN m : \E i \in 1 .. Len(order) : order[i] = n
  BY <1>6, <1>7, Zenon
<1> QED
  BY <1>7, <1>8, <1>9

\* Which step an index is, by what is done in it.
KindIs(step, i, s, order) ==
  /\ step.do = "mkdir" =>
       \/ i = 1 /\ step.path = BinDir
       \/ s.users /\ i = LinksEnd(order) + 1 /\ step.path = <<"etc">>
       \/ \E x \in 1 .. Len(s.dirs) : i = UsersEnd(s, order) + x /\ step.path = Vfs(s.dirs[x].path)
  /\ step.do = "links" => \E x \in 1 .. Len(order) : i = 1 + x /\ step.name = order[x]
  /\ step.do = "default" =>
       /\ s.users /\ i > LinksEnd(order) + 1
       /\ \/ i = LinksEnd(order) + 2 /\ step.path = <<"etc", "passwd">>
          \/ i = LinksEnd(order) + 3 /\ step.path = <<"etc", "group">>
  /\ step.do \in {"write", "copy"} =>
       \E j \in 1 .. Len(Writes(s)) :
         /\ i = DirsEnd(s, order) + j
         /\ step.path = Writes(s)[j][1] /\ step.content = Writes(s)[j][2]
         /\ step.last \in Unnamed => BadPath(s)

\* Each step is of one of these kinds.
LEMMA StepKinds ==
  ASSUME NEW s \in Specs, ValidSpec(s), NEW X, NEW order \in Seq(X),
         NEW i \in 1 .. Len(Steps(s, order))
  PROVE  KindIs(Steps(s, order)[i], i, s, order)
<1> DEFINE S == Steps(s, order)
           n == Len(order)
           w == Len(Writes(s))
           l == Len(S)
           L == LinksEnd(order)
           U == UsersEnd(s, order)
           D == DirsEnd(s, order)
           nd == Len(s.dirs)
<1>0. StepsAre(S, s, order)
  BY StepsFacts
<1>1. /\ S[1] = [do |-> "mkdir", path |-> BinDir]
      /\ \A x \in 1 .. n : S[1 + x] = [do |-> "links", name |-> order[x]]
      /\ s.users =>
           /\ S[L + 1] = [do |-> "mkdir", path |-> <<"etc">>]
           /\ S[L + 2] = [do |-> "default", path |-> <<"etc", "passwd">>, content |-> "passwd"]
           /\ S[L + 3] = [do |-> "default", path |-> <<"etc", "group">>, content |-> "group"]
      /\ \A x \in 1 .. nd : S[U + x] = [do |-> "mkdir", path |-> Vfs(s.dirs[x].path)]
      /\ \A j \in 1 .. w :
           /\ S[D + j].do \in {"write", "copy"}
           /\ S[D + j].path = Writes(s)[j][1] /\ S[D + j].content = Writes(s)[j][2]
           /\ S[D + j].last \in Unnamed => BadPath(s)
  BY <1>0, Zenon DEF StepsAre
<1>2. /\ L \in Nat /\ U \in Nat /\ D \in Nat /\ l = D + w
      /\ n \in Nat /\ w \in Nat /\ nd \in Nat
      /\ L = 1 + n /\ (s.users => U = L + 3) /\ (~s.users => U = L) /\ D = U + nd
  <2>1. L \in Nat /\ U \in Nat /\ D \in Nat /\ l = D + w
    BY <1>0, Zenon DEF StepsAre
  <2>2. /\ n \in Nat /\ w \in Nat /\ nd \in Nat
        /\ L = 1 + n /\ (s.users => U = L + 3) /\ (~s.users => U = L) /\ D = U + nd
    BY SpecFacts, WritesFacts, LenProperties DEF LinksEnd, UsersEnd, DirsEnd
  <2> QED
    BY <2>1, <2>2, Zenon
<1>3. i \in 1 .. l
  OBVIOUS
<1> HIDE DEF S, n, w, l, L, U, D, nd
<1>4. \/ i = 1
      \/ \E x \in 1 .. n : i = 1 + x
      \/ s.users /\ (i = L + 1 \/ i = L + 2 \/ i = L + 3)
      \/ \E x \in 1 .. nd : i = U + x
      \/ \E j \in 1 .. w : i = D + j
  <2>1. i \in Int /\ 1 <= i /\ i <= D + w
    BY <1>2, <1>3
  <2>2. CASE i <= L
    <3>1. i = 1 \/ (i - 1 \in 1 .. n /\ i = 1 + (i - 1))
      BY <1>2, <2>1, <2>2
    <3> QED BY <3>1
  <2>3. CASE i > L /\ i <= U
    BY <1>2, <2>1, <2>3
  <2>4. CASE i > U /\ i <= D
    <3>1. i - U \in 1 .. nd /\ i = U + (i - U)
      BY <1>2, <2>1, <2>4
    <3> QED BY <3>1
  <2>5. CASE i > D
    <3>1. i - D \in 1 .. w /\ i = D + (i - D)
      BY <1>2, <2>1, <2>5
    <3> QED BY <3>1
  <2> QED
    BY <1>2, <2>1, <2>2, <2>3, <2>4, <2>5
<1> DEFINE Kind ==
             /\ S[i].do = "mkdir" =>
                  \/ i = 1 /\ S[i].path = BinDir
                  \/ s.users /\ i = L + 1 /\ S[i].path = <<"etc">>
                  \/ \E x \in 1 .. nd : i = U + x /\ S[i].path = Vfs(s.dirs[x].path)
             /\ S[i].do = "links" => \E x \in 1 .. n : i = 1 + x /\ S[i].name = order[x]
             /\ S[i].do = "default" =>
                  /\ s.users /\ i > L + 1
                  /\ \/ i = L + 2 /\ S[i].path = <<"etc", "passwd">>
                     \/ i = L + 3 /\ S[i].path = <<"etc", "group">>
             /\ S[i].do \in {"write", "copy"} =>
                  \E j \in 1 .. w :
                    /\ i = D + j
                    /\ S[i].path = Writes(s)[j][1] /\ S[i].content = Writes(s)[j][2]
                    /\ S[i].last \in Unnamed => BadPath(s)
<1>5. ASSUME i = 1
      PROVE  Kind
  BY <1>1, <1>5
<1>6. ASSUME NEW x \in 1 .. n, i = 1 + x
      PROVE  Kind
  <2>1. S[i] = [do |-> "links", name |-> order[x]]
    BY <1>1, <1>6, Zenon
  <2>2. S[i].do \notin {"mkdir", "default", "write", "copy"} /\ S[i].name = order[x]
    BY <2>1
  <2>3. \E y \in 1 .. n : i = 1 + y /\ S[i].name = order[y]
    BY <1>6, <2>2, Zenon
  <2> QED
    BY <2>2, <2>3, Zenon
<1>7. ASSUME s.users, i = L + 1 \/ i = L + 2 \/ i = L + 3
      PROVE  Kind
  <2>1. CASE i = L + 1
    <3>1. S[i] = [do |-> "mkdir", path |-> <<"etc">>]
      BY <1>1, <1>7, <2>1, Zenon
    <3> QED
      BY <1>7, <2>1, <3>1
  <2>2. CASE i = L + 2
    <3>1. S[i] = [do |-> "default", path |-> <<"etc", "passwd">>, content |-> "passwd"]
      BY <1>1, <1>7, <2>2, Zenon
    <3> QED
      BY <1>2, <1>7, <2>2, <3>1
  <2>3. CASE i = L + 3
    <3>1. S[i] = [do |-> "default", path |-> <<"etc", "group">>, content |-> "group"]
      BY <1>1, <1>7, <2>3, Zenon
    <3> QED
      BY <1>2, <1>7, <2>3, <3>1
  <2> QED
    BY <1>7, <2>1, <2>2, <2>3
<1>8. ASSUME NEW x \in 1 .. nd, i = U + x
      PROVE  Kind
  <2>1. S[i] = [do |-> "mkdir", path |-> Vfs(s.dirs[x].path)]
    BY <1>1, <1>8, Zenon
  <2> QED
    BY <1>8, <2>1
<1>9. ASSUME NEW j \in 1 .. w, i = D + j
      PROVE  Kind
  <2>1. /\ S[i].do \in {"write", "copy"}
        /\ S[i].path = Writes(s)[j][1] /\ S[i].content = Writes(s)[j][2]
        /\ S[i].last \in Unnamed => BadPath(s)
    BY <1>1, <1>9, Zenon
  <2>2. S[i].do \notin {"mkdir", "default", "links"}
    BY <2>1
  <2>3. \E k \in 1 .. w :
          /\ i = D + k
          /\ S[i].path = Writes(s)[k][1] /\ S[i].content = Writes(s)[k][2]
          /\ S[i].last \in Unnamed => BadPath(s)
    BY <1>9, <2>1, Zenon
  <2> QED
    BY <2>2, <2>3, Zenon
<1>10. Kind
  <2> HIDE DEF Kind
  <2> QED BY <1>4, <1>5, <1>6, <1>7, <1>8, <1>9
<1> QED
  BY <1>10, Zenon DEF S, n, w, L, U, D, nd, KindIs

-----------------------------------------------------------------------------
(* What the steps do to the tree *)

\* A tree that grows by nodes that are there for a reason.
LEMMA HoldsMore ==
  ASSUME NEW s, NEW m, NEW t, NEW t2, NEW linked, NEW new, NEW done,
         Holds(t, s, m, linked, done), IsTree(t2),
         DOMAIN t \subseteq DOMAIN t2, \A p \in DOMAIN t : t2[p] = t[p],
         \A p \in DOMAIN t2 \ DOMAIN t :
           /\ p \in Expected(s, m)
           /\ p \in BinPaths(m) => p \in linked \cup new
           /\ \/ t2[p] = Dir /\ p \in DirsIn(Installed(m)) \cup OwnDirs(s) \cup NeededDirs(s)
              \/ t2[p] # Dir /\ IsFile(t2[p]) /\ p \in Solid(s, m) \cup WrittenPaths(s)
              \/ t2[p] # Dir /\ ~IsFile(t2[p]) /\ p \in Links(m),
         AreLinks(t2, m, new)
  PROVE  Holds(t2, s, m, linked \cup new, done)
<1>1. DOMAIN t2 \subseteq Expected(s, m)
  BY DEF Holds
<1>2. Justified(t2, s, m)
  BY Zenon DEF Holds, Justified
<1>3. KeepsInstalled(t2, m, {Writes(s)[j][1] : j \in done})
  BY DEF Holds, KeepsInstalled
<1>4. AreLinks(t2, m, linked \cup new)
  BY DEF Holds, AreLinks
<1>5. BinPaths(m) \cap DOMAIN t2 \subseteq linked \cup new
  BY DEF Holds
<1>6. HoldsWrites(t2, s, done)
  BY DEF Holds, HoldsWrites
<1> QED
  BY <1>1, <1>2, <1>3, <1>4, <1>5, <1>6 DEF Holds

\* A directory that is asked for is made.
LEMMA HoldsMadeDir ==
  ASSUME NEW s, NEW m, NEW t, NEW linked, NEW done, Holds(t, s, m, linked, done),
         NEW path \in Paths, Clear(t, path),
         Prefixes(path) \subseteq Expected(s, m),
         Prefixes(path) \subseteq DirsIn(Installed(m)) \cup OwnDirs(s) \cup NeededDirs(s),
         BinPaths(m) \cap Prefixes(path) \subseteq linked
  PROVE  /\ Holds(WithDirs(t, path), s, m, linked, done)
         /\ HoldsDir(WithDirs(t, path), path)
         /\ \A p : HoldsDir(t, p) => HoldsDir(WithDirs(t, path), p)
<1> DEFINE t2 == WithDirs(t, path)
<1>1. /\ DOMAIN t2 = DOMAIN t \cup Prefixes(path)
      /\ \A p \in DOMAIN t : t2[p] = t[p]
      /\ \A p \in Prefixes(path) \ DOMAIN t : t2[p] = Dir
  BY WithDirsFacts
<1>2. IsTree(t2) /\ \A p \in Prefixes(path) : HoldsDir(t2, p)
  BY WithDirsTree DEF Holds
<1>3. path \in Prefixes(path)
  BY PrefixesClosed
<1> HIDE DEF t2
<1>4. AreLinks(t2, m, {})
  BY DEF AreLinks
<1>5. Holds(t2, s, m, linked \cup {}, done)
  <2>1. \A p \in DOMAIN t2 \ DOMAIN t :
           /\ p \in Expected(s, m)
           /\ p \in BinPaths(m) => p \in linked \cup {}
           /\ \/ t2[p] = Dir /\ p \in DirsIn(Installed(m)) \cup OwnDirs(s) \cup NeededDirs(s)
              \/ t2[p] # Dir /\ IsFile(t2[p]) /\ p \in Solid(s, m) \cup WrittenPaths(s)
              \/ t2[p] # Dir /\ ~IsFile(t2[p]) /\ p \in Links(m)
    BY <1>1
  <2> QED
    BY <1>1, <1>2, <1>4, <2>1, HoldsMore
<1>6. linked \cup {} = linked
  OBVIOUS
<1>7. \A p : HoldsDir(t, p) => HoldsDir(t2, p)
  BY <1>1 DEF HoldsDir
<1> QED
  BY <1>2, <1>3, <1>5, <1>6, <1>7 DEF t2

\* The bin of a package is linked, but for the names that are taken.
LEMMA HoldsLinks ==
  ASSUME NEW s, NEW m \in Manifests, NEW t, NEW linked, NEW done, Holds(t, s, m, linked, done),
         HoldsDir(t, BinDir), NEW store \in Range(m), linked \subseteq BinPaths(m)
  PROVE  /\ Holds(Over(t, LinksTo(store)), s, m, linked \cup BinOf(store), done)
         /\ \A p : HoldsDir(t, p) => HoldsDir(Over(t, LinksTo(store)), p)
<1> DEFINE new == LinksTo(store)
           t2  == Over(t, new)
<1>0. store \in Stores
  BY ManifestFacts
<1>1. DOMAIN new = BinOf(store) /\ \A p \in BinOf(store) : new[p] = Link(StorePath(store) \o p)
  BY DEF LinksTo
<1>2. \A p \in BinOf(store) : p \in BinPaths(m) /\ Front(p) = BinDir
  BY <1>0, BinFacts DEF BinPaths
<1> HIDE DEF new
<1>3. /\ DOMAIN t2 = DOMAIN t \cup DOMAIN new
      /\ \A p \in DOMAIN t : t2[p] = t[p]
      /\ \A p \in DOMAIN new \ DOMAIN t : t2[p] = new[p]
  BY DEF Over
<1>4. IsTree(t2)
  BY <1>1, <1>2, OverTree DEF Holds
<1> HIDE DEF t2
<1>5. AreLinks(t2, m, BinOf(store))
  <2> SUFFICES ASSUME NEW p \in BinOf(store)
               PROVE  /\ p \in DOMAIN t2
                      /\ \E st \in Range(m) : p \in BinOf(st) /\ t2[p] = Link(StorePath(st) \o p)
    BY DEF AreLinks
  <2>1. p \in DOMAIN t2
    BY <1>1, <1>3
  <2>2. CASE p \in DOMAIN t
    <3>1. p \in linked
      BY <1>2, <2>2 DEF Holds
    <3> QED
      BY <1>3, <2>1, <2>2, <3>1 DEF Holds, AreLinks
  <2>3. CASE p \notin DOMAIN t
    BY <1>1, <1>3, <2>1, <2>3
  <2> QED
    BY <2>2, <2>3
<1>6. \A p \in DOMAIN t2 \ DOMAIN t :
           /\ p \in Expected(s, m)
           /\ p \in BinPaths(m) => p \in linked \cup BinOf(store)
           /\ \/ t2[p] = Dir /\ p \in DirsIn(Installed(m)) \cup OwnDirs(s) \cup NeededDirs(s)
              \/ t2[p] # Dir /\ IsFile(t2[p]) /\ p \in Solid(s, m) \cup WrittenPaths(s)
              \/ t2[p] # Dir /\ ~IsFile(t2[p]) /\ p \in Links(m)
  <2> SUFFICES ASSUME NEW p \in DOMAIN t2 \ DOMAIN t
               PROVE  /\ p \in Expected(s, m) /\ p \in BinOf(store)
                      /\ t2[p] # Dir /\ ~IsFile(t2[p]) /\ p \in Links(m)
    OBVIOUS
  <2>1. p \in BinOf(store) /\ t2[p] = Link(StorePath(store) \o p)
    BY <1>1, <1>3
  <2>2. p \in BinPaths(m)
    BY <1>2, <2>1
  <2>3. p \in Expected(s, m) /\ p \in Links(m)
    BY <2>2 DEF Expected, Links
  <2> QED
    BY <2>1, <2>3, Kinds
<1>7. Holds(t2, s, m, linked \cup BinOf(store), done)
  BY <1>3, <1>4, <1>5, <1>6, HoldsMore
<1>8. \A p : HoldsDir(t, p) => HoldsDir(t2, p)
  BY <1>3 DEF HoldsDir
<1> QED
  BY <1>7, <1>8 DEF t2, new

\* /etc/passwd and /etc/group.
LEMMA DefaultPaths ==
  ASSUME NEW s \in Specs, NEW m \in Manifests, NEW path \in Defaults(s)
  PROVE  /\ s.users /\ path \in Paths /\ path \notin BinPaths(m) /\ Front(path) = <<"etc">>
         /\ path \in Expected(s, m) /\ path \in Solid(s, m)
<1>1. s.users /\ path \in {<<"etc", "passwd">>, <<"etc", "group">>}
  BY DEF Defaults
<1>2. path \in Paths /\ path[1] = "etc" /\ Front(path) = <<"etc">>
  BY <1>1, OwnPaths, OwnFronts
<1>3. path \notin BinPaths(m)
  BY <1>2, BinFacts, ManifestFacts DEF BinPaths
<1>4. path \in Prefixes(path)
  BY <1>2, PrefixesClosed
<1>5. path \in Expected(s, m)
  BY <1>4 DEF Expected
<1>6. path \in Solid(s, m)
  BY DEF Solid
<1> QED
  BY <1>1, <1>2, <1>3, <1>5, <1>6

\* A file of the users is written if it is not there.
LEMMA HoldsDefault ==
  ASSUME NEW s \in Specs, NEW m \in Manifests, NEW t, NEW linked, NEW done,
         Holds(t, s, m, linked, done), NEW path \in Defaults(s), HoldsDir(t, <<"etc">>), NEW content
  PROVE  /\ Holds(Over(t, Single(path, File(content))), s, m, linked, done)
         /\ \A p : HoldsDir(t, p) => HoldsDir(Over(t, Single(path, File(content))), p)
<1> DEFINE new == Single(path, File(content))
           t2  == Over(t, new)
<1>1. DOMAIN new = {path} /\ new[path] = File(content)
  BY DEF Single
<1>2. /\ path \in Paths /\ path \notin BinPaths(m) /\ Front(path) = <<"etc">>
      /\ path \in Expected(s, m) /\ path \in Solid(s, m)
  BY DefaultPaths
<1> HIDE DEF new
<1>3. /\ DOMAIN t2 = DOMAIN t \cup DOMAIN new
      /\ \A p \in DOMAIN t : t2[p] = t[p]
      /\ \A p \in DOMAIN new \ DOMAIN t : t2[p] = new[p]
  BY DEF Over
<1>4. IsTree(t2)
  <2>1. \A p \in DOMAIN new : HoldsDir(t, Front(p))
    BY <1>1, <1>2
  <2> QED
    BY <2>1, OverTree DEF Holds
<1> HIDE DEF t2
<1>5. AreLinks(t2, m, {})
  BY DEF AreLinks
<1>6. \A p \in DOMAIN t2 \ DOMAIN t :
           /\ p \in Expected(s, m)
           /\ p \in BinPaths(m) => p \in linked \cup {}
           /\ \/ t2[p] = Dir /\ p \in DirsIn(Installed(m)) \cup OwnDirs(s) \cup NeededDirs(s)
              \/ t2[p] # Dir /\ IsFile(t2[p]) /\ p \in Solid(s, m) \cup WrittenPaths(s)
              \/ t2[p] # Dir /\ ~IsFile(t2[p]) /\ p \in Links(m)
  <2> SUFFICES ASSUME NEW p \in DOMAIN t2 \ DOMAIN t
               PROVE  /\ p \in Expected(s, m) /\ p \notin BinPaths(m)
                      /\ t2[p] # Dir /\ IsFile(t2[p]) /\ p \in Solid(s, m)
    OBVIOUS
  <2>1. p = path /\ t2[p] = File(content)
    BY <1>1, <1>3
  <2> QED
    BY <1>2, <2>1, Kinds
<1>7. Holds(t2, s, m, linked \cup {}, done)
  BY <1>3, <1>4, <1>5, <1>6, HoldsMore
<1>8. linked \cup {} = linked
  OBVIOUS
<1>9. \A p : HoldsDir(t, p) => HoldsDir(t2, p)
  BY <1>3 DEF HoldsDir
<1> QED
  BY <1>7, <1>8, <1>9 DEF t2, new

\* A node is replaced by the file that a later declaration writes.
LEMMA HoldsPut ==
  ASSUME NEW s, NEW m, NEW t, NEW linked, NEW done, Holds(t, s, m, linked, done),
         NEW j \in DOMAIN Writes(s), done \subseteq Int, j \in Int, \A i \in done : i < j,
         NEW path, path = Writes(s)[j][1], path # << >>, path \in Expected(s, m),
         HoldsDir(t, Front(path)), path \in DOMAIN t => IsFile(t[path]),
         BinPaths(m) \subseteq linked
  PROVE  /\ Holds(Put(t, path, File(Writes(s)[j][2])), s, m, linked, done \cup {j})
         /\ \A p : HoldsDir(t, p) => HoldsDir(Put(t, path, File(Writes(s)[j][2])), p)
<1> DEFINE node == File(Writes(s)[j][2])
           t2   == Put(t, path, node)
<1>0. node # Dir /\ IsFile(node)
  BY Kinds
<1> HIDE DEF node
<1>1. /\ DOMAIN t2 = DOMAIN t \cup {path} /\ t2[path] = node
      /\ \A q \in DOMAIN t \ {path} : t2[q] = t[q]
  BY DEF Put, Over, Single
<1>2. path \in DOMAIN t => t[path] # Dir /\ ~IsLink(t[path])
  BY Kinds
<1>3. IsTree(t2)
  BY <1>2, PutTree DEF Holds
<1> HIDE DEF t2
<1>4. DOMAIN t2 \subseteq Expected(s, m)
  BY <1>1 DEF Holds
<1>5. Justified(t2, s, m)
  <2> SUFFICES ASSUME NEW p \in DOMAIN t2
               PROVE  \/ t2[p] = Dir /\ p \in DirsIn(Installed(m)) \cup OwnDirs(s) \cup NeededDirs(s)
                      \/ t2[p] # Dir /\ IsFile(t2[p]) /\ p \in Solid(s, m) \cup WrittenPaths(s)
                      \/ t2[p] # Dir /\ ~IsFile(t2[p]) /\ p \in Links(m)
    BY DEF Justified
  <2>1. CASE p = path
    <3>1. path \in WrittenPaths(s)
      BY DEF WrittenPaths
    <3> QED
      BY <1>0, <1>1, <2>1, <3>1
  <2>2. CASE p # path
    <3>1. p \in DOMAIN t /\ t2[p] = t[p]
      BY <1>1, <2>2
    <3> QED
      BY <3>1 DEF Holds, Justified
  <2> QED
    BY <2>1, <2>2
<1>6. KeepsInstalled(t2, m, {Writes(s)[i][1] : i \in done \cup {j}})
  BY <1>1 DEF Holds, KeepsInstalled
<1>7. AreLinks(t2, m, linked)
  <2> SUFFICES ASSUME NEW p \in linked
               PROVE  /\ p \in DOMAIN t2
                      /\ \E st \in Range(m) : p \in BinOf(st) /\ t2[p] = Link(StorePath(st) \o p)
    BY DEF AreLinks
  <2>1. /\ p \in DOMAIN t
        /\ \E st \in Range(m) : p \in BinOf(st) /\ t[p] = Link(StorePath(st) \o p)
    BY DEF Holds, AreLinks
  <2>2. p # path
    BY <1>2, <2>1, Kinds
  <2> QED
    BY <1>1, <2>1, <2>2
<1>8. BinPaths(m) \cap DOMAIN t2 \subseteq linked
  OBVIOUS
<1>9. HoldsWrites(t2, s, done \cup {j})
  <2> SUFFICES ASSUME NEW k \in done \cup {j}
               PROVE  /\ Writes(s)[k][1] \in DOMAIN t2
                      /\ (\A i \in done \cup {j} : i > k => Writes(s)[i][1] # Writes(s)[k][1]) =>
                           t2[Writes(s)[k][1]] = File(Writes(s)[k][2])
    BY DEF HoldsWrites
  <2>1. CASE k = j
    BY <1>1, <2>1 DEF node
  <2>2. CASE k \in done
    <3>1. /\ Writes(s)[k][1] \in DOMAIN t
          /\ (\A i \in done : i > k => Writes(s)[i][1] # Writes(s)[k][1]) =>
               t[Writes(s)[k][1]] = File(Writes(s)[k][2])
      BY <2>2 DEF Holds, HoldsWrites
    <3>2. k < j
      BY <2>2
    <3>3. CASE Writes(s)[k][1] = path
      BY <1>1, <2>2, <3>1, <3>2, <3>3
    <3>4. CASE Writes(s)[k][1] # path
      BY <1>1, <3>1, <3>4
    <3> QED
      BY <3>3, <3>4
  <2> QED
    BY <2>1, <2>2
<1>10. \A p : HoldsDir(t, p) => HoldsDir(t2, p)
  BY <1>1, <1>2 DEF HoldsDir
<1> QED
  BY <1>3, <1>4, <1>5, <1>6, <1>7, <1>8, <1>9, <1>10 DEF Holds, t2, node

\* What a path that is written asks for.
LEMMA WrittenPath ==
  ASSUME NEW s \in Specs, ValidSpec(s), NEW m, NEW j \in DOMAIN Writes(s), NEW path, path = Writes(s)[j][1],
         path # << >>
  PROVE  /\ path \in Paths /\ path \in WrittenPaths(s) /\ Front(path) \in Paths
         /\ path \in Expected(s, m) /\ Prefixes(Front(path)) \subseteq Expected(s, m)
         /\ Prefixes(Front(path)) \subseteq NeededDirs(s) /\ path \notin Prefixes(Front(path))
<1>1. path \in Paths /\ path \in WrittenPaths(s)
  BY WritesFacts DEF WrittenPaths
<1>2. Front(path) \in Paths /\ Len(path) \in Nat \ {0} /\ Len(Front(path)) = Len(path) - 1
  BY <1>1, FrontFacts
<1>3. Prefixes(path) = Prefixes(Front(path)) \cup {path}
  BY <1>1, PrefixesOfFront
<1>4. Prefixes(path) \subseteq Expected(s, m)
  BY <1>1 DEF Expected
<1>5. Prefixes(Front(path)) \subseteq NeededDirs(s)
  BY <1>1 DEF NeededDirs
<1>6. path \notin Prefixes(Front(path))
  BY <1>2, PrefixFacts
<1> QED
  BY <1>1, <1>2, <1>3, <1>4, <1>5, <1>6

\* A file that packages.toml has is written, with the directories above it.
LEMMA HoldsWritten ==
  ASSUME NEW s \in Specs, ValidSpec(s), NEW m, NEW t, NEW linked, NEW done,
         Holds(t, s, m, linked, done), HoldsDir(t, BinDir), BinPaths(m) \subseteq linked,
         NEW j \in DOMAIN Writes(s), done \subseteq Int, j \in Int, \A i \in done : i < j,
         NEW path, path = Writes(s)[j][1], Writable(t, path)
  PROVE  /\ Holds(Written(t, path, Writes(s)[j][2]), s, m, linked, done \cup {j})
         /\ \A p : HoldsDir(t, p) => HoldsDir(Written(t, path, Writes(s)[j][2]), p)
<1> DEFINE t2 == WithDirs(t, Front(path))
<1>1. Clear(t, Front(path)) /\ (path \in DOMAIN t => IsFile(t[path]))
  BY DEF Writable
<1>2. path # << >>
  <2>1. << >> \in DOMAIN t /\ t[<< >>] = Dir
    <3>1. IsTree(t) /\ BinDir \in DOMAIN t /\ BinDir # << >> /\ Front(BinDir) = << >>
      BY OwnFronts DEF Holds, HoldsDir, BinDir
    <3> QED
      BY <3>1 DEF IsTree
  <2> QED
    BY <1>1, <2>1, Kinds
<1>3. /\ path \in Paths /\ Front(path) \in Paths
      /\ path \in Expected(s, m) /\ Prefixes(Front(path)) \subseteq Expected(s, m)
      /\ Prefixes(Front(path)) \subseteq NeededDirs(s) /\ path \notin Prefixes(Front(path))
  BY <1>2, WrittenPath
<1>4. /\ Holds(t2, s, m, linked, done) /\ HoldsDir(t2, Front(path))
      /\ \A p : HoldsDir(t, p) => HoldsDir(t2, p)
  <2>1. Prefixes(Front(path)) \subseteq DirsIn(Installed(m)) \cup OwnDirs(s) \cup NeededDirs(s)
    BY <1>3
  <2>2. BinPaths(m) \cap Prefixes(Front(path)) \subseteq linked
    OBVIOUS
  <2> QED
    BY <1>1, <1>3, <2>1, <2>2, HoldsMadeDir
<1>5. path \in DOMAIN t2 => IsFile(t2[path])
  <2>1. /\ DOMAIN t2 = DOMAIN t \cup Prefixes(Front(path))
        /\ \A p \in DOMAIN t : t2[p] = t[p]
    BY WithDirsFacts
  <2> HIDE DEF t2
  <2> QED
    BY <1>1, <1>3, <2>1
<1> HIDE DEF t2
<1>6. /\ Holds(Put(t2, path, File(Writes(s)[j][2])), s, m, linked, done \cup {j})
      /\ \A p : HoldsDir(t2, p) => HoldsDir(Put(t2, path, File(Writes(s)[j][2])), p)
  BY <1>2, <1>3, <1>4, <1>5, HoldsPut
<1>7. Written(t, path, Writes(s)[j][2]) = Put(t2, path, File(Writes(s)[j][2]))
  BY DEF Written, t2
<1> QED
  BY <1>4, <1>6, <1>7

\* A directory that cannot be made is in the way of another declaration.
LEMMA NotClear ==
  ASSUME NEW s, NEW m, NEW t, NEW linked, NEW done, Holds(t, s, m, linked, done),
         NEW path, ~Clear(t, path), Prefixes(path) \subseteq NeededDirs(s)
  PROVE  Clash(s, m)
<1>1. PICK p \in Prefixes(path) \cap DOMAIN t : t[p] # Dir
  BY DEF Clear
<1>2. p \in Solid(s, m) \cup WrittenPaths(s) \/ p \in Links(m)
  BY <1>1 DEF Holds, Justified
<1>3. p \in Links(m) => p \in Solid(s, m)
  BY Kinds DEF Links, Solid, LinksIn, DirsIn
<1>4. p \in NeededDirs(s) \cap (Solid(s, m) \cup WrittenPaths(s))
  BY <1>1, <1>2, <1>3
<1> QED
  BY <1>4 DEF Clash

\* So is a file that cannot be written.
LEMMA NotWritable ==
  ASSUME NEW s \in Specs, ValidSpec(s), NEW m, NEW t, NEW linked, NEW done, Holds(t, s, m, linked, done),
         NEW path \in WrittenPaths(s), ~Writable(t, path)
  PROVE  Clash(s, m)
<1>1. CASE ~Clear(t, Front(path))
  <2>1. Prefixes(Front(path)) \subseteq NeededDirs(s)
    BY DEF NeededDirs
  <2> QED
    BY <1>1, <2>1, NotClear
<1>2. CASE Clear(t, Front(path))
  <2>1. path \in DOMAIN t /\ ~IsFile(t[path])
    BY <1>2 DEF Writable
  <2>2. path \in DirsIn(Installed(m)) \cup OwnDirs(s) \cup NeededDirs(s) \/ path \in Links(m)
    BY <2>1 DEF Holds, Justified
  <2> QED
    BY <2>2 DEF Clash
<1> QED
  BY <1>1, <1>2

\* The directories the command makes of its own are not in the way of packages.
LEMMA OwnDirFacts ==
  ASSUME NEW s \in Specs, NEW m \in Manifests, NEW path \in OwnDirs(s)
  PROVE  /\ path \in Paths /\ Prefixes(path) \subseteq Expected(s, m)
         /\ Prefixes(path) \subseteq DirsIn(Installed(m)) \cup OwnDirs(s)
         /\ Prefixes(path) \cap Solid(s, m) = {} /\ Prefixes(path) \cap BinPaths(m) = {}
<1>1. path = BinDir \/ path = <<"etc">>
  BY DEF OwnDirs
<1>2. /\ path \in Paths /\ Len(path) = 1 /\ path[1] \in {"bin", "etc"}
      /\ Prefixes(path) = {<< >>, path}
  BY <1>1, OwnPaths, OwnFronts
<1>3. Prefixes(path) \subseteq Expected(s, m)
  BY DEF Expected
<1>4. << >> \in DirsIn(Installed(m))
  BY InstalledFacts DEF DirsIn
<1>5. \A p \in DOMAIN Installed(m) \ {<< >>} : p[1] = "nix"
  BY InstalledFacts
<1>6. path \notin DOMAIN Installed(m)
  BY <1>2, <1>5, OwnPaths
<1>7. \A p \in BinPaths(m) \cup Defaults(s) : Len(p) = 2
  <2>1. \A p \in BinPaths(m) : Len(p) = 2
    BY BinFacts, ManifestFacts DEF BinPaths
  <2>2. \A p \in Defaults(s) : Len(p) = 2
    BY OwnPaths DEF Defaults
  <2> QED
    BY <2>1, <2>2
<1>8. \A p \in Prefixes(path) : Len(p) # 2
  BY <1>2, OwnPaths
<1> QED
  BY <1>2, <1>3, <1>4, <1>6, <1>7, <1>8 DEF Solid

\* And they can be made, if nothing is written over them.
LEMMA OwnDirClear ==
  ASSUME NEW s \in Specs, NEW m \in Manifests, NEW path \in OwnDirs(s),
         NEW t, NEW linked, NEW done, Holds(t, s, m, linked, done), ~Clear(t, path)
  PROVE  Clash(s, m)
<1>1. PICK p \in Prefixes(path) \cap DOMAIN t : t[p] # Dir
  BY DEF Clear
<1>2. p \in Solid(s, m) \cup WrittenPaths(s) \/ p \in Links(m)
  BY <1>1 DEF Holds, Justified
<1>3. p \in Links(m) => p \in Solid(s, m)
  BY Kinds DEF Links, Solid, LinksIn, DirsIn
<1>4. p \in WrittenPaths(s)
  BY <1>1, <1>2, <1>3, OwnDirFacts
<1>5. p \in DirsIn(Installed(m)) \cup OwnDirs(s)
  BY <1>1, OwnDirFacts
<1> QED
  BY <1>4, <1>5 DEF Clash

\* A directory of packages.toml.
LEMMA MadeDirFacts ==
  ASSUME NEW s \in Specs, ValidSpec(s), NEW m, NEW path \in MadeDirs(s)
  PROVE  /\ path \in Paths /\ Prefixes(path) \subseteq Expected(s, m)
         /\ Prefixes(path) \subseteq NeededDirs(s)
<1>1. path \in Paths
  BY SpecFacts DEF MadeDirs
<1>2. Prefixes(path) \subseteq Expected(s, m)
  BY DEF Expected
<1>3. Prefixes(path) \subseteq NeededDirs(s)
  BY DEF NeededDirs
<1> QED
  BY <1>1, <1>2, <1>3

\* Which packages have been linked after k steps.
LEMMA LinkedGrows ==
  ASSUME NEW m \in Manifests, NEW order \in SetToSeqs(DOMAIN m), NEW k \in Nat
  PROVE  /\ Linked(m, order, 0) = {} /\ Linked(m, order, k) \subseteq BinPaths(m)
         /\ k >= LinksEnd(order) => Linked(m, order, k) = BinPaths(m)
         /\ \A x \in 1 .. Len(order) :
              k + 1 = 1 + x => Linked(m, order, k + 1) = Linked(m, order, k) \cup BinOf(m[order[x]])
         /\ (\A x \in 1 .. Len(order) : k + 1 # 1 + x) => Linked(m, order, k + 1) = Linked(m, order, k)
<1> DEFINE n == Len(order)
           L(l) == {i \in 1 .. n : 1 + i <= l}
           B(i) == BinOf(m[order[i]])
<1>1. n \in Nat /\ (\A name \in DOMAIN m : \E i \in 1 .. n : order[i] = name) /\ LinksEnd(order) = 1 + n
  BY OrderFacts DEF LinksEnd
<1>2. \A l : Linked(m, order, l) = UNION {B(i) : i \in L(l)}
  BY DEF Linked, LinkedAt
<1>3. \A i \in 1 .. n : order[i] \in DOMAIN m
  BY OrderFacts
<1>4. \A i \in 1 .. n : m[order[i]] \in Range(m)
  BY <1>3, ManifestFacts
<1>5. BinPaths(m) = UNION {B(i) : i \in 1 .. n}
  <2>1. \A st \in Range(m) : \E i \in 1 .. n : m[order[i]] = st
    BY <1>1 DEF Range
  <2> QED
    BY <1>4, <2>1 DEF BinPaths
<1> HIDE DEF n, B
<1>6. L(0) = {} /\ L(k) \subseteq 1 .. n /\ (k >= 1 + n => L(k) = 1 .. n)
  BY <1>1
<1>7. \A x \in 1 .. n : k + 1 = 1 + x => L(k + 1) = L(k) \cup {x}
  BY <1>1
<1>8. (\A x \in 1 .. n : k + 1 # 1 + x) => L(k + 1) = L(k)
  BY <1>1
<1> HIDE DEF L
<1>9. Linked(m, order, 0) = {} /\ Linked(m, order, k) \subseteq BinPaths(m)
  BY <1>2, <1>5, <1>6
<1>10. k >= LinksEnd(order) => Linked(m, order, k) = BinPaths(m)
  BY <1>1, <1>2, <1>5, <1>6
<1>11. \A x \in 1 .. n :
              k + 1 = 1 + x => Linked(m, order, k + 1) = Linked(m, order, k) \cup B(x)
  BY <1>2, <1>7
<1>12. (\A x \in 1 .. n : k + 1 # 1 + x) => Linked(m, order, k + 1) = Linked(m, order, k)
  BY <1>2, <1>8, Zenon
<1> QED
  BY <1>9, <1>10, <1>11, <1>12, Zenon DEF n, B

\* Which writes have been made after k steps.
LEMMA WritesGrow ==
  ASSUME NEW s \in Specs, ValidSpec(s), NEW X, NEW order \in Seq(X), NEW k \in Nat
  PROVE  /\ WritesAt(s, order, k) \subseteq DOMAIN Writes(s) /\ WritesAt(s, order, k) \subseteq Int
         /\ k <= DirsEnd(s, order) => WritesAt(s, order, k) = {}
         /\ \A j \in 1 .. Len(Writes(s)) :
              k + 1 = DirsEnd(s, order) + j =>
                /\ WritesAt(s, order, k + 1) = WritesAt(s, order, k) \cup {j}
                /\ \A i \in WritesAt(s, order, k) : i < j
         /\ (\A j \in 1 .. Len(Writes(s)) : k + 1 # DirsEnd(s, order) + j) =>
              WritesAt(s, order, k + 1) = WritesAt(s, order, k)
         /\ k = DirsEnd(s, order) + Len(Writes(s)) => WritesAt(s, order, k) = DOMAIN Writes(s)
<1> DEFINE w == Len(Writes(s))
           D == DirsEnd(s, order)
           W(l) == {j \in 1 .. w : D + j <= l}
<1>1. w \in Nat /\ DOMAIN Writes(s) = 1 .. w
  BY WritesFacts
<1>2. D \in Nat
  BY StepsFacts DEF StepsAre
<1>3. \A l : WritesAt(s, order, l) = W(l)
  BY DEF WritesAt
<1> HIDE DEF w, D
<1>4. W(k) \subseteq 1 .. w /\ W(k) \subseteq Int /\ (k <= D => W(k) = {}) /\ (k = D + w => W(k) = 1 .. w)
  BY <1>1, <1>2
<1>5. \A j \in 1 .. w : k + 1 = D + j => W(k + 1) = W(k) \cup {j} /\ \A i \in W(k) : i < j
  BY <1>1, <1>2
<1>6. (\A j \in 1 .. w : k + 1 # D + j) => W(k + 1) = W(k)
  BY <1>1, <1>2
<1> HIDE DEF W
<1>7. /\ WritesAt(s, order, k) \subseteq DOMAIN Writes(s) /\ WritesAt(s, order, k) \subseteq Int
      /\ k <= D => WritesAt(s, order, k) = {}
      /\ k = D + w => WritesAt(s, order, k) = DOMAIN Writes(s)
  BY <1>1, <1>3, <1>4, Zenon
<1>8. \A j \in 1 .. w : k + 1 = D + j =>
                /\ WritesAt(s, order, k + 1) = WritesAt(s, order, k) \cup {j}
                /\ \A i \in WritesAt(s, order, k) : i < j
  BY <1>3, <1>5, Zenon
<1>9. (\A j \in 1 .. w : k + 1 # D + j) => WritesAt(s, order, k + 1) = WritesAt(s, order, k)
  BY <1>3, <1>6, Zenon
<1> QED
  BY <1>7, <1>8, <1>9, Zenon DEF w, D

\* One more step.
LEMMA ProgressMore ==
  ASSUME NEW s, NEW m, NEW order, NEW k \in Nat, NEW t, NEW t2,
         Progress(t, s, m, order, k),
         Holds(t2, s, m, Linked(m, order, k + 1), WritesAt(s, order, k + 1)),
         \A p : HoldsDir(t, p) => HoldsDir(t2, p),
         Steps(s, order)[k + 1].do = "mkdir" => HoldsDir(t2, Steps(s, order)[k + 1].path)
  PROVE  Progress(t2, s, m, order, k + 1)
<1>1. \A i \in 1 .. k : Steps(s, order)[i].do = "mkdir" => HoldsDir(t, Steps(s, order)[i].path)
  BY DEF Progress
<1>2. \A i \in 1 .. k + 1 : i \in 1 .. k \/ i = k + 1
  OBVIOUS
<1>3. \A i \in 1 .. k + 1 : Steps(s, order)[i].do = "mkdir" => HoldsDir(t2, Steps(s, order)[i].path)
  BY <1>1, <1>2
<1> QED
  BY <1>3 DEF Progress

\* What is left of a sequence after k of its elements.
LEMMA LeftFacts ==
  ASSUME NEW R, NEW S \in Seq(R), NEW k \in 0 .. Len(S), NEW left, left = SubSeq(S, k + 1, Len(S))
  PROVE  /\ Len(S) \in Nat /\ (left = << >> <=> k = Len(S))
         /\ left # << >> => /\ k + 1 \in 1 .. Len(S) /\ k + 1 \in 0 .. Len(S) /\ k \in Nat
                            /\ Head(left) = S[k + 1]
                            /\ Tail(left) = SubSeq(S, (k + 1) + 1, Len(S))
<1> DEFINE n == Len(S)
<1>1. n \in Nat /\ \A i \in 1 .. n : S[i] \in R
  BY LenProperties, ElementOfSeq
<1>2. k \in 0 .. n
  OBVIOUS
<1> HIDE DEF n
<1>3. k + 1 \in 1 .. n + 1 /\ k \in Nat /\ (k = n \/ k + 1 \in 1 .. n)
  BY <1>1, <1>2
<1>4. CASE k = n
  <2>1. left = << >>
    BY <1>1, <1>4, SubSeqEmpty DEF n
  <2> QED
    BY <1>1, <1>4, <2>1, Zenon DEF n
<1>5. CASE k + 1 \in 1 .. n
  <2>1. left # << >>
    <3>1. \A i \in k + 1 .. n : S[i] \in R
      BY <1>1, <1>3
    <3>2. /\ Len(SubSeq(S, k + 1, n)) = IF k + 1 <= n THEN n - (k + 1) + 1 ELSE 0
      BY <1>1, <1>3, <3>1, SubSeqProperties
    <3>3. Len(SubSeq(S, k + 1, n)) # 0
      BY <1>1, <1>5, <3>2
    <3>4. left = SubSeq(S, k + 1, n)
      BY DEF n
    <3> QED
      BY <3>3, <3>4, EmptySeq
  <2>2. Head(left) = S[k + 1] /\ Tail(left) = SubSeq(S, (k + 1) + 1, n)
    <3>1. S \in Seq(R) /\ k + 1 \in 1 .. n + 1 /\ left = SubSeq(S, k + 1, n)
      BY <1>3 DEF n
    <3> QED
      BY <1>1, <1>5, <3>1, HeadTailOfSubSeq DEF n
  <2>3. k # n /\ k + 1 \in 0 .. n
    BY <1>1, <1>5
  <2> QED
    BY <1>1, <1>3, <1>5, <2>1, <2>2, <2>3, Zenon DEF n
<1> QED
  BY <1>3, <1>4, <1>5

\* k steps are done, and the next is step.
AtStep(t, s, m, left, order, k) ==
  /\ order \in SetToSeqs(DOMAIN m) /\ order \in Seq(DOMAIN m)
  /\ k \in Nat /\ k + 1 \in 1 .. Len(Steps(s, order)) /\ k + 1 \in 0 .. Len(Steps(s, order))
  /\ Head(left) = Steps(s, order)[k + 1]
  /\ Tail(left) = SubSeq(Steps(s, order), (k + 1) + 1, Len(Steps(s, order)))
  /\ Progress(t, s, m, order, k)

\* While there is something to do, it is the next step.
LEMMA TreeStep ==
  ASSUME NEW s \in Specs, ValidSpec(s), NEW m \in Manifests, NEW t, NEW left,
         InTree(t, s, m, left), left # << >>
  PROVE  \E order, k : AtStep(t, s, m, left, order, k)
<1>1. PICK order \in SetToSeqs(DOMAIN m) :
        \E k \in 0 .. Len(Steps(s, order)) :
          /\ left = SubSeq(Steps(s, order), k + 1, Len(Steps(s, order)))
          /\ Progress(t, s, m, order, k)
  BY Zenon DEF InTree
<1>2. PICK k \in 0 .. Len(Steps(s, order)) :
          /\ left = SubSeq(Steps(s, order), k + 1, Len(Steps(s, order)))
          /\ Progress(t, s, m, order, k)
  BY <1>1, Zenon
<1>3. order \in Seq(DOMAIN m)
  BY OrderFacts
<1>4. PICK R : Steps(s, order) \in Seq(R)
  BY <1>3, StepsFacts DEF StepsAre
<1>5. /\ k + 1 \in 1 .. Len(Steps(s, order)) /\ k + 1 \in 0 .. Len(Steps(s, order)) /\ k \in Nat
      /\ Head(left) = Steps(s, order)[k + 1]
      /\ Tail(left) = SubSeq(Steps(s, order), (k + 1) + 1, Len(Steps(s, order)))
  <2>1. left = SubSeq(Steps(s, order), k + 1, Len(Steps(s, order)))
    BY <1>2, Zenon
  <2> DEFINE S == Steps(s, order)
  <2>2. S \in Seq(R) /\ k \in 0 .. Len(S) /\ left = SubSeq(S, k + 1, Len(S))
    BY <1>4, <2>1, Zenon
  <2> HIDE DEF S
  <2>3. /\ k + 1 \in 1 .. Len(S) /\ k + 1 \in 0 .. Len(S) /\ k \in Nat
        /\ Head(left) = S[k + 1]
        /\ Tail(left) = SubSeq(S, (k + 1) + 1, Len(S))
    BY <2>2, LeftFacts
  <2> QED
    BY <2>3, Zenon DEF S
<1>6. AtStep(t, s, m, left, order, k)
  BY <1>2, <1>3, <1>5, Zenon DEF AtStep
<1> QED
  BY <1>6

\* The step is taken.
LEMMA TreeStepDone ==
  ASSUME NEW s, NEW m, NEW t, NEW t2, NEW left, NEW order, NEW k,
         AtStep(t, s, m, left, order, k), Progress(t2, s, m, order, k + 1)
  PROVE  InTree(t2, s, m, Tail(left))
<1>1. /\ order \in SetToSeqs(DOMAIN m) /\ k + 1 \in 0 .. Len(Steps(s, order))
      /\ Tail(left) = SubSeq(Steps(s, order), (k + 1) + 1, Len(Steps(s, order)))
  BY Zenon DEF AtStep
<1>2. \E l \in 0 .. Len(Steps(s, order)) :
        Tail(left) = SubSeq(Steps(s, order), l + 1, Len(Steps(s, order))) /\ Progress(t2, s, m, order, l)
  BY <1>1, Zenon
<1> QED
  BY <1>1, <1>2, Zenon DEF InTree

\* The step at hand: what it is, and how much is done before it.
LEMMA AtStepFacts ==
  ASSUME NEW s \in Specs, ValidSpec(s), NEW m \in Manifests, NEW t, NEW left, NEW order, NEW k,
         AtStep(t, s, m, left, order, k)
  PROVE  /\ KindIs(Head(left), k + 1, s, order)
         /\ k \in Nat /\ LinksEnd(order) \in Nat /\ UsersEnd(s, order) \in Nat /\ DirsEnd(s, order) \in Nat
         /\ LinksEnd(order) <= UsersEnd(s, order) /\ UsersEnd(s, order) <= DirsEnd(s, order)
         /\ Holds(t, s, m, Linked(m, order, k), WritesAt(s, order, k))
         /\ Linked(m, order, k) \subseteq BinPaths(m)
         /\ k >= LinksEnd(order) => Linked(m, order, k) = BinPaths(m)
         /\ k >= 1 => HoldsDir(t, BinDir)
         /\ s.users /\ k >= LinksEnd(order) + 1 => HoldsDir(t, <<"etc">>)
         /\ Head(left).do \notin {"links"} => Linked(m, order, k + 1) = Linked(m, order, k)
         /\ Head(left).do \notin {"write", "copy"} => WritesAt(s, order, k + 1) = WritesAt(s, order, k)
<1> DEFINE S == Steps(s, order)
           L == LinksEnd(order)
           U == UsersEnd(s, order)
           D == DirsEnd(s, order)
           n == Len(order)
           w == Len(Writes(s))
           nd == Len(s.dirs)
<1>1. /\ order \in SetToSeqs(DOMAIN m) /\ order \in Seq(DOMAIN m)
      /\ k \in Nat /\ k + 1 \in 1 .. Len(S) /\ Head(left) = S[k + 1]
      /\ Progress(t, s, m, order, k)
  BY Zenon DEF AtStep
<1>2. KindIs(Head(left), k + 1, s, order)
  BY <1>1, StepKinds
<1>3. StepsAre(S, s, order)
  BY <1>1, StepsFacts
<1>4. /\ S[1] = [do |-> "mkdir", path |-> BinDir]
      /\ \A x \in 1 .. n : S[1 + x] = [do |-> "links", name |-> order[x]]
      /\ s.users => S[L + 1] = [do |-> "mkdir", path |-> <<"etc">>]
      /\ \A j \in 1 .. w : S[D + j].do \in {"write", "copy"}
  BY <1>3, Zenon DEF StepsAre
<1>5. L \in Nat /\ U \in Nat /\ D \in Nat
  BY <1>3, Zenon DEF StepsAre
<1>6. L <= U /\ U <= D
  <2>1. n \in Nat /\ nd \in Nat /\ L = 1 + n /\ (U = L + 3 \/ U = L) /\ D = U + nd
    BY <1>1, SpecFacts, LenProperties DEF LinksEnd, UsersEnd, DirsEnd
  <2> HIDE DEF n, nd, L, U, D
  <2> QED
    BY <2>1
<1>7. /\ Holds(t, s, m, Linked(m, order, k), WritesAt(s, order, k))
      /\ \A i \in 1 .. k : S[i].do = "mkdir" => HoldsDir(t, S[i].path)
  BY <1>1, Zenon DEF Progress
<1> HIDE DEF S, L, U, D, n, w, nd
<1>8. k >= 1 => HoldsDir(t, BinDir)
  <2>1. S[1].do = "mkdir" /\ S[1].path = BinDir
    BY <1>4
  <2>2. k >= 1 => 1 \in 1 .. k
    BY <1>1
  <2> QED
    BY <1>7, <2>1, <2>2, Zenon
<1>9. s.users /\ k >= L + 1 => HoldsDir(t, <<"etc">>)
  <2>1. s.users => S[L + 1].do = "mkdir" /\ S[L + 1].path = <<"etc">>
    BY <1>4
  <2>2. k >= L + 1 => L + 1 \in 1 .. k
    BY <1>1, <1>5
  <2> QED
    BY <1>7, <2>1, <2>2, Zenon
<1>10. /\ Linked(m, order, k) \subseteq BinPaths(m)
       /\ k >= L => Linked(m, order, k) = BinPaths(m)
  BY <1>1, LinkedGrows DEF L
<1>11. Head(left).do \notin {"links"} => Linked(m, order, k + 1) = Linked(m, order, k)
  <2> SUFFICES ASSUME Head(left).do \notin {"links"}
               PROVE  \A x \in 1 .. n : k + 1 # 1 + x
    BY <1>1, LinkedGrows DEF n
  <2>1. ASSUME NEW x \in 1 .. n
        PROVE  S[1 + x].do = "links"
    <3>1. S[1 + x] = [do |-> "links", name |-> order[x]]
      BY <1>4, Zenon
    <3> QED BY <3>1
  <2> QED
    BY <1>1, <2>1
<1>12. Head(left).do \notin {"write", "copy"} => WritesAt(s, order, k + 1) = WritesAt(s, order, k)
  <2> SUFFICES ASSUME Head(left).do \notin {"write", "copy"}
               PROVE  \A j \in 1 .. w : k + 1 # D + j
    BY <1>1, WritesGrow DEF w, D
  <2> QED
    BY <1>1, <1>4
<1> QED
  BY <1>1, <1>2, <1>5, <1>6, <1>7, <1>8, <1>9, <1>10, <1>11, <1>12, Zenon DEF L, U, D

\* A directory: bin, etc, or one of packages.toml.
LEMMA MkdirStep ==
  ASSUME NEW s \in Specs, ValidSpec(s), NEW m \in Manifests, NEW t, NEW left,
         InTree(t, s, m, left), left # << >>, Head(left).do = "mkdir"
  PROVE  /\ Clear(t, Head(left).path) => InTree(WithDirs(t, Head(left).path), s, m, Tail(left))
         /\ ~Clear(t, Head(left).path) => Clash(s, m)
<1> DEFINE path == Head(left).path
<1>1. PICK order, k : AtStep(t, s, m, left, order, k)
  BY TreeStep
<1>2. /\ KindIs(Head(left), k + 1, s, order)
      /\ k \in Nat /\ LinksEnd(order) \in Nat /\ UsersEnd(s, order) \in Nat /\ DirsEnd(s, order) \in Nat
      /\ LinksEnd(order) <= UsersEnd(s, order) /\ UsersEnd(s, order) <= DirsEnd(s, order)
      /\ Holds(t, s, m, Linked(m, order, k), WritesAt(s, order, k))
      /\ k >= LinksEnd(order) => Linked(m, order, k) = BinPaths(m)
      /\ Linked(m, order, k + 1) = Linked(m, order, k)
      /\ WritesAt(s, order, k + 1) = WritesAt(s, order, k)
  BY <1>1, AtStepFacts
<1> DEFINE linked == Linked(m, order, k)
           done   == WritesAt(s, order, k)
<1>3. path \in OwnDirs(s) \/ (path \in MadeDirs(s) /\ linked = BinPaths(m))
  <2>1. \/ k + 1 = 1 /\ path = BinDir
        \/ s.users /\ k + 1 = LinksEnd(order) + 1 /\ path = <<"etc">>
        \/ \E x \in 1 .. Len(s.dirs) : k + 1 = UsersEnd(s, order) + x /\ path = Vfs(s.dirs[x].path)
    BY <1>2, Zenon DEF KindIs
  <2>2. CASE \E x \in 1 .. Len(s.dirs) : k + 1 = UsersEnd(s, order) + x /\ path = Vfs(s.dirs[x].path)
    <3>1. PICK x \in 1 .. Len(s.dirs) : k + 1 = UsersEnd(s, order) + x /\ path = Vfs(s.dirs[x].path)
      BY <2>2
    <3>2. x \in DOMAIN s.dirs
      BY SpecFacts
    <3>3. path \in MadeDirs(s)
      BY <3>1, <3>2, Zenon DEF MadeDirs
    <3>4. k >= LinksEnd(order)
      BY <1>2, <3>1
    <3> QED
      BY <1>2, <3>3, <3>4
  <2>3. path = BinDir => path \in OwnDirs(s)
    BY DEF OwnDirs
  <2>4. s.users /\ path = <<"etc">> => path \in OwnDirs(s)
    BY DEF OwnDirs
  <2> QED
    BY <2>1, <2>2, <2>3, <2>4, Zenon
<1> HIDE DEF path, linked, done
<1>4. Holds(t, s, m, linked, done)
  BY <1>2 DEF linked, done
<1>5. /\ path \in Paths /\ Prefixes(path) \subseteq Expected(s, m)
      /\ Prefixes(path) \subseteq DirsIn(Installed(m)) \cup OwnDirs(s) \cup NeededDirs(s)
      /\ BinPaths(m) \cap Prefixes(path) \subseteq linked
      /\ ~Clear(t, path) => Clash(s, m)
  <2>1. CASE path \in OwnDirs(s)
    <3>1. /\ path \in Paths /\ Prefixes(path) \subseteq Expected(s, m)
          /\ Prefixes(path) \subseteq DirsIn(Installed(m)) \cup OwnDirs(s)
          /\ Prefixes(path) \cap BinPaths(m) = {}
      BY <2>1, OwnDirFacts
    <3>2. ~Clear(t, path) => Clash(s, m)
      BY <1>4, <2>1, OwnDirClear
    <3> QED
      BY <3>1, <3>2
  <2>2. CASE path \in MadeDirs(s) /\ linked = BinPaths(m)
    <3>1. path \in Paths /\ Prefixes(path) \subseteq Expected(s, m) /\ Prefixes(path) \subseteq NeededDirs(s)
      BY <2>2, MadeDirFacts
    <3>2. ~Clear(t, path) => Clash(s, m)
      BY <1>4, <3>1, NotClear
    <3> QED
      BY <2>2, <3>1, <3>2
  <2> QED
    BY <1>3, <2>1, <2>2
<1>6. ASSUME Clear(t, path)
      PROVE  InTree(WithDirs(t, path), s, m, Tail(left))
  <2>1. /\ Holds(WithDirs(t, path), s, m, linked, done) /\ HoldsDir(WithDirs(t, path), path)
        /\ \A p : HoldsDir(t, p) => HoldsDir(WithDirs(t, path), p)
    BY <1>4, <1>5, <1>6, HoldsMadeDir
  <2>2. Holds(WithDirs(t, path), s, m, Linked(m, order, k + 1), WritesAt(s, order, k + 1))
    BY <1>2, <2>1, Zenon DEF linked, done
  <2>3. Steps(s, order)[k + 1].path = path /\ Progress(t, s, m, order, k) /\ k \in Nat
    BY <1>1, Zenon DEF AtStep, path
  <2>4. Progress(WithDirs(t, path), s, m, order, k + 1)
    BY <2>1, <2>2, <2>3, ProgressMore
  <2> QED
    BY <1>1, <2>4, TreeStepDone
<1> QED
  BY <1>5, <1>6 DEF path

\* The root layout of a package.
LEMMA LinksStep ==
  ASSUME NEW s \in Specs, ValidSpec(s), NEW m \in Manifests, NEW t, NEW left,
         InTree(t, s, m, left), left # << >>, Head(left).do = "links"
  PROVE  InTree(Over(t, LinksTo(m[Head(left).name])), s, m, Tail(left))
<1> DEFINE store == m[Head(left).name]
           t2    == Over(t, LinksTo(store))
<1>1. PICK order, k : AtStep(t, s, m, left, order, k)
  BY TreeStep
<1>2. order \in SetToSeqs(DOMAIN m) /\ Steps(s, order)[k + 1] = Head(left) /\ Progress(t, s, m, order, k)
  BY <1>1, Zenon DEF AtStep
<1>3. /\ KindIs(Head(left), k + 1, s, order) /\ k \in Nat
      /\ Holds(t, s, m, Linked(m, order, k), WritesAt(s, order, k))
      /\ Linked(m, order, k) \subseteq BinPaths(m)
      /\ k >= 1 => HoldsDir(t, BinDir)
      /\ WritesAt(s, order, k + 1) = WritesAt(s, order, k)
  BY <1>1, AtStepFacts
<1>4. PICK x \in 1 .. Len(order) : k + 1 = 1 + x /\ Head(left).name = order[x]
  BY <1>3, Zenon DEF KindIs
<1>5. Linked(m, order, k + 1) = Linked(m, order, k) \cup BinOf(store)
  BY <1>2, <1>3, <1>4, LinkedGrows
<1>6. store \in Range(m)
  BY <1>2, <1>4, OrderFacts, ManifestFacts
<1>7. HoldsDir(t, BinDir)
  <2>1. \A l \in 1 .. Len(order) : l >= 1
    OBVIOUS
  <2>2. k >= 1
    BY <1>3, <1>4, <2>1
  <2> QED
    BY <1>3, <2>2
<1> HIDE DEF store
<1>8. /\ Holds(t2, s, m, Linked(m, order, k) \cup BinOf(store), WritesAt(s, order, k))
      /\ \A p : HoldsDir(t, p) => HoldsDir(t2, p)
  BY <1>3, <1>6, <1>7, HoldsLinks
<1> HIDE DEF t2
<1>9. Steps(s, order)[k + 1].do # "mkdir"
  BY <1>2
<1>10. Progress(t2, s, m, order, k + 1)
  BY <1>2, <1>3, <1>5, <1>8, <1>9, ProgressMore
<1>11. InTree(t2, s, m, Tail(left))
  BY <1>1, <1>10, TreeStepDone
<1> QED
  BY <1>11 DEF t2, store

\* /etc/passwd or /etc/group.
LEMMA DefaultStep ==
  ASSUME NEW s \in Specs, ValidSpec(s), NEW m \in Manifests, NEW t, NEW left,
         InTree(t, s, m, left), left # << >>, Head(left).do = "default"
  PROVE  InTree(Over(t, Single(Head(left).path, File(Head(left).content))), s, m, Tail(left))
<1> DEFINE path == Head(left).path
           t2   == Over(t, Single(path, File(Head(left).content)))
<1>1. PICK order, k : AtStep(t, s, m, left, order, k)
  BY TreeStep
<1>2. Steps(s, order)[k + 1] = Head(left) /\ Progress(t, s, m, order, k)
  BY <1>1, Zenon DEF AtStep
<1>3. /\ KindIs(Head(left), k + 1, s, order) /\ k \in Nat /\ LinksEnd(order) \in Nat
      /\ Holds(t, s, m, Linked(m, order, k), WritesAt(s, order, k))
      /\ s.users /\ k >= LinksEnd(order) + 1 => HoldsDir(t, <<"etc">>)
      /\ Linked(m, order, k + 1) = Linked(m, order, k)
      /\ WritesAt(s, order, k + 1) = WritesAt(s, order, k)
  BY <1>1, AtStepFacts
<1>4. s.users /\ k + 1 > LinksEnd(order) + 1 /\ path \in {<<"etc", "passwd">>, <<"etc", "group">>}
  BY <1>3 DEF KindIs
<1>5. path \in Defaults(s)
  BY <1>4 DEF Defaults
<1>6. HoldsDir(t, <<"etc">>)
  BY <1>3, <1>4
<1> HIDE DEF path
<1>7. /\ Holds(t2, s, m, Linked(m, order, k), WritesAt(s, order, k))
      /\ \A p : HoldsDir(t, p) => HoldsDir(t2, p)
  BY <1>3, <1>5, <1>6, HoldsDefault
<1> HIDE DEF t2
<1>8. Steps(s, order)[k + 1].do # "mkdir"
  BY <1>2
<1>9. Progress(t2, s, m, order, k + 1)
  BY <1>2, <1>3, <1>7, <1>8, ProgressMore
<1>10. InTree(t2, s, m, Tail(left))
  BY <1>1, <1>9, TreeStepDone
<1> QED
  BY <1>10 DEF t2, path

\* A file or a binary of packages.toml.
LEMMA WriteStep ==
  ASSUME NEW s \in Specs, ValidSpec(s), NEW m \in Manifests, NEW t, NEW left,
         InTree(t, s, m, left), left # << >>, Head(left).do \in {"write", "copy"}
  PROVE  /\ Writable(t, Head(left).path) =>
              InTree(Written(t, Head(left).path, Head(left).content), s, m, Tail(left))
         /\ ~Writable(t, Head(left).path) => Clash(s, m)
         /\ Head(left).last \in Unnamed => BadPath(s)
<1> DEFINE path == Head(left).path
           t2   == Written(t, path, Head(left).content)
<1>1. PICK order, k : AtStep(t, s, m, left, order, k)
  BY TreeStep
<1>2. /\ order \in Seq(DOMAIN m) /\ Steps(s, order)[k + 1] = Head(left)
      /\ Progress(t, s, m, order, k)
  BY <1>1, Zenon DEF AtStep
<1>3. /\ KindIs(Head(left), k + 1, s, order)
      /\ k \in Nat /\ LinksEnd(order) \in Nat /\ UsersEnd(s, order) \in Nat /\ DirsEnd(s, order) \in Nat
      /\ LinksEnd(order) <= UsersEnd(s, order) /\ UsersEnd(s, order) <= DirsEnd(s, order)
      /\ Holds(t, s, m, Linked(m, order, k), WritesAt(s, order, k))
      /\ k >= LinksEnd(order) => Linked(m, order, k) = BinPaths(m)
      /\ k >= 1 => HoldsDir(t, BinDir)
      /\ Linked(m, order, k + 1) = Linked(m, order, k)
  BY <1>1, AtStepFacts
<1>4. PICK j \in 1 .. Len(Writes(s)) :
        /\ k + 1 = DirsEnd(s, order) + j
        /\ path = Writes(s)[j][1] /\ Head(left).content = Writes(s)[j][2]
        /\ Head(left).last \in Unnamed => BadPath(s)
  BY <1>3, Zenon DEF KindIs
<1>5. j \in DOMAIN Writes(s) /\ j \in Int /\ j >= 1
  <2>1. \A l \in 1 .. Len(Writes(s)) : l \in Int /\ l >= 1
    OBVIOUS
  <2>2. DOMAIN Writes(s) = 1 .. Len(Writes(s))
    BY WritesFacts
  <2> QED
    BY <2>1, <2>2, Zenon
<1>6. /\ WritesAt(s, order, k + 1) = WritesAt(s, order, k) \cup {j}
      /\ \A i \in WritesAt(s, order, k) : i < j
      /\ WritesAt(s, order, k) \subseteq Int
  BY <1>2, <1>3, <1>4, WritesGrow
<1>7. k >= 1 /\ k >= LinksEnd(order)
  <2>1. LinksEnd(order) >= 1
    BY <1>2, LenProperties DEF LinksEnd
  <2> QED
    BY <1>3, <1>4, <1>5, <2>1
<1>8. path \in WrittenPaths(s)
  BY <1>4, <1>5, Zenon DEF WrittenPaths
<1>9. ~Writable(t, path) => Clash(s, m)
  BY <1>3, <1>8, NotWritable
<1>10. ASSUME Writable(t, path)
       PROVE  InTree(t2, s, m, Tail(left))
  <2> DEFINE done   == WritesAt(s, order, k)
             linked == Linked(m, order, k)
  <2>1. Holds(t, s, m, linked, done) /\ HoldsDir(t, BinDir) /\ BinPaths(m) \subseteq linked
    BY <1>3, <1>7
  <2>2. done \subseteq Int /\ \A i \in done : i < j
    BY <1>6
  <2>3. path = Writes(s)[j][1] /\ t2 = Written(t, path, Writes(s)[j][2])
    BY <1>4
  <2> HIDE DEF path, t2, done, linked
  <2>4. /\ Holds(t2, s, m, linked, done \cup {j})
        /\ \A p : HoldsDir(t, p) => HoldsDir(t2, p)
    BY <1>5, <1>10, <2>1, <2>2, <2>3, HoldsWritten
  <2>5. Holds(t2, s, m, Linked(m, order, k + 1), WritesAt(s, order, k + 1))
    BY <1>3, <1>6, <2>4, Zenon DEF linked, done
  <2>6. Steps(s, order)[k + 1].do # "mkdir"
    BY <1>2
  <2>7. Progress(t2, s, m, order, k + 1)
    BY <1>2, <1>3, <2>4, <2>5, <2>6, ProgressMore
  <2> QED
    BY <1>1, <2>7, TreeStepDone
<1> QED
  BY <1>4, <1>9, <1>10

\* What the packages bring is a tree in which nothing has been done yet.
LEMMA TreeBegins ==
  ASSUME NEW s \in Specs, ValidSpec(s), NEW m \in Manifests, NEW order \in SetToSeqs(DOMAIN m)
  PROVE  InTree(Installed(m), s, m, Steps(s, order))
<1> DEFINE t == Installed(m)
           S == Steps(s, order)
<1>1. IsTree(t) /\ DOMAIN t \subseteq Paths /\ \A q \in DOMAIN t : t[q] = Dir \/ IsFile(t[q]) \/ IsLink(t[q])
  BY InstalledTree
<1>2. \A q \in DOMAIN t \ {<< >>} : q[1] = "nix"
  BY InstalledFacts
<1>3. DOMAIN t \subseteq Expected(s, m)
  BY DEF Expected
<1>4. BinPaths(m) \cap DOMAIN t = {}
  <2>1. \A p \in BinPaths(m) : Len(p) = 2 /\ p[1] = "bin"
    BY BinFacts, ManifestFacts DEF BinPaths
  <2>2. \A p \in BinPaths(m) : p # << >>
    BY <2>1, OwnPaths
  <2> HIDE DEF t
  <2> QED
    BY <1>2, <2>1, <2>2
<1>5. Justified(t, s, m)
  <2> SUFFICES ASSUME NEW p \in DOMAIN t
               PROVE  \/ t[p] = Dir /\ p \in DirsIn(t)
                      \/ t[p] # Dir /\ IsFile(t[p]) /\ p \in Solid(s, m)
                      \/ t[p] # Dir /\ ~IsFile(t[p]) /\ p \in Links(m)
    BY DEF Justified
  <2>1. t[p] = Dir => p \in DirsIn(t)
    BY DEF DirsIn
  <2>2. t[p] # Dir => p \in Solid(s, m)
    BY DEF Solid, DirsIn
  <2>3. IsLink(t[p]) => p \in Links(m)
    BY DEF Links, LinksIn
  <2> QED
    BY <1>1, <2>1, <2>2, <2>3
<1>6. KeepsInstalled(t, m, {Writes(s)[j][1] : j \in {}})
  BY DEF KeepsInstalled
<1>7. AreLinks(t, m, {}) /\ HoldsWrites(t, s, {})
  BY DEF AreLinks, HoldsWrites
<1>8. Holds(t, s, m, {}, {})
  <2> HIDE DEF t
  <2> QED
    BY <1>1, <1>3, <1>4, <1>5, <1>6, <1>7 DEF Holds
<1>9. order \in Seq(DOMAIN m) /\ Linked(m, order, 0) = {} /\ WritesAt(s, order, 0) = {}
  <2>1. order \in Seq(DOMAIN m)
    BY OrderFacts
  <2>2. 0 <= DirsEnd(s, order)
    BY <2>1, StepsFacts DEF StepsAre
  <2> QED
    BY <2>1, <2>2, LinkedGrows, WritesGrow
<1>10. Progress(t, s, m, order, 0)
  <2> HIDE DEF t
  <2>1. \A i \in 1 .. 0 : FALSE
    OBVIOUS
  <2> QED
    BY <1>8, <1>9, <2>1, Zenon DEF Progress
<1>11. PICK R : S \in Seq(R)
  BY <1>9, StepsFacts DEF StepsAre
<1> HIDE DEF t, S
<1>12. S = SubSeq(S, 0 + 1, Len(S)) /\ 0 \in 0 .. Len(S)
  <2>1. S = SubSeq(S, 1, Len(S))
    BY <1>11, SubSeqFull
  <2>2. 0 \in 0 .. Len(S) /\ 0 + 1 = 1
    BY <1>11, LenProperties
  <2> QED
    BY <2>1, <2>2, Zenon
<1>13. \E k \in 0 .. Len(S) : S = SubSeq(S, k + 1, Len(S)) /\ Progress(t, s, m, order, k)
  BY <1>10, <1>12, Zenon
<1> QED
  BY <1>13, Zenon DEF InTree, t, S

\* When nothing is left to do the tree is ready.
LEMMA TreeFinished ==
  ASSUME NEW s \in Specs, ValidSpec(s), NEW m \in Manifests, NEW t, InTree(t, s, m, << >>)
  PROVE  Ready(t, s, m)
<1>1. PICK order \in SetToSeqs(DOMAIN m) :
        \E k \in 0 .. Len(Steps(s, order)) :
          /\ << >> = SubSeq(Steps(s, order), k + 1, Len(Steps(s, order)))
          /\ Progress(t, s, m, order, k)
  BY Zenon DEF InTree
<1> DEFINE S == Steps(s, order)
           L == LinksEnd(order)
           U == UsersEnd(s, order)
           D == DirsEnd(s, order)
           n == Len(order)
           w == Len(Writes(s))
           l == Len(S)
           nd == Len(s.dirs)
<1>2. PICK k \in 0 .. Len(S) : << >> = SubSeq(S, k + 1, Len(S)) /\ Progress(t, s, m, order, k)
  BY <1>1, Zenon
<1>3. order \in Seq(DOMAIN m)
  BY OrderFacts
<1>4. StepsAre(S, s, order)
  BY <1>3, StepsFacts
<1>5. PICK R : S \in Seq(R)
  BY <1>4, Zenon DEF StepsAre
<1>6. /\ S[1] = [do |-> "mkdir", path |-> BinDir]
      /\ \A x \in 1 .. nd : S[U + x] = [do |-> "mkdir", path |-> Vfs(s.dirs[x].path)]
      /\ L \in Nat /\ U \in Nat /\ D \in Nat /\ l = D + w
  BY <1>4, Zenon DEF StepsAre
<1>7. n \in Nat /\ nd \in Nat /\ w \in Nat /\ L = 1 + n /\ (U = L + 3 \/ U = L) /\ D = U + nd
  BY <1>3, SpecFacts, WritesFacts, LenProperties DEF LinksEnd, UsersEnd, DirsEnd
<1>8. k = l
  <2> HIDE DEF S
  <2>1. k = Len(S)
    BY <1>2, <1>5, LeftFacts
  <2> QED
    BY <2>1, Zenon DEF l
<1>9. /\ Holds(t, s, m, Linked(m, order, k), WritesAt(s, order, k))
      /\ \A i \in 1 .. k : S[i].do = "mkdir" => HoldsDir(t, S[i].path)
  BY <1>2, Zenon DEF Progress
<1> HIDE DEF S, L, U, D, n, w, l, nd
<1>10. k \in Nat /\ k >= L /\ k >= 1 /\ k = D + w /\ \A x \in 1 .. nd : U + x \in 1 .. k
  BY <1>6, <1>7, <1>8
<1>11. Linked(m, order, k) = BinPaths(m)
  BY <1>10, LinkedGrows DEF L
<1>12. WritesAt(s, order, k) = DOMAIN Writes(s)
  <2>1. k \in Nat /\ k = DirsEnd(s, order) + Len(Writes(s))
    BY <1>10, Zenon DEF D, w
  <2> QED
    BY <1>3, <2>1, WritesGrow
<1>13. HoldsDir(t, BinDir)
  <2>1. S[1].do = "mkdir" /\ S[1].path = BinDir /\ 1 \in 1 .. k
    BY <1>6, <1>10
  <2> QED
    BY <1>9, <2>1, Zenon
<1>14. \A p \in MadeDirs(s) : HoldsDir(t, p)
  <2> SUFFICES ASSUME NEW p \in MadeDirs(s) PROVE HoldsDir(t, p)
    OBVIOUS
  <2>1. PICK x \in 1 .. nd : p = Vfs(s.dirs[x].path)
    BY SpecFacts DEF MadeDirs, nd
  <2>2. S[U + x] = [do |-> "mkdir", path |-> p]
    BY <1>6, <2>1, Zenon
  <2>3. S[U + x].do = "mkdir" /\ S[U + x].path = p
    BY <2>2
  <2>4. U + x \in 1 .. k
    BY <1>10
  <2> QED
    BY <1>9, <2>3, <2>4, Zenon
<1> QED
  BY <1>9, <1>11, <1>12, <1>13, <1>14, Zenon DEF Ready

-----------------------------------------------------------------------------
(* The copy of the tree into the image *)

\* All that can be in an image are paths.
LEMMA ExpectedPaths ==
  ASSUME NEW s \in Specs, ValidSpec(s), NEW m \in Manifests
  PROVE  Expected(s, m) \subseteq Paths
<1>1. DOMAIN Installed(m) \subseteq Paths
  BY InstalledTree
<1>2. BinPaths(m) \subseteq Paths
  BY BinFacts, ManifestFacts DEF BinPaths
<1>3. OwnDirs(s) \subseteq Paths /\ Defaults(s) \subseteq Paths
  BY OwnPaths DEF OwnDirs, Defaults
<1>4. MadeDirs(s) \subseteq Paths
  BY MadeDirFacts
<1>5. WrittenPaths(s) \subseteq Paths
  BY WritesFacts DEF WrittenPaths
<1>6. \A p \in OwnDirs(s) \cup MadeDirs(s) \cup WrittenPaths(s) \cup Defaults(s) : Prefixes(p) \subseteq Paths
  BY <1>3, <1>4, <1>5, PrefixesClosed
<1> QED
  BY <1>1, <1>2, <1>6 DEF Expected

\* A tree that is ready.
LEMMA ReadyFacts ==
  ASSUME NEW s \in Specs, ValidSpec(s), NEW m \in Manifests, NEW t, Ready(t, s, m)
  PROVE  /\ IsTree(t) /\ DOMAIN t \subseteq Paths /\ HoldsDir(t, << >>) /\ HoldsDir(t, BinDir)
<1>1. IsTree(t) /\ DOMAIN t \subseteq Expected(s, m) /\ HoldsDir(t, BinDir)
  BY DEF Ready, Holds
<1>2. HoldsDir(t, << >>)
  BY <1>1, OwnFronts DEF HoldsDir, IsTree, BinDir
<1> QED
  BY <1>1, <1>2, ExpectedPaths

\* The copy begins with the root.
LEMMA CopyBegins ==
  ASSUME NEW t, IsTree(t), HoldsDir(t, << >>)
  PROVE  CopyOK(Single(<< >>, Dir), t, << << >> >>, {})
<1> DEFINE nodes == Single(<< >>, Dir)
           dirs  == << << >> >>
<1>1. DOMAIN nodes = {<< >>} /\ nodes[<< >>] = Dir
  BY DEF Single
<1>2. dirs \in Seq({<< >>}) /\ Range(dirs) = {<< >>}
  BY DEF Range
<1> HIDE DEF nodes, dirs
<1>3. IsTree(nodes)
  BY <1>1 DEF IsTree
<1>4. \A p \in DOMAIN nodes : p \in DOMAIN t /\ nodes[p] = t[p]
  BY <1>1 DEF HoldsDir
<1>5. dirs \in Seq(DOMAIN nodes)
  BY <1>1, <1>2
<1>6. \A p \in DOMAIN t \ {<< >>} :
        Front(p) \in DOMAIN nodes => p \in DOMAIN nodes \cup {} \/ Front(p) \in Range(dirs)
  BY <1>1, <1>2
<1>7. CopyOK(nodes, t, dirs, {})
  BY <1>3, <1>4, <1>5, <1>6 DEF CopyOK
<1> QED
  BY <1>7 DEF nodes, dirs

\* A directory is taken from the stack and listed.
LEMMA CopyLists ==
  ASSUME NEW t, NEW nodes, NEW dirs, CopyOK(nodes, t, dirs, {}), dirs # << >>
  PROVE  CopyOK(nodes, t, Tail(dirs), Children(t, Head(dirs)))
<1> DEFINE left == Children(t, Head(dirs))
           D    == DOMAIN nodes
<1>1. dirs \in Seq(D)
  BY DEF CopyOK
<1> HIDE DEF D
<1>2. Head(dirs) \in D /\ Tail(dirs) \in Seq(D)
  BY <1>1, HeadTailProperties
<1>3. \A q \in Range(dirs) : q = Head(dirs) \/ q \in Range(Tail(dirs))
  <2> DEFINE n == Len(dirs)
             l == Len(Tail(dirs))
  <2>1. n \in Nat /\ DOMAIN dirs = 1 .. n /\ l \in Nat /\ DOMAIN Tail(dirs) = 1 .. l
    BY <1>1, <1>2, LenProperties
  <2>2. l = n - 1 /\ \A i \in 1 .. l : Tail(dirs)[i] = dirs[i + 1]
    BY <1>1, HeadTailProperties
  <2>3. Head(dirs) = dirs[1]
    BY <1>1
  <2> HIDE DEF n, l
  <2>4. ASSUME NEW i \in 1 .. n, i # 1
        PROVE  dirs[i] \in Range(Tail(dirs))
    <3>1. i - 1 \in 1 .. l /\ dirs[i] = Tail(dirs)[i - 1]
      BY <2>1, <2>2, <2>4
    <3> QED
      BY <2>1, <3>1 DEF Range
  <2> QED
    BY <2>1, <2>3, <2>4 DEF Range
<1>4. left \subseteq DOMAIN t \ {<< >>} /\ \A p \in left : Front(p) = Head(dirs)
  BY DEF Children
<1>5. \A p \in DOMAIN t \ {<< >>} : Front(p) = Head(dirs) => p \in left
  BY DEF Children
<1> HIDE DEF left
<1>6. \A p \in DOMAIN t \ {<< >>} :
        Front(p) \in D => p \in D \cup left \/ Front(p) \in Range(Tail(dirs))
  BY <1>3, <1>5 DEF CopyOK, D
<1>7. CopyOK(nodes, t, Tail(dirs), left)
  BY <1>2, <1>4, <1>6 DEF CopyOK, D
<1> QED
  BY <1>7 DEF left

\* A node is copied, and if it is a directory it is put on the stack.
LEMMA CopyCopies ==
  ASSUME NEW t, IsTree(t), NEW nodes, NEW dirs, NEW left, CopyOK(nodes, t, dirs, left), NEW p \in left
  PROVE  CopyOK(Put(nodes, p, t[p]), t, IF t[p] = Dir THEN <<p>> \o dirs ELSE dirs, left \ {p})
<1> DEFINE nodes2 == Put(nodes, p, t[p])
           dirs2  == IF t[p] = Dir THEN <<p>> \o dirs ELSE dirs
           D      == DOMAIN nodes
<1>1. /\ DOMAIN nodes2 = D \cup {p} /\ nodes2[p] = t[p]
      /\ \A q \in D \ {p} : nodes2[q] = nodes[q]
  BY DEF Put, Over, Single
<1>2. /\ p \in DOMAIN t /\ p # << >> /\ Front(p) \in D
      /\ \A q \in D : q \in DOMAIN t /\ nodes[q] = t[q]
      /\ dirs \in Seq(D)
  BY DEF CopyOK
<1> HIDE DEF nodes2
<1>3. \A q \in DOMAIN nodes2 : q \in DOMAIN t /\ nodes2[q] = t[q]
  BY <1>1, <1>2
<1>4. IsTree(nodes2)
  <2>1. << >> \in D /\ \A q \in D \ {<< >>} : Front(q) \in D
    BY DEF CopyOK, IsTree
  <2>2. \A q \in DOMAIN t \ {<< >>} : t[Front(q)] = Dir
    BY DEF IsTree
  <2>3. << >> \in DOMAIN nodes2 /\ \A q \in DOMAIN nodes2 \ {<< >>} : Front(q) \in DOMAIN nodes2
    BY <1>1, <1>2, <2>1
  <2>4. \A q \in DOMAIN nodes2 \ {<< >>} : nodes2[Front(q)] = Dir
    BY <1>3, <2>2, <2>3
  <2> QED
    BY <2>3, <2>4 DEF IsTree
<1>5. /\ dirs2 \in Seq(D \cup {p}) /\ (t[p] = Dir => p \in Range(dirs2))
      /\ \A q \in Range(dirs) : q \in Range(dirs2)
  <2> DEFINE E == D \cup {p}
  <2>1. dirs \in Seq(E) /\ <<p>> \in Seq(E)
    BY <1>2
  <2>2. CASE t[p] # Dir
    BY <2>1, <2>2
  <2>3. CASE t[p] = Dir
    <3> HIDE DEF E
    <3> DEFINE n  == Len(dirs)
               n2 == Len(dirs2)
               one == 1
    <3>1. dirs2 = <<p>> \o dirs
      BY <2>3
    <3>2. Len(<<p>>) = one /\ Len(dirs) = n /\ <<p>>[1] = p
      OBVIOUS
    <3>3. one = 1
      OBVIOUS
    <3>4. n \in Nat /\ DOMAIN dirs = 1 .. n
      BY <2>1, LenProperties
    <3> HIDE DEF one, n, n2
    <3>5. /\ <<p>> \o dirs \in Seq(E) /\ Len(<<p>> \o dirs) = one + n
          /\ \A i \in 1 .. one : (<<p>> \o dirs)[i] = <<p>>[i]
          /\ \A i \in 1 .. n : (<<p>> \o dirs)[one + i] = dirs[i]
      BY <2>1, <3>2, ConcatLen
    <3> HIDE DEF dirs2
    <3>6. dirs2 \in Seq(E) /\ n2 = one + n
      BY <3>1, <3>5, Zenon DEF n2
    <3>7. DOMAIN dirs2 = 1 .. n2
      BY <3>6, LenProperties DEF n2
    <3>8. dirs2[1] = p /\ \A i \in 1 .. n : dirs2[one + i] = dirs[i]
      BY <3>1, <3>2, <3>3, <3>5
    <3>9. 1 \in DOMAIN dirs2 /\ \A i \in 1 .. n : one + i \in DOMAIN dirs2
      BY <3>3, <3>4, <3>6, <3>7
    <3>10. p \in Range(dirs2)
      BY <3>8, <3>9 DEF Range
    <3>11. \A q \in Range(dirs) : q \in Range(dirs2)
      BY <3>4, <3>8, <3>9 DEF Range
    <3> QED
      BY <3>6, <3>10, <3>11 DEF E
  <2> QED
    BY <2>2, <2>3
<1> HIDE DEF dirs2
<1>6. ASSUME NEW q \in DOMAIN t \ {<< >>}, Front(q) \in DOMAIN nodes2
      PROVE  q \in DOMAIN nodes2 \cup (left \ {p}) \/ Front(q) \in Range(dirs2)
  <2>1. CASE Front(q) \in D
    <3>1. q \in D \cup left \/ Front(q) \in Range(dirs)
      BY <2>1 DEF CopyOK
    <3> QED
      BY <1>1, <1>5, <3>1
  <2>2. CASE Front(q) = p
    <3>1. t[p] = Dir
      BY <2>2 DEF IsTree
    <3> QED
      BY <1>5, <2>2, <3>1
  <2> QED
    BY <1>1, <1>6, <2>1, <2>2
<1>7. left \ {p} \subseteq DOMAIN t \ {<< >>} /\ \A q \in left \ {p} : Front(q) \in DOMAIN nodes2
  BY <1>1 DEF CopyOK
<1>8. dirs2 \in Seq(DOMAIN nodes2)
  BY <1>1, <1>5
<1>9. CopyOK(nodes2, t, dirs2, left \ {p})
  BY <1>3, <1>4, <1>6, <1>7, <1>8 DEF CopyOK
<1> QED
  BY <1>9 DEF nodes2, dirs2

\* With nothing on the stack and nothing listed the image has the whole tree.
LEMMA CopyEnds ==
  ASSUME NEW t, IsTree(t), DOMAIN t \subseteq Paths, NEW nodes, CopyOK(nodes, t, << >>, {})
  PROVE  SameTree(nodes, t)
<1>1. /\ << >> \in DOMAIN nodes
      /\ \A p \in DOMAIN nodes : p \in DOMAIN t /\ nodes[p] = t[p]
  BY DEF CopyOK, IsTree
<1>2. \A p \in DOMAIN t \ {<< >>} : Front(p) \in DOMAIN nodes => p \in DOMAIN nodes
  BY DEF CopyOK, Range
<1>3. DOMAIN t \subseteq DOMAIN nodes
  <2> SUFFICES ASSUME DOMAIN t \ DOMAIN nodes # {} PROVE FALSE
    OBVIOUS
  <2> DEFINE M == DOMAIN t \ DOMAIN nodes
             Ls == {Len(p) : p \in M}
  <2>1. Ls \in SUBSET Nat /\ Ls # {}
    <3>1. \A p \in M : Len(p) \in Nat
      BY LenProperties DEF Paths
    <3> HIDE DEF M
    <3>2. M # {}
      BY DEF M
    <3> QED
      BY <3>1, <3>2
  <2>2. PICK l \in Ls : \A k \in Ls : l <= k
    <3> HIDE DEF Ls
    <3> QED BY <2>1, Least
  <2>3. PICK p \in M : l = Len(p)
    BY <2>2
  <2>4. \A q \in M : l <= Len(q)
    BY <2>2
  <2>5. p # << >> /\ p \in Paths
    BY <1>1, <2>3
  <2>6. Len(p) \in Nat \ {0} /\ Len(Front(p)) = Len(p) - 1
    BY <2>5, FrontFacts
  <2>7. Front(p) \in DOMAIN t
    BY <2>3, <2>5 DEF IsTree
  <2>8. Front(p) \notin M
    <3> DEFINE a == Len(p)
               b == Len(Front(p))
    <3>1. a \in Nat /\ b = a - 1 /\ l = a
      BY <2>3, <2>6
    <3>2. Front(p) \in M => l <= b
      BY <2>4
    <3> HIDE DEF a, b
    <3> QED
      BY <3>1, <3>2
  <2> QED
    BY <1>2, <2>3, <2>5, <2>7, <2>8
<1> QED
  BY <1>1, <1>3 DEF SameTree

-----------------------------------------------------------------------------
(* The shell, the owners and the verification *)

\* A tree to which the link to the shell is added.
ShellAdded(new, nodes, s, m) ==
  /\ DOMAIN new = DOMAIN nodes \cup {ShellPath} /\ new[ShellPath] = ShellLink(s, m)
  /\ \A p \in DOMAIN nodes \ {ShellPath} : new[p] = nodes[p]
  /\ IsTree(nodes) /\ ~HoldsDir(nodes, ShellPath) => IsTree(new)

\* That is all that is done to an image that has a bin.
LEMMA WithShellFacts ==
  ASSUME NEW s, NEW m, NEW nodes, HoldsDir(nodes, << >>), HoldsDir(nodes, BinDir)
  PROVE  ShellAdded(WithShell(nodes, s, m), nodes, s, m)
<1> DEFINE dirs == WithDirs(nodes, BinDir)
           new  == WithShell(nodes, s, m)
           link == ShellLink(s, m)
<1>1. Prefixes(BinDir) = {<< >>, BinDir} /\ Front(ShellPath) = BinDir /\ BinDir \in Paths /\ ShellPath # << >>
  BY OwnFronts, OwnPaths DEF ShellPath
<1>2. Clear(nodes, BinDir)
  BY <1>1 DEF Clear, HoldsDir
<1>3. DOMAIN dirs = DOMAIN nodes /\ \A p \in DOMAIN nodes : dirs[p] = nodes[p]
  BY <1>1, WithDirsFacts DEF HoldsDir
<1>4. IsTree(nodes) => IsTree(dirs)
  BY <1>1, <1>2, WithDirsTree
<1>5. new = Put(dirs, ShellPath, link)
  BY DEF WithShell
<1> HIDE DEF dirs, new, link
<1>6. /\ DOMAIN new = DOMAIN dirs \cup {ShellPath} /\ new[ShellPath] = link
      /\ \A q \in DOMAIN dirs \ {ShellPath} : new[q] = dirs[q]
  BY <1>5 DEF Put, Over, Single
<1>7. IsTree(nodes) /\ ~HoldsDir(nodes, ShellPath) => IsTree(new)
  BY <1>1, <1>3, <1>4, <1>5, PutTree DEF HoldsDir
<1> QED
  BY <1>3, <1>6, <1>7 DEF new, link, ShellAdded

\* Which nodes the image has in the end.
InImage(nodes, t, s, m) ==
  /\ WantsShell(s, m) => ShellPath \in DOMAIN nodes /\ nodes[ShellPath] = ShellLink(s, m)
  /\ DOMAIN nodes = DOMAIN t \cup (IF WantsShell(s, m) THEN {ShellPath} ELSE {})
  /\ \A p \in DOMAIN t : (~WantsShell(s, m) \/ p # ShellPath) => nodes[p] = t[p]

\* Those of the tree, and the shell.
LEMMA FinalFacts ==
  ASSUME NEW s, NEW m, NEW t, HoldsDir(t, << >>), HoldsDir(t, BinDir),
         NEW nodes, SameTree(nodes, Final(t, s, m))
  PROVE  InImage(nodes, t, s, m)
<1>1. CASE WantsShell(s, m)
  <2> DEFINE new == WithShell(t, s, m)
  <2>1. ShellAdded(new, t, s, m)
    BY WithShellFacts
  <2>2. SameTree(nodes, new)
    BY <1>1 DEF Final
  <2> HIDE DEF new
  <2> QED
    BY <1>1, <2>1, <2>2 DEF SameTree, ShellAdded, InImage
<1>2. CASE ~WantsShell(s, m)
  BY <1>2 DEF Final, SameTree, InImage
<1> QED
  BY <1>1, <1>2

\* The shell is linked.
LEMMA ShellStep ==
  ASSUME NEW s \in Specs, ValidSpec(s), NEW m \in Manifests, NEW t, Ready(t, s, m),
         NEW nodes, IsTree(nodes), SameTree(nodes, t)
  PROVE  /\ ~HoldsDir(nodes, ShellPath) /\ WantsShell(s, m) =>
              /\ IsTree(WithShell(nodes, s, m)) /\ SameTree(WithShell(nodes, s, m), Final(t, s, m))
              /\ ~HoldsDir(t, ShellPath)
         /\ ~WantsShell(s, m) => SameTree(nodes, Final(t, s, m))
<1>1. HoldsDir(t, << >>) /\ HoldsDir(t, BinDir)
  BY ReadyFacts
<1>2. HoldsDir(nodes, << >>) /\ HoldsDir(nodes, BinDir) /\ (HoldsDir(t, ShellPath) => HoldsDir(nodes, ShellPath))
  BY <1>1 DEF SameTree, HoldsDir
<1>3. ~WantsShell(s, m) => SameTree(nodes, Final(t, s, m))
  BY DEF Final
<1>4. ASSUME ~HoldsDir(nodes, ShellPath), WantsShell(s, m)
      PROVE  IsTree(WithShell(nodes, s, m)) /\ SameTree(WithShell(nodes, s, m), WithShell(t, s, m))
  <2> DEFINE a == WithShell(nodes, s, m)
             b == WithShell(t, s, m)
  <2>1. ShellAdded(a, nodes, s, m) /\ ShellAdded(b, t, s, m)
    BY <1>1, <1>2, WithShellFacts
  <2> HIDE DEF a, b
  <2>2. IsTree(a)
    BY <1>4, <2>1 DEF ShellAdded
  <2>3. SameTree(a, b)
    BY <2>1 DEF SameTree, ShellAdded
  <2> QED
    BY <2>2, <2>3 DEF a, b
<1> QED
  BY <1>2, <1>3, <1>4 DEF Final

\* /bin/sh is there only because a package or packages.toml has put it there.
LEMMA ShellTaken ==
  ASSUME NEW s \in Specs, ValidSpec(s), NEW m \in Manifests, NEW t, Ready(t, s, m),
         WantsShell(s, m), ShellPath \in DOMAIN t
  PROVE  ShellIsTaken(s, m)
<1>1. ShellPath \in Paths /\ Len(ShellPath) = 2 /\ ShellPath[1] = "bin"
  BY OwnPaths
<1>2. ShellPath \notin DOMAIN Installed(m)
  <2>1. \A q \in DOMAIN Installed(m) \ {<< >>} : q[1] = "nix"
    BY InstalledFacts
  <2>2. ShellPath # << >>
    BY DEF ShellPath
  <2> QED
    BY <1>1, <2>1, <2>2
<1>3. ShellPath \notin OwnDirs(s) \cup Defaults(s)
  BY DEF OwnDirs, Defaults, ShellPath, BinDir
<1>4. \/ ShellPath \in DirsIn(Installed(m)) \cup OwnDirs(s) \cup NeededDirs(s)
      \/ ShellPath \in Solid(s, m) \cup WrittenPaths(s)
      \/ ShellPath \in Links(m)
  BY Zenon DEF Ready, Holds, Justified
<1>5. ShellPath \in BinPaths(m) \cup WrittenPaths(s) \cup NeededDirs(s)
  BY <1>2, <1>3, <1>4 DEF DirsIn, Solid, Links, LinksIn
<1> QED
  BY <1>5 DEF ShellIsTaken

\* A declaration changes the owner of its path, and of no other.
LEMMA OwnersStep ==
  ASSUME NEW s \in Specs, ValidSpec(s), NEW owner, NEW left, OwnersOK(owner, s, left), left # << >>
  PROVE  OwnersOK(Owned(owner, Head(left)), s, Tail(left)) /\ Head(left) \in Range(s.dirs)
<1>1. PICK k \in 0 .. Len(s.dirs) : left = SubSeq(s.dirs, k + 1, Len(s.dirs)) /\ OwnersAt(owner, s, k)
  BY Zenon DEF OwnersOK
<1>2. s.dirs \in Seq(Range(s.dirs))
  BY SpecAssumption
<1>3. /\ k + 1 \in 1 .. Len(s.dirs) /\ k + 1 \in 0 .. Len(s.dirs) /\ k \in Nat
      /\ Head(left) = s.dirs[k + 1] /\ Tail(left) = SubSeq(s.dirs, (k + 1) + 1, Len(s.dirs))
  <2> DEFINE S == s.dirs
  <2>1. S \in Seq(Range(S)) /\ k \in 0 .. Len(S) /\ left = SubSeq(S, k + 1, Len(S))
    BY <1>1, <1>2
  <2> HIDE DEF S
  <2>2. /\ k + 1 \in 1 .. Len(S) /\ k + 1 \in 0 .. Len(S) /\ k \in Nat
        /\ Head(left) = S[k + 1] /\ Tail(left) = SubSeq(S, (k + 1) + 1, Len(S))
    BY <2>1, LeftFacts
  <2> QED
    BY <2>2, Zenon DEF S
<1> DEFINE e   == s.dirs[k + 1]
           new == Owned(owner, e)
           P(i) == s.dirs[i].path
<1>4. ASSUME NEW i \in 1 .. k + 1, IsGiven(s.dirs[i]), IsLast(s, i, k + 1)
      PROVE  Vfs(P(i)) \in DOMAIN new /\ OwnedAsGiven(new[Vfs(P(i))], s.dirs[i])
  <2>1. CASE i = k + 1
    <3>1. IsGiven(e)
      BY <1>4, <2>1
    <3>2. new = Put(owner, Vfs(e.path), <<Uid(e), Gid(e)>>)
      BY <3>1 DEF Owned
    <3>3. Vfs(P(i)) \in DOMAIN new /\ new[Vfs(P(i))] = <<Uid(e), Gid(e)>>
      BY <2>1, <3>2 DEF Put, Over, Single
    <3> QED
      BY <2>1, <3>3 DEF OwnedAsGiven, Gid
  <2>2. CASE i # k + 1
    <3>1. i \in 1 .. k /\ k + 1 > i /\ k + 1 \in 1 .. k + 1 /\ (\A j \in 1 .. k : j \in 1 .. k + 1)
      BY <1>3, <2>2
    <3>2. Vfs(P(i)) \in DOMAIN owner /\ OwnedAsGiven(owner[Vfs(P(i))], s.dirs[i])
      <4>1. IsLast(s, i, k)
        BY <1>4, <3>1 DEF IsLast
      <4> QED
        BY <1>1, <1>4, <3>1, <4>1 DEF OwnersAt
    <3>4. Vfs(P(i)) # Vfs(e.path)
      BY <1>4, <3>1 DEF IsLast
    <3> DEFINE a == Vfs(P(i))
               b == Vfs(e.path)
               v == <<Uid(e), Gid(e)>>
    <3>5. new = Put(owner, b, v) \/ new = owner
      BY DEF Owned
    <3>6. a \in DOMAIN owner /\ a # b /\ OwnedAsGiven(owner[a], s.dirs[i])
      BY <3>2, <3>4
    <3> HIDE DEF a, b, v, new
    <3>7. a \in DOMAIN new /\ new[a] = owner[a]
      BY <3>5, <3>6 DEF Put, Over, Single
    <3> QED
      BY <3>6, <3>7 DEF a
  <2> QED
    BY <2>1, <2>2
<1>5. OwnersAt(new, s, k + 1)
  BY <1>4, Zenon DEF OwnersAt
<1>6. \E l \in 0 .. Len(s.dirs) : Tail(left) = SubSeq(s.dirs, l + 1, Len(s.dirs)) /\ OwnersAt(new, s, l)
  BY <1>3, <1>5, Zenon
<1>7. Head(left) \in Range(s.dirs)
  <2>1. k + 1 \in DOMAIN s.dirs
    BY <1>3, SpecFacts
  <2> QED
    BY <1>3, <2>1 DEF Range
<1>8. OwnersOK(Owned(owner, Head(left)), s, Tail(left))
  BY <1>3, <1>6, Zenon DEF OwnersOK
<1> QED
  BY <1>7, <1>8

\* The first declaration is next, and after the last all owners are set.
LEMMA OwnersEnds ==
  ASSUME NEW s \in Specs, ValidSpec(s), NEW owner
  PROVE  /\ OwnersOK(owner, s, s.dirs)
         /\ OwnersOK(owner, s, << >>) => OwnersAt(owner, s, Len(s.dirs))
<1> DEFINE S == s.dirs
<1>1. S \in Seq(Range(S))
  BY SpecAssumption
<1>2. OwnersAt(owner, s, 0)
  <2>1. \A i \in 1 .. 0 : FALSE
    OBVIOUS
  <2> QED
    BY <2>1, Zenon DEF OwnersAt
<1> HIDE DEF S
<1>3. S = SubSeq(S, 0 + 1, Len(S)) /\ 0 \in 0 .. Len(S)
  <2>1. S = SubSeq(S, 1, Len(S))
    BY <1>1, SubSeqFull
  <2>2. 0 \in 0 .. Len(S) /\ 0 + 1 = 1
    BY <1>1, LenProperties
  <2> QED
    BY <2>1, <2>2, Zenon
<1>4. OwnersOK(owner, s, s.dirs)
  <2>1. \E k \in 0 .. Len(S) : S = SubSeq(S, k + 1, Len(S)) /\ OwnersAt(owner, s, k)
    BY <1>2, <1>3, Zenon
  <2> QED
    BY <2>1, Zenon DEF S, OwnersOK
<1>5. ASSUME OwnersOK(owner, s, << >>)
      PROVE  OwnersAt(owner, s, Len(s.dirs))
  <2>1. PICK k \in 0 .. Len(S) : << >> = SubSeq(S, k + 1, Len(S)) /\ OwnersAt(owner, s, k)
    BY <1>5, Zenon DEF OwnersOK, S
  <2>2. k = Len(S)
    BY <1>1, <2>1, LeftFacts
  <2> QED
    BY <2>1, <2>2, Zenon DEF S
<1> QED
  BY <1>4, <1>5

\* The last write to a path: the one after which there is no other.
LEMMA LastWriteFacts ==
  ASSUME NEW s \in Specs, ValidSpec(s), NEW p \in WrittenPaths(s)
  PROVE  \E j \in DOMAIN Writes(s) :
           /\ Writes(s)[j][1] = p /\ LastWritten(s, p) = Writes(s)[j][2]
           /\ \A i \in DOMAIN Writes(s) : i > j => Writes(s)[i][1] # Writes(s)[j][1]
<1> DEFINE w == Len(Writes(s))
           J == {i \in DOMAIN Writes(s) : Writes(s)[i][1] = p}
           B == {w - i : i \in J}
<1>1. w \in Nat /\ DOMAIN Writes(s) = 1 .. w
  BY WritesFacts
<1>2. J # {} /\ J \subseteq 1 .. w
  BY <1>1 DEF WrittenPaths
<1> HIDE DEF J, w
<1>3. B \in SUBSET Nat /\ B # {}
  <2>1. \A i \in J : w - i \in Nat
    BY <1>1, <1>2
  <2> QED
    BY <1>2, <2>1
<1>4. PICK b \in B : \A c \in B : b <= c
  <2> HIDE DEF B
  <2> QED BY <1>3, Least
<1>5. PICK top \in J : b = w - top
  BY <1>4
<1>6. \A i \in J : top >= i
  <2> SUFFICES ASSUME NEW i \in J PROVE top >= i
    OBVIOUS
  <2>1. b <= w - i
    BY <1>4
  <2> QED
    BY <1>1, <1>2, <1>5, <2>1
<1>7. Max(J) \in J /\ \A i \in J : Max(J) >= i
  BY <1>6 DEF Max
<1> DEFINE j == Max(J)
<1>8. LastWritten(s, p) = Writes(s)[j][2]
  BY DEF LastWritten, J
<1>9. j \in DOMAIN Writes(s) /\ Writes(s)[j][1] = p
  BY <1>7 DEF J
<1>10. \A i \in DOMAIN Writes(s) : i > j => Writes(s)[i][1] # p
  <2> SUFFICES ASSUME NEW i \in DOMAIN Writes(s), i > j, Writes(s)[i][1] = p PROVE FALSE
    OBVIOUS
  <2>1. i \in J
    BY DEF J
  <2>2. j \in J /\ \A k \in J : j >= k
    BY <1>7
  <2> HIDE DEF j
  <2> QED
    BY <1>1, <1>2, <2>1, <2>2
<1> HIDE DEF j
<1> QED
  BY <1>8, <1>9, <1>10

\* A tree that is ready holds each written file as it was last written.
LEMMA ReadyWrites ==
  ASSUME NEW s \in Specs, ValidSpec(s), NEW m, NEW t, Ready(t, s, m), NEW p \in WrittenPaths(s)
  PROVE  p \in DOMAIN t /\ t[p] = File(LastWritten(s, p))
<1>1. PICK j \in DOMAIN Writes(s) :
           /\ Writes(s)[j][1] = p /\ LastWritten(s, p) = Writes(s)[j][2]
           /\ \A i \in DOMAIN Writes(s) : i > j => Writes(s)[i][1] # Writes(s)[j][1]
  BY LastWriteFacts
<1>2. HoldsWrites(t, s, DOMAIN Writes(s))
  BY DEF Ready, Holds
<1>3. /\ Writes(s)[j][1] \in DOMAIN t
      /\ (\A i \in DOMAIN Writes(s) : i > j => Writes(s)[i][1] # Writes(s)[j][1]) =>
           t[Writes(s)[j][1]] = File(Writes(s)[j][2])
  BY <1>2 DEF HoldsWrites
<1> QED
  BY <1>1, <1>3

\* What the packages brought, where nothing is written over it.
LEMMA ReadyInstalled ==
  ASSUME NEW s \in Specs, ValidSpec(s), NEW m \in Manifests, NEW t, Ready(t, s, m),
         NEW p \in DOMAIN Installed(m)
  PROVE  p \in DOMAIN t /\ (p \notin WrittenPaths(s) => t[p] = Installed(m)[p])
BY DEF Ready, Holds, KeepsInstalled, WrittenPaths

\* Installed paths are not the shell's.
LEMMA NotTheShell ==
  ASSUME NEW m \in Manifests, NEW p \in DOMAIN Installed(m)
  PROVE  p # ShellPath
<1>1. \A q \in DOMAIN Installed(m) \ {<< >>} : q[1] = "nix"
  BY InstalledFacts
<1>2. ShellPath # << >> /\ ShellPath[1] = "bin"
  BY DEF ShellPath
<1> QED
  BY <1>1, <1>2

\* An image that was made from a tree that is ready is what was asked for.
LEMMA ReadyIsDeclared ==
  ASSUME NEW s \in Specs, ValidSpec(s), NEW m \in Manifests, NEW t, Ready(t, s, m),
         NEW nodes, SameTree(nodes, Final(t, s, m)), WantsShell(s, m) => ~HoldsDir(t, ShellPath),
         NEW owner, OwnersAt(owner, s, Len(s.dirs))
  PROVE  AsDeclared(nodes, owner, s, m)
<1> DEFINE shell == IF WantsShell(s, m) THEN {ShellPath} ELSE {}
<1>1. HoldsDir(t, << >>) /\ HoldsDir(t, BinDir)
  BY ReadyFacts
<1>2. /\ WantsShell(s, m) => ShellPath \in DOMAIN nodes /\ nodes[ShellPath] = ShellLink(s, m)
      /\ DOMAIN nodes = DOMAIN t \cup shell
      /\ \A p \in DOMAIN t : (~WantsShell(s, m) \/ p # ShellPath) => nodes[p] = t[p]
  <2>1. InImage(nodes, t, s, m)
    BY <1>1, FinalFacts
  <2> QED
    BY <2>1 DEF InImage
<1>3. \A p \in DOMAIN Installed(m) \ WrittenPaths(s) : nodes[p] = Installed(m)[p]
  BY <1>2, ReadyInstalled, NotTheShell
<1>4. \A p \in BinPaths(m) \ shell :
           \E store \in Range(m) : p \in BinOf(store) /\ nodes[p] = Link(StorePath(store) \o p)
  <2> SUFFICES ASSUME NEW p \in BinPaths(m) \ shell
               PROVE  \E store \in Range(m) : p \in BinOf(store) /\ nodes[p] = Link(StorePath(store) \o p)
    OBVIOUS
  <2>1. /\ p \in DOMAIN t
        /\ \E store \in Range(m) : p \in BinOf(store) /\ t[p] = Link(StorePath(store) \o p)
    BY DEF Ready, Holds, AreLinks
  <2>2. nodes[p] = t[p]
    BY <1>2, <2>1
  <2> QED
    BY <2>1, <2>2
<1>5. \A p \in WrittenPaths(s) \ shell : nodes[p] = File(LastWritten(s, p))
  BY <1>2, ReadyWrites
<1>6. \A p \in MadeDirs(s) : nodes[p] = Dir
  <2>1. \A p \in MadeDirs(s) : HoldsDir(t, p)
    BY DEF Ready
  <2> QED
    BY <1>2, <2>1 DEF HoldsDir
<1>7. ASSUME NEW i \in DOMAIN s.dirs, IsGiven(s.dirs[i]), IsLast(s, i, Len(s.dirs))
      PROVE  OwnedAsGiven(owner[Vfs(s.dirs[i].path)], s.dirs[i])
  <2>1. DOMAIN s.dirs = 1 .. Len(s.dirs)
    BY SpecFacts
  <2> QED
    BY <1>7, <2>1, Zenon DEF OwnersAt
<1>8. DOMAIN nodes \subseteq Expected(s, m) \cup shell
  BY <1>2 DEF Ready, Holds
<1> QED
  BY <1>2, <1>3, <1>4, <1>5, <1>6, <1>7, <1>8, Zenon DEF AsDeclared

\* The bin of a store path.
LEMMA StoreBin ==
  ASSUME NEW store \in Stores
  PROVE  LET bin == StorePath(store) \o BinDir
         IN  bin \in Paths /\ Len(bin) = 4 /\ bin[1] = "nix" /\ bin # << >> /\ bin # ShellPath
<1> DEFINE bin == StorePath(store) \o BinDir
           b   == Len(bin)
           one == Len(BinDir)
<1>1. BinDir \in Paths /\ one = 1
  BY OwnPaths
<1>2. bin \in Paths /\ b = 3 + one /\ bin[1] = "nix"
  BY <1>1, StoreFacts
<1> HIDE DEF b, one
<1>3. b = 4
  BY <1>1, <1>2
<1>4. Len(bin) = 4
  BY <1>3 DEF b
<1>5. bin # << >> /\ bin # ShellPath
  <2> HIDE DEF bin
  <2>1. bin = << >> => b = 0
    BY OwnPaths, Zenon DEF b
  <2>2. bin # ShellPath
    BY <1>2, OwnPaths
  <2> QED
    BY <1>3, <2>1, <2>2
<1> QED
  BY <1>2, <1>4, <1>5

\* A path in a store path's bin, in what the packages bring.
LEMMA InstalledBin ==
  ASSUME NEW m \in Manifests, NEW store \in Range(m), NEW q \in DOMAIN Installed(m)
  PROVE  /\ q = StorePath(store) \o BinDir =>
              BinDir \in DOMAIN Content[store] /\ Installed(m)[q] = Content[store][BinDir]
         /\ q # << >> /\ Front(q) = StorePath(store) \o BinDir =>
              \E p \in BinOf(store) : q = StorePath(store) \o p /\ Installed(m)[q] = Content[store][p]
<1> DEFINE t   == Installed(m)
           bin == StorePath(store) \o BinDir
<1>1. store \in Stores /\ BinDir \in Paths
  BY ManifestFacts, OwnPaths
<1>2. bin \in Paths /\ Len(bin) = 4
  BY <1>1, StoreBin
<1>3. \/ q \in Paths /\ Len(q) < 3 /\ t[q] = Dir
      \/ \E s \in Range(m) : \E p \in DOMAIN Content[s] :
           q = StorePath(s) \o p /\ q \in Paths /\ Len(q) >= 3 /\ t[q] = Content[s][p]
  BY InstalledFacts
<1> HIDE DEF t, bin
<1>4. q \in Paths
  BY <1>3
<1>5. ASSUME q = bin
      PROVE  BinDir \in DOMAIN Content[store] /\ t[q] = Content[store][BinDir]
  <2>1. ~(Len(q) < 3)
    <3> DEFINE a == Len(q)
    <3>1. a = 4
      BY <1>2, <1>5
    <3> HIDE DEF a
    <3>2. ~(a < 3)
      BY <3>1
    <3> QED
      BY <3>2 DEF a
  <2>2. PICK s \in Range(m) : \E p \in DOMAIN Content[s] : q = StorePath(s) \o p /\ t[q] = Content[s][p]
    BY <1>3, <2>1
  <2>3. PICK p \in DOMAIN Content[s] : q = StorePath(s) \o p /\ t[q] = Content[s][p]
    BY <2>2
  <2>4. s \in Stores /\ p \in Paths
    BY ManifestFacts, ContentFacts
  <2>5. q[3] = s /\ SubSeq(q, 4, Len(q)) = p
    BY <2>3, <2>4, StoreFacts
  <2>6. bin[3] = store /\ SubSeq(bin, 4, Len(bin)) = BinDir
    BY <1>1, StoreFacts DEF bin
  <2>7. s = store /\ p = BinDir
    <3> DEFINE tail(x) == SubSeq(x, 4, Len(x))
               b == BinDir
    <3>1. q = bin /\ q[3] = s /\ bin[3] = store /\ tail(q) = p /\ tail(bin) = b
      BY <1>5, <2>5, <2>6
    <3> HIDE DEF tail, b
    <3>2. s = store /\ p = b
      BY <3>1
    <3> QED
      BY <3>2 DEF b
  <2> QED
    BY <2>3, <2>7
<1>6. ASSUME q # << >>, Front(q) = bin
      PROVE  \E p \in BinOf(store) : q = StorePath(store) \o p /\ t[q] = Content[store][p]
  <2>1. ~(Len(q) < 3)
    <3> DEFINE a == Len(q)
               b == Len(Front(q))
    <3>1. a \in Nat \ {0} /\ b = a - 1
      BY <1>4, <1>6, FrontFacts
    <3>2. b = 4
      BY <1>2, <1>6
    <3> HIDE DEF a, b
    <3>3. ~(a < 3)
      BY <3>1, <3>2
    <3> QED
      BY <3>3 DEF a
  <2>2. PICK s \in Range(m) : \E p \in DOMAIN Content[s] : q = StorePath(s) \o p /\ t[q] = Content[s][p]
    BY <1>3, <2>1
  <2>3. PICK p \in DOMAIN Content[s] : q = StorePath(s) \o p /\ t[q] = Content[s][p]
    BY <2>2
  <2>4. s \in Stores /\ p \in Paths
    BY ManifestFacts, ContentFacts
  <2>5. p # << >>
    <3> SUFFICES ASSUME p = << >> PROVE FALSE
      OBVIOUS
    <3> DEFINE a == Len(q)
               b == Len(Front(q))
               c == Len(p)
    <3>1. a \in Nat \ {0} /\ b = a - 1
      BY <1>4, <1>6, FrontFacts
    <3>2. b = 4
      BY <1>2, <1>6
    <3>3. a = 3 + c
      BY <2>3, <2>4, StoreFacts
    <3>4. c = 0
      OBVIOUS
    <3> HIDE DEF a, b, c
    <3> QED
      BY <3>1, <3>2, <3>3, <3>4
  <2>6. Front(q) = StorePath(s) \o Front(p) /\ Front(p) \in Paths
    BY <2>3, <2>4, <2>5, StoreFront, FrontFacts
  <2>7. StorePath(s) \o Front(p) = StorePath(store) \o BinDir
    BY <1>6, <2>6 DEF bin
  <2>8. s = store /\ Front(p) = BinDir
    BY <1>1, <2>4, <2>6, <2>7, StoreInjective
  <2>9. Content[s][BinDir] = Dir
    BY <2>4, <2>5, <2>8, ContentFacts DEF IsTree
  <2>10. p \in BinOf(store)
    BY <2>5, <2>8, <2>9 DEF BinOf, Children
  <2> QED
    BY <2>3, <2>8, <2>10
<1> QED
  BY <1>5, <1>6 DEF t, bin

\* What is a file or no directory under nix was brought by a package, or written.
LEMMA UnderNix ==
  ASSUME NEW s \in Specs, ValidSpec(s), NEW m \in Manifests, NEW t, Ready(t, s, m),
         NEW p \in DOMAIN t, p # << >>, p[1] = "nix", t[p] # Dir
  PROVE  p \in DOMAIN Installed(m) \/ p \in WrittenPaths(s)
<1>1. p \notin BinPaths(m)
  BY BinFacts, ManifestFacts DEF BinPaths
<1>2. p \notin Defaults(s)
  BY OwnPaths DEF Defaults
<1>3. p \in Solid(s, m) \cup WrittenPaths(s) \/ p \in Links(m)
  BY Zenon DEF Ready, Holds, Justified
<1> QED
  BY <1>1, <1>2, <1>3 DEF Solid, Links, LinksIn

\* A package that does not verify is a bad one.
LEMMA NotVerified ==
  ASSUME NEW s \in Specs, ValidSpec(s), NEW m \in Manifests, NEW t, Ready(t, s, m),
         NEW nodes, SameTree(nodes, Final(t, s, m)), NEW store \in Range(m), ~Verifies(nodes, store)
  PROVE  BadBinary(s, m)
<1> DEFINE bin == StorePath(store) \o BinDir
<1>0. store \in Stores /\ StorePath(store) \in Paths
  BY ManifestFacts, OwnPaths, StoreFacts
<1>1. bin \in Paths /\ Len(bin) = 4 /\ bin[1] = "nix" /\ bin # << >> /\ bin # ShellPath
  BY <1>0, StoreBin
<1>2. HoldsDir(t, << >>) /\ HoldsDir(t, BinDir) /\ DOMAIN t \subseteq Paths
  BY ReadyFacts
<1>3. InImage(nodes, t, s, m)
  BY <1>2, FinalFacts
<1> HIDE DEF bin
<1>4. \A p \in DOMAIN nodes : p # ShellPath => p \in DOMAIN t /\ nodes[p] = t[p]
  BY <1>3 DEF InImage
<1>5. StorePath(store) \in DOMAIN nodes
  <2>1. StorePath(store) \in DOMAIN Installed(m)
    <3>1. StorePath(store) \in Prefixes(StorePath(store))
      BY <1>0, PrefixesClosed
    <3> QED
      BY <3>1, InstalledFacts
  <2>2. StorePath(store) \in DOMAIN t
    BY <2>1, ReadyInstalled
  <2> QED
    BY <1>3, <2>2 DEF InImage
<1>6. bin # << >> /\ bin # ShellPath
  BY <1>1
<1>7. bin \in DOMAIN nodes
  BY <1>5 DEF Verifies, bin
<1>8. bin \in DOMAIN t /\ nodes[bin] = t[bin]
  BY <1>4, <1>6, <1>7
<1>9. \/ nodes[bin] # Dir
      \/ \E p \in Children(nodes, bin) : IsFile(nodes[p]) /\ nodes[p][2] \notin Executable
  BY <1>5 DEF Verifies, bin
<1>10. CASE nodes[bin] # Dir
  <2>1. bin \in DOMAIN Installed(m) \/ bin \in WrittenPaths(s)
    BY <1>1, <1>6, <1>8, <1>10, UnderNix
  <2>2. CASE bin \in WrittenPaths(s)
    BY <2>2 DEF BadBinary, bin
  <2>3. CASE bin \in DOMAIN Installed(m) /\ bin \notin WrittenPaths(s)
    <3>1. t[bin] = Installed(m)[bin]
      BY <2>3, ReadyInstalled
    <3>2. BinDir \in DOMAIN Content[store] /\ Installed(m)[bin] = Content[store][BinDir]
      BY <2>3, InstalledBin DEF bin
    <3> QED
      BY <1>8, <1>10, <3>1, <3>2 DEF BadBinary
  <2> QED
    BY <2>1, <2>2, <2>3
<1>11. CASE \E p \in Children(nodes, bin) : IsFile(nodes[p]) /\ nodes[p][2] \notin Executable
  <2>1. PICK p \in Children(nodes, bin) : IsFile(nodes[p]) /\ nodes[p][2] \notin Executable
    BY <1>11
  <2>2. p \in DOMAIN nodes /\ p # << >> /\ Front(p) = bin
    BY DEF Children
  <2>3. p # ShellPath
    <3>1. Front(ShellPath) = BinDir /\ BinDir[1] = "bin"
      BY OwnFronts, OwnPaths
    <3> QED
      BY <1>1, <2>2, <3>1
  <2>4. p \in DOMAIN t /\ nodes[p] = t[p] /\ p \in Paths
    BY <1>2, <1>4, <2>2, <2>3
  <2>5. CASE p \in WrittenPaths(s)
    <3>1. nodes[p] = File(LastWritten(s, p))
      BY <2>4, <2>5, ReadyWrites
    <3>2. LastWritten(s, p) \notin Executable
      BY <2>1, <3>1, Kinds
    <3> QED
      BY <2>2, <2>5, <3>2 DEF BadBinary, bin
  <2>6. CASE p \notin WrittenPaths(s)
    <3>1. p[1] = "nix"
      <4> DEFINE a == Len(p)
                 b == Len(bin)
      <4>1. a \in Nat \ {0} /\ b = a - 1 /\ \A i \in 1 .. a - 1 : bin[i] = p[i]
        BY <2>2, <2>4, FrontFacts
      <4>2. b = 4
        BY <1>1
      <4> HIDE DEF a, b
      <4>3. 1 \in 1 .. a - 1
        BY <4>1, <4>2
      <4> QED
        BY <1>1, <4>1, <4>3
    <3>2. t[p] # Dir
      BY <2>1, <2>4, Kinds
    <3>3. p \in DOMAIN Installed(m)
      BY <2>2, <2>4, <2>6, <3>1, <3>2, UnderNix
    <3>4. t[p] = Installed(m)[p]
      BY <2>6, <3>3, ReadyInstalled
    <3>5. PICK q \in BinOf(store) : p = StorePath(store) \o q /\ Installed(m)[p] = Content[store][q]
      BY <2>2, <3>3, InstalledBin DEF bin
    <3>6. IsFile(Content[store][q]) /\ Content[store][q][2] \notin Executable
      BY <2>1, <2>4, <3>4, <3>5
    <3> QED
      BY <2>6, <3>5, <3>6 DEF BadBinary
  <2> QED
    BY <2>5, <2>6
<1> QED
  BY <1>9, <1>10, <1>11

-----------------------------------------------------------------------------
(* The invariant is inductive *)

\* The invariant, and what it says of a build when it ends.
Whole == IInv /\ BuiltAsDeclared /\ CleanBuildSucceeds

\* The initial state.
LEMMA InitHolds == Init => Whole
<1> SUFFICES ASSUME Init PROVE Whole
  OBVIOUS
<1>1. TypeOK
  <2>1. image.state = "none" /\ tree = << >> /\ listing = {} /\ Range(stack) = {}
    BY DEF Init, NoImage, Range
  <2>2. manifest = Absent /\ pc = "idle" /\ result = "none" /\ spec = NoSpec /\ entries = << >>
        /\ runs = 0 /\ faults = 0 /\ faulty = FALSE
    BY DEF Init
  <2> QED
    BY <2>1, <2>2 DEF TypeOK, Pcs, Results
<1>2. CommandOK
  BY DEF Init, CommandOK, NoImage
<1>3. PhaseOK
  BY DEF Init, PhaseOK
<1>4. BuiltAsDeclared /\ CleanBuildSucceeds
  BY DEF Init, BuiltAsDeclared, CleanBuildSucceeds
<1> QED
  BY <1>1, <1>2, <1>3, <1>4 DEF Whole, IInv

\* A command that goes on says nothing yet of its result.
LEMMA GoesOn ==
  ASSUME Whole, pc # "idle", UNCHANGED <<manifest, runs, result, spec>>, NoFault,
         pc' \in Pcs \ {"idle"}, entries' \in Manifests \cup {<< >>},
         pc' # "load" => entries' \in Manifests,
         image' = [state |-> image'.state, nodes |-> image'.nodes, owner |-> image'.owner],
         image'.state \in {"none", "raw", "fs"}, image'.state = "fs" => IsTree(image'.nodes),
         tree' # << >> => IsTree(tree'),
         listing' \subseteq DOMAIN tree', Range(stack') \subseteq DOMAIN tree',
         pc' # "copy" => listing' = {} /\ stack' = << >>,
         PhaseOK'
  PROVE  Whole'
<1>1. TypeOK /\ CommandOK
  BY DEF Whole, IInv
<1>2. result = "none" /\ spec \in Specs /\ ValidSpec(spec)
  BY <1>1 DEF CommandOK
<1>3. TypeOK'
  BY <1>1 DEF TypeOK, NoFault, Pcs
<1>4. CommandOK'
  BY <1>2 DEF CommandOK, Pcs
<1>5. (BuiltAsDeclared /\ CleanBuildSucceeds)'
  BY <1>2 DEF BuiltAsDeclared, CleanBuildSucceeds
<1> QED
  BY <1>3, <1>4, <1>5 DEF Whole, IInv

\* A command that returns leaves nothing behind but its result.
LEMMA Returns ==
  ASSUME Whole, NEW r \in Results, Return(r), UNCHANGED <<manifest, image>>, runs' \in Nat,
         spec' \in Specs \cup {NoSpec}, entries' \in Manifests \cup {<< >>},
         faults' \in Nat, faulty' \in BOOLEAN,
         r = "ok" => AsDeclared(image.nodes, image.owner, spec', entries'),
         r = "failed" /\ ~faulty' =>
           \/ Clash(spec', entries') \/ BadPath(spec')
           \/ ShellIsTaken(spec', entries') \/ BadBinary(spec', entries')
  PROVE  Whole'
<1>1. TypeOK /\ CommandOK
  BY DEF Whole, IInv
<1>2. /\ pc' = "idle" /\ result' = r /\ tree' = << >> /\ todo' = << >>
      /\ stack' = << >> /\ listing' = {} /\ image' = image
  BY DEF Return
<1>3. TypeOK'
  BY <1>1, <1>2 DEF TypeOK, Pcs, Results, Range
<1>4. CommandOK'
  BY <1>1, <1>2 DEF CommandOK
<1>5. PhaseOK'
  BY <1>2 DEF PhaseOK
<1>6. (BuiltAsDeclared /\ CleanBuildSucceeds)'
  BY <1>2 DEF BuiltAsDeclared, CleanBuildSucceeds
<1> QED
  BY <1>3, <1>4, <1>5, <1>6 DEF Whole, IInv

\* A fault ends a command, and is remembered.
LEMMA FaultEnds ==
  ASSUME Whole, pc # "idle", Command, Fails
  PROVE  Whole'
<1>1. TypeOK
  BY DEF Whole, IInv
<1>2. faults' \in Nat /\ faulty' = TRUE /\ Return("failed") /\ UNCHANGED <<image, spec, entries>>
  BY <1>1 DEF Fails, Fault, TypeOK
<1> QED
  BY <1>1, <1>2, Returns DEF Command, TypeOK, Results

\* A command that ends otherwise.
LEMMA EndHolds ==
  ASSUME Whole, NEW r \in Results, Command, Ends(r),
         r = "ok" => AsDeclared(image.nodes, image.owner, spec, entries),
         r = "failed" =>
           \/ Clash(spec, entries) \/ BadPath(spec)
           \/ ShellIsTaken(spec, entries) \/ BadBinary(spec, entries)
  PROVE  Whole'
<1>1. TypeOK
  BY DEF Whole, IInv
<1>2. UNCHANGED <<faults, faulty, image, spec, entries>> /\ Return(r)
  BY DEF Ends, NoFault
<1> QED
  BY <1>1, <1>2, Returns DEF Command, TypeOK

\* A tree of which some steps are done is a tree.
LEMMA InTreeIsTree ==
  ASSUME NEW t, NEW s, NEW m, NEW left, InTree(t, s, m, left)
  PROVE  IsTree(t)
BY DEF InTree, Progress, Holds

\* What is left of a copy is in the tree.
LEMMA CopyTyped ==
  ASSUME NEW nodes, NEW t, NEW dirs, NEW left, CopyOK(nodes, t, dirs, left)
  PROVE  IsTree(nodes) /\ left \subseteq DOMAIN t /\ Range(dirs) \subseteq DOMAIN t
<1>1. IsTree(nodes) /\ left \subseteq DOMAIN t /\ dirs \in Seq(DOMAIN nodes)
      /\ DOMAIN nodes \subseteq DOMAIN t
  BY DEF CopyOK
<1>2. \A i \in DOMAIN dirs : dirs[i] \in DOMAIN nodes
  BY <1>1, ElementOfSeq, LenProperties
<1> QED
  BY <1>1, <1>2 DEF Range

-----------------------------------------------------------------------------
\* What the invariant says while a command builds the tree.
LEMMA InTreePhase ==
  ASSUME Whole, pc = "tree"
  PROVE  /\ spec \in Specs /\ ValidSpec(spec) /\ entries \in Manifests /\ InTree(tree, spec, entries, todo)
         /\ listing = {} /\ stack = << >> /\ TypeOK /\ result = "none"
         /\ image = [state |-> image.state, nodes |-> image.nodes, owner |-> image.owner]
BY DEF Whole, IInv, CommandOK, PhaseOK

\* One more step of the tree is done.
LEMMA TreeGoesOn ==
  ASSUME Whole, pc = "tree", Command, NEW t, Done(t), InTree(t, spec, entries, Tail(todo))
  PROVE  Whole'
<1>1. /\ entries \in Manifests /\ listing = {} /\ stack = << >> /\ TypeOK
      /\ image = [state |-> image.state, nodes |-> image.nodes, owner |-> image.owner]
  BY InTreePhase
<1>2. /\ UNCHANGED <<manifest, runs, image, pc, result, spec, entries, stack, listing>> /\ NoFault
      /\ tree' = t /\ todo' = Tail(todo)
  BY DEF Done, Command
<1>3. IsTree(t)
  BY InTreeIsTree
<1>4. PhaseOK'
  BY <1>2 DEF PhaseOK
<1>5. listing' \subseteq DOMAIN tree' /\ Range(stack') \subseteq DOMAIN tree'
  BY <1>1, <1>2 DEF Range
<1>6. image'.state \in {"none", "raw", "fs"} /\ (image'.state = "fs" => IsTree(image'.nodes))
  BY <1>1, <1>2 DEF TypeOK
<1> QED
  BY <1>1, <1>2, <1>3, <1>4, <1>5, <1>6, GoesOn DEF Pcs

\* A directory is made, or what is in its way clashes with it.
LEMMA MakeDirHolds ==
  ASSUME Whole, MakeDir
  PROVE  Whole'
<1>1. pc = "tree" /\ todo # << >> /\ Head(todo).do = "mkdir" /\ Command
  BY DEF MakeDir, Doing, NextStep
<1>2. spec \in Specs /\ ValidSpec(spec) /\ entries \in Manifests /\ InTree(tree, spec, entries, todo)
  BY <1>1, InTreePhase
<1>3. CASE Clear(tree, NextStep.path) /\ Done(WithDirs(tree, NextStep.path))
  BY <1>1, <1>2, <1>3, MkdirStep, TreeGoesOn DEF NextStep
<1>4. CASE ~Clear(tree, NextStep.path) /\ Ends("failed")
  <2>1. Clash(spec, entries)
    BY <1>1, <1>2, <1>4, MkdirStep DEF NextStep
  <2> QED
    BY <1>1, <1>4, <2>1, EndHolds DEF Results
<1> QED
  BY <1>3, <1>4 DEF MakeDir

\* The links of one package.
LEMMA LinkBinHolds ==
  ASSUME Whole, LinkBin
  PROVE  Whole'
<1>1. pc = "tree" /\ todo # << >> /\ Head(todo).do = "links" /\ Command
  BY DEF LinkBin, Doing, NextStep
<1>2. spec \in Specs /\ ValidSpec(spec) /\ entries \in Manifests /\ InTree(tree, spec, entries, todo)
  BY <1>1, InTreePhase
<1>3. InTree(Over(tree, LinksTo(entries[NextStep.name])), spec, entries, Tail(todo))
  BY <1>1, <1>2, LinksStep DEF NextStep
<1> QED
  BY <1>1, <1>3, TreeGoesOn DEF LinkBin

\* /etc/passwd and /etc/group.
LEMMA WriteDefaultHolds ==
  ASSUME Whole, WriteDefault
  PROVE  Whole'
<1>1. pc = "tree" /\ todo # << >> /\ Head(todo).do = "default" /\ Command
  BY DEF WriteDefault, Doing, NextStep
<1>2. spec \in Specs /\ ValidSpec(spec) /\ entries \in Manifests /\ InTree(tree, spec, entries, todo)
  BY <1>1, InTreePhase
<1>3. InTree(Over(tree, Single(NextStep.path, File(NextStep.content))), spec, entries, Tail(todo))
  BY <1>1, <1>2, DefaultStep DEF NextStep
<1> QED
  BY <1>1, <1>3, TreeGoesOn DEF WriteDefault

\* A file or a binary is written, or cannot be, for a clash.
LEMMA WriteFileHolds ==
  ASSUME Whole, WriteFile
  PROVE  Whole'
<1>1. pc = "tree" /\ todo # << >> /\ Head(todo).do \in {"write", "copy"} /\ Command
  BY DEF WriteFile, Doing, NextStep
<1>2. spec \in Specs /\ ValidSpec(spec) /\ entries \in Manifests /\ InTree(tree, spec, entries, todo)
  BY <1>1, InTreePhase
<1>3. CASE /\ Writable(tree, NextStep.path) /\ NextStep.last \notin Unnamed
           /\ Done(Written(tree, NextStep.path, NextStep.content))
  BY <1>1, <1>2, <1>3, WriteStep, TreeGoesOn DEF NextStep
<1>4. CASE (~Writable(tree, NextStep.path) \/ NextStep.last \in Unnamed) /\ Ends("failed")
  <2>1. Clash(spec, entries) \/ BadPath(spec)
    BY <1>1, <1>2, <1>4, WriteStep DEF NextStep
  <2> QED
    BY <1>1, <1>4, <2>1, EndHolds DEF Results
<1> QED
  BY <1>3, <1>4 DEF WriteFile

\* The manifest is read, and the packages are installed.
LEMMA LoadHolds ==
  ASSUME Whole, Load \/ Install
  PROVE  Whole'
<1>1. /\ TypeOK /\ Command /\ pc \in {"load", "install"} /\ listing = {} /\ stack = << >>
      /\ spec \in Specs /\ ValidSpec(spec) /\ (pc = "install" => entries \in Manifests)
      /\ image = [state |-> image.state, nodes |-> image.nodes, owner |-> image.owner]
  BY DEF Whole, IInv, CommandOK, Load, Install
<1>2. image.state \in {"none", "raw", "fs"} /\ (image.state = "fs" => IsTree(image.nodes))
  BY <1>1 DEF TypeOK
<1>3. CASE Fails
  BY <1>1, <1>3, FaultEnds
<1>4. CASE Load /\ ~Fails
  <2>1. CASE manifest \in Manifests
    <3>1. /\ entries' = manifest /\ pc' = "install" /\ UNCHANGED result /\ NoFault
          /\ UNCHANGED <<image, spec, tree, todo, stack, listing>>
      BY <1>4, <2>1 DEF Load, Goto
    <3>2. PhaseOK'
      BY <3>1 DEF PhaseOK
    <3>3. /\ (tree' # << >> => IsTree(tree')) /\ listing' \subseteq DOMAIN tree'
          /\ Range(stack') \subseteq DOMAIN tree'
      BY <1>1, <3>1 DEF TypeOK
    <3> QED
      BY <1>1, <1>2, <2>1, <3>1, <3>2, <3>3, GoesOn DEF Command, Pcs
  <2>2. CASE manifest \notin Manifests
    <3>1. Return("invalid") /\ NoFault /\ UNCHANGED <<image, spec, entries>>
      BY <1>4, <2>2 DEF Load
    <3> QED
      BY <1>1, <3>1, EndHolds DEF Ends, Results
  <2> QED
    BY <2>1, <2>2
<1>5. CASE Install /\ ~Fails
  <2>1. PICK order \in SetToSeqs(DOMAIN entries) : todo' = Steps(spec, order)
    BY <1>5 DEF Install
  <2>2. /\ tree' = Installed(entries) /\ pc' = "tree" /\ UNCHANGED result /\ NoFault
        /\ UNCHANGED <<image, spec, entries, stack, listing>> /\ pc = "install"
    BY <1>5 DEF Install, Goto
  <2>3. InTree(tree', spec', entries', todo')
    BY <1>1, <2>1, <2>2, TreeBegins
  <2>4. PhaseOK'
    BY <2>2, <2>3 DEF PhaseOK
  <2>5. IsTree(tree') /\ listing' \subseteq DOMAIN tree' /\ Range(stack') \subseteq DOMAIN tree'
    BY <1>1, <2>2, <2>3, InTreeIsTree DEF Range
  <2> QED
    BY <1>1, <1>2, <2>2, <2>4, <2>5, GoesOn DEF Command, Pcs
<1> QED
  BY <1>3, <1>4, <1>5

-----------------------------------------------------------------------------
\* What the invariant says while a command writes the image.
LEMMA ImagePhase ==
  ASSUME Whole, pc \in {"format", "copy", "shell", "chown", "verify"}
  PROVE  /\ spec \in Specs /\ ValidSpec(spec) /\ entries \in Manifests /\ Ready(tree, spec, entries)
         /\ IsTree(tree) /\ DOMAIN tree \subseteq Paths
         /\ HoldsDir(tree, << >>) /\ HoldsDir(tree, BinDir)
         /\ TypeOK /\ result = "none"
         /\ image = [state |-> image.state, nodes |-> image.nodes, owner |-> image.owner]
<1>1. /\ spec \in Specs /\ ValidSpec(spec) /\ entries \in Manifests /\ Ready(tree, spec, entries)
      /\ TypeOK /\ result = "none"
      /\ image = [state |-> image.state, nodes |-> image.nodes, owner |-> image.owner]
  BY DEF Whole, IInv, CommandOK, PhaseOK
<1> QED
  BY <1>1, ReadyFacts

\* The tree is done; the image is truncated.
LEMMA TruncateHolds ==
  ASSUME Whole, Truncate
  PROVE  Whole'
<1>1. /\ pc = "tree" /\ todo = << >> /\ UNCHANGED <<manifest, runs, result, spec, entries, tree, todo, stack, listing>>
      /\ image' = RawImage /\ NoFault /\ pc' = "format"
  BY DEF Truncate, Goto
<1>2. /\ spec \in Specs /\ ValidSpec(spec) /\ entries \in Manifests /\ InTree(tree, spec, entries, todo)
      /\ listing = {} /\ stack = << >> /\ TypeOK
  BY <1>1, InTreePhase
<1>3. Ready(tree, spec, entries) /\ IsTree(tree)
  BY <1>1, <1>2, TreeFinished, InTreeIsTree
<1>4. PhaseOK'
  BY <1>1, <1>3 DEF PhaseOK
<1>5. listing' \subseteq DOMAIN tree' /\ Range(stack') \subseteq DOMAIN tree'
  BY <1>1, <1>2 DEF Range
<1>6. image'.state = "raw" /\ image' = [state |-> image'.state, nodes |-> image'.nodes, owner |-> image'.owner]
  BY <1>1 DEF RawImage
<1> QED
  BY <1>1, <1>2, <1>3, <1>4, <1>5, <1>6, GoesOn DEF Pcs

\* The empty file system.
LEMMA FormatHolds ==
  ASSUME Whole, Format
  PROVE  Whole'
<1>1. /\ pc = "format" /\ UNCHANGED <<manifest, runs, result, spec, entries, tree, todo, listing>>
      /\ image' = EmptyFs /\ stack' = << << >> >> /\ NoFault /\ pc' = "copy"
  BY DEF Format, Goto, Command
<1>2. /\ spec \in Specs /\ entries \in Manifests /\ Ready(tree, spec, entries)
      /\ IsTree(tree) /\ HoldsDir(tree, << >>) /\ TypeOK
  BY <1>1, ImagePhase
<1>3. listing = {}
  BY <1>1 DEF Whole, IInv, CommandOK
<1>4. /\ image'.state = "fs" /\ image'.nodes = Single(<< >>, Dir) /\ image'.owner = << >>
      /\ image' = [state |-> image'.state, nodes |-> image'.nodes, owner |-> image'.owner]
  BY <1>1 DEF EmptyFs
<1>5. CopyOK(image'.nodes, tree', stack', listing')
  BY <1>1, <1>2, <1>3, <1>4, CopyBegins
<1>6. PhaseOK'
  BY <1>1, <1>2, <1>4, <1>5 DEF PhaseOK, ImageIsFs
<1>7. IsTree(image'.nodes) /\ listing' \subseteq DOMAIN tree' /\ Range(stack') \subseteq DOMAIN tree'
  BY <1>5, CopyTyped
<1> QED
  BY <1>1, <1>2, <1>4, <1>6, <1>7, GoesOn DEF Pcs

\* What the invariant says of the copy.
LEMMA CopyPhase ==
  ASSUME Whole, pc = "copy"
  PROVE  image.state = "fs" /\ image.owner = << >> /\ CopyOK(image.nodes, tree, stack, listing)
BY DEF Whole, IInv, PhaseOK, ImageIsFs

\* A step of the copy.
LEMMA CopyGoesOn ==
  ASSUME Whole, pc = "copy", pc' = "copy", Command, NoFault, UNCHANGED <<result, spec, entries, tree>>,
         NEW nodes, image' = [state |-> "fs", nodes |-> nodes, owner |-> << >>],
         CopyOK(nodes, tree, stack', listing')
  PROVE  Whole'
<1>1. spec \in Specs /\ entries \in Manifests /\ Ready(tree, spec, entries) /\ IsTree(tree)
  BY ImagePhase
<1>2. /\ image'.state = "fs" /\ image'.nodes = nodes /\ image'.owner = << >>
      /\ image' = [state |-> image'.state, nodes |-> image'.nodes, owner |-> image'.owner]
  OBVIOUS
<1>3. PhaseOK'
  BY <1>1, <1>2 DEF PhaseOK, ImageIsFs
<1>4. IsTree(nodes) /\ listing' \subseteq DOMAIN tree' /\ Range(stack') \subseteq DOMAIN tree'
  BY CopyTyped
<1> QED
  BY <1>1, <1>2, <1>3, <1>4, GoesOn DEF Command, Pcs

\* A directory is listed.
LEMMA ListDirHolds ==
  ASSUME Whole, ListDir
  PROVE  Whole'
<1>1. /\ pc = "copy" /\ pc' = "copy" /\ listing = {} /\ stack # << >> /\ Command /\ NoFault
      /\ UNCHANGED <<image, result, spec, entries, tree>>
      /\ listing' = Children(tree, Head(stack)) /\ stack' = Tail(stack)
  BY DEF ListDir
<1>2. image.state = "fs" /\ image.owner = << >> /\ CopyOK(image.nodes, tree, stack, listing)
  BY <1>1, CopyPhase
<1>3. CopyOK(image.nodes, tree, stack', listing')
  BY <1>1, <1>2, CopyLists
<1>4. image' = [state |-> "fs", nodes |-> image.nodes, owner |-> << >>]
  BY <1>1, <1>2, ImagePhase
<1> QED
  BY <1>1, <1>3, <1>4, CopyGoesOn

\* A node is copied.
LEMMA CopyEntryHolds ==
  ASSUME Whole, NEW p \in listing, CopyEntry(p)
  PROVE  Whole'
<1>1. /\ pc = "copy" /\ pc' = "copy" /\ Command /\ NoFault
      /\ UNCHANGED <<result, spec, entries, tree>>
      /\ stack' = IF tree[p] = Dir THEN <<p>> \o stack ELSE stack
      /\ listing' = listing \ {p}
  BY DEF CopyEntry
<1>2. image.state = "fs" /\ image.owner = << >> /\ CopyOK(image.nodes, tree, stack, listing)
  BY <1>1, CopyPhase
<1>3. IsTree(tree) /\ image = [state |-> image.state, nodes |-> image.nodes, owner |-> image.owner]
  BY <1>1, ImagePhase
<1> DEFINE nodes == Put(image.nodes, p, tree[p])
<1>4. CopyOK(nodes, tree, stack', listing')
  BY <1>1, <1>2, <1>3, CopyCopies
<1>5. image' = [state |-> "fs", nodes |-> nodes, owner |-> << >>]
  <2>1. image' = [image EXCEPT !.nodes = nodes]
    BY DEF CopyEntry
  <2> HIDE DEF nodes
  <2> QED
    BY <1>2, <1>3, <2>1
<1> HIDE DEF nodes
<1> QED
  BY <1>1, <1>4, <1>5, CopyGoesOn

\* The copy is done: the image is as the tree.
LEMMA CopiedHolds ==
  ASSUME Whole, Copied
  PROVE  Whole'
<1>1. /\ pc = "copy" /\ pc' = "shell" /\ listing = {} /\ stack = << >> /\ Command /\ NoFault
      /\ UNCHANGED <<image, result, spec, entries, tree, stack, listing>>
  BY DEF Copied, Goto
<1>2. image.state = "fs" /\ image.owner = << >> /\ CopyOK(image.nodes, tree, stack, listing)
  BY <1>1, CopyPhase
<1>3. /\ spec \in Specs /\ entries \in Manifests /\ Ready(tree, spec, entries) /\ TypeOK
      /\ IsTree(tree) /\ DOMAIN tree \subseteq Paths
      /\ image = [state |-> image.state, nodes |-> image.nodes, owner |-> image.owner]
  BY <1>1, ImagePhase
<1>4. SameTree(image.nodes, tree)
  BY <1>1, <1>2, <1>3, CopyEnds
<1>5. PhaseOK'
  BY <1>1, <1>2, <1>3, <1>4 DEF PhaseOK, ImageIsFs
<1>6. /\ IsTree(image.nodes) /\ listing' \subseteq DOMAIN tree' /\ Range(stack') \subseteq DOMAIN tree'
  BY <1>1, <1>2, CopyTyped
<1> QED
  BY <1>1, <1>2, <1>3, <1>5, <1>6, GoesOn DEF Command, Pcs

\* The image is complete, but for who owns what.
LEMMA ShellDone ==
  ASSUME Whole, pc = "shell", pc' = "chown", Command, NoFault,
         UNCHANGED <<result, spec, entries, tree, stack, listing>>, todo' = spec.dirs,
         NEW nodes, image' = [state |-> "fs", nodes |-> nodes, owner |-> << >>], IsTree(nodes),
         SameTree(nodes, Final(tree, spec, entries)),
         WantsShell(spec, entries) => ~HoldsDir(tree, ShellPath)
  PROVE  Whole'
<1>1. /\ spec \in Specs /\ ValidSpec(spec) /\ entries \in Manifests /\ Ready(tree, spec, entries)
      /\ IsTree(tree) /\ TypeOK
  BY ImagePhase
<1>2. listing = {} /\ stack = << >>
  BY DEF Whole, IInv, CommandOK
<1>3. /\ image'.state = "fs" /\ image'.nodes = nodes /\ image'.owner = << >>
      /\ image' = [state |-> image'.state, nodes |-> image'.nodes, owner |-> image'.owner]
  OBVIOUS
<1>4. OwnersOK(<< >>, spec, spec.dirs)
  BY <1>1, OwnersEnds
<1>5. PhaseOK'
  BY <1>1, <1>3, <1>4 DEF PhaseOK, ImageIsFs
<1>6. listing' \subseteq DOMAIN tree' /\ Range(stack') \subseteq DOMAIN tree'
  BY <1>2 DEF Range
<1> QED
  BY <1>1, <1>2, <1>3, <1>5, <1>6, GoesOn DEF Command, Pcs

\* /bin/sh is linked, or taken, or not asked for.
LEMMA LinkShellHolds ==
  ASSUME Whole, LinkShell
  PROVE  Whole'
<1>1. pc = "shell" /\ Command
  BY DEF LinkShell
<1>2. image.state = "fs" /\ image.owner = << >> /\ SameTree(image.nodes, tree)
  BY <1>1 DEF Whole, IInv, PhaseOK, ImageIsFs
<1>3. /\ spec \in Specs /\ ValidSpec(spec) /\ entries \in Manifests /\ Ready(tree, spec, entries)
      /\ TypeOK /\ image = [state |-> image.state, nodes |-> image.nodes, owner |-> image.owner]
  BY <1>1, ImagePhase
<1>4. IsTree(image.nodes)
  BY <1>2, <1>3 DEF TypeOK
<1>5. CASE /\ WantsShell(spec, entries)
           /\ (ShellPath \in DOMAIN image.nodes => image.nodes[ShellPath] # Dir)
           /\ image' = [image EXCEPT !.nodes = WithShell(@, spec, entries)]
           /\ Goto("chown") /\ todo' = spec.dirs /\ NoFault
           /\ UNCHANGED <<spec, entries, tree, stack, listing>>
  <2> DEFINE nodes == WithShell(image.nodes, spec, entries)
  <2>1. ~HoldsDir(image.nodes, ShellPath)
    BY <1>5 DEF HoldsDir
  <2>2. IsTree(nodes) /\ SameTree(nodes, Final(tree, spec, entries)) /\ ~HoldsDir(tree, ShellPath)
    BY <1>2, <1>3, <1>4, <1>5, <2>1, ShellStep
  <2>3. image' = [image EXCEPT !.nodes = nodes]
    BY <1>5
  <2> HIDE DEF nodes
  <2>4. image' = [state |-> "fs", nodes |-> nodes, owner |-> << >>]
    BY <1>2, <1>3, <2>3
  <2> QED
    BY <1>1, <1>5, <2>2, <2>4, ShellDone DEF Goto
<1>6. CASE WantsShell(spec, entries) /\ ShellPath \in DOMAIN image.nodes /\ Ends("failed")
  <2>1. ShellPath \in DOMAIN tree
    BY <1>2, <1>6 DEF SameTree
  <2>2. ShellIsTaken(spec, entries)
    BY <1>3, <1>6, <2>1, ShellTaken
  <2> QED
    BY <1>1, <1>6, <2>2, EndHolds DEF Results
<1>7. CASE /\ ~WantsShell(spec, entries)
           /\ Goto("chown") /\ todo' = spec.dirs /\ NoFault
           /\ UNCHANGED <<image, spec, entries, tree, stack, listing>>
  <2>1. SameTree(image.nodes, Final(tree, spec, entries))
    BY <1>2, <1>3, <1>4, <1>7, ShellStep
  <2>2. image' = [state |-> "fs", nodes |-> image.nodes, owner |-> << >>]
    BY <1>2, <1>3, <1>7
  <2> QED
    BY <1>1, <1>4, <1>7, <2>1, <2>2, ShellDone DEF Goto
<1> QED
  BY <1>5, <1>6, <1>7 DEF LinkShell

\* What the invariant says when the image is complete.
LEMMA OwnerPhase ==
  ASSUME Whole, pc \in {"chown", "verify"}
  PROVE  /\ image.state = "fs" /\ SameTree(image.nodes, Final(tree, spec, entries))
         /\ IsTree(image.nodes)
         /\ WantsShell(spec, entries) => ~HoldsDir(tree, ShellPath)
         /\ pc = "chown" => OwnersOK(image.owner, spec, todo)
         /\ pc = "verify" => OwnersAt(image.owner, spec, Len(spec.dirs))
         /\ listing = {} /\ stack = << >>
<1>1. TypeOK /\ CommandOK /\ PhaseOK
  BY DEF Whole, IInv
<1>2. listing = {} /\ stack = << >>
  BY <1>1 DEF CommandOK
<1>3. /\ image.state = "fs" /\ SameTree(image.nodes, Final(tree, spec, entries))
      /\ WantsShell(spec, entries) => ~HoldsDir(tree, ShellPath)
      /\ pc = "chown" => OwnersOK(image.owner, spec, todo)
      /\ pc = "verify" => OwnersAt(image.owner, spec, Len(spec.dirs))
  BY <1>1 DEF PhaseOK, ImageIsFs
<1>4. IsTree(image.nodes)
  BY <1>1, <1>3 DEF TypeOK
<1> QED
  BY <1>2, <1>3, <1>4

\* A directory gets its owner, unless the library does not know its path.
LEMMA ChownHolds ==
  ASSUME Whole, Chown
  PROVE  Whole'
<1>0. pc = "chown" /\ todo # << >> /\ Command
  BY DEF Chown
<1>2. /\ spec \in Specs /\ ValidSpec(spec) /\ entries \in Manifests /\ Ready(tree, spec, entries)
      /\ IsTree(tree) /\ image = [state |-> image.state, nodes |-> image.nodes, owner |-> image.owner]
  BY <1>0, ImagePhase
<1>3. /\ image.state = "fs" /\ SameTree(image.nodes, Final(tree, spec, entries)) /\ IsTree(image.nodes)
      /\ WantsShell(spec, entries) => ~HoldsDir(tree, ShellPath)
      /\ OwnersOK(image.owner, spec, todo) /\ listing = {} /\ stack = << >>
  BY <1>0, OwnerPhase
<1> DEFINE owner == Owned(image.owner, Head(todo))
<1>4. OwnersOK(owner, spec, Tail(todo)) /\ Head(todo) \in Range(spec.dirs)
  BY <1>0, <1>2, <1>3, OwnersStep
<1>5. CASE IsGiven(Head(todo)) /\ ~Plain(Head(todo).path) /\ Ends("failed")
  <2>1. BadPath(spec)
    BY <1>4, <1>5 DEF BadPath
  <2> QED
    BY <1>0, <1>5, <2>1, EndHolds DEF Results
<1>6. CASE /\ image' = [image EXCEPT !.owner = owner] /\ todo' = Tail(todo)
           /\ NoFault /\ UNCHANGED <<pc, result, spec, entries, tree, stack, listing>>
  <2> HIDE DEF owner
  <2>1. image' = [state |-> "fs", nodes |-> image.nodes, owner |-> owner]
    BY <1>2, <1>3, <1>6
  <2>2. /\ image'.state = "fs" /\ image'.nodes = image.nodes /\ image'.owner = owner
        /\ image' = [state |-> image'.state, nodes |-> image'.nodes, owner |-> image'.owner]
    BY <2>1
  <2>3. PhaseOK'
    BY <1>0, <1>2, <1>3, <1>4, <1>6, <2>2 DEF PhaseOK, ImageIsFs
  <2>4. listing' \subseteq DOMAIN tree' /\ Range(stack') \subseteq DOMAIN tree'
    BY <1>3, <1>6 DEF Range
  <2> QED
    BY <1>0, <1>2, <1>3, <1>6, <2>2, <2>3, <2>4, GoesOn DEF Command, Pcs
<1> QED
  BY <1>5, <1>6 DEF Chown

\* All have theirs.
LEMMA ChownedHolds ==
  ASSUME Whole, Chowned
  PROVE  Whole'
<1>1. /\ pc = "chown" /\ pc' = "verify" /\ todo = << >> /\ Command /\ NoFault
      /\ UNCHANGED <<image, result, spec, entries, tree, stack, listing>>
  BY DEF Chowned, Goto
<1>2. /\ spec \in Specs /\ ValidSpec(spec) /\ entries \in Manifests /\ Ready(tree, spec, entries)
      /\ IsTree(tree) /\ image = [state |-> image.state, nodes |-> image.nodes, owner |-> image.owner]
  BY <1>1, ImagePhase
<1>3. /\ image.state = "fs" /\ SameTree(image.nodes, Final(tree, spec, entries)) /\ IsTree(image.nodes)
      /\ WantsShell(spec, entries) => ~HoldsDir(tree, ShellPath)
      /\ OwnersOK(image.owner, spec, todo) /\ listing = {} /\ stack = << >>
  BY <1>1, OwnerPhase
<1>4. OwnersAt(image.owner, spec, Len(spec.dirs))
  BY <1>1, <1>2, <1>3, OwnersEnds
<1>5. PhaseOK'
  BY <1>1, <1>2, <1>3, <1>4 DEF PhaseOK, ImageIsFs
<1>6. listing' \subseteq DOMAIN tree' /\ Range(stack') \subseteq DOMAIN tree'
  BY <1>1, <1>3 DEF Range
<1> QED
  BY <1>1, <1>2, <1>3, <1>5, <1>6, GoesOn DEF Command, Pcs

\* The image verifies, and then it is as declared, or it does not, and then
\* there is what does not run.
LEMMA VerifyHolds ==
  ASSUME Whole, Verify
  PROVE  Whole'
<1>1. pc = "verify" /\ Command
  BY DEF Verify
<1>2. spec \in Specs /\ ValidSpec(spec) /\ entries \in Manifests /\ Ready(tree, spec, entries)
  BY <1>1, ImagePhase
<1>3. /\ image.state = "fs" /\ SameTree(image.nodes, Final(tree, spec, entries))
      /\ WantsShell(spec, entries) => ~HoldsDir(tree, ShellPath)
      /\ OwnersAt(image.owner, spec, Len(spec.dirs))
  BY <1>1, OwnerPhase
<1>4. CASE ImageVerifies(entries) /\ Ends("ok")
  <2>1. AsDeclared(image.nodes, image.owner, spec, entries)
    BY <1>2, <1>3, ReadyIsDeclared
  <2> QED
    BY <1>1, <1>4, <2>1, EndHolds DEF Results
<1>5. CASE ~ImageVerifies(entries) /\ Ends("failed")
  <2>1. PICK name \in DOMAIN entries : ~Verifies(image.nodes, entries[name])
    BY <1>3, <1>5 DEF ImageVerifies
  <2>2. entries[name] \in Range(entries)
    BY <1>2, ManifestFacts
  <2>3. BadBinary(spec, entries)
    BY <1>2, <1>3, <2>1, <2>2, NotVerified
  <2> QED
    BY <1>1, <1>5, <2>3, EndHolds DEF Results
<1> QED
  BY <1>4, <1>5 DEF Verify

\* The ends of a build that say nothing of what was asked for.
LEMMA OtherEndsHold ==
  ASSUME Whole, NoSource \/ TreeError \/ ImageError \/ Kill
  PROVE  Whole'
<1>1. CASE NoSource
  BY <1>1, EndHolds DEF NoSource, Doing, Results
<1>2. CASE TreeError \/ ImageError
  BY <1>2, FaultEnds DEF TreeError, ImageError
<1>3. CASE Kill
  <2>1. Command /\ Ends("killed")
    BY <1>3 DEF Kill, Ends
  <2> QED
    BY <2>1, EndHolds DEF Results
<1> QED
  BY <1>1, <1>2, <1>3

\* A build begins, or is refused.
LEMMA StartHolds ==
  ASSUME Whole, NEW s \in Specs, Start(s)
  PROVE  Whole'
<1>1. TypeOK /\ CommandOK
  BY DEF Whole, IInv
<1>2. /\ pc = "idle" /\ runs' = runs + 1 /\ spec' = s /\ entries' = << >> /\ faulty' = FALSE
      /\ UNCHANGED <<manifest, image, faults>>
  BY DEF Start
<1>3. runs' \in Nat
  BY <1>1, <1>2 DEF TypeOK
<1>4. CASE ValidSpec(s) /\ pc' = "load" /\ result' = "none" /\ UNCHANGED <<tree, todo, stack, listing>>
  <2>1. TypeOK'
    BY <1>1, <1>2, <1>3, <1>4 DEF TypeOK, Pcs, Results
  <2>2. CommandOK'
    BY <1>1, <1>2, <1>4 DEF CommandOK
  <2>3. PhaseOK'
    BY <1>4 DEF PhaseOK
  <2>4. (BuiltAsDeclared /\ CleanBuildSucceeds)'
    BY <1>4 DEF BuiltAsDeclared, CleanBuildSucceeds
  <2> QED
    BY <2>1, <2>2, <2>3, <2>4 DEF Whole, IInv
<1>5. CASE Return("invalid")
  BY <1>1, <1>2, <1>3, <1>5, Returns DEF TypeOK, Results
<1> QED
  BY <1>4, <1>5 DEF Start

\* `pkg verify-image` and `pkg resolve` change nothing the invariant is about
\* but a result of their own.
LEMMA OthersHold ==
  ASSUME Whole, VerifyImage \/ Resolve \/ UNCHANGED vars
  PROVE  Whole'
<1>1. TypeOK /\ CommandOK /\ PhaseOK /\ BuiltAsDeclared /\ CleanBuildSucceeds
  BY DEF Whole, IInv
<1>2. CASE VerifyImage
  <2>1. /\ pc = "idle" /\ runs' = runs + 1 /\ faulty' = FALSE
        /\ UNCHANGED <<manifest, image, pc, spec, tree, todo, stack, listing, faults>>
        /\ result' \in {"verified", "unverified", "invalid"}
        /\ entries' \in Manifests \cup {<< >>}
    BY <1>2 DEF VerifyImage
  <2>2. TypeOK'
    <3>1. runs' \in Nat
      BY <1>1, <2>1 DEF TypeOK
    <3>2. result' \in Results /\ entries' \in Manifests \cup {<< >>} /\ faulty' \in BOOLEAN
      BY <2>1 DEF Results
    <3> QED
      BY <1>1, <2>1, <3>1, <3>2 DEF TypeOK
  <2>3. CommandOK'
    BY <1>1, <2>1 DEF CommandOK
  <2>4. PhaseOK'
    BY <2>1 DEF PhaseOK
  <2>5. (BuiltAsDeclared /\ CleanBuildSucceeds)'
    BY <2>1 DEF BuiltAsDeclared, CleanBuildSucceeds
  <2> QED
    BY <2>2, <2>3, <2>4, <2>5 DEF Whole, IInv
<1>3. CASE Resolve \/ UNCHANGED vars
  <2>1. /\ manifest' \in Manifests \cup {Absent, Torn}
        /\ UNCHANGED <<image, pc, result, spec, entries, tree, todo, stack, listing, runs, faults, faulty>>
    BY <1>1, <1>3 DEF Resolve, vars, TypeOK
  <2>2. TypeOK'
    BY <1>1, <2>1 DEF TypeOK
  <2>3. CommandOK'
    BY <1>1, <2>1 DEF CommandOK
  <2>4. PhaseOK'
    BY <1>1, <2>1 DEF PhaseOK, ImageIsFs
  <2>5. (BuiltAsDeclared /\ CleanBuildSucceeds)'
    BY <1>1, <2>1 DEF BuiltAsDeclared, CleanBuildSucceeds
  <2> QED
    BY <2>2, <2>3, <2>4, <2>5 DEF Whole, IInv
<1> QED
  BY <1>2, <1>3

\* Every step keeps the invariant.
LEMMA NextHolds == Whole /\ [Next]_vars => Whole'
<1> SUFFICES ASSUME Whole, [Next]_vars PROVE Whole'
  OBVIOUS
<1>1. CASE Build
  <2>1. CASE Load \/ Install
    BY <2>1, LoadHolds
  <2>2. CASE MakeDir \/ LinkBin \/ WriteDefault \/ WriteFile
    BY <2>2, MakeDirHolds, LinkBinHolds, WriteDefaultHolds, WriteFileHolds
  <2>3. CASE NoSource \/ TreeError \/ ImageError
    BY <2>3, OtherEndsHold
  <2>4. CASE Truncate \/ Format
    BY <2>4, TruncateHolds, FormatHolds
  <2>5. CASE ListDir \/ (\E p \in listing : CopyEntry(p)) \/ Copied
    BY <2>5, ListDirHolds, CopyEntryHolds, CopiedHolds
  <2>6. CASE LinkShell \/ Chown \/ Chowned \/ Verify
    BY <2>6, LinkShellHolds, ChownHolds, ChownedHolds, VerifyHolds
  <2> QED
    BY <1>1, <2>1, <2>2, <2>3, <2>4, <2>5, <2>6 DEF Build
<1>2. CASE Kill
  BY <1>2, OtherEndsHold
<1>3. CASE \E s \in Specs : Start(s)
  BY <1>3, StartHolds
<1>4. CASE VerifyImage \/ Resolve \/ UNCHANGED vars
  BY <1>4, OthersHold
<1> QED
  BY <1>1, <1>2, <1>3, <1>4 DEF Next

\* In every reachable state.
LEMMA AlwaysWhole == Spec => []Whole
<1> QED
  BY InitHolds, NextHolds, PTL DEF Spec

\* Whatever the store paths, the manifests and the [rootfs] sections are, and
\* whatever fails or is killed, the invariant holds.
THEOREM Invariance == Spec => []IInv
<1>1. Whole => IInv
  BY DEF Whole
<1> QED
  BY <1>1, AlwaysWhole, PTL

\* In every reachable state the variables have their types, and an image that
\* can be opened is a tree.
THEOREM TypeCorrect == Spec => []TypeOK
<1>1. IInv => TypeOK
  BY DEF IInv
<1> QED
  BY <1>1, Invariance, PTL

\* A build that returns Ok has written the image that packages.toml and the
\* manifest ask for: packages, links, files, directories, owners, groups where
\* one is given, the shell, and nothing else.
THEOREM ImageIsAsDeclared == Spec => []BuiltAsDeclared
<1>1. Whole => BuiltAsDeclared
  BY DEF Whole
<1> QED
  BY <1>1, AlwaysWhole, PTL

\* A build that meets no fault fails only where declarations clash or name a
\* path that is not plain, the shell's name is taken or a package holds what
\* does not run.
THEOREM CleanBuildIsNotRefused == Spec => []CleanBuildSucceeds
<1>1. Whole => CleanBuildSucceeds
  BY DEF Whole
<1> QED
  BY <1>1, AlwaysWhole, PTL

-----------------------------------------------------------------------------
(* What is refused *)

\* Up to the moment it truncates the image a command has not touched it.
Untouched ==
  /\ pc \in Pcs
  /\ pc \in {"load", "install", "tree"} => image = before
  /\ InvalidKeepsImage

\* A step that leaves the image and stays before the truncation, or ends.
LEMMA EarlyStep ==
  ASSUME Untouched, pc \in {"load", "install", "tree"},
         image' = image, before' = before,
         pc' \in {"load", "install", "tree", "idle"}
  PROVE  Untouched'
BY DEF Untouched, InvalidKeepsImage, Pcs

\* A step after the truncation, which does not end with "invalid".
LEMMA LateStep ==
  ASSUME pc' \in {"format", "copy", "shell", "chown", "verify"}
         \/ (pc' = "idle" /\ result' \in {"ok", "failed", "killed"})
  PROVE  Untouched'
BY DEF Untouched, InvalidKeepsImage, Pcs

\* Each step of a build, the truncation among them.
LEMMA BuildUntouched ==
  ASSUME Untouched, Build
  PROVE  Untouched'
<1> USE DEF Command, Goto, Return, Fails, Ends, Doing, Done
<1>1. CASE Load \/ Install
  BY <1>1, EarlyStep DEF Load, Install
<1>2. CASE MakeDir \/ LinkBin
  BY <1>2, EarlyStep DEF MakeDir, LinkBin
<1>3. CASE WriteDefault \/ WriteFile
  BY <1>3, EarlyStep DEF WriteDefault, WriteFile
<1>4. CASE NoSource \/ TreeError
  BY <1>4, EarlyStep DEF NoSource, TreeError
<1>5. CASE Truncate \/ Format
  BY <1>5, LateStep DEF Truncate, Format
<1>6. CASE ListDir \/ (\E p \in listing : CopyEntry(p)) \/ Copied
  BY <1>6, LateStep DEF ListDir, CopyEntry, Copied
<1>7. CASE LinkShell
  BY <1>7, LateStep DEF LinkShell
<1>8. CASE Chown \/ Chowned
  BY <1>8, LateStep DEF Chown, Chowned
<1>9. CASE Verify
  BY <1>9, LateStep DEF Verify
<1>10. CASE ImageError
  BY <1>10, LateStep DEF ImageError
<1> QED
  BY <1>1, <1>2, <1>3, <1>4, <1>5, <1>6, <1>7, <1>8, <1>9, <1>10 DEF Build

\* A kill keeps the image as it is, and says so.
LEMMA KillUntouched ==
  ASSUME Untouched, Kill
  PROVE  Untouched'
BY LateStep DEF Kill, Return

\* Whoever starts a command remembers the image it finds.
LEMMA StartUntouched ==
  ASSUME Untouched, VerifyImage \/ \E s \in Specs : Start(s)
  PROVE  Untouched'
<1>1. image' = image /\ before' = image /\ pc' \in {"idle", "load"}
  BY DEF VerifyImage, Start, Return, Untouched
<1> QED
  BY <1>1 DEF Untouched, InvalidKeepsImage, Pcs

\* The invariant.
LEMMA AlwaysUntouched == Spec => []Untouched
<1>1. Init => Untouched
  BY DEF Init, Untouched, InvalidKeepsImage, Pcs
<1>2. Untouched /\ [Next]_vars => Untouched'
  <2> SUFFICES ASSUME Untouched, [Next]_vars PROVE Untouched'
    OBVIOUS
  <2>1. CASE Resolve \/ UNCHANGED vars
    <3>1. UNCHANGED <<image, before, pc, result>>
      BY <2>1 DEF Resolve, vars
    <3> QED
      BY <3>1 DEF Untouched, InvalidKeepsImage
  <2>2. CASE VerifyImage \/ \E s \in Specs : Start(s)
    BY <2>2, StartUntouched
  <2>3. CASE Build
    BY <2>3, BuildUntouched
  <2>4. CASE Kill
    BY <2>4, KillUntouched
  <2> QED
    BY <2>1, <2>2, <2>3, <2>4 DEF Next
<1> QED
  BY <1>1, <1>2, PTL DEF Spec

\* For every packages.toml, every manifest that `pkg resolve` may write in the
\* meantime and every number of commands: a build that is refused, even late,
\* for a source that is not there, leaves the earlier image as it was.
THEOREM RefusalIsHarmless == Spec => []InvalidKeepsImage
<1>1. Untouched => InvalidKeepsImage
  BY DEF Untouched
<1> QED
  BY <1>1, AlwaysUntouched, PTL
=============================================================================
