---------------------------- MODULE RootfsBuild ----------------------------
(***************************************************************************)
(* `pkg rootfs build` and `pkg verify-image`: from packages.toml and       *)
(* manifest.json to an ext4 image.                                         *)
(*                                                                         *)
(* A build installs the packages into a temporary tree, adds the root      *)
(* layout, users, directories, files and binaries, and copies the tree,    *)
(* node by node, into an image file that it first truncates.  The process  *)
(* may be killed at any moment; what survives is the image file, which the *)
(* next build truncates again and `pkg verify-image` reads.  manifest.json *)
(* belongs to `pkg resolve`, which may write it at any moment.             *)
(*                                                                         *)
(* A path is the sequence of its names, the root the empty one; a path of  *)
(* packages.toml is what splitting it at '/' gives, empty names and '.'    *)
(* among them.  A tree is a function from paths to nodes.                  *)
(***************************************************************************)
EXTENDS SequencesExt

CONSTANTS
  Names,       \* what a path is made of; "" is before the first '/', and between two
  Stores,      \* store paths
  Content,     \* the tree of each store path
  Executable,  \* file contents that begin with ELF or #!
  Manifests,   \* what `pkg resolve` may write: package name -> store path
  Specs,       \* the [rootfs] sections the command may be given
  Sources,     \* what there is on the host for [[rootfs.binary]] to copy
  NoShell, NoId,
  Absent, Torn,
  MaxFaults,   \* bound: requests, file operations and image operations that fail
  MaxRuns      \* bound: commands run

Dir     == <<"dir">>
File(c) == <<"file", c>>
Link(p) == <<"link", p>>
IsFile(node) == node[1] = "file"
IsLink(node) == node[1] = "link"

\* f over g, a function of one argument, and f with one value set.
Over(f, g)   == [p \in DOMAIN f \cup DOMAIN g |-> IF p \in DOMAIN f THEN f[p] ELSE g[p]]
Single(p, v) == [q \in {p} |-> v]
Put(f, p, v) == Over(Single(p, v), f)

\* The nodes right below d.
Children(tree, d) == {p \in DOMAIN tree : p # << >> /\ Front(p) = d}
IsTree(tree) ==
  /\ << >> \in DOMAIN tree
  /\ \A p \in DOMAIN tree \ {<< >>} : Front(p) \in DOMAIN tree /\ tree[Front(p)] = Dir

StorePath(s) == <<"nix", "store", s>>
BinDir       == <<"bin">>
ShellPath    == <<"bin", "sh">>

ASSUME NameAssumption ==
  /\ Stores \subseteq Names
  /\ {"", "nix", "store", "bin", "sh", "bash", "etc", "passwd", "group"} \subseteq Names

ASSUME ContentAssumption ==
  \* A path's bin is no link: generate_root_layout would follow it.
  /\ \A s \in Stores : IsTree(Content[s]) /\ Content[s][<< >>] = Dir
  /\ \A s \in Stores : BinDir \in DOMAIN Content[s] => ~IsLink(Content[s][BinDir])
  /\ \A s \in Stores : DOMAIN Content[s] \subseteq Seq(Names)
  /\ \A s \in Stores : \A node \in Range(Content[s]) : node = Dir \/ IsFile(node) \/ IsLink(node)
  /\ \A m \in Manifests : Range(m) \subseteq Stores /\ IsFiniteSet(DOMAIN m)
  /\ Absent \notin Manifests \cup {Torn} /\ Torn \notin Manifests

ASSUME BoundAssumption == MaxFaults \in Nat /\ MaxRuns \in Nat

-----------------------------------------------------------------------------
(* Reading packages.toml *)

\* validate_vfs_path: the path begins with '/', so there is a name after that.
Valid(path) == Len(path) > 1 /\ path[1] = "" /\ ".." \notin Range(path)

\* Where a path leads, below the root that all '/' in front are trimmed for: the
\* operating system passes over the other empty names, and over '.'.
Unnamed   == {"", "."}
Vfs(path) ==
  LET named[i \in 0 .. Len(path)] ==
        IF i = 0 THEN << >>
        ELSE IF path[i] \in Unnamed THEN named[i - 1] ELSE Append(named[i - 1], path[i])
  IN  named[Len(path)]

\* What the ext4 library makes of unnamed parts the repository does not say.
Plain(path) == \A i \in 2 .. Len(path) : path[i] \notin Unnamed

Declarations(s) == Range(s.dirs) \cup Range(s.files) \cup Range(s.binaries)
ValidSpec(s)    == \A d \in Declarations(s) : Valid(d.path)

ASSUME SpecAssumption ==
  \A s \in Specs :
    /\ s.dirs \in Seq(Range(s.dirs)) /\ s.files \in Seq(Range(s.files))
    /\ s.binaries \in Seq(Range(s.binaries))
    /\ \A d \in Declarations(s) : d.path \in Seq(Names) /\ d.path # << >>
    \* create_dir_all makes no directory whose path ends in '.'.
    /\ \A d \in Range(s.dirs) : \A i \in DOMAIN d.path :
         d.path[i] = "." => \E j \in DOMAIN d.path : j > i /\ d.path[j] \notin Unnamed

Uid(d) == IF d.owner = NoId THEN 0 ELSE d.owner
Gid(d) == IF d.group = NoId THEN Uid(d) ELSE d.group
\* A declaration that gives a directory to somebody but root.
IsGiven(d) == Uid(d) # 0 \/ Gid(d) # 0

\* What is done to the installed tree, in order, when the manifest's entries
\* come in the given order.
Steps(s, order) ==
  << [do |-> "mkdir", path |-> BinDir] >>
  \o [i \in DOMAIN order |-> [do |-> "links", name |-> order[i]]]
  \o (IF s.users
      THEN << [do |-> "mkdir", path |-> <<"etc">>],
              [do |-> "default", path |-> <<"etc", "passwd">>, content |-> "passwd"],
              [do |-> "default", path |-> <<"etc", "group">>, content |-> "group"] >>
      ELSE << >>)
  \o [i \in DOMAIN s.dirs |-> [do |-> "mkdir", path |-> Vfs(s.dirs[i].path)]]
  \o [i \in DOMAIN s.files |->
        [do |-> "write", path |-> Vfs(s.files[i].path), content |-> s.files[i].content,
         last |-> Last(s.files[i].path)]]
  \o [i \in DOMAIN s.binaries |->
        [do |-> "copy", path |-> Vfs(s.binaries[i].path), content |-> s.binaries[i].source,
         last |-> Last(s.binaries[i].path)]]

-----------------------------------------------------------------------------
VARIABLES
  manifest,  \* manifest.json: one of Manifests, Absent, or Torn
  image,     \* the image file: whether there is one and a file system in it,
             \* the tree of that file system, and who owns what in it
  pc, result,
  spec,      \* the [rootfs] section
  entries,   \* the manifest as the command read it
  tree,      \* the temporary tree
  todo,      \* what is left to do to it, or to change the owner of
  stack,     \* directories of the tree still to be copied
  listing,   \* what is left to copy of the directory at hand
  runs, faults,
  faulty,    \* history: this command has met a fault
  before     \* history: the image when this command began, until it is truncated

vars == <<manifest, image, pc, result, spec, entries, tree, todo, stack, listing,
          runs, faults, faulty, before>>

NoImage  == [state |-> "none", nodes |-> << >>, owner |-> << >>]
RawImage == [state |-> "raw", nodes |-> << >>, owner |-> << >>]
EmptyFs  == [state |-> "fs", nodes |-> Single(<< >>, Dir), owner |-> << >>]

NoSpec   == [users |-> FALSE, dirs |-> << >>, files |-> << >>, binaries |-> << >>,
             shell |-> NoShell]

Init ==
  /\ manifest = Absent /\ image = NoImage
  /\ pc = "idle" /\ result = "none"
  /\ spec = NoSpec /\ entries = << >>
  /\ tree = << >> /\ todo = << >> /\ stack = << >> /\ listing = {}
  /\ runs = 0 /\ faults = 0 /\ faulty = FALSE /\ before = NoImage

\* `pkg resolve` truncates manifest.json, and then writes it.  It may do so at
\* any time; what it does after a build has read the manifest is left to the
\* end of that build, which does not look again.
Resolve ==
  /\ pc \in {"idle", "load"}
  /\ manifest' \in Manifests \cup {Torn} /\ manifest' # manifest
  /\ UNCHANGED <<image, pc, result, spec, entries, tree, todo, stack, listing,
                 runs, faults, faulty, before>>

-----------------------------------------------------------------------------
NoFault    == UNCHANGED <<faults, faulty>>
Fault      == faults < MaxFaults /\ faults' = faults + 1 /\ faulty' = TRUE
Command    == UNCHANGED <<manifest, runs, before>>
Goto(step) == pc' = step /\ UNCHANGED result
\* The command returns, and its temporary tree is removed.
Return(r)  ==
  /\ pc' = "idle" /\ result' = r
  /\ tree' = << >> /\ todo' = << >> /\ stack' = << >> /\ listing' = {}
Fails      == Fault /\ Return("failed") /\ UNCHANGED <<image, spec, entries>>

Start(s) ==
  /\ pc = "idle" /\ runs < MaxRuns
  /\ runs' = runs + 1 /\ before' = image /\ spec' = s /\ entries' = << >>
  /\ faulty' = FALSE
  /\ \/ /\ ValidSpec(s) /\ manifest # Absent
        /\ pc' = "load" /\ result' = "none" /\ UNCHANGED <<tree, todo, stack, listing>>
     \/ /\ ~ValidSpec(s) \/ manifest = Absent
        /\ Return("invalid")
  /\ UNCHANGED <<manifest, image, faults>>

\* A mutant: the image is opened before the manifest is read.
LoadLate ==
  /\ pc = "load" /\ UNCHANGED <<manifest, runs, before>>
  /\ image' = RawImage
  /\ \/ /\ manifest \in Manifests
        /\ entries' = manifest
        /\ Goto("install") /\ NoFault /\ UNCHANGED <<spec, tree, todo, stack, listing>>
     \/ /\ manifest \notin Manifests
        /\ Return("invalid") /\ NoFault /\ UNCHANGED <<spec, entries>>

\* The image's directory is made, and manifest.json, which was there, is read.
Load ==
  /\ pc = "load" /\ Command
  /\ \/ /\ manifest \in Manifests
        /\ entries' = manifest
        /\ Goto("install") /\ NoFault /\ UNCHANGED <<image, spec, tree, todo, stack, listing>>
     \/ /\ manifest \notin Manifests
        /\ Return("invalid") /\ NoFault /\ UNCHANGED <<image, spec, entries>>
     \/ Fails

\* A mutant: the directories above the store paths are not made.
InstalledBare(m) ==
  LET paths == UNION {{StorePath(s) \o p : p \in DOMAIN Content[s]} : s \in Range(m)}
  IN  [p \in {<< >>} \cup paths |->
         IF p = << >> THEN Dir ELSE Content[p[3]][SubSeq(p, 4, Len(p))]]

\* What install_packages promises of a tree that nothing was in.
Installed(m) ==
  LET above == UNION {Prefixes(StorePath(s)) : s \in Range(m)}
      below == UNION {{StorePath(s) \o p : p \in DOMAIN Content[s]} : s \in Range(m)}
  IN  [p \in {<< >>} \cup above \cup below |-> IF Len(p) < 3 THEN Dir ELSE Content[p[3]][SubSeq(p, 4, Len(p))]]

\* The names are the keys of a HashMap: they come in any order.
Install ==
  /\ pc = "install" /\ Command
  /\ \/ /\ tree' = Installed(entries)
        /\ \E order \in SetToSeqs(DOMAIN entries) : todo' = Steps(spec, order)
        /\ Goto("tree") /\ NoFault /\ UNCHANGED <<image, spec, entries, stack, listing>>
     \/ Fails

-----------------------------------------------------------------------------
(* The temporary tree *)

NextStep     == Head(todo)
Doing(what)  == pc = "tree" /\ todo # << >> /\ NextStep.do = what /\ Command
Done(t)      ==
  /\ tree' = t /\ todo' = Tail(todo)
  /\ NoFault /\ UNCHANGED <<image, pc, result, spec, entries, stack, listing>>
Ends(why)    == Return(why) /\ NoFault /\ UNCHANGED <<image, spec, entries>>

\* create_dir_all.
Clear(t, path)    == \A p \in Prefixes(path) \cap DOMAIN t : t[p] = Dir
WithDirs(t, path) == Over(t, [p \in Prefixes(path) |-> Dir])

MakeDir ==
  /\ Doing("mkdir")
  /\ \/ Clear(tree, NextStep.path) /\ Done(WithDirs(tree, NextStep.path))
     \/ ~Clear(tree, NextStep.path) /\ Ends("failed")

\* The root layout of one package: a link for each entry of its bin, but for
\* the names that are taken.
BinOf(s)  == {p \in Children(Content[s], BinDir) : Content[s][BinDir] = Dir}
LinksTo(s) == [p \in BinOf(s) |-> Link(StorePath(s) \o p)]
LinkBin ==
  /\ Doing("links")
  /\ Done(Over(tree, LinksTo(entries[NextStep.name])))

\* /etc/passwd and /etc/group are written if they are not there.
WriteDefault ==
  /\ Doing("default")
  /\ Done(Over(tree, Single(NextStep.path, File(NextStep.content))))

\* fs::write: over a file, but not over a directory, and not through a link of
\* the root layout into the guest's store, which the host lacks; and to no path
\* that ends in '/' or '.'.
Writable(t, path) == Clear(t, Front(path)) /\ (path \in DOMAIN t => IsFile(t[path]))
\* A mutant: a file that is there is kept, as write_passwd keeps it.
WrittenOnce(t, path, content) == Over(WithDirs(t, Front(path)), Single(path, File(content)))

Written(t, path, content) == Put(WithDirs(t, Front(path)), path, File(content))

WriteFile ==
  /\ Doing("write") \/ (Doing("copy") /\ NextStep.content \in Sources)
  /\ \/ /\ Writable(tree, NextStep.path) /\ NextStep.last \notin Unnamed
        /\ Done(Written(tree, NextStep.path, NextStep.content))
     \/ /\ ~Writable(tree, NextStep.path) \/ NextStep.last \in Unnamed
        /\ Ends("failed")

NoSource == Doing("copy") /\ NextStep.content \notin Sources /\ Ends("invalid")

\* A read, a write or a chmod fails, or the walk that measures the tree.
TreeError == pc = "tree" /\ Command /\ Fails

-----------------------------------------------------------------------------
(* The image *)

Truncate ==
  /\ pc = "tree" /\ todo = << >> /\ UNCHANGED <<manifest, runs>>
  /\ image' = RawImage /\ before' = NoImage
  /\ Goto("format") /\ NoFault /\ UNCHANGED <<spec, entries, tree, todo, stack, listing>>

Format ==
  /\ pc = "format" /\ Command
  /\ image' = EmptyFs /\ stack' = << << >> >>
  /\ Goto("copy") /\ NoFault /\ UNCHANGED <<spec, entries, tree, todo, listing>>

\* A mutant: the directory is looked at, not popped.
ListTop ==
  /\ pc = "copy" /\ listing = {} /\ stack # << >> /\ Command
  /\ listing' = Children(tree, Head(stack)) /\ UNCHANGED stack
  /\ NoFault /\ UNCHANGED <<image, pc, result, spec, entries, tree, todo>>

\* populate_from_host_tree: the directory last found is the next to be listed.
ListDir ==
  /\ pc = "copy" /\ listing = {} /\ stack # << >> /\ Command
  /\ listing' = Children(tree, Head(stack)) /\ stack' = Tail(stack)
  /\ NoFault /\ UNCHANGED <<image, pc, result, spec, entries, tree, todo>>

\* The entries of a directory come in any order.
CopyEntry(p) ==
  /\ pc = "copy" /\ p \in listing /\ Command
  /\ image' = [image EXCEPT !.nodes = Put(@, p, tree[p])]
  /\ stack' = IF tree[p] = Dir THEN <<p>> \o stack ELSE stack
  /\ listing' = listing \ {p}
  /\ NoFault /\ UNCHANGED <<pc, result, spec, entries, tree, todo>>

Copied ==
  /\ pc = "copy" /\ listing = {} /\ stack = << >> /\ Command
  /\ Goto("shell") /\ NoFault /\ UNCHANGED <<image, spec, entries, tree, todo, stack, listing>>

\* The link is made if the shell is one of the packages.
WantsShell(s, m) == s.shell \in DOMAIN m
ShellLink(s, m)  == Link(StorePath(m[s.shell]) \o <<"bin", "bash">>)
WithShell(nodes, s, m) == Put(WithDirs(nodes, BinDir), ShellPath, ShellLink(s, m))

\* The tree may have a /bin/sh of its own.  What the ext4 library's symlink does
\* about it the repository does not say: it refuses the name, as mkdir does, or
\* it replaces what is no directory.
LinkShell ==
  /\ pc = "shell" /\ Command
  /\ \/ /\ WantsShell(spec, entries)
        /\ (ShellPath \in DOMAIN image.nodes => image.nodes[ShellPath] # Dir)
        /\ image' = [image EXCEPT !.nodes = WithShell(@, spec, entries)]
        /\ Goto("chown") /\ todo' = spec.dirs /\ NoFault
        /\ UNCHANGED <<spec, entries, tree, stack, listing>>
     \/ /\ WantsShell(spec, entries) /\ ShellPath \in DOMAIN image.nodes
        /\ Ends("failed")
     \/ /\ ~WantsShell(spec, entries)
        /\ Goto("chown") /\ todo' = spec.dirs /\ NoFault
        /\ UNCHANGED <<image, spec, entries, tree, stack, listing>>

Owned(owner, d) ==
  IF IsGiven(d) THEN Put(owner, Vfs(d.path), <<Uid(d), Gid(d)>>) ELSE owner

\* The library is given the path as it was declared.
Chown ==
  /\ pc = "chown" /\ todo # << >> /\ Command
  /\ \/ /\ image' = [image EXCEPT !.owner = Owned(@, Head(todo))] /\ todo' = Tail(todo)
        /\ NoFault /\ UNCHANGED <<pc, result, spec, entries, tree, stack, listing>>
     \/ /\ IsGiven(Head(todo)) /\ ~Plain(Head(todo).path)
        /\ Ends("failed")

Chowned ==
  /\ pc = "chown" /\ todo = << >> /\ Command
  /\ Goto("verify") /\ NoFault /\ UNCHANGED <<image, spec, entries, tree, todo, stack, listing>>

ImageError == pc \in {"format", "copy", "shell", "chown", "verify"} /\ Command /\ Fails

\* A mutant: a package without a bin does not verify.
VerifiesBin(nodes, s) ==
  LET bin == StorePath(s) \o BinDir
  IN  /\ bin \in DOMAIN nodes /\ nodes[bin] = Dir
      /\ \A p \in Children(nodes, bin) : IsFile(nodes[p]) => nodes[p][2] \in Executable

\* verify_package: what there is in its bin must be ELF or a script.
Verifies(nodes, s) ==
  LET bin == StorePath(s) \o BinDir
  IN  /\ StorePath(s) \in DOMAIN nodes
      /\ bin \in DOMAIN nodes =>
           /\ nodes[bin] = Dir
           /\ \A p \in Children(nodes, bin) : IsFile(nodes[p]) => nodes[p][2] \in Executable

ImageVerifies(m) == image.state = "fs" /\ \A name \in DOMAIN m : Verifies(image.nodes, m[name])

Verify ==
  /\ pc = "verify" /\ Command
  /\ \/ ImageVerifies(entries) /\ Ends("ok")
     \/ ~ImageVerifies(entries) /\ Ends("failed")

\* The process is killed.  What it was writing stays.
Kill ==
  /\ pc # "idle" /\ Command
  /\ Return("killed") /\ NoFault /\ UNCHANGED <<image, spec, entries>>

\* `pkg verify-image`: it only reads, so it is one step.
VerifyImage ==
  /\ pc = "idle" /\ runs < MaxRuns
  /\ runs' = runs + 1 /\ before' = image /\ faulty' = FALSE
  /\ \/ /\ manifest \in Manifests /\ image.state # "none"
        /\ entries' = manifest
        /\ \/ ImageVerifies(manifest) /\ result' = "verified"
           \/ ~ImageVerifies(manifest) /\ result' = "unverified"
     \/ /\ manifest \notin Manifests \/ image.state = "none"
        /\ result' = "invalid" /\ entries' = << >>
  /\ UNCHANGED <<manifest, image, pc, spec, tree, todo, stack, listing, faults>>

Build ==
  \/ Load \/ Install
  \/ MakeDir \/ LinkBin \/ WriteDefault \/ WriteFile \/ NoSource \/ TreeError
  \/ Truncate \/ Format \/ ListDir \/ (\E p \in listing : CopyEntry(p)) \/ Copied
  \/ LinkShell \/ Chown \/ Chowned \/ ImageError \/ Verify

Next == Resolve \/ (\E s \in Specs : Start(s)) \/ Build \/ Kill \/ VerifyImage

Spec     == Init /\ [][Next]_vars
FairSpec == Spec /\ WF_vars(Build)
-----------------------------------------------------------------------------
(* Properties *)

Pcs     == {"idle", "load", "install", "tree", "format", "copy", "shell", "chown", "verify"}
Results == {"none", "invalid", "failed", "killed", "ok", "verified", "unverified"}

\* The type of every variable.  An image that can be opened is a tree.
TypeOK ==
  /\ manifest \in Manifests \cup {Absent, Torn}
  /\ image.state \in {"none", "raw", "fs"} /\ (image.state = "fs" => IsTree(image.nodes))
  /\ pc \in Pcs /\ result \in Results
  /\ spec \in Specs \cup {NoSpec} /\ entries \in Manifests \cup {<< >>}
  /\ tree # << >> => IsTree(tree)
  /\ listing \subseteq DOMAIN tree /\ Range(stack) \subseteq DOMAIN tree
  /\ runs \in Nat /\ faults \in Nat /\ faulty \in BOOLEAN

\* What packages.toml says is written, where, in the order of precedence.
Writes(s) == [i \in DOMAIN s.files |-> <<Vfs(s.files[i].path), s.files[i].content>>]
             \o [i \in DOMAIN s.binaries |-> <<Vfs(s.binaries[i].path), s.binaries[i].source>>]
WrittenPaths(s)   == {Writes(s)[i][1] : i \in DOMAIN Writes(s)}
LastWritten(s, p) == Writes(s)[Max({i \in DOMAIN Writes(s) : Writes(s)[i][1] = p})][2]
MadeDirs(s) == {Vfs(s.dirs[i].path) : i \in DOMAIN s.dirs}
Defaults(s) == IF s.users THEN {<<"etc", "passwd">>, <<"etc", "group">>} ELSE {}
OwnDirs(s)  == IF s.users THEN {BinDir, <<"etc">>} ELSE {BinDir}
BinPaths(m) == UNION {BinOf(s) : s \in Range(m)}
Expected(s, m) ==
  DOMAIN Installed(m) \cup BinPaths(m)
  \cup UNION {Prefixes(p) : p \in OwnDirs(s) \cup MadeDirs(s) \cup WrittenPaths(s) \cup Defaults(s)}

\* The last declaration of its path among the first k; the owner it gives, and
\* the group, if it gives one.
IsLast(s, i, k) == \A j \in 1 .. k : j > i => Vfs(s.dirs[j].path) # Vfs(s.dirs[i].path)
OwnedAsGiven(ids, d) == ids[1] = Uid(d) /\ (d.group # NoId => ids[2] = d.group)

\* The image holds what was asked for, and nothing else: each package and each
\* link of the root layout, but for what packages.toml writes over; each file
\* as the last that is written to its path; each directory, with the owner and
\* the group, where they are not root's, that its last declaration gives it; and
\* the shell.
AsDeclared(nodes, owner, s, m) ==
  LET shell     == IF WantsShell(s, m) THEN {ShellPath} ELSE {}
      installed == Installed(m)
  IN  /\ \A p \in DOMAIN installed \ WrittenPaths(s) : nodes[p] = installed[p]
      /\ \A p \in BinPaths(m) \ shell :
           \E store \in Range(m) : p \in BinOf(store) /\ nodes[p] = Link(StorePath(store) \o p)
      /\ \A p \in WrittenPaths(s) \ shell : nodes[p] = File(LastWritten(s, p))
      /\ \A p \in MadeDirs(s) : nodes[p] = Dir
      /\ \A i \in DOMAIN s.dirs :
           IsGiven(s.dirs[i]) /\ IsLast(s, i, Len(s.dirs)) =>
             OwnedAsGiven(owner[Vfs(s.dirs[i].path)], s.dirs[i])
      /\ WantsShell(s, m) => nodes[ShellPath] = ShellLink(s, m)
      /\ DOMAIN nodes \subseteq Expected(s, m) \cup shell

\* After Ok the image is what the packages.toml and the manifest that the
\* command has read ask for.
BuiltAsDeclared == result = "ok" => AsDeclared(image.nodes, image.owner, spec, entries)

\* What the documentation of DirSpec says of a directory that is declared without
\* a group: it is root's group that has it, whoever owns it.
UndeclaredGroupIsRoot ==
  result = "ok" =>
    \A i \in DOMAIN spec.dirs :
      LET d == spec.dirs[i]
      IN  d.group = NoId /\ IsLast(spec, i, Len(spec.dirs)) /\ Vfs(d.path) \in DOMAIN image.owner =>
            image.owner[Vfs(d.path)][2] = 0

\* A request that is refused as invalid, for a path, for a source that is not
\* there, for a manifest that is missing or being written, leaves the image of
\* an earlier build alone.
InvalidKeepsImage == pc = "idle" /\ result = "invalid" => image = before

\* What two declarations make of one path, or a declaration and a package.
DirsIn(t)   == {p \in DOMAIN t : t[p] = Dir}
LinksIn(t)  == {p \in DOMAIN t : IsLink(t[p])}
Solid(s, m) ==
  LET t == Installed(m) IN (DOMAIN t \ DirsIn(t)) \cup BinPaths(m) \cup Defaults(s)
Links(m)    == BinPaths(m) \cup LinksIn(Installed(m))
NeededDirs(s) ==
  UNION {Prefixes(p) : p \in MadeDirs(s) \cup {Front(q) : q \in WrittenPaths(s)}}
Clash(s, m) ==
  \/ NeededDirs(s) \cap (Solid(s, m) \cup WrittenPaths(s)) # {}
  \/ WrittenPaths(s) \cap (Links(m) \cup DirsIn(Installed(m)) \cup OwnDirs(s)) # {}
ShellIsTaken(s, m) ==
  WantsShell(s, m) /\ ShellPath \in BinPaths(m) \cup WrittenPaths(s) \cup NeededDirs(s)

\* A package's bin is a file, the package's or a written one, or there is what
\* does not run in it.
BadBinary(s, m) ==
  \E store \in Range(m) :
    LET bin == StorePath(store) \o BinDir
    IN  \/ BinDir \in DOMAIN Content[store] /\ Content[store][BinDir] # Dir
        \/ bin \in WrittenPaths(s)
        \/ \E p \in BinOf(store) :
             /\ StorePath(store) \o p \notin WrittenPaths(s)
             /\ IsFile(Content[store][p]) /\ Content[store][p][2] \notin Executable
        \/ \E q \in WrittenPaths(s) : q # << >> /\ Front(q) = bin /\ LastWritten(s, q) \notin Executable

\* A file is declared where none can be, or a directory is given away by a path
\* the library may not know.
BadPath(s) ==
  \/ \E d \in Range(s.files) \cup Range(s.binaries) : Last(d.path) \in Unnamed
  \/ \E d \in Range(s.dirs) : IsGiven(d) /\ ~Plain(d.path)

\* No declaration leads to a link that a package brings, or through one: where
\* such a link is relative, the host would follow it.
ASSUME LinkAssumption ==
  \A s \in Specs, m \in Manifests :
    ValidSpec(s) => LinksIn(Installed(m)) \cap (NeededDirs(s) \cup WrittenPaths(s)) = {}

\* A build that meets no fault fails only for what it was asked to build.  In
\* particular it does not matter what an earlier, killed build has left.
CleanBuildSucceeds ==
  pc = "idle" /\ result = "failed" /\ ~faulty =>
    \/ Clash(spec, entries) \/ BadPath(spec)
    \/ ShellIsTaken(spec, entries) \/ BadBinary(spec, entries)

\* Every build ends: the copy visits each directory of the tree once.
Termination == (pc # "idle") ~> (pc = "idle")
=============================================================================
