--------------------------- MODULE MCRootfsBuild ---------------------------
(* Small instances of RootfsBuild for TLC. *)
EXTENDS RootfsBuildInvariant

bin(b) == <<"bin", b>>
Tree(files) == (<< >> :> Dir) @@ (BinDir :> Dir) @@ files

\* bash has no sh of its own; busybox has, and a bash; tzdata has no bin,
\* and what notes has there is no executable.
SmallNames   == {"", "nix", "store", "bash-5", "busybox-1", "tzdata-2", "notes-1", "bin", "sh", "bash",
                 "note", "vm", "etc", "passwd", "group", "data", "x", ".", ".."}
SmallStores  == {"bash-5", "busybox-1", "tzdata-2", "notes-1"}
SmallContent ==
  ("bash-5"    :> Tree(bin("bash") :> File("elf"))) @@
  ("busybox-1" :> Tree((bin("bash") :> File("script")) @@ (bin("sh") :> Link(bin("bash"))))) @@
  ("notes-1"   :> Tree(bin("note") :> File("text"))) @@
  ("tzdata-2"  :> (<< >> :> Dir))
SmallManifests == {("bash" :> "bash-5") @@ ("tz" :> "tzdata-2"),
                   ("bash" :> "bash-5") @@ ("busybox" :> "busybox-1"),
                   "notes" :> "notes-1"}

data == <<"", "data">>
Service ==
  [users |-> FALSE, shell |-> "bash",
   dirs  |-> <<[path |-> data, owner |-> 7, group |-> NoId]>>,
   files |-> <<[path |-> <<"", "bin", "vm">>, content |-> "script"]>>,
   binaries |-> << >>]
\* Two writes to one path, which is spelt in two ways, users, and no shell.
Layered ==
  [users |-> TRUE, shell |-> NoShell, dirs |-> << >>,
   files |-> <<[path |-> <<"", "", "etc", ".", "passwd">>, content |-> "script"]>>,
   binaries |-> <<[path |-> <<"", "etc", "passwd">>, source |-> "elf"]>>]
\* A write where a package may have a binary, and one where the command itself
\* makes a directory.
Shadowing ==
  [users |-> TRUE, shell |-> NoShell, dirs |-> << >>, binaries |-> << >>,
   files |-> <<[path |-> <<"", "bin", "bash">>, content |-> "script"],
               [path |-> <<"", "etc">>, content |-> "text"]>>]
\* A source that does not exist, after a directory.
Sourceless ==
  [users |-> FALSE, shell |-> NoShell, files |-> << >>,
   dirs  |-> <<[path |-> data, owner |-> NoId, group |-> 7]>>,
   binaries |-> <<[path |-> <<"", "data", "x">>, source |-> "lost"]>>]
Climbing ==
  [users |-> FALSE, shell |-> NoShell, files |-> << >>, binaries |-> << >>,
   dirs  |-> <<[path |-> <<"", "data", "..">>, owner |-> NoId, group |-> NoId]>>]
\* A file in what is named as a directory.
Slashed ==
  [users |-> FALSE, shell |-> NoShell, dirs |-> << >>, binaries |-> << >>,
   files |-> <<[path |-> <<"", "data", "x", "">>, content |-> "text"]>>]
\* A write that makes a bin, with what does not run in it, for a package; and a
\* directory for a group, the path of which the ext4 library may not know.
Unrunnable ==
  [users |-> FALSE, shell |-> NoShell, binaries |-> << >>,
   dirs  |-> <<[path |-> <<"", "", "data", "">>, owner |-> NoId, group |-> 7]>>,
   files |-> <<[path |-> <<"", "nix", "store", "tzdata-2", "bin", "x">>, content |-> "text"]>>]
SmallSpecs == {Service, Layered, Shadowing, Sourceless, Climbing, Slashed, Unrunnable}
=============================================================================
