------------------------------- MODULE Sizing -------------------------------
(***************************************************************************)
(* The size of a rootfs image: walk_tree_stats counts what is in the tree, *)
(* size_estimate and build_rootfs make a number of blocks and of inodes of *)
(* it.  The counters saturate.                                             *)
(*                                                                         *)
(* What the image really needs is modelled as ext4 has it: a file takes    *)
(* whole blocks, so does a directory with its entries, a long link takes   *)
(* one; and, as the comment on the code has it, each block group of an     *)
(* image has the overhead that the code computes for one.  Not counted are *)
(* the blocks of the extents of large files.                               *)
(***************************************************************************)
EXTENDS Integers

CONSTANTS
  U32, U64,  \* the largest values of the two widths
  Contents,  \* bound: <<how many files a directory has, how large they are>>
  Bare,      \* bound: how many directories and long links it has
  MaxDirs    \* bound: how many directories the tree has

ASSUME WidthAssumption ==
  /\ U32 \in Nat /\ U64 \in Nat /\ 256 <= U32 /\ 4 * U32 <= U64
ASSUME TreeAssumption == Contents \subseteq Nat \X Nat /\ Bare \subseteq Nat /\ MaxDirs \in Nat

Min2(a, b) == IF a <= b THEN a ELSE b
Max2(a, b) == IF a >= b THEN a ELSE b

BlockSize      == 4096
BlocksPerGroup == 8 * BlockSize

div_ceil(a, b)  == (a + b - 1) \div b

-----------------------------------------------------------------------------
(* size_estimate and what build_rootfs makes of it *)

InodesPerGroup(count) == Max2(Min2(Min2(count * 5, U32) \div 4 + 16, U32), 32)

\* Mutant: the quarter is forgotten.
NoQuarter(bytes) == div_ceil(bytes, BlockSize)

DataBlocks(bytes) == Min2(div_ceil(bytes, BlockSize) * 5, U64) \div 4

\* Two bitmaps and the inode table.
OverheadPerGroup(count) == 2 + div_ceil(InodesPerGroup(count) * 128, BlockSize)

Groups(blocks) == Max2(div_ceil(blocks, BlocksPerGroup), 1)

Needed(count, bytes) ==
  DataBlocks(bytes) + (OverheadPerGroup(count) * Groups(DataBlocks(bytes)) + 2)

size_estimate(count, bytes) == Max2(Min2(Needed(count, bytes), U32), 256)

\* saturating_mul(3) / 2.
ImageBlocks(count, bytes) == Min2(size_estimate(count, bytes) * 3, U32) \div 2

-----------------------------------------------------------------------------
VARIABLES
  objects, size,  \* object_count and data_bytes of the walk
  stack,          \* how many directories are found and not yet read
  walked,         \* how many are read
  taken           \* history: the blocks that what was found takes

sizingVars == <<objects, size, stack, walked, taken>>

SizingInit == objects = 0 /\ size = 0 /\ stack = 1 /\ walked = 0 /\ taken = 0

\* Entries with the longest names, of 255 bytes, that fit in one block.
EntriesPerBlock == 15

\* A directory's own blocks: its entries, with '.' and '..'.
DirBlocks(entries) == div_ceil(entries + 2, EntriesPerBlock)

\* Mutant: counters that wrap.
Wrapped(x, top) == x % (top + 1)

Saturated(x, top) == Min2(x, top)

\* One directory is read: n files of `each` bytes, and directories and links.
WalkDirectory(n, each, dirs, links) ==
  /\ stack > 0 /\ stack + walked + dirs <= MaxDirs
  /\ stack' = stack - 1 + dirs /\ walked' = walked + 1
  /\ objects' = Saturated(objects + (n + dirs + links), U32)
  /\ size' = Saturated(size + n * each, U64)
  /\ taken' = taken + n * div_ceil(each, BlockSize) + links + DirBlocks(n + dirs + links)

SizingNext == \E c \in Contents, dirs, links \in Bare : WalkDirectory(c[1], c[2], dirs, links)
SizingSpec == SizingInit /\ [][SizingNext]_sizingVars
-----------------------------------------------------------------------------
(* Properties *)

\* What is left for data in an image of so many blocks.
Offered(blocks) == blocks - (OverheadPerGroup(objects) * Groups(blocks) + 2)

\* A group's inodes are listed in one block of ext4: some 26200 objects.
InodesFit == InodesPerGroup(objects) <= 8 * BlockSize

\* An object has 6 KiB on average.
FilesAreLarge == 3 * (objects + 1) <= 2 * div_ceil(size, BlockSize)

\* No counter is at its limit, and three times the size fits in 32 bits (5 TiB).
InWidth == objects < U32 /\ size < U64 /\ 3 * size_estimate(objects, size) <= U32

\* The image has room for the tree, every file, directory and link in blocks of
\* its own, though the size is computed from a sum of bytes that knows no
\* blocks, and though the overhead and the half that is added last make more
\* groups than overhead was added for.  This takes files that are not small:
\* with 20000 files of 4097 bytes, say, the image is too small, and the "25%
\* data headroom" of the comment on the code is none.
HeadroomHolds ==
  InodesFit /\ FilesAreLarge /\ InWidth => Offered(ImageBlocks(objects, size)) >= taken

\* A larger tree never gets a smaller image, also where a counter or the size
\* is at its limit.
NeverShrinks ==
  [][ImageBlocks(objects', size') >= ImageBlocks(objects, size)]_sizingVars
=============================================================================
