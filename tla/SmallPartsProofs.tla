-------------------------- MODULE SmallPartsProofs --------------------------
(***************************************************************************)
(* The small parts, for every value of their constants: the image of a     *)
(* rootfs has room for a tree of files that are not small, and a larger    *)
(* tree never gets a smaller one; the files of a workload are all there    *)
(* and of the commands that made it; the address of a workload tells       *)
(* similar names apart; the date in a manifest is the calendar's, on every *)
(* day; a digest is the same in base-32, in base-64 and as bytes.          *)
(***************************************************************************)
EXTENDS Calendar, NixHash, Sizing, Scaffold, SequenceTheorems, WellFoundedInduction, TLAPS

BPG == 32768

\* The counters of the walk are numbers of their widths.
CountersOK == objects \in 0 .. U32 /\ size \in 0 .. U64

\* What a tree takes: the files no block more than their bytes fill, each, and an
\* entry no more than its part of a directory's block; a directory that is not
\* read yet has its own blocks still to come.
TakenOK ==
  /\ stack \in Nat /\ taken \in Nat
  /\ objects < U32 /\ size < U64 =>
       61440 * taken + 65536 * stack <= 15 * size + 69632 * objects + 65536

\* A block count rounded up to groups: enough for the blocks, and no group more.
LEMMA GroupsEnough ==
  ASSUME NEW blocks \in Nat
  PROVE  /\ Groups(blocks) \in Nat \ {0}
         /\ blocks <= BPG * Groups(blocks)
         /\ Groups(blocks) = 1 \/ BPG * (Groups(blocks) - 1) < blocks
  BY DEF Groups, BPG, BlocksPerGroup, BlockSize, div_ceil, Max2

\* The blocks that a group takes for itself are a number.
LEMMA OverheadIsNat ==
  ASSUME NEW count \in Nat
  PROVE  InodesPerGroup(count) \in Nat /\ OverheadPerGroup(count) \in Nat
  <1>1. InodesPerGroup(count) \in Nat
    BY WidthAssumption DEF InodesPerGroup, Min2, Max2
  <1> QED BY <1>1 DEF OverheadPerGroup, div_ceil, BlockSize

\* The blocks of the data are a number.
LEMMA DataIsNat ==
  ASSUME NEW total \in Nat
  PROVE  DataBlocks(total) \in Nat
  BY WidthAssumption DEF DataBlocks, Min2, div_ceil, BlockSize

\* Products of natural numbers, of which the provers need to be told.
LEMMA ProductIsNat == ASSUME NEW a \in Nat, NEW b \in Nat PROVE a * b \in Nat
  OBVIOUS

\* A product grows with its first factor.
LEMMA ProductGrows ==
  ASSUME NEW a \in Nat, NEW b \in Nat, NEW c \in Nat, a <= b
  PROVE  a * c <= b * c
  OBVIOUS

-----------------------------------------------------------------------------
(* The headroom *)

\* The half that build_rootfs adds pays for the groups that the overhead makes.
Pays(exact, data, overhead, n, g, estimate, blocks) ==
  /\ 4 * data >= 5 * exact - 3
  /\ estimate >= data + (overhead * n + 2)
  /\ 2 * blocks >= 3 * estimate - 1
  /\ 3 <= overhead /\ 31 * overhead <= BPG
  /\ g = 1 \/ BPG * (g - 1) < blocks
  => 124 * (blocks - (overhead * g + 2)) >= 225 * exact + 85

\* It does so for every data and overhead.
LEMMA HalfAgainIsEnough ==
  ASSUME NEW exact \in Nat, NEW data \in Nat, NEW overhead \in Nat,
         NEW n \in Nat \ {0}, NEW g \in Nat \ {0}, NEW estimate \in Nat, NEW blocks \in Nat
  PROVE  Pays(exact, data, overhead, n, g, estimate, blocks)
  <1> SUFFICES ASSUME 4 * data >= 5 * exact - 3,
                      estimate >= data + (overhead * n + 2),
                      2 * blocks >= 3 * estimate - 1,
                      3 <= overhead, 31 * overhead <= BPG,
                      g = 1 \/ BPG * (g - 1) < blocks
               PROVE  124 * (blocks - (overhead * g + 2)) >= 225 * exact + 85
    BY DEF Pays
  <1> DEFINE one  == overhead * n
             rest == overhead * (g - 1)
  <1>1. one \in Nat /\ one >= overhead
    BY ProductIsNat, ProductGrows, 1 * overhead = overhead, n * overhead = one
  <1>2. rest \in Nat /\ overhead * g = rest + overhead
    BY ProductIsNat
  <1>3. CASE g = 1
    <2>1. rest = 0 BY <1>3
    <2> HIDE DEF one, rest
    <2>2. estimate >= data + (one + 2) BY DEF one
    <2> QED BY <2>1, <2>2, <1>1, <1>2
  <1>4. CASE BPG * (g - 1) < blocks
    <2>1. (31 * overhead) * (g - 1) <= BPG * (g - 1)
      BY ProductGrows DEF BPG
    <2>2. 31 * rest = (31 * overhead) * (g - 1)
      OBVIOUS
    <2>3. estimate >= data + (one + 2)
      OBVIOUS
    <2>4. BPG * (g - 1) \in Nat
      BY DEF BPG
    <2>5. (31 * overhead) * (g - 1) \in Int
      BY ProductIsNat
    <2> HIDE DEF one, rest
    <2>6. 31 * rest < blocks
      BY <2>1, <2>2, <2>4, <2>5, <1>2, <1>4
    <2> QED BY <2>3, <2>6, <1>1, <1>2
  <1> QED BY <1>3, <1>4

\* The data with its quarter, where no width is too small for it.
LEMMA AQuarterMore ==
  ASSUME NEW total \in Nat, DataBlocks(total) < U32
  PROVE  /\ div_ceil(total, BlockSize) \in Nat /\ total <= 4096 * div_ceil(total, BlockSize)
         /\ 4 * DataBlocks(total) >= 5 * div_ceil(total, BlockSize) - 3
  <1> DEFINE exact == div_ceil(total, BlockSize)
  <1>1. exact \in Nat /\ total <= 4096 * exact
    BY DEF div_ceil, BlockSize
  <1>2. DataBlocks(total) = Min2(exact * 5, U64) \div 4
    BY DEF DataBlocks
  <1> HIDE DEF exact
  <1>3. exact * 5 <= U64
    BY <1>1, <1>2, WidthAssumption DEF Min2
  <1>4. DataBlocks(total) = (exact * 5) \div 4
    BY <1>1, <1>2, <1>3, WidthAssumption DEF Min2
  <1>5. 4 * DataBlocks(total) >= 5 * exact - 3
    BY <1>1, <1>4
  <1> QED BY <1>1, <1>5 DEF exact

\* A group with one block of inode bitmap has at most 1024 blocks of inodes.
LEMMA GroupsOwnBlocks ==
  ASSUME NEW count \in Nat, InodesPerGroup(count) <= 8 * BlockSize
  PROVE  3 <= OverheadPerGroup(count) /\ 31 * OverheadPerGroup(count) <= BPG
  <1>1. InodesPerGroup(count) \in Nat /\ InodesPerGroup(count) >= 32
    BY OverheadIsNat, WidthAssumption DEF InodesPerGroup, Min2, Max2
  <1> QED BY <1>1 DEF OverheadPerGroup, div_ceil, BlockSize, BPG

\* With files of 6 KiB on average, what a tree takes is less than the room.
LEMMA RoomForAll ==
  ASSUME NEW exact \in Nat, NEW count \in Nat, NEW total \in Nat, NEW blocks \in Nat,
         NEW waiting \in Nat, NEW room \in Int,
         61440 * blocks + 65536 * waiting <= 15 * total + 69632 * count + 65536,
         total <= 4096 * exact, 3 * (count + 1) <= 2 * exact,
         124 * room >= 225 * exact + 85
  PROVE  room >= blocks
  <1>1. 15 * blocks <= 15 * exact + 17 * count + 16
    OBVIOUS
  <1>2. 45 * blocks <= 79 * exact
    BY <1>1
  <1> QED BY <1>2

\* Whatever the counters have come to, the image has room.
LEMMA HeadroomOfCounters ==
  ASSUME CountersOK, TakenOK PROVE HeadroomHolds
  <1> SUFFICES ASSUME InodesFit, FilesAreLarge, InWidth
               PROVE  Offered(ImageBlocks(objects, size)) >= taken
    BY DEF HeadroomHolds
  <1> DEFINE exact    == div_ceil(size, BlockSize)
             data     == DataBlocks(size)
             overhead == OverheadPerGroup(objects)
             n        == Groups(data)
             estimate == size_estimate(objects, size)
             blocks   == ImageBlocks(objects, size)
             g        == Groups(blocks)
  <1>1. data \in Nat /\ overhead \in Nat /\ objects \in Nat /\ size \in Nat
    BY DataIsNat, OverheadIsNat, WidthAssumption DEF CountersOK
  <1>2. n \in Nat \ {0}
    BY <1>1, GroupsEnough
  <1>3. overhead * n \in Nat
    BY <1>1, <1>2, ProductIsNat
  <1>4. Needed(objects, size) = data + (overhead * n + 2)
    BY DEF Needed
  <1>5. estimate \in Nat /\ estimate >= data + (overhead * n + 2) /\ data < U32
    <2> DEFINE needed == data + (overhead * n + 2)
    <2>1. needed \in Nat /\ data < needed BY <1>1, <1>3
    <2>2. estimate = Max2(Min2(needed, U32), 256) BY <1>4 DEF size_estimate
    <2>3. 3 * estimate <= U32 BY DEF InWidth
    <2> HIDE DEF needed, estimate, data, overhead, n
    <2> QED BY <1>1, <2>1, <2>2, <2>3, WidthAssumption DEF Min2, Max2, needed
  <1>6. blocks \in Nat /\ 2 * blocks >= 3 * estimate - 1
    <2>1. blocks = Min2(estimate * 3, U32) \div 2 BY DEF ImageBlocks
    <2>2. 3 * estimate <= U32 BY DEF InWidth
    <2> HIDE DEF estimate, blocks, data, overhead, n
    <2> QED BY <2>1, <2>2, <1>5, WidthAssumption DEF Min2
  <1>7. g \in Nat \ {0} /\ (g = 1 \/ BPG * (g - 1) < blocks)
    BY <1>6, GroupsEnough
  <1>8. Offered(blocks) = blocks - (overhead * g + 2)
    BY DEF Offered
  <1>9. exact \in Nat /\ size <= 4096 * exact /\ 4 * data >= 5 * exact - 3
    BY <1>1, <1>5, AQuarterMore
  <1>10. 3 <= overhead /\ 31 * overhead <= BPG
    BY <1>1, GroupsOwnBlocks DEF InodesFit
  <1>11. 3 * (objects + 1) <= 2 * exact
    BY DEF FilesAreLarge
  <1> HIDE DEF exact, data, overhead, n, estimate, blocks, g
  <1>12. 124 * (blocks - (overhead * g + 2)) >= 225 * exact + 85
    <2>1. 4 * data >= 5 * exact - 3 /\ exact \in Nat BY <1>9
    <2>2. /\ data \in Nat /\ overhead \in Nat /\ estimate \in Nat /\ blocks \in Nat
          /\ n \in Nat \ {0} /\ g \in Nat \ {0}
      BY <1>1, <1>2, <1>5, <1>6, <1>7
    <2>3. estimate >= data + (overhead * n + 2) BY <1>5
    <2>4. 2 * blocks >= 3 * estimate - 1 BY <1>6
    <2>5. g = 1 \/ BPG * (g - 1) < blocks BY <1>7
    <2>6. Pays(exact, data, overhead, n, g, estimate, blocks)
      BY <2>1, <2>2, HalfAgainIsEnough
    <2> QED BY <1>10, <2>1, <2>3, <2>4, <2>5, <2>6 DEF Pays
  <1> DEFINE room == blocks - (overhead * g + 2)
  <1>13. room \in Int
    <2>1. overhead * g \in Nat BY <1>1, <1>7, ProductIsNat
    <2> QED BY <1>6, <2>1
  <1>14. 61440 * taken + 65536 * stack <= 15 * size + 69632 * objects + 65536
    BY DEF TakenOK, InWidth
  <1>15. room >= taken
    <2>1. 124 * room >= 225 * exact + 85 BY <1>12
    <2> HIDE DEF room
    <2> QED BY <1>1, <1>9, <1>11, <1>13, <1>14, <2>1, RoomForAll DEF TakenOK
  <1> QED BY <1>8, <1>15 DEF blocks

-----------------------------------------------------------------------------
(* Growth *)

\* The size of an image is a number of blocks.
LEMMA ImageIsNat ==
  ASSUME NEW count \in Nat, NEW total \in Nat
  PROVE  ImageBlocks(count, total) \in Nat
  <1>1. DataBlocks(total) \in Nat /\ OverheadPerGroup(count) \in Nat
    BY DataIsNat, OverheadIsNat
  <1>2. OverheadPerGroup(count) * Groups(DataBlocks(total)) \in Nat
    BY <1>1, GroupsEnough, ProductIsNat
  <1>3. Needed(count, total) \in Nat
    BY <1>1, <1>2 DEF Needed
  <1>4. size_estimate(count, total) \in Nat
    BY <1>3, WidthAssumption DEF size_estimate, Min2, Max2
  <1> QED BY <1>4, WidthAssumption DEF ImageBlocks, Min2

\* More entries never make the overhead of a group smaller.
LEMMA MoreInodes ==
  ASSUME NEW a \in Nat, NEW b \in Nat, a <= b
  PROVE  OverheadPerGroup(a) <= OverheadPerGroup(b)
  <1>1. InodesPerGroup(a) <= InodesPerGroup(b)
    BY WidthAssumption DEF InodesPerGroup, Min2, Max2
  <1> QED BY <1>1, OverheadIsNat DEF OverheadPerGroup, div_ceil, BlockSize

\* More bytes never make fewer blocks, nor more blocks fewer groups.
LEMMA MoreData ==
  ASSUME NEW a \in Nat, NEW b \in Nat, a <= b
  PROVE  DataBlocks(a) <= DataBlocks(b) /\ Groups(a) <= Groups(b)
  <1>1. DataBlocks(a) <= DataBlocks(b)
    BY WidthAssumption DEF DataBlocks, div_ceil, BlockSize, Min2
  <1>2. Groups(a) <= Groups(b)
    BY DEF Groups, div_ceil, BlocksPerGroup, BlockSize, Max2
  <1> QED BY <1>1, <1>2

\* More entries and more bytes never make a smaller image.
LEMMA MoreBlocks ==
  ASSUME NEW a \in Nat, NEW b \in Nat, NEW c \in Nat, NEW d \in Nat, a <= b, c <= d
  PROVE  ImageBlocks(a, c) <= ImageBlocks(b, d)
  <1> DEFINE before == OverheadPerGroup(a) * Groups(DataBlocks(c))
             after  == OverheadPerGroup(b) * Groups(DataBlocks(d))
  <1>1. /\ OverheadPerGroup(a) \in Nat /\ OverheadPerGroup(b) \in Nat
        /\ DataBlocks(c) \in Nat /\ DataBlocks(d) \in Nat
    BY OverheadIsNat, DataIsNat
  <1>2. /\ Groups(DataBlocks(c)) \in Nat /\ Groups(DataBlocks(d)) \in Nat
        /\ Groups(DataBlocks(c)) <= Groups(DataBlocks(d))
        /\ DataBlocks(c) <= DataBlocks(d)
    BY <1>1, GroupsEnough, MoreData
  <1>3. OverheadPerGroup(a) <= OverheadPerGroup(b)
    BY MoreInodes
  <1>4. before \in Nat /\ after \in Nat
    BY <1>1, <1>2, ProductIsNat
  <1>5. before <= after
    <2>1. before <= OverheadPerGroup(b) * Groups(DataBlocks(c))
      BY <1>1, <1>2, <1>3, ProductGrows
    <2>2. Groups(DataBlocks(c)) * OverheadPerGroup(b) <= Groups(DataBlocks(d)) * OverheadPerGroup(b)
      BY <1>1, <1>2, ProductGrows
    <2>3. OverheadPerGroup(b) * Groups(DataBlocks(c)) <= after
      BY <2>2, <1>1, <1>2
    <2>4. OverheadPerGroup(b) * Groups(DataBlocks(c)) \in Nat
      BY <1>1, <1>2, ProductIsNat
    <2> HIDE DEF before, after
    <2> QED BY <2>1, <2>3, <2>4, <1>4
  <1>6. /\ Needed(a, c) = DataBlocks(c) + (before + 2)
        /\ Needed(b, d) = DataBlocks(d) + (after + 2)
    BY DEF Needed
  <1> HIDE DEF before, after
  <1>7. Needed(a, c) \in Nat /\ Needed(b, d) \in Nat /\ Needed(a, c) <= Needed(b, d)
    BY <1>1, <1>2, <1>4, <1>5, <1>6
  <1>8. /\ size_estimate(a, c) \in Nat /\ size_estimate(b, d) \in Nat
        /\ size_estimate(a, c) <= size_estimate(b, d)
    BY <1>7, WidthAssumption DEF size_estimate, Min2, Max2
  <1> QED BY <1>8, WidthAssumption DEF ImageBlocks, Min2

-----------------------------------------------------------------------------
(* The walk *)

\* What so many entries take as blocks of files and of the directory.
RoomForFiles(n, entries, more, files, own) ==
  /\ more \in Nat /\ files \in Nat /\ own \in Nat
  /\ 4096 * files <= more + 4095 * n
  /\ 15 * own <= entries + 16

\* What a directory takes, next to what it adds to the counters.
LEMMA DirectoryTakes ==
  ASSUME NEW n \in Nat, NEW each \in Nat, NEW dirs \in Nat, NEW links \in Nat
  PROVE  RoomForFiles(n, n + dirs + links, n * each, n * div_ceil(each, BlockSize), DirBlocks(n + dirs + links))
  <1> DEFINE c == div_ceil(each, BlockSize)
  <1>1. c \in Nat /\ 4096 * c <= each + 4095
    BY DEF div_ceil, BlockSize
  <1> HIDE DEF c
  <1>2. n * each \in Nat /\ n * c \in Nat
    BY <1>1, ProductIsNat
  <1>3. (4096 * c) * n <= (each + 4095) * n
    BY <1>1, ProductGrows
  <1>4. 4096 * (n * c) = (4096 * c) * n /\ (each + 4095) * n = n * each + 4095 * n
    BY <1>1
  <1>5. LET own == DirBlocks(n + dirs + links) IN own \in Nat /\ 15 * own <= n + dirs + links + 16
    BY DEF DirBlocks, div_ceil, EntriesPerBlock
  <1> QED BY <1>2, <1>3, <1>4, <1>5 DEF c, RoomForFiles

\* The sum of a step.
LEMMA TakesSum ==
  ASSUME NEW n \in Nat, NEW dirs \in Nat, NEW links \in Nat, NEW more \in Nat,
         NEW files \in Nat, NEW own \in Nat, NEW s \in Nat, NEW b \in Nat,
         NEW count \in Nat, NEW total \in Nat,
         4096 * files <= more + 4095 * n, 15 * own <= n + dirs + links + 16,
         61440 * b + 65536 * s <= 15 * total + 69632 * count + 65536
  PROVE  61440 * (b + files + links + own) + 65536 * (s - 1 + dirs)
           <= 15 * (total + more) + 69632 * (count + (n + dirs + links)) + 65536
  <1>1. 61440 * own <= 4096 * (n + dirs + links + 16)
    OBVIOUS
  <1>2. 61440 * files <= 15 * more + 61425 * n
    OBVIOUS
  <1> QED BY <1>1, <1>2

\* The walk only adds to its counters, keeps them within their widths, and takes
\* no more blocks than they tell.
LEMMA StepGrows ==
  ASSUME CountersOK, TakenOK, SizingNext
  PROVE  CountersOK' /\ TakenOK' /\ objects <= objects' /\ size <= size'
  <1> PICK c \in Contents : \E x, y \in Bare : WalkDirectory(c[1], c[2], x, y)
    BY DEF SizingNext
  <1> PICK dirs \in Bare, links \in Bare : WalkDirectory(c[1], c[2], dirs, links)
    OBVIOUS
  <1> DEFINE n    == c[1]
             each == c[2]
             more == n * each
             files == n * div_ceil(each, BlockSize)
             own  == DirBlocks(n + dirs + links)
  <1>1. n \in Nat /\ each \in Nat /\ dirs \in Nat /\ links \in Nat
    BY TreeAssumption
  <1>2. /\ stack > 0 /\ stack' = stack - 1 + dirs
        /\ objects' = Saturated(objects + (n + dirs + links), U32)
        /\ size' = Saturated(size + more, U64)
        /\ taken' = taken + files + links + own
    BY DEF WalkDirectory
  <1>0. /\ more = n * each /\ files = n * div_ceil(each, BlockSize)
        /\ own = DirBlocks(n + dirs + links)
    OBVIOUS
  <1> HIDE DEF n, each, more, files, own
  <1>3. /\ more \in Nat /\ files \in Nat /\ own \in Nat
        /\ 4096 * files <= more + 4095 * n
        /\ 15 * own <= n + dirs + links + 16
    <2>1. RoomForFiles(n, n + dirs + links, more, files, own)
      BY <1>0, <1>1, DirectoryTakes, Zenon
    <2> QED BY <2>1 DEF RoomForFiles
  <1>4. CountersOK' /\ objects <= objects' /\ size <= size'
    BY <1>1, <1>2, <1>3, WidthAssumption DEF CountersOK, Saturated, Min2
  <1>5. stack' \in Nat /\ taken' \in Nat
    BY <1>1, <1>2, <1>3 DEF TakenOK
  <1>6. ASSUME objects' < U32, size' < U64
        PROVE  61440 * taken' + 65536 * stack' <= 15 * size' + 69632 * objects' + 65536
    <2>1. /\ objects' = objects + (n + dirs + links) /\ size' = size + more
          /\ objects \in Nat /\ size \in Nat
      BY <1>1, <1>2, <1>3, <1>6, WidthAssumption DEF CountersOK, Saturated, Min2
    <2>2. objects < U32 /\ size < U64
      BY <1>4, <1>6, <2>1, WidthAssumption
    <2>3. /\ stack \in Nat /\ taken \in Nat
          /\ 61440 * taken + 65536 * stack <= 15 * size + 69632 * objects + 65536
      BY <2>2 DEF TakenOK
    <2>4. 61440 * (taken + files + links + own) + 65536 * (stack - 1 + dirs)
            <= 15 * (size + more) + 69632 * (objects + (n + dirs + links)) + 65536
      BY <1>1, <1>3, <2>1, <2>3, TakesSum
    <2> QED BY <1>2, <2>1, <2>4
  <1> QED BY <1>4, <1>5, <1>6 DEF TakenOK

\* The counters of the walk stay within their widths, and tell what is taken.
LEMMA WalkInvariant == SizingSpec => [](CountersOK /\ TakenOK)
  <1>1. SizingInit => CountersOK /\ TakenOK
    BY WidthAssumption DEF SizingInit, CountersOK, TakenOK
  <1>2. CountersOK /\ TakenOK /\ [SizingNext]_sizingVars => CountersOK' /\ TakenOK'
    <2> SUFFICES ASSUME CountersOK, TakenOK, [SizingNext]_sizingVars PROVE CountersOK' /\ TakenOK'
      OBVIOUS
    <2>1. CASE SizingNext BY <2>1, StepGrows
    <2>2. CASE UNCHANGED sizingVars BY <2>2 DEF sizingVars, CountersOK, TakenOK
    <2> QED BY <2>1, <2>2
  <1> QED BY <1>1, <1>2, PTL DEF SizingSpec

\* For every tree and every width of the counters: the image has room for every
\* file, directory and link in whole blocks, next to the overhead of all its
\* groups, while the files are of 6 KiB on average, a group's inodes fit its
\* bitmap, and no width is exceeded.
THEOREM Headroom == SizingSpec => []HeadroomHolds
  <1>1. CountersOK /\ TakenOK => HeadroomHolds
    BY HeadroomOfCounters
  <1> QED BY <1>1, WalkInvariant, PTL

\* For every tree and every width of the counters: a larger tree never gets a
\* smaller image.
THEOREM Growth == SizingSpec => NeverShrinks
  <1>1. CountersOK /\ TakenOK /\ [SizingNext]_sizingVars =>
          [ImageBlocks(objects', size') >= ImageBlocks(objects, size)]_sizingVars
    <2> SUFFICES ASSUME CountersOK, TakenOK, SizingNext
                 PROVE  ImageBlocks(objects', size') >= ImageBlocks(objects, size)
      OBVIOUS
    <2>1. /\ objects \in Nat /\ objects' \in Nat /\ objects <= objects'
          /\ size \in Nat /\ size' \in Nat /\ size <= size'
      BY StepGrows, WidthAssumption DEF CountersOK
    <2>2. ImageBlocks(objects, size) <= ImageBlocks(objects', size')
      BY <2>1, MoreBlocks
    <2>3. ImageBlocks(objects, size) \in Int /\ ImageBlocks(objects', size') \in Int
      BY <2>1, ImageIsNat
    <2> QED BY <2>2, <2>3
  <1> QED BY <1>1, WalkInvariant, PTL DEF SizingSpec, NeverShrinks
-----------------------------------------------------------------------------
(* `pkg new` *)

Tasks ==
  [pc : {"idle", "mkdir", "open", "fill"}, name : WorkloadNames \cup {NoTask.name},
   config : Configs \cup {Mixed}, file : {1, 2}, result : {"none", "conflict", "ok", "failed"}]

DirsOK(dirs) == \A n \in DOMAIN dirs : DOMAIN dirs[n] = Range(Files)

BusyIn(tasks, n) == {d \in Developers : tasks[d].pc # "idle" /\ tasks[d].name = n}

\* A command that is at work is one of those that went on for its name, and the
\* directory is there, and the file it fills, once it has come so far.
WorkOK(t, dirs, wanted) ==
  t.pc # "idle" =>
    /\ t.name \in WorkloadNames /\ t.config \in Configs /\ t.config \in wanted[t.name]
    /\ t.pc = "mkdir" => t.file = 1
    /\ t.pc \in {"open", "fill"} => t.name \in DOMAIN dirs
    /\ t.pc = "fill" => dirs[t.name][Files[t.file]] # "absent"

\* A command will write the i-th file, or is at it.
Comes(t, n, i) ==
  /\ t.pc # "idle" /\ t.name = n
  /\ t.file < i \/ (t.file = i /\ t.pc \in {"mkdir", "open"})
Fills(t, n, i) == t.pc = "fill" /\ t.name = n /\ t.file = i

\* The i-th file is written, or some command will write it.
FileOK(text, tasks, configs, n, i) ==
  \/ text \in Texts(configs)
  \/ text = "absent" /\ \E d \in Developers : Comes(tasks[d], n, i)
  \/ text = "empty" /\ \E d \in Developers : Fills(tasks[d], n, i)

NewInv ==
  /\ task \in [Developers -> Tasks]
  /\ DirsOK(workloads)
  /\ asked \in [WorkloadNames -> SUBSET Configs]
  /\ DOMAIN workloads \subseteq WorkloadNames
  /\ \A d \in Developers : WorkOK(task[d], workloads, asked)
  /\ \A n \in DOMAIN workloads \ broken, i \in {1, 2} :
       FileOK(workloads[n][Files[i]], task, asked[n], n, i)

\* The two files.
LEMMA TheFiles ==
  /\ Files[1] = "packages.toml" /\ Files[2] = "vm.toml" /\ Len(Files) = 2
  /\ Range(Files) = {Files[1], Files[2]} /\ Files[1] # Files[2]
BY DEF Files, Range

\* The fields of a command.
LEMMA TaskFields ==
  ASSUME NEW t \in Tasks
  PROVE  /\ t.pc \in {"idle", "mkdir", "open", "fill"} /\ t.file \in {1, 2}
         /\ t = [pc |-> t.pc, name |-> t.name, config |-> t.config, file |-> t.file, result |-> t.result]
BY DEF Tasks

\* A command that has ended.
LEMMA Stopped ==
  ASSUME NEW why \in {"none", "conflict", "ok", "failed"}
  PROVE  [NoTask EXCEPT !.result = why] \in Tasks /\ [NoTask EXCEPT !.result = why].pc = "idle"
BY DEF NoTask, Tasks

\* A step of the command of d at the name n, that has gone on: nothing else of
\* the invariant is touched, so it is enough to look at d and at the files of n.
LEMMA OneStep ==
  ASSUME NewInv, NEW d \in Developers, NEW t \in Tasks, task' = [task EXCEPT ![d] = t],
         NEW n \in WorkloadNames, task[d].pc # "idle", task[d].name = n, t.pc # "idle" => t.name = n,
         UNCHANGED asked, broken \subseteq broken',
         DirsOK(workloads'), DOMAIN workloads' \subseteq WorkloadNames,
         DOMAIN workloads \subseteq DOMAIN workloads',
         \A m \in DOMAIN workloads' \ {n} : m \in DOMAIN workloads /\ workloads'[m] = workloads[m],
         \A i \in {1, 2} : n \in DOMAIN workloads =>
           (workloads'[n][Files[i]] = "absent" => workloads[n][Files[i]] = "absent"),
         WorkOK(t, workloads', asked),
         n \in DOMAIN workloads' /\ n \notin broken' => \A i \in {1, 2} :
           FileOK(workloads'[n][Files[i]], task', asked[n], n, i)
  PROVE  NewInv'
<1>1. task \in [Developers -> Tasks] /\ task' \in [Developers -> Tasks] /\ task'[d] = t
      /\ \A e \in Developers \ {d} : task'[e] = task[e]
  BY DEF NewInv
<1>2. ASSUME NEW e \in Developers PROVE WorkOK(task'[e], workloads', asked')
  <2>1. CASE e = d
    BY <1>1, <2>1
  <2>2. CASE e # d
    <3>1. WorkOK(task[e], workloads, asked) /\ task'[e] = task[e] /\ task[e] \in Tasks
      BY <1>1, <2>2 DEF NewInv
    <3>2. task[e].pc = "fill" => workloads'[task[e].name][Files[task[e].file]] # "absent"
      <4> SUFFICES ASSUME task[e].pc = "fill"
                   PROVE  workloads'[task[e].name][Files[task[e].file]] # "absent"
        OBVIOUS
      <4>1. /\ task[e].name \in DOMAIN workloads /\ task[e].file \in {1, 2}
            /\ workloads[task[e].name][Files[task[e].file]] # "absent"
        BY <3>1, TaskFields DEF WorkOK
      <4> QED
        BY <4>1
    <3> QED
      BY <3>1, <3>2 DEF WorkOK
  <2> QED
    BY <2>1, <2>2
<1>3. ASSUME NEW m \in DOMAIN workloads' \ broken', NEW i \in {1, 2}, m # n
      PROVE  FileOK(workloads'[m][Files[i]], task', asked'[m], m, i)
  <2>1. m \in DOMAIN workloads \ broken /\ workloads'[m] = workloads[m]
    BY <1>3
  <2>2. FileOK(workloads[m][Files[i]], task, asked[m], m, i)
    BY <2>1 DEF NewInv
  <2>3. ASSUME NEW e \in Developers, Comes(task[e], m, i) PROVE Comes(task'[e], m, i)
    BY <1>1, <1>3, <2>3 DEF Comes
  <2>4. ASSUME NEW e \in Developers, Fills(task[e], m, i) PROVE Fills(task'[e], m, i)
    BY <1>1, <1>3, <2>4 DEF Fills
  <2> QED
    BY <2>1, <2>2, <2>3, <2>4 DEF FileOK
<1> QED
  BY <1>1, <1>2, <1>3 DEF NewInv

\* The directory must not be there.
LEMMA LookKeeps ==
  ASSUME NewInv, NEW d \in Developers, NEW n \in WorkloadNames, NEW config \in Configs,
         Look(d, n, config)
  PROVE  NewInv'
<1>1. task \in [Developers -> Tasks] /\ task[d].pc = "idle" /\ UNCHANGED workloads
  BY DEF Look, NewInv
<1>2. CASE n \in DOMAIN workloads /\ Return(d, "conflict") /\ UNCHANGED <<asked, broken>>
  <2> DEFINE t == [NoTask EXCEPT !.result = "conflict"]
  <2>1. t \in Tasks /\ t.pc = "idle" /\ task' = [task EXCEPT ![d] = t]
    BY <1>2, Stopped DEF Return, Set
  <2> HIDE DEF t
  <2>2. task' \in [Developers -> Tasks] /\ task'[d] = t /\ \A e \in Developers \ {d} : task'[e] = task[e]
    BY <1>1, <2>1
  <2>3. \A e \in Developers : WorkOK(task'[e], workloads', asked')
    BY <1>1, <1>2, <2>1, <2>2 DEF NewInv, WorkOK
  <2>4. ASSUME NEW m \in DOMAIN workloads' \ broken', NEW i \in {1, 2}
        PROVE  FileOK(workloads'[m][Files[i]], task', asked'[m], m, i)
    <3>1. FileOK(workloads[m][Files[i]], task, asked[m], m, i)
      BY <1>1, <1>2, <2>4 DEF NewInv
    <3>2. \A e \in Developers : /\ Comes(task[e], m, i) => Comes(task'[e], m, i)
                                /\ Fills(task[e], m, i) => Fills(task'[e], m, i)
      BY <1>1, <2>2 DEF Comes, Fills
    <3> QED
      BY <1>1, <1>2, <3>1, <3>2 DEF FileOK
  <2> QED
    BY <1>1, <1>2, <2>2, <2>3, <2>4 DEF NewInv
<1>3. CASE /\ n \notin DOMAIN workloads
           /\ Set(d, [NoTask EXCEPT !.pc = "mkdir", !.name = n, !.config = config])
           /\ IF Busy(n) = {}
              THEN asked' = [asked EXCEPT ![n] = {config}] /\ broken' = broken \ {n}
              ELSE asked' = [asked EXCEPT ![n] = @ \cup {config}] /\ UNCHANGED broken
  <2> DEFINE t == [NoTask EXCEPT !.pc = "mkdir", !.name = n, !.config = config]
  <2>1. /\ t \in Tasks /\ t.pc = "mkdir" /\ t.name = n /\ t.config = config /\ t.file = 1
        /\ task' = [task EXCEPT ![d] = t]
    BY <1>3 DEF Set, NoTask, Tasks
  <2> HIDE DEF t
  <2>2. task' \in [Developers -> Tasks] /\ task'[d] = t /\ \A e \in Developers \ {d} : task'[e] = task[e]
    BY <1>1, <2>1
  <2>3. /\ asked \in [WorkloadNames -> SUBSET Configs] /\ asked' \in [WorkloadNames -> SUBSET Configs]
        /\ config \in asked'[n] /\ \A m \in WorkloadNames \ {n} : asked'[m] = asked[m]
        /\ BusyIn(task, n) # {} => asked[n] \subseteq asked'[n]
    BY <1>3 DEF NewInv, Busy, BusyIn
  <2>4. ASSUME NEW e \in Developers PROVE WorkOK(task'[e], workloads', asked')
    <3>1. CASE e = d
      BY <2>1, <2>2, <2>3, <3>1 DEF WorkOK
    <3>2. CASE e # d
      <4>1. task'[e] = task[e] /\ WorkOK(task[e], workloads, asked)
        BY <2>2, <3>2 DEF NewInv
      <4>2. ASSUME task[e].pc # "idle" PROVE task[e].config \in asked'[task[e].name]
        <5>1. task[e].name = n => e \in BusyIn(task, n)
          BY <4>2 DEF BusyIn
        <5> QED
          BY <2>3, <4>1, <4>2, <5>1 DEF WorkOK
      <4> QED
        BY <1>1, <4>1, <4>2 DEF WorkOK
    <3> QED
      BY <3>1, <3>2
  <2>5. ASSUME NEW m \in DOMAIN workloads' \ broken', NEW i \in {1, 2}
        PROVE  FileOK(workloads'[m][Files[i]], task', asked'[m], m, i)
    <3>1. m # n /\ m \in WorkloadNames /\ m \in DOMAIN workloads \ broken
      BY <1>1, <1>3, <2>5 DEF NewInv
    <3>2. FileOK(workloads[m][Files[i]], task, asked[m], m, i)
      BY <3>1 DEF NewInv
    <3>3. \A e \in Developers : /\ Comes(task[e], m, i) => Comes(task'[e], m, i)
                                /\ Fills(task[e], m, i) => Fills(task'[e], m, i)
      BY <1>1, <2>2 DEF Comes, Fills
    <3> QED
      BY <1>1, <2>3, <3>1, <3>2, <3>3 DEF FileOK
  <2> QED
    BY <1>1, <2>2, <2>3, <2>4, <2>5 DEF NewInv
<1> QED
  BY <1>2, <1>3 DEF Look

\* The directory is made, or is there.
LEMMA MakeDirKeeps ==
  ASSUME NewInv, NEW d \in Developers, MakeDir(d)
  PROVE  NewInv'
<1> DEFINE n == task[d].name
           t == [task[d] EXCEPT !.pc = "open"]
<1>1. task[d] \in Tasks /\ task[d].pc = "mkdir" /\ UNCHANGED <<asked, broken>>
      /\ workloads' = Made(workloads, n) /\ task' = [task EXCEPT ![d] = t]
      /\ task \in [Developers -> Tasks]
  BY DEF MakeDir, On, Ok, Set, Dir, NewInv
<1>2. t \in Tasks /\ t.pc = "open" /\ t.name = n /\ t.config = task[d].config /\ t.file = task[d].file
  BY <1>1 DEF Tasks
<1>3. WorkOK(task[d], workloads, asked) /\ DOMAIN workloads \subseteq WorkloadNames
  BY DEF NewInv
<1>4. n \in WorkloadNames /\ task[d].file = 1
  BY <1>1, <1>3 DEF WorkOK
<1> HIDE DEF t
<1>5. /\ DOMAIN workloads' = DOMAIN workloads \cup {n}
      /\ \A m \in DOMAIN workloads : workloads'[m] = workloads[m]
      /\ n \notin DOMAIN workloads => workloads'[n] = [f \in Range(Files) |-> "absent"]
  BY <1>1 DEF Made
<1>6. DirsOK(workloads')
  BY <1>5 DEF NewInv, DirsOK
<1>7. WorkOK(t, workloads', asked)
  BY <1>1, <1>2, <1>3, <1>4, <1>5 DEF WorkOK
<1>8. ASSUME n \notin broken', NEW i \in {1, 2}
      PROVE  FileOK(workloads'[n][Files[i]], task', asked[n], n, i)
  <2>1. Comes(t, n, i) /\ task'[d] = t
    BY <1>1, <1>2, <1>4 DEF Comes
  <2>2. CASE n \notin DOMAIN workloads
    <3>1. workloads'[n][Files[i]] = "absent"
      BY <1>5, <2>2, TheFiles
    <3> QED
      BY <2>1, <3>1 DEF FileOK
  <2>3. CASE n \in DOMAIN workloads
    <3>1. FileOK(workloads[n][Files[i]], task, asked[n], n, i) /\ workloads'[n] = workloads[n]
      BY <1>1, <1>5, <1>8, <2>3 DEF NewInv
    <3>2. \A e \in Developers : Fills(task[e], n, i) => Fills(task'[e], n, i)
      BY <1>1 DEF Fills
    <3> QED
      BY <2>1, <3>1, <3>2 DEF FileOK
  <2> QED
    BY <2>2, <2>3
<1>9. DOMAIN workloads' \subseteq WorkloadNames
  BY <1>3, <1>4, <1>5
<1> HIDE DEF n
<1>10. /\ \A m \in DOMAIN workloads' \ {n} : m \in DOMAIN workloads /\ workloads'[m] = workloads[m]
       /\ \A i \in {1, 2} : n \in DOMAIN workloads =>
            (workloads'[n][Files[i]] = "absent" => workloads[n][Files[i]] = "absent")
       /\ DOMAIN workloads \subseteq DOMAIN workloads'
  BY <1>5
<1> QED
  BY <1>1, <1>2, <1>4, <1>6, <1>7, <1>8, <1>9, <1>10, OneStep DEF n

\* A file is written: what is in it, and nothing else.
LEMMA HoldsFacts ==
  ASSUME NewInv, NEW d \in Developers, NEW text, Holds(d, text)
  PROVE  LET n == task[d].name
             f == Files[task[d].file]
         IN  /\ DOMAIN workloads' = DOMAIN workloads /\ DirsOK(workloads')
             /\ \A m \in DOMAIN workloads \ {n} : workloads'[m] = workloads[m]
             /\ n \in DOMAIN workloads =>
                  /\ workloads'[n][f] = text
                  /\ \A g \in Range(Files) \ {f} : workloads'[n][g] = workloads[n][g]
<1> DEFINE n == task[d].name
           f == Files[task[d].file]
<1>1. workloads' = [workloads EXCEPT ![n][f] = text] /\ DirsOK(workloads) /\ task[d] \in Tasks
  BY DEF Holds, Dir, File, NewInv
<1>2. f \in Range(Files)
  BY <1>1, TaskFields, TheFiles
<1> HIDE DEF n, f
<1>3. /\ DOMAIN workloads' = DOMAIN workloads
      /\ \A m \in DOMAIN workloads \ {n} : workloads'[m] = workloads[m]
      /\ n \in DOMAIN workloads => workloads'[n] = [workloads[n] EXCEPT ![f] = text]
  BY <1>1
<1>4. n \in DOMAIN workloads => DOMAIN workloads[n] = Range(Files)
  BY <1>1 DEF DirsOK
<1>5. DirsOK(workloads')
  BY <1>1, <1>3 DEF DirsOK
<1> QED
  BY <1>2, <1>3, <1>4, <1>5 DEF n, f

\* The command of d writes `text` into the file it is at.
LEMMA OneWrite ==
  ASSUME NewInv, NEW d \in Developers, NEW t \in Tasks, task' = [task EXCEPT ![d] = t],
         NEW text, Holds(d, text), text # "absent",
         task[d].pc \in {"open", "fill"}, t.pc # "idle" => t.name = task[d].name /\ t.config = task[d].config,
         t.pc # "mkdir", t.pc = "fill" => t.file = task[d].file,
         UNCHANGED asked, broken \subseteq broken',
         \/ task[d].name \in broken'
         \/ /\ FileOK(text, task', asked[task[d].name], task[d].name, task[d].file)
            /\ \A i \in {1, 2} \ {task[d].file} :
                 Comes(task[d], task[d].name, i) => Comes(t, task[d].name, i)
  PROVE  NewInv'
<1> DEFINE n == task[d].name
           file == task[d].file
<1>1. /\ task \in [Developers -> Tasks] /\ task[d] \in Tasks /\ file \in {1, 2}
      /\ WorkOK(task[d], workloads, asked) /\ DOMAIN workloads \subseteq WorkloadNames
  BY TaskFields DEF NewInv
<1>2. n \in WorkloadNames /\ n \in DOMAIN workloads /\ task[d].pc # "idle"
  BY <1>1 DEF WorkOK
<1>3. /\ DOMAIN workloads' = DOMAIN workloads /\ DirsOK(workloads')
      /\ \A m \in DOMAIN workloads \ {n} : workloads'[m] = workloads[m]
      /\ workloads'[n][Files[file]] = text
      /\ \A g \in Range(Files) \ {Files[file]} : workloads'[n][g] = workloads[n][g]
  BY <1>2, HoldsFacts
<1>4. \A i \in {1, 2} \ {file} : workloads'[n][Files[i]] = workloads[n][Files[i]]
  BY <1>1, <1>3, TheFiles
<1>5. WorkOK(t, workloads', asked)
  BY <1>1, <1>2, <1>3 DEF WorkOK
<1>6. ASSUME n \notin broken', NEW i \in {1, 2}
      PROVE  FileOK(workloads'[n][Files[i]], task', asked[n], n, i)
  <2>1. CASE i = file
    BY <1>3, <1>6, <2>1
  <2>2. CASE i # file
    <3>1. FileOK(workloads[n][Files[i]], task, asked[n], n, i) /\ n \notin broken
      BY <1>2, <1>6 DEF NewInv
    <3>2. task'[d] = t /\ \A e \in Developers \ {d} : task'[e] = task[e]
      BY <1>1
    <3>3. \A e \in Developers : Fills(task[e], n, i) => Fills(task'[e], n, i)
      BY <2>2, <3>2 DEF Fills
    <3>4. \A e \in Developers : Comes(task[e], n, i) => Comes(task'[e], n, i)
      BY <1>6, <2>2, <3>2
    <3> QED
      BY <1>4, <2>2, <3>1, <3>3, <3>4 DEF FileOK
  <2> QED
    BY <2>1, <2>2
<1> HIDE DEF n, file
<1>7. \A i \in {1, 2} : workloads'[n][Files[i]] = "absent" => workloads[n][Files[i]] = "absent"
  BY <1>3, <1>4
<1>8. \A m \in DOMAIN workloads' \ {n} : m \in DOMAIN workloads /\ workloads'[m] = workloads[m]
  BY <1>3
<1>9. task[d].name = n /\ (t.pc # "idle" => t.name = n)
  BY DEF n
<1>10. DOMAIN workloads' \subseteq WorkloadNames /\ DOMAIN workloads \subseteq DOMAIN workloads'
  BY <1>1, <1>3
<1> QED
  BY <1>2, <1>3, <1>5, <1>6, <1>7, <1>8, <1>9, <1>10, OneStep

\* A file is created.
LEMMA OpenFileKeeps ==
  ASSUME NewInv, NEW d \in Developers, OpenFile(d)
  PROVE  NewInv'
<1> DEFINE n == task[d].name
           t == [task[d] EXCEPT !.pc = "fill"]
<1>1. /\ task[d] \in Tasks /\ task[d].pc = "open" /\ UNCHANGED <<asked, broken>> /\ Holds(d, "empty")
      /\ task' = [task EXCEPT ![d] = t] /\ task \in [Developers -> Tasks]
  BY DEF OpenFile, On, Ok, Set, NewInv
<1>2. t \in Tasks /\ t.pc = "fill" /\ t.name = n /\ t.config = task[d].config /\ t.file = task[d].file
  BY <1>1 DEF Tasks
<1> HIDE DEF t
<1>3. FileOK("empty", task', asked[n], n, task[d].file)
  BY <1>1, <1>2 DEF FileOK, Fills
<1>4. task[d].file \in {1, 2}
  BY <1>1, TaskFields
<1>5. \A i \in {1, 2} \ {task[d].file} : Comes(task[d], n, i) => Comes(t, n, i)
  BY <1>1, <1>2, <1>4 DEF Comes
<1> QED
  BY <1>1, <1>2, <1>3, <1>5, OneWrite

\* What a file holds when a command has filled it.
LEMMA FilledWith ==
  ASSUME NewInv, NEW d \in Developers, task[d].pc = "fill",
         task[d].name \notin broken
  PROVE  (IF workloads[task[d].name][Files[task[d].file]] \in {"empty", task[d].config}
          THEN task[d].config ELSE Mixed) \in Texts(asked[task[d].name])
<1> DEFINE n == task[d].name
           i == task[d].file
           text == workloads[n][Files[i]]
           config == task[d].config
<1>1. /\ n \in DOMAIN workloads /\ text # "absent" /\ config \in asked[n] /\ i \in {1, 2}
      /\ FileOK(text, task, asked[n], n, i)
  <2>1. task[d] \in Tasks /\ WorkOK(task[d], workloads, asked)
    BY DEF NewInv
  <2>2. n \in DOMAIN workloads /\ text # "absent" /\ config \in asked[n] /\ i \in {1, 2}
    BY <2>1, TaskFields DEF WorkOK
  <2> QED
    BY <2>2 DEF NewInv
<1> HIDE DEF text, n, i, config
<1>2. text \in {"empty", config} \/ text \in Texts(asked[n])
  BY <1>1 DEF FileOK
<1>3. CASE text \in {"empty", config}
  <2>1. config \in Texts(asked[n])
    BY <1>1 DEF Texts
  <2> QED
    BY <1>3, <2>1 DEF text, n, i, config
<1>4. CASE text \notin {"empty", config}
  <2>1. Mixed \in Texts(asked[n])
    BY <1>1, <1>2, <1>4 DEF Texts
  <2> QED
    BY <1>4, <2>1 DEF text, n, i, config
<1> QED
  BY <1>3, <1>4

\* A file is filled, and the next one is next, or the command is done.
LEMMA FillFileKeeps ==
  ASSUME NewInv, NEW d \in Developers, FillFile(d)
  PROVE  NewInv'
<1> DEFINE n    == task[d].name
           file == task[d].file
           text == IF workloads[n][Files[file]] \in {"empty", task[d].config}
                   THEN task[d].config ELSE Mixed
<1>1. /\ task[d] \in Tasks /\ task[d].pc = "fill" /\ UNCHANGED <<asked, broken>> /\ Holds(d, text)
      /\ NextFile(d) /\ file \in {1, 2} /\ task[d].config \in Configs
  BY TaskFields DEF FillFile, On, Ok, NewInv, Dir, File, WorkOK
<1>2. text # "absent"
  BY <1>1, NameAssumption
<1>3. n \in broken' \/ FileOK(text, task', asked[n], n, file)
  BY <1>1, FilledWith DEF FileOK
<1> HIDE DEF text
<1>4. CASE file = 1
  <2> DEFINE t == [task[d] EXCEPT !.file = 2, !.pc = "open"]
  <2>1. task' = [task EXCEPT ![d] = t]
    <3>1. task[d].file + 1 = 2
      BY <1>4
    <3>2. Set(d, [task[d] EXCEPT !.file = task[d].file + 1, !.pc = "open"])
      BY <1>1, <1>4, TheFiles DEF NextFile
    <3> QED
      BY <3>1, <3>2 DEF Set
  <2>2. t \in Tasks /\ t.pc = "open" /\ t.name = n /\ t.config = task[d].config /\ t.file = 2
    BY <1>1, <1>4 DEF Tasks
  <2> HIDE DEF t
  <2>3. \A i \in {1, 2} \ {file} : Comes(t, n, i)
    BY <1>4, <2>2 DEF Comes
  <2> QED
    BY <1>1, <1>2, <1>3, <2>1, <2>2, <2>3, OneWrite
<1>5. CASE file = 2
  <2> DEFINE t == [NoTask EXCEPT !.result = "ok"]
  <2>1. task' = [task EXCEPT ![d] = t]
    BY <1>1, <1>5, TheFiles DEF NextFile, Return, Set
  <2>2. t \in Tasks /\ t.pc = "idle"
    BY Stopped
  <2> HIDE DEF t
  <2>3. \A i \in {1, 2} \ {file} : ~Comes(task[d], n, i)
    BY <1>5 DEF Comes
  <2> QED
    BY <1>1, <1>2, <1>3, <2>1, <2>2, <2>3, OneWrite
<1> QED
  BY <1>1, <1>4, <1>5

\* A command breaks down, and its name is broken.
LEMMA BreakDownKeeps ==
  ASSUME NewInv, NEW d \in Developers, BreakDown(d)
  PROVE  NewInv'
<1> DEFINE n == task[d].name
           t == [NoTask EXCEPT !.result = "failed"]
<1>1. /\ task[d].pc # "idle" /\ task' = [task EXCEPT ![d] = t] /\ broken' = broken \cup {n}
      /\ UNCHANGED asked /\ (UNCHANGED workloads \/ (task[d].pc = "fill" /\ Holds(d, Mixed)))
  BY DEF BreakDown, Return, Set, Dir
<1>2. t \in Tasks /\ t.pc = "idle"
  BY Stopped
<1> HIDE DEF t
<1>3. CASE UNCHANGED workloads
  <2>1. /\ DirsOK(workloads') /\ DOMAIN workloads' \subseteq WorkloadNames /\ n \in WorkloadNames
    BY <1>1, <1>3 DEF NewInv, WorkOK
  <2>2. WorkOK(t, workloads', asked)
    BY <1>2 DEF WorkOK
  <2> QED
    BY <1>1, <1>2, <1>3, <2>1, <2>2, OneStep
<1>4. CASE task[d].pc = "fill" /\ Holds(d, Mixed)
  BY <1>1, <1>2, <1>4, OneWrite, NameAssumption
<1> QED
  BY <1>1, <1>3, <1>4

\* A workload that nobody is at is deleted.
LEMMA DeleteKeeps ==
  ASSUME NewInv, NEW n \in WorkloadNames, Delete(n)
  PROVE  NewInv'
<1>1. /\ n \in DOMAIN workloads /\ BusyIn(task, n) = {} /\ UNCHANGED <<task, asked, broken>>
      /\ workloads' = [m \in DOMAIN workloads \ {n} |-> workloads[m]]
  BY DEF Delete, Busy, BusyIn
<1>2. /\ DOMAIN workloads' = DOMAIN workloads \ {n}
      /\ \A m \in DOMAIN workloads' : workloads'[m] = workloads[m]
  BY <1>1
<1>3. DirsOK(workloads') /\ DOMAIN workloads' \subseteq WorkloadNames
  BY <1>2 DEF NewInv, DirsOK
<1>4. ASSUME NEW e \in Developers PROVE WorkOK(task[e], workloads', asked)
  <2>1. task[e].pc # "idle" => task[e].name # n
    BY <1>1 DEF BusyIn
  <2>2. WorkOK(task[e], workloads, asked)
    BY DEF NewInv
  <2> QED
    BY <1>2, <2>1, <2>2 DEF WorkOK
<1>5. ASSUME NEW m \in DOMAIN workloads' \ broken, NEW i \in {1, 2}
      PROVE  FileOK(workloads'[m][Files[i]], task, asked[m], m, i)
  <2>1. m \in DOMAIN workloads \ broken /\ workloads'[m] = workloads[m]
    BY <1>2, <1>5
  <2> QED
    BY <2>1 DEF NewInv
<1> QED
  BY <1>1, <1>3, <1>4, <1>5 DEF NewInv

\* The invariant is inductive.
LEMMA NewInvariance == ScaffoldSpec => []NewInv
<1>1. ScaffoldInit => NewInv
  <2> SUFFICES ASSUME ScaffoldInit PROVE NewInv
    OBVIOUS
  <2>1. NoTask \in Tasks /\ NoTask.pc = "idle"
    BY DEF NoTask, Tasks
  <2>2. task = [d \in Developers |-> NoTask] /\ DOMAIN workloads = {}
        /\ asked = [n \in WorkloadNames |-> {}]
    BY DEF ScaffoldInit
  <2> QED
    BY <2>1, <2>2 DEF NewInv, DirsOK, WorkOK
<1>2. NewInv /\ [ScaffoldNext]_scaffoldVars => NewInv'
  <2> SUFFICES ASSUME NewInv, [ScaffoldNext]_scaffoldVars PROVE NewInv'
    OBVIOUS
  <2>1. CASE UNCHANGED scaffoldVars
    BY <2>1 DEF scaffoldVars, NewInv
  <2>2. CASE ScaffoldNext
    BY <2>2, DeleteKeeps, LookKeeps, MakeDirKeeps, OpenFileKeeps, FillFileKeeps, BreakDownKeeps
    DEF ScaffoldNext
  <2> QED
    BY <2>1, <2>2
<1> QED
  BY <1>1, <1>2, PTL DEF ScaffoldSpec

\* For any number of developers, names and commands, however many are at one
\* name at once: when none is at a workload and none of those that made it broke
\* down, both files are there, from the arguments of these commands, and so of
\* one if only one found no directory.
THEOREM WorkloadsAsAsked == ScaffoldSpec => []FilesAreAsAsked
<1>1. NewInv => FilesAreAsAsked
  <2> SUFFICES ASSUME NewInv, NEW n \in DOMAIN workloads \ broken, Busy(n) = {}, NEW f \in Range(Files)
               PROVE  workloads[n][f] \in Texts(asked[n])
    BY DEF FilesAreAsAsked
  <2>1. PICK i \in {1, 2} : f = Files[i]
    BY TheFiles
  <2>2. FileOK(workloads[n][Files[i]], task, asked[n], n, i)
    BY DEF NewInv
  <2>3. \A d \in Developers : ~Comes(task[d], n, i) /\ ~Fills(task[d], n, i)
    BY DEF Busy, Comes, Fills
  <2> QED
    BY <2>1, <2>2, <2>3 DEF FileOK
<1> QED
  BY <1>1, NewInvariance, PTL
-----------------------------------------------------------------------------
(* Induction, on sets of numbers *)

\* A set of numbers has a least.
LEMMA Least ==
  ASSUME NEW S \in SUBSET Nat, S # {}
  PROVE  \E i \in S : \A j \in S : i <= j
<1>1. IsWellFoundedOn(OpToRel(<, Nat), Nat)
  BY NatLessThanWellFounded
<1>2. PICK i \in S : \A j \in S : ~(<<j, i>> \in OpToRel(<, Nat))
  BY <1>1, WFMin
<1>3. \A j \in S : ~(j < i)
  BY <1>2 DEF OpToRel
<1> QED
  BY <1>3

\* A set that has 0, and with a number the next one, has them all.
LEMMA AllUpTo ==
  ASSUME NEW n \in Nat, NEW S, 0 \in S, \A i \in 1 .. n : i - 1 \in S => i \in S
  PROVE  0 .. n \subseteq S
<1> SUFFICES ASSUME ~(0 .. n \subseteq S) PROVE FALSE
  OBVIOUS
<1> DEFINE T == {i \in 0 .. n : i \notin S}
<1>1. T \in SUBSET Nat /\ T # {}
  OBVIOUS
<1>2. PICK i \in T : \A j \in T : i <= j
  BY <1>1, Least
<1>3. i \in 1 .. n /\ i - 1 \in 0 .. n
  BY <1>2
<1>4. i - 1 \notin T
  BY <1>2, <1>3
<1> QED
  BY <1>2, <1>3, <1>4

-----------------------------------------------------------------------------
(* The address of a workload *)

\* The sum so far of so many terms.
Sums(f, n, w) == [i \in 0 .. n |-> IF i = 0 THEN 0 ELSE (f[i - 1] + w[i]) % 256]

\* There is such a function, so that WrappingSum is its last value.
LEMMA SumsExist ==
  ASSUME NEW n \in Nat, NEW w
  PROVE  \E f : f = Sums(f, n, w)
<1> DEFINE S == {k \in 0 .. n : \E f : f = Sums(f, k, w)}
<1>1. 0 \in S
  <2>1. Sums([i \in {0} |-> 0], 0, w) = [i \in 0 .. 0 |-> 0]
    BY DEF Sums
  <2>2. [i \in {0} |-> 0] = [i \in 0 .. 0 |-> 0]
    OBVIOUS
  <2> QED
    BY <2>1, <2>2
<1>2. ASSUME NEW k \in 1 .. n, k - 1 \in S
      PROVE  k \in S
  <2>1. PICK f : f = Sums(f, k - 1, w)
    BY <1>2
  <2>2. /\ DOMAIN f = 0 .. k - 1
        /\ \A i \in 0 .. k - 1 : f[i] = IF i = 0 THEN 0 ELSE (f[i - 1] + w[i]) % 256
    BY <2>1 DEF Sums
  <2> DEFINE g == [i \in 0 .. k |-> IF i = k THEN (f[k - 1] + w[k]) % 256 ELSE f[i]]
  <2>3. \A i \in 0 .. k : g[i] = IF i = 0 THEN 0 ELSE (g[i - 1] + w[i]) % 256
    <3> TAKE i \in 0 .. k
    <3>1. CASE i = k
      BY <3>1
    <3>2. CASE i # k
      <4>1. g[i] = f[i] /\ i \in 0 .. k - 1
        BY <3>2
      <4>2. i # 0 => g[i - 1] = f[i - 1]
        BY <3>2
      <4> QED
        BY <2>2, <4>1, <4>2
    <3> QED
      BY <3>1, <3>2
  <2>4. g = Sums(g, k, w)
    BY <2>3 DEF Sums
  <2> QED
    BY <2>4
<1> HIDE DEF S
<1>3. n \in S
  BY <1>1, <1>2, AllUpTo
<1> QED
  BY <1>3 DEF S

\* A sum that wraps is a byte.
LEMMA ByteSum == \A a \in 0 .. 255, b \in Nat : (a + b) % 256 \in 0 .. 255
OBVIOUS

\* A number is a multiple of 256 if its negative is.
LEMMA ByteNegation == \A a \in Int : (0 - a) % 256 = 0 => a % 256 = 0
OBVIOUS

\* Bytes that are so much apart, as far as bytes can tell.
Apart(a, b, c) == (a - b - c) % 256 = 0

\* What two sums differ by, when each has another term.
LEMMA ByteDrift ==
  ASSUME NEW a \in 0 .. 255, NEW b \in 0 .. 255, NEW c \in Int, NEW x \in Nat, NEW y \in Nat,
         Apart(a, b, c)
  PROVE  Apart((a + x) % 256, (b + y) % 256, c + x - y)
BY DEF Apart

\* A function that adds up terms.
AddsUp(f, n, w) ==
  /\ f[0] = 0 /\ \A i \in 1 .. n : f[i] = (f[i - 1] + w[i]) % 256
  /\ \A i \in 0 .. n : f[i] \in 0 .. 255

\* Its values are bytes.
LEMMA SumsAddUp ==
  ASSUME NEW n \in Nat, NEW w, \A i \in 1 .. n : w[i] \in Nat, NEW f, f = Sums(f, n, w)
  PROVE  AddsUp(f, n, w)
<1>1. f[0] = 0 /\ \A i \in 1 .. n : f[i] = (f[i - 1] + w[i]) % 256
  BY DEF Sums
<1> DEFINE S == {i \in 0 .. n : f[i] \in 0 .. 255}
<1>2. 0 \in S
  BY <1>1
<1>3. ASSUME NEW i \in 1 .. n, i - 1 \in S PROVE i \in S
  <2>1. f[i - 1] \in 0 .. 255 /\ w[i] \in Nat /\ f[i] = (f[i - 1] + w[i]) % 256
    BY <1>1, <1>3
  <2>2. (f[i - 1] + w[i]) % 256 \in 0 .. 255
    BY <2>1, ByteSum
  <2> QED
    BY <2>1, <2>2
<1> HIDE DEF S
<1>4. 0 .. n \subseteq S
  BY <1>2, <1>3, AllUpTo
<1> QED
  BY <1>1, <1>4 DEF S, AddsUp

\* So many terms, all of them numbers.
Terms(w, n) == Len(w) = n /\ \A i \in 1 .. n : w[i] \in Nat

\* WrappingSum is the last of them.
LEMMA SumFacts ==
  ASSUME NEW n \in Nat, NEW w, Terms(w, n)
  PROVE  \E f : WrappingSum(w) = f[n] /\ AddsUp(f, n, w)
<1> USE DEF Terms
<1> DEFINE f == CHOOSE g : g = Sums(g, Len(w), w)
<1>1. WrappingSum(w) = f[Len(w)]
  BY DEF WrappingSum, Sums
<1>2. f = Sums(f, n, w)
  <2>1. f = CHOOSE g : g = Sums(g, n, w)
    OBVIOUS
  <2> QED
    BY <2>1, SumsExist
<1> HIDE DEF f
<1>3. AddsUp(f, n, w)
  BY <1>2, SumsAddUp
<1> QED
  BY <1>1, <1>3

\* Two sums drift apart by the sum of the differences of their terms.
LEMMA SumsDrift ==
  ASSUME NEW n \in Nat, NEW u, NEW v,
         \A i \in 1 .. n : u[i] \in Nat, \A i \in 1 .. n : v[i] \in Nat,
         NEW f, AddsUp(f, n, u), NEW g, AddsUp(g, n, v),
         NEW d, d[0] = 0, \A i \in 0 .. n : d[i] \in Int,
         \A i \in 1 .. n : d[i] = d[i - 1] + u[i] - v[i]
  PROVE  f[n] = g[n] => d[n] % 256 = 0
<1> DEFINE S == {i \in 0 .. n : Apart(f[i], g[i], d[i])}
<1>1. 0 \in S
  BY DEF AddsUp, Apart
<1>2. ASSUME NEW i \in 1 .. n, i - 1 \in S PROVE i \in S
  <2>1. /\ f[i - 1] \in 0 .. 255 /\ g[i - 1] \in 0 .. 255 /\ d[i - 1] \in Int
        /\ u[i] \in Nat /\ v[i] \in Nat /\ Apart(f[i - 1], g[i - 1], d[i - 1])
    BY <1>2 DEF AddsUp
  <2>2. /\ f[i] = (f[i - 1] + u[i]) % 256 /\ g[i] = (g[i - 1] + v[i]) % 256
        /\ d[i] = d[i - 1] + u[i] - v[i]
    BY <1>2 DEF AddsUp
  <2> DEFINE a == f[i - 1]
             b == g[i - 1]
             c == d[i - 1]
             x == u[i]
             y == v[i]
  <2>3. a \in 0 .. 255 /\ b \in 0 .. 255 /\ c \in Int /\ x \in Nat /\ y \in Nat /\ Apart(a, b, c)
    BY <2>1
  <2> HIDE DEF a, b, c, x, y
  <2>4. Apart((a + x) % 256, (b + y) % 256, c + x - y)
    BY <2>3, ByteDrift
  <2>5. Apart(f[i], g[i], d[i])
    BY <2>2, <2>4, Zenon DEF a, b, c, x, y
  <2> QED
    BY <2>5
<1> HIDE DEF S
<1>3. 0 .. n \subseteq S
  BY <1>1, <1>2, AllUpTo, Zenon
<1>4. f[n] \in 0 .. 255 /\ g[n] \in 0 .. 255 /\ d[n] \in Int /\ (f[n] - g[n] - d[n]) % 256 = 0
  BY <1>3 DEF S, AddsUp, Apart
<1>5. ASSUME f[n] = g[n] PROVE d[n] % 256 = 0
  <2>1. f[n] - g[n] - d[n] = 0 - d[n]
    BY <1>4, <1>5
  <2> QED
    BY <1>4, <2>1, ByteNegation
<1> QED
  BY <1>5

\* How far two sums are apart.
Drifts(d, n, u, v) ==
  /\ d[0] = 0 /\ \A i \in 0 .. n : d[i] \in Int
  /\ \A i \in 1 .. n : d[i] = d[i - 1] + u[i] - v[i]

\* So they differ if that is no multiple of 256.
LEMMA SumsDiffer ==
  ASSUME NEW n \in Nat, NEW u, NEW v, Terms(u, n), Terms(v, n),
         NEW d, Drifts(d, n, u, v), d[n] % 256 # 0
  PROVE  WrappingSum(u) # WrappingSum(v)
<1>1. PICK f : WrappingSum(u) = f[n] /\ AddsUp(f, n, u)
  BY SumFacts, Zenon
<1>2. PICK g : WrappingSum(v) = g[n] /\ AddsUp(g, n, v)
  BY SumFacts, Zenon
<1>3. (\A i \in 1 .. n : u[i] \in Nat) /\ (\A i \in 1 .. n : v[i] \in Nat)
  BY Zenon DEF Terms
<1>4. /\ d[0] = 0 /\ \A i \in 0 .. n : d[i] \in Int
      /\ \A i \in 1 .. n : d[i] = d[i - 1] + u[i] - v[i]
  BY Zenon DEF Drifts
<1>5. f[n] # g[n]
  BY <1>1, <1>2, <1>3, <1>4, SumsDrift
<1> QED
  BY <1>1, <1>2, <1>5, Zenon

\* The letters of a name, and their sums.
Bytes == 0 .. 255

\* Bytes are numbers.
LEMMA BytesAreNumbers == Bytes \subseteq Nat /\ Bytes \subseteq Int
BY DEF Bytes

\* A function on 1 .. n is a sequence of n terms.
LEMMA FunctionsAreTerms ==
  ASSUME NEW n \in Nat, NEW s \in [1 .. n -> Nat]
  PROVE  Terms(s, n)
BY DEF Terms

\* A name as a function is a sequence of numbers.
LEMMA BytesAreTerms ==
  ASSUME NEW n \in Nat, NEW s \in [1 .. n -> Bytes]
  PROVE  Terms(s, n)
<1>1. s \in [1 .. n -> Nat]
  BY BytesAreNumbers
<1> QED
  BY <1>1, FunctionsAreTerms

\* Two bytes that differ do so modulo 256.
LEMMA BytesDiffer == ASSUME NEW a \in Bytes, NEW b \in Bytes, a # b PROVE (a - b) % 256 # 0
<1>1. a \in 0 .. 255 /\ b \in 0 .. 255
  BY DEF Bytes
<1>2. CASE a > b
  BY <1>1, <1>2
<1>3. CASE a < b
  <2>1. a - b = (-1) * 256 + (a - b + 256) /\ a - b + 256 \in 1 .. 255
    BY <1>1, <1>3
  <2>2. (a - b) % 256 = a - b + 256
    BY <2>1
  <2> QED
    BY <2>1, <2>2
<1> QED
  BY <1>1, <1>2, <1>3

\* 255 and 256 have no common divisor.
LEMMA Coprime == ASSUME NEW a \in Int, a % 256 # 0 PROVE (255 * a) % 256 # 0
<1>1. ASSUME NEW q \in Int, 255 * a = 256 * q PROVE a = 256 * (a - q)
  BY <1>1
<1> QED
  BY <1>1

\* Another letter: another plain sum.
LEMMA ChangeIsSeen ==
  ASSUME NEW n \in Nat, NEW s \in [1 .. n -> Bytes], NEW i \in 1 .. n,
         NEW b \in Bytes, b # s[i]
  PROVE  Sum1([s EXCEPT ![i] = b]) # Sum1(s)
<1> DEFINE t == [s EXCEPT ![i] = b]
           d == [j \in 0 .. n |-> IF j < i THEN 0 ELSE s[i] - b]
<1>1. t \in [1 .. n -> Bytes]
  OBVIOUS
<1>2. Terms(s, n) /\ Terms(t, n)
  BY <1>1, BytesAreTerms
<1>3. d[0] = 0 /\ \A j \in 0 .. n : d[j] \in Int
  <2>1. s[i] \in Bytes
    OBVIOUS
  <2>2. s[i] \in Int /\ b \in Int
    BY <2>1, BytesAreNumbers
  <2> QED
    BY <2>2
<1>4. ASSUME NEW j \in 1 .. n PROVE d[j] = d[j - 1] + s[j] - t[j]
  <2>1. s[j] \in Int /\ s[i] \in Int /\ b \in Int
    BY BytesAreNumbers
  <2>2. t[j] = IF j = i THEN b ELSE s[j]
    OBVIOUS
  <2>3. d[j] = (IF j < i THEN 0 ELSE s[i] - b) /\ d[j - 1] = (IF j - 1 < i THEN 0 ELSE s[i] - b)
    OBVIOUS
  <2> HIDE DEF t, d
  <2>4. CASE j < i
    BY <2>1, <2>2, <2>3, <2>4
  <2>5. CASE j = i
    BY <2>1, <2>2, <2>3, <2>5
  <2>6. CASE j > i
    BY <2>1, <2>2, <2>3, <2>6
  <2> QED
    BY <2>4, <2>5, <2>6
<1>5. d[n] % 256 # 0
  <2>1. d[n] = s[i] - b /\ s[i] \in Bytes
    OBVIOUS
  <2>2. (s[i] - b) % 256 # 0
    BY <2>1, BytesDiffer
  <2> QED
    BY <2>1, <2>2
<1> HIDE DEF t, d
<1>6. WrappingSum(s) # WrappingSum(t)
  <2>1. Drifts(d, n, s, t)
    BY <1>3, <1>4 DEF Drifts
  <2> QED
    BY <1>2, <1>5, <2>1, SumsDiffer
<1> QED
  BY <1>6 DEF Sum1, t

\* The terms of the weighted sum.
Weighted(s, n) == [j \in 1 .. n |-> s[j] * (j % 256)]

\* They are numbers.
LEMMA WeightedIsTerms ==
  ASSUME NEW n \in Nat, NEW s \in [1 .. n -> Bytes]
  PROVE  Terms(Weighted(s, n), n)
<1>1. ASSUME NEW j \in 1 .. n PROVE s[j] * (j % 256) \in Nat
  <2>1. s[j] \in Nat
    BY BytesAreNumbers
  <2>2. j % 256 \in Nat
    OBVIOUS
  <2> QED
    BY <2>1, <2>2, ProductIsNat
<1>2. Weighted(s, n) \in [1 .. n -> Nat]
  BY <1>1 DEF Weighted
<1> QED
  BY <1>2, FunctionsAreTerms

\* The weights of neighbours differ by one, or by 255.
LEMMA NextWeight ==
  \A i \in Nat : i % 256 \in 0 .. 255 /\ (i + 1) % 256 \in 0 .. 255
                 /\ ((i + 1) % 256 = (i % 256) + 1 \/ (i % 256 = 255 /\ (i + 1) % 256 = 0))
OBVIOUS

\* What a swap of neighbours adds up to.
LEMMA SwapDrifts ==
  ASSUME NEW a \in Bytes, NEW b \in Bytes, a # b, NEW i \in Nat
  PROVE  (((a - b) * (i % 256)) + ((b - a) * ((i + 1) % 256))) % 256 # 0
<1> DEFINE x == i % 256
           y == (i + 1) % 256
<1>1. x \in 0 .. 255 /\ y \in 0 .. 255 /\ (y = x + 1 \/ (x = 255 /\ y = 0))
  BY NextWeight
<1> HIDE DEF x, y
<1>2. CASE y = x + 1
  <2>1. ((a - b) * x) + ((b - a) * y) = b - a
    BY <1>1, <1>2, BytesAreNumbers
  <2>2. (b - a) % 256 # 0
    BY BytesDiffer
  <2> QED
    BY <2>1, <2>2 DEF x, y
<1>3. CASE x = 255 /\ y = 0
  <2>1. ((a - b) * x) + ((b - a) * y) = 255 * (a - b) /\ a - b \in Int
    BY <1>3, BytesAreNumbers
  <2>2. (255 * (a - b)) % 256 # 0
    BY <2>1, BytesDiffer, Coprime
  <2> QED
    BY <2>1, <2>2 DEF x, y
<1> QED
  BY <1>1, <1>2, <1>3

\* Swapped neighbours: another weighted sum.
LEMMA SwapIsSeen ==
  ASSUME NEW n \in Nat, NEW s \in [1 .. n -> Bytes], NEW i \in 1 .. n, i < n, s[i] # s[i + 1]
  PROVE  Sum2([s EXCEPT ![i] = s[i + 1], ![i + 1] = s[i]]) # Sum2(s)
<1> DEFINE t == [s EXCEPT ![i] = s[i + 1], ![i + 1] = s[i]]
           a == s[i]
           b == s[i + 1]
           p == (a - b) * (i % 256)
           q == (b - a) * ((i + 1) % 256)
           d == [j \in 0 .. n |-> IF j < i THEN 0 ELSE IF j = i THEN p ELSE p + q]
           u == Weighted(s, n)
           v == Weighted(t, n)
<1>1. /\ t \in [1 .. n -> Bytes] /\ a \in Bytes /\ b \in Bytes /\ a # b
      /\ t[i] = b /\ t[i + 1] = a /\ \A j \in 1 .. n : j # i /\ j # i + 1 => t[j] = s[j]
  OBVIOUS
<1>2. Terms(u, n) /\ Terms(v, n)
  BY <1>1, WeightedIsTerms
<1>3. a \in Int /\ b \in Int /\ i % 256 \in Int /\ (i + 1) % 256 \in Int
  <2>1. i % 256 \in Int /\ (i + 1) % 256 \in Int
    OBVIOUS
  <2> HIDE DEF a, b
  <2> QED
    BY <1>1, <2>1, BytesAreNumbers
<1>4. p \in Int /\ q \in Int
  <2> DEFINE x == i % 256
             y == (i + 1) % 256
  <2> HIDE DEF a, b, x, y
  <2> QED
    BY <1>3 DEF x, y
<1>5. p + q = d[n] /\ (p + q) % 256 # 0
  BY <1>1, SwapDrifts
<1>6. /\ \A j \in 1 .. n : j # i /\ j # i + 1 => u[j] = v[j] /\ u[j] \in Nat
      /\ u[i] = a * (i % 256) /\ v[i] = b * (i % 256)
      /\ u[i + 1] = b * ((i + 1) % 256) /\ v[i + 1] = a * ((i + 1) % 256)
  <2>1. \A j \in 1 .. n : u[j] = s[j] * (j % 256) /\ v[j] = t[j] * (j % 256)
    BY DEF Weighted
  <2>2. \A j \in 1 .. n : u[j] \in Nat
    BY <1>2 DEF Terms
  <2>3. i \in 1 .. n /\ i + 1 \in 1 .. n
    OBVIOUS
  <2> HIDE DEF t, u, v
  <2> QED
    BY <1>1, <2>1, <2>2, <2>3
<1>7. p = u[i] - v[i] /\ q = u[i + 1] - v[i + 1]
  <2> DEFINE x == i % 256
             y == (i + 1) % 256
  <2> HIDE DEF a, b, x, y, u, v
  <2>1. (a - b) * x = (a * x) - (b * x) /\ (b - a) * y = (b * y) - (a * y)
    BY <1>3 DEF x, y
  <2> QED
    BY <1>6, <2>1 DEF x, y
<1> HIDE DEF t, a, b, p, q, u, v
<1>8. d[0] = 0 /\ \A j \in 0 .. n : d[j] \in Int
  BY <1>4
<1>9. ASSUME NEW j \in 1 .. n PROVE d[j] = d[j - 1] + u[j] - v[j]
  <2>1. u[j] \in Nat /\ v[j] \in Nat
    BY <1>2 DEF Terms
  <2>2. CASE j < i
    BY <2>1, <2>2, <1>6
  <2>3. CASE j = i
    BY <2>1, <2>3, <1>7
  <2>4. CASE j = i + 1
    BY <2>1, <2>4, <1>7, <1>4
  <2>5. CASE j > i + 1
    BY <2>1, <2>5, <1>6, <1>4
  <2> QED
    BY <2>2, <2>3, <2>4, <2>5
<1>10. d[n] % 256 # 0
  BY <1>5
<1> HIDE DEF d
<1>11. WrappingSum(u) # WrappingSum(v)
  <2>1. Drifts(d, n, u, v)
    BY <1>8, <1>9 DEF Drifts
  <2> QED
    BY <1>2, <1>10, <2>1, SumsDiffer
<1>12. Sum2(s) = WrappingSum(u) /\ Sum2(t) = WrappingSum(v)
  <2>1. DOMAIN s = 1 .. n /\ DOMAIN t = 1 .. n
    BY <1>1
  <2> QED
    BY <2>1, Zenon DEF Sum2, Weighted, u, v
<1> QED
  BY <1>11, <1>12 DEF t

\* Of every name.
LEMMA SimilarNames ==
  ASSUME name \in Seq(Letters)
  PROVE  SimilarNamesDiffer
<1> DEFINE n == Len(name)
<1>1. n \in Nat /\ name \in [1 .. n -> Bytes] /\ DOMAIN name = 1 .. n
  <2>1. Letters \subseteq Bytes
    BY NameAssumption DEF Bytes
  <2>2. n \in Nat /\ name \in [1 .. n -> Letters] /\ DOMAIN name = 1 .. n
    BY LenProperties
  <2> HIDE DEF n
  <2> QED
    BY <2>1, <2>2
<1>2. ASSUME NEW i \in DOMAIN name, NEW b \in Letters \ {name[i]}
      PROVE  derive_mac([name EXCEPT ![i] = b]) # derive_mac(name)
  <2>1. i \in 1 .. n /\ b \in Bytes /\ b # name[i]
    BY <1>1, NameAssumption DEF Bytes
  <2> HIDE DEF n
  <2>2. Sum1([name EXCEPT ![i] = b]) # Sum1(name)
    BY <1>1, <2>1, ChangeIsSeen, Zenon
  <2> QED
    BY <2>2 DEF derive_mac
<1>3. ASSUME NEW i \in DOMAIN name, i < Len(name), name[i] # name[i + 1]
      PROVE  derive_mac([name EXCEPT ![i] = name[i + 1], ![i + 1] = name[i]]) # derive_mac(name)
  <2>1. i \in 1 .. n /\ i < n
    BY <1>1, <1>3
  <2> HIDE DEF n
  <2>2. Sum2([name EXCEPT ![i] = name[i + 1], ![i + 1] = name[i]]) # Sum2(name)
    BY <1>1, <2>1, <1>3, SwapIsSeen, Zenon
  <2> QED
    BY <2>2 DEF derive_mac
<1> QED
  BY <1>2, <1>3 DEF SimilarNamesDiffer

\* For every alphabet of bytes and names of every length: the address tells
\* names apart that differ in a letter, or in the order of two neighbours.
THEOREM AddressTellsSimilarNames == NameSpec => []SimilarNamesDiffer
<1> DEFINE Word == name \in Seq(Letters)
<1>1. NameInit => Word
  BY DEF NameInit
<1>2. Word /\ [\E b \in Letters : AppendLetter(b)]_name => Word'
  BY DEF AppendLetter
<1>3. Word => SimilarNamesDiffer
  BY SimilarNames
<1> HIDE DEF Word
<1> QED
  BY <1>1, <1>2, <1>3, PTL DEF NameSpec
-----------------------------------------------------------------------------
(* Loops *)

\* A loop, as the function of its state that its recursion defines.
Loop(f, S, Ends, next) == [s \in S |-> IF s \in Ends THEN s ELSE f[next[s]]]

\* Every turn of a loop brings it nearer to its end.
Nears(S, Ends, next, n, m) ==
  \A s \in S : /\ m[s] \in 0 .. n
               /\ s \notin Ends => next[s] \in S /\ m[next[s]] < m[s]

\* Such a loop ends from every state, so that there is that function.
LEMMA LoopEnds ==
  ASSUME NEW n \in Nat, NEW S, NEW Ends, NEW next, NEW m, Nears(S, Ends, next, n, m)
  PROVE  \E f : f = Loop(f, S, Ends, next)
<1> DEFINE Step(f, s) == IF s \in Ends THEN s ELSE f[next[s]]
           Good(f, k) == \A s \in S : m[s] <= k => f[s] = Step(f, s)
           After(f) == [s \in S |-> Step(f, s)]
           T == {k \in 0 .. n : \E f : Good(f, k)}
<1>1. \A s \in S : /\ m[s] \in 0 .. n
                   /\ s \notin Ends => next[s] \in S /\ m[next[s]] < m[s] /\ m[next[s]] \in 0 .. n
  BY DEF Nears
<1>2. 0 \in T
  <2>1. Good([s \in S |-> s], 0)
    <3> SUFFICES ASSUME NEW s \in S, m[s] <= 0 PROVE s \in Ends
      OBVIOUS
    <3> QED
      BY <1>1
  <2>2. \E f : Good(f, 0)
    BY <2>1, Zenon
  <2> QED
    BY <2>2
<1>3. ASSUME NEW f, NEW k \in 0 .. n, NEW s \in S, Good(f, k), m[s] <= k + 1
      PROVE  After(f)[s] = Step(After(f), s)
  <2>1. CASE s \in Ends
    BY <2>1
  <2>2. CASE s \notin Ends
    <3> DEFINE t == next[s]
    <3>1. t \in S /\ m[t] <= k
      BY <1>1, <1>3, <2>2
    <3>2. f[t] = Step(f, t)
      BY <1>3, <3>1
    <3>3. After(f)[t] = Step(f, t) /\ After(f)[s] = f[t]
      BY <2>2, <3>1
    <3> QED
      BY <2>2, <3>2, <3>3
  <2> QED
    BY <2>1, <2>2
<1>4. ASSUME NEW i \in 1 .. n, i - 1 \in T PROVE i \in T
  <2>1. PICK f : Good(f, i - 1)
    BY <1>4
  <2>2. i - 1 \in 0 .. n /\ (i - 1) + 1 = i
    OBVIOUS
  <2> HIDE DEF Step, After
  <2>3. \A s \in S : m[s] <= (i - 1) + 1 => After(f)[s] = Step(After(f), s)
    BY <1>3, <2>1, <2>2
  <2>4. Good(After(f), i)
    BY <2>2, <2>3
  <2> QED
    BY <2>4
<1>5. n \in T
  <2> HIDE DEF T
  <2>1. 0 .. n \subseteq T
    BY <1>2, <1>4, AllUpTo, Zenon
  <2> QED
    BY <2>1
<1>6. PICK f : Good(f, n)
  BY <1>5
<1>7. \A s \in S : After(f)[s] = Step(After(f), s)
  <2> TAKE s \in S
  <2>1. m[s] <= n + 1 /\ n \in 0 .. n
    BY <1>1
  <2> HIDE DEF Step, After, Good
  <2> QED
    BY <1>3, <1>6, <2>1
<1>8. After(f) = [s \in S |-> Step(After(f), s)]
  BY <1>7
<1> QED
  BY <1>8, Zenon DEF Loop

\* What holds of every end, and is passed back by every turn, holds of the
\* state that a loop ends in.
LEMMA LoopKeeps ==
  ASSUME NEW n \in Nat, NEW S, NEW Ends, NEW next, NEW m, Nears(S, Ends, next, n, m),
         NEW f, f = Loop(f, S, Ends, next), NEW R,
         \A s \in S \cap Ends : <<s, s>> \in R,
         \A s \in S \ Ends : \A r : <<next[s], r>> \in R => <<s, r>> \in R
  PROVE  \A s \in S : <<s, f[s]>> \in R
<1> DEFINE T == {k \in 0 .. n : \A s \in S : m[s] <= k => <<s, f[s]>> \in R}
<1>1. \A s \in S : /\ m[s] \in 0 .. n
                   /\ s \notin Ends => next[s] \in S /\ m[next[s]] < m[s] /\ m[next[s]] \in 0 .. n
  BY DEF Nears
<1>2. \A s \in S : f[s] = IF s \in Ends THEN s ELSE f[next[s]]
  BY Zenon DEF Loop
<1>3. 0 \in T
  <2> SUFFICES ASSUME NEW s \in S, m[s] <= 0 PROVE <<s, f[s]>> \in R
    OBVIOUS
  <2>1. s \in Ends
    BY <1>1
  <2> QED
    BY <1>2, <2>1
<1>4. ASSUME NEW i \in 1 .. n, i - 1 \in T PROVE i \in T
  <2> SUFFICES ASSUME NEW s \in S, m[s] <= i PROVE <<s, f[s]>> \in R
    OBVIOUS
  <2>1. CASE s \in Ends
    BY <1>2, <2>1
  <2>2. CASE s \notin Ends
    <3>1. next[s] \in S /\ m[next[s]] <= i - 1
      BY <1>1, <2>2
    <3>2. <<next[s], f[next[s]]>> \in R
      BY <1>4, <3>1
    <3> QED
      BY <1>2, <2>2, <3>2
  <2> QED
    BY <2>1, <2>2
<1>5. 0 .. n \subseteq T
  <2> HIDE DEF T
  <2> QED
    BY <1>3, <1>4, AllUpTo, Zenon
<1> QED
  BY <1>1, <1>5
-----------------------------------------------------------------------------
(* The date in a manifest *)

\* The days of all years before one, in a calendar that has always been.
YearStart(y) == 365 * y + ((y + 3) \div 4) - ((y + 99) \div 100) + ((y + 399) \div 400)

\* They are the days of its years.
LEMMA NextYearStart == ASSUME NEW y \in Nat PROVE YearStart(y + 1) = YearStart(y) + DaysIn(y)
<1>1. ((y + 4) \div 4) - ((y + 3) \div 4) = IF y % 4 = 0 THEN 1 ELSE 0
  OBVIOUS
<1>2. ((y + 100) \div 100) - ((y + 99) \div 100) = IF y % 100 = 0 THEN 1 ELSE 0
  OBVIOUS
<1>3. ((y + 400) \div 400) - ((y + 399) \div 400) = IF y % 400 = 0 THEN 1 ELSE 0
  OBVIOUS
<1>4. (y % 400 = 0 => y % 100 = 0) /\ (y % 100 = 0 => y % 4 = 0)
  OBVIOUS
<1>5. YearStart(y + 1) = 365 * (y + 1) + ((y + 4) \div 4) - ((y + 100) \div 100) + ((y + 400) \div 400)
  BY DEF YearStart
<1> QED
  BY <1>1, <1>2, <1>3, <1>4, <1>5 DEF YearStart, DaysIn, is_leap

\* No year starts before an earlier one.
LEMMA YearsPass ==
  ASSUME NEW y \in Nat, NEW z \in Nat, y < z PROVE YearStart(y + 1) <= YearStart(z)
BY DEF YearStart

\* A year with so many of its days gone.
InYear(day, y, gone) ==
  y \in Nat /\ gone \in Nat /\ gone < DaysIn(y) /\ YearStart(y) + gone = YearStart(1970) + day

\* There is no other for a day.
LEMMA OneYear ==
  ASSUME NEW day \in Nat, NEW y, NEW r, InYear(day, y, r), NEW z, NEW s, InYear(day, z, s)
  PROVE  y = z /\ r = s
<1>1. /\ y \in Nat /\ z \in Nat /\ r \in Nat /\ s \in Nat /\ r < DaysIn(y) /\ s < DaysIn(z)
      /\ YearStart(y) + r = YearStart(z) + s
  BY DEF InYear
<1>2. YearStart(y) \in Int /\ YearStart(z) \in Int /\ DaysIn(y) \in Int /\ DaysIn(z) \in Int
  BY <1>1 DEF YearStart, DaysIn
<1>3. YearStart(y + 1) = YearStart(y) + DaysIn(y) /\ YearStart(z + 1) = YearStart(z) + DaysIn(z)
  BY <1>1, NextYearStart
<1>4. ~(y < z)
  <2> SUFFICES ASSUME y < z PROVE FALSE
    OBVIOUS
  <2>1. YearStart(y + 1) <= YearStart(z)
    BY <1>1, YearsPass
  <2> QED
    BY <1>1, <1>2, <1>3, <2>1
<1>5. ~(z < y)
  <2> SUFFICES ASSUME z < y PROVE FALSE
    OBVIOUS
  <2>1. YearStart(z + 1) <= YearStart(y)
    BY <1>1, YearsPass
  <2> QED
    BY <1>1, <1>2, <1>3, <2>1
<1> QED
  BY <1>1, <1>2, <1>4, <1>5

\* The loop over the years ends in the year of the day.
LEMMA YearOfDay ==
  ASSUME NEW day \in Nat
  PROVE  InYear(day, AfterYears(day)[1], AfterYears(day)[2])
<1> DEFINE S == Nat \X (0 .. day)
           Ends == {at \in S : at[2] < DaysIn(at[1])}
           next == [at \in S |-> <<at[1] + 1, at[2] - DaysIn(at[1])>>]
           m == [at \in S |-> at[2]]
           Body(f) == [at \in S |-> IF at[2] < DaysIn(at[1]) THEN at
                                   ELSE f[<<at[1] + 1, at[2] - DaysIn(at[1])>>]]
           R == {p \in S \X S : /\ p[2][2] < DaysIn(p[2][1])
                               /\ YearStart(p[2][1]) + p[2][2] = YearStart(p[1][1]) + p[1][2]}
           loop == CHOOSE f : f = Body(f)
<1>1. ASSUME NEW at \in S
      PROVE  /\ at = <<at[1], at[2]>> /\ at[1] \in Nat /\ at[2] \in 0 .. day /\ DaysIn(at[1]) \in 1 .. 366
             /\ YearStart(at[1]) \in Int /\ YearStart(at[1] + 1) = YearStart(at[1]) + DaysIn(at[1])
  <2>1. at = <<at[1], at[2]>> /\ at[1] \in Nat /\ at[2] \in 0 .. day
    OBVIOUS
  <2>2. \A y \in Nat : YearStart(y) \in Int /\ DaysIn(y) \in 1 .. 366
    BY DEF DaysIn, YearStart
  <2> QED
    BY <2>1, <2>2, NextYearStart
<1>2. Nears(S, Ends, next, day, m)
  BY <1>1 DEF Nears
<1>3. ASSUME NEW f PROVE Body(f) = Loop(f, S, Ends, next)
  BY DEF Loop
<1>4. loop = Loop(loop, S, Ends, next)
  <2> HIDE DEF Body, S, Ends, next
  <2>1. \E f : f = Body(f)
    BY <1>2, <1>3, LoopEnds
  <2> QED
    BY <1>3, <2>1
<1>5. \A s \in S \cap Ends : <<s, s>> \in R
  OBVIOUS
<1>6. ASSUME NEW s \in S \ Ends, NEW r, <<next[s], r>> \in R
      PROVE  <<s, r>> \in R
  BY <1>1, <1>6
<1>7. <<1970, day>> \in S
  OBVIOUS
<1>8. AfterYears(day) = loop[<<1970, day>>]
  BY DEF AfterYears
<1>9. <<<<1970, day>>, AfterYears(day)>> \in R
  <2> HIDE DEF S, Ends, next, m, R, loop
  <2> QED
    BY <1>2, <1>4, <1>5, <1>6, <1>7, <1>8, LoopKeeps
<1> QED
  BY <1>9 DEF InYear
\* The days of a year before each of its months, and before the next year.
MonthStarts(y) ==
  LET l == IF is_leap(y) THEN 1 ELSE 0
  IN  <<0, 31, 59 + l, 90 + l, 120 + l, 151 + l, 181 + l, 212 + l, 243 + l, 273 + l, 304 + l,
        334 + l, 365 + l>>

\* They are the days of its months.
LEMMA MonthsPass ==
  ASSUME NEW y \in Nat
  PROVE  /\ MonthStarts(y) \in [1 .. 13 -> Nat] /\ Months(y) \in [1 .. 12 -> 28 .. 31]
         /\ MonthStarts(y)[1] = 0 /\ MonthStarts(y)[13] = DaysIn(y)
         /\ \A i \in 1 .. 12 : MonthStarts(y)[i] < DaysIn(y)
         /\ \A i \in 1 .. 12 : MonthStarts(y)[i + 1] = MonthStarts(y)[i] + Months(y)[i]
<1> DEFINE l == IF is_leap(y) THEN 1 ELSE 0
<1>1. l \in 0 .. 1
  OBVIOUS
<1>2. /\ DaysIn(y) = 365 + l
      /\ Months(y) = <<31, 28 + l, 31, 30, 31, 30, 31, 31, 30, 31, 30, 31>>
  BY DEF DaysIn, Months
<1>3. MonthStarts(y) = <<0, 31, 59 + l, 90 + l, 120 + l, 151 + l, 181 + l, 212 + l, 243 + l,
                         273 + l, 304 + l, 334 + l, 365 + l>>
  BY DEF MonthStarts
<1> HIDE DEF l
<1>4. MonthStarts(y) \in [1 .. 13 -> Nat]
  BY <1>1, <1>3
<1>5. Months(y) \in [1 .. 12 -> 28 .. 31]
  BY <1>1, <1>2
<1>6. MonthStarts(y)[1] = 0 /\ MonthStarts(y)[13] = DaysIn(y)
  BY <1>1, <1>2, <1>3
<1>7. ASSUME NEW i \in 1 .. 12 PROVE MonthStarts(y)[i + 1] = MonthStarts(y)[i] + Months(y)[i]
  BY <1>1, <1>2, <1>3
<1>8. ASSUME NEW i \in 1 .. 12 PROVE MonthStarts(y)[i] < DaysIn(y)
  BY <1>1, <1>2, <1>3
<1> QED
  BY <1>4, <1>5, <1>6, <1>7, <1>8

\* A month of a year with so many of its days gone.
InMonth(left, y, month, gone) ==
  /\ month \in 1 .. 12 /\ gone \in Nat /\ gone < Months(y)[month]
  /\ MonthStarts(y)[month] + gone = left

\* There is no other for a day of the year.
LEMMA OneMonth ==
  ASSUME NEW y \in Nat, NEW left \in Nat, NEW i, NEW r, InMonth(left, y, i, r),
         NEW j, NEW s, InMonth(left, y, j, s)
  PROVE  i = j /\ r = s
<1> DEFINE starts == MonthStarts(y)
           months == Months(y)
<1>1. /\ i \in 1 .. 12 /\ j \in 1 .. 12 /\ r \in Nat /\ s \in Nat /\ r < months[i] /\ s < months[j]
      /\ starts[i] + r = left /\ starts[j] + s = left
  BY DEF InMonth
<1>2. /\ starts \in [1 .. 13 -> Nat] /\ months \in [1 .. 12 -> 28 .. 31]
      /\ \A k \in 1 .. 12 : starts[k + 1] = starts[k] + months[k]
  BY MonthsPass
<1> HIDE DEF starts, months
<1>3. ASSUME NEW k \in 1 .. 12 PROVE \A h \in 1 .. 12 : k < h => starts[k + 1] <= starts[h]
  <2> DEFINE T == {h \in 0 .. 12 : k < h => starts[k + 1] <= starts[h]}
  <2>1. 0 \in T
    OBVIOUS
  <2>2. ASSUME NEW h \in 1 .. 12, h - 1 \in T PROVE h \in T
    <3>1. CASE h <= k
      BY <3>1
    <3>2. CASE h = k + 1
      BY <3>2, <1>2
    <3>3. CASE h > k + 1
      <4>1. h - 1 \in 1 .. 12 /\ (h - 1) + 1 = h /\ starts[k + 1] <= starts[h - 1]
        BY <2>2, <3>3
      <4>2. /\ starts[h] = starts[h - 1] + months[h - 1] /\ months[h - 1] \in 28 .. 31
            /\ starts[h - 1] \in Nat /\ starts[k + 1] \in Nat
        BY <1>2, <4>1
      <4> QED
        BY <4>1, <4>2
    <3> QED
      BY <3>1, <3>2, <3>3
  <2> HIDE DEF T
  <2>3. 0 .. 12 \subseteq T
    BY <2>1, <2>2, AllUpTo
  <2> QED
    BY <2>3 DEF T
<1>4. /\ starts[i] \in Nat /\ starts[j] \in Nat /\ months[i] \in Nat /\ months[j] \in Nat
      /\ starts[i + 1] = starts[i] + months[i] /\ starts[j + 1] = starts[j] + months[j]
  BY <1>1, <1>2
<1>5. ~(i < j)
  BY <1>1, <1>3, <1>4
<1>6. ~(j < i)
  BY <1>1, <1>3, <1>4
<1> QED
  BY <1>1, <1>4, <1>5, <1>6

\* The loop over the months ends in the month of the day.
LEMMA MonthOfDay ==
  ASSUME NEW y \in Nat, NEW left \in Nat, left < DaysIn(y)
  PROVE  InMonth(left, y, AfterMonths(Months(y), left)[1], AfterMonths(Months(y), left)[2])
<1> DEFINE starts == MonthStarts(y)
           months == Months(y)
           S == (1 .. 13) \X (0 .. left)
           Ends == {at \in S : at[1] = 13 \/ at[2] < months[at[1]]}
           next == [at \in S |-> <<at[1] + 1, at[2] - months[at[1]]>>]
           m == [at \in S |-> 13 - at[1]]
           Body(f) == [at \in S |-> IF at[1] = 13 \/ at[2] < months[at[1]] THEN at
                                   ELSE f[<<at[1] + 1, at[2] - months[at[1]]>>]]
           R == {p \in S \X S : p[2] \in Ends /\ starts[p[2][1]] + p[2][2] = starts[p[1][1]] + p[1][2]}
           loop == CHOOSE f : f = Body(f)
<1>1. /\ starts \in [1 .. 13 -> Nat] /\ months \in [1 .. 12 -> 28 .. 31]
      /\ starts[1] = 0 /\ starts[13] = DaysIn(y)
      /\ \A k \in 1 .. 12 : starts[k + 1] = starts[k] + months[k]
  BY MonthsPass
<1>2. AfterMonths(months, left) = loop[<<1, left>>]
  BY DEF AfterMonths
<1> HIDE DEF starts, months
<1>3. ASSUME NEW at \in S
      PROVE  /\ at = <<at[1], at[2]>> /\ at[1] \in 1 .. 13 /\ at[2] \in 0 .. left
             /\ starts[at[1]] \in Nat
             /\ at[1] # 13 => /\ at[1] \in 1 .. 12 /\ months[at[1]] \in 28 .. 31
                              /\ starts[at[1] + 1] = starts[at[1]] + months[at[1]]
  BY <1>1
<1>4. Nears(S, Ends, next, 12, m)
  BY <1>3 DEF Nears
<1>5. ASSUME NEW f PROVE Body(f) = Loop(f, S, Ends, next)
  BY DEF Loop
<1>6. loop = Loop(loop, S, Ends, next)
  <2> HIDE DEF Body, S, Ends, next
  <2>1. \E f : f = Body(f)
    BY <1>4, <1>5, LoopEnds
  <2> QED
    BY <1>5, <2>1
<1>7. \A s \in S \cap Ends : <<s, s>> \in R
  OBVIOUS
<1>8. ASSUME NEW s \in S \ Ends, NEW r, <<next[s], r>> \in R
      PROVE  <<s, r>> \in R
  <2>1. /\ s \in S /\ s[1] \in 1 .. 12 /\ ~(s[2] < months[s[1]])
        /\ next[s] = <<s[1] + 1, s[2] - months[s[1]]>>
    BY <1>3
  <2>2. r \in S /\ r \in Ends /\ starts[r[1]] + r[2] = starts[s[1] + 1] + (s[2] - months[s[1]])
    BY <1>8, <2>1
  <2>3. starts[s[1] + 1] + (s[2] - months[s[1]]) = starts[s[1]] + s[2]
    BY <1>3, <2>1
  <2> QED
    BY <2>1, <2>2, <2>3
<1>9. <<1, left>> \in S
  OBVIOUS
<1>10. <<<<1, left>>, AfterMonths(months, left)>> \in R
  <2> HIDE DEF S, Ends, next, m, R, loop
  <2> QED
    BY <1>4, <1>6, <1>7, <1>8, <1>9, <1>2, LoopKeeps
<1>11. ASSUME NEW k \in 1 .. 13, NEW gone \in 0 .. left, k = 13 \/ gone < months[k],
              starts[k] + gone = left
       PROVE  InMonth(left, y, k, gone)
  <2> DEFINE total == DaysIn(y)
  <2>1. total \in Nat /\ starts[13] = total
    BY <1>1 DEF DaysIn
  <2>2. left < total
    OBVIOUS
  <2> HIDE DEF total
  <2>3. k # 13
    BY <1>11, <2>1, <2>2
  <2>4. k \in 1 .. 12 /\ gone \in Nat
    BY <2>3
  <2> QED
    BY <1>11, <2>3, <2>4, Zenon DEF InMonth, starts, months
<1>12. ASSUME NEW r, <<<<1, left>>, r>> \in R
       PROVE  InMonth(left, y, r[1], r[2])
  <2>1. /\ r[1] \in 1 .. 13 /\ r[2] \in 0 .. left /\ (r[1] = 13 \/ r[2] < months[r[1]])
        /\ starts[r[1]] + r[2] = starts[1] + left
    BY <1>12
  <2> HIDE DEF S, Ends, next, m, R, loop
  <2>2. starts[1] + left = left
    BY <1>1
  <2>3. starts[r[1]] + r[2] = left
    BY <2>1, <2>2, Zenon
  <2> QED
    BY <1>11, <2>1, <2>3
<1> QED
  BY <1>10, <1>12 DEF months

\* A day by its year, its month and the days of that month that are gone.
OnDay(day, y, month, gone) ==
  /\ y \in Nat /\ month \in 1 .. 12 /\ gone \in Nat /\ gone < Months(y)[month]
  /\ YearStart(y) + MonthStarts(y)[month] + gone = YearStart(1970) + day

\* The days of a year before, in and after a month of it.
MonthFits(y, month) ==
  LET start == MonthStarts(y)[month]
      last  == Months(y)[month]
  IN  /\ start \in Nat /\ last \in Nat /\ 0 < last /\ DaysIn(y) \in Nat
      /\ YearStart(y) \in Int /\ YearStart(1970) \in Int
      /\ MonthStarts(y)[month + 1] = start + last
      /\ start + last <= DaysIn(y) /\ (month = 12 => start + last = DaysIn(y))

\* They fit.
LEMMA MonthInYear == ASSUME NEW y \in Nat, NEW month \in 1 .. 12 PROVE MonthFits(y, month)
<1> DEFINE starts == MonthStarts(y)
           months == Months(y)
           total == DaysIn(y)
<1>1. /\ starts \in [1 .. 13 -> Nat] /\ months \in [1 .. 12 -> 28 .. 31] /\ starts[13] = total
      /\ \A i \in 1 .. 12 : starts[i] < total
      /\ \A i \in 1 .. 12 : starts[i + 1] = starts[i] + months[i]
  BY MonthsPass
<1>2. total \in Nat /\ YearStart(y) \in Int /\ YearStart(1970) \in Int
  BY DEF DaysIn, YearStart
<1> HIDE DEF starts, months, total
<1>3. /\ starts[month] \in Nat /\ months[month] \in 28 .. 31
      /\ starts[month + 1] = starts[month] + months[month]
  BY <1>1
<1>4. CASE month = 12
  <2>1. starts[month] + months[month] = total
    BY <1>1, <1>3, <1>4
  <2> QED
    BY <1>2, <1>3, <2>1 DEF starts, months, total, MonthFits
<1>5. CASE month # 12
  <2>1. starts[month + 1] < total
    BY <1>1, <1>5
  <2> QED
    BY <1>2, <1>3, <1>5, <2>1 DEF starts, months, total, MonthFits
<1> QED
  BY <1>4, <1>5

\* So many days of the year are gone.
LEMMA DayOfYear ==
  ASSUME NEW day \in Nat, NEW y, NEW month, NEW gone, OnDay(day, y, month, gone)
  PROVE  /\ InYear(day, y, MonthStarts(y)[month] + gone)
         /\ InMonth(MonthStarts(y)[month] + gone, y, month, gone)
<1> DEFINE start == MonthStarts(y)[month]
           more == Months(y)[month]
           total == DaysIn(y)
<1>1. y \in Nat /\ month \in 1 .. 12 /\ gone \in Nat /\ gone < more
  BY DEF OnDay
<1>2. /\ start \in Nat /\ more \in Nat /\ total \in Nat /\ start + more <= total
      /\ YearStart(y) \in Int /\ YearStart(1970) \in Int
  <2>1. MonthFits(y, month)
    BY <1>1, MonthInYear
  <2> QED
    BY <2>1 DEF MonthFits
<1>3. YearStart(y) + (start + gone) = YearStart(1970) + day
  <2>1. YearStart(y) + start + gone = YearStart(1970) + day
    BY DEF OnDay
  <2> HIDE DEF start
  <2> QED
    BY <1>1, <1>2, <2>1
<1>4. InMonth(start + gone, y, month, gone)
  BY <1>1 DEF InMonth
<1>5. InYear(day, y, start + gone)
  <2> HIDE DEF start, more, total
  <2>1. start + gone \in Nat /\ start + gone < total
    BY <1>1, <1>2
  <2> QED
    BY <1>1, <1>3, <2>1 DEF InYear, total
<1> QED
  BY <1>4, <1>5

\* That is its date.
LEMMA OneDate ==
  ASSUME NEW day \in Nat, NEW y, NEW month, NEW gone, OnDay(day, y, month, gone)
  PROVE  days_to_ymd(day) = <<y, month, gone + 1>>
<1> DEFINE left == MonthStarts(y)[month] + gone
           year == AfterYears(day)
           end == AfterMonths(Months(y), left)
<1>1. InYear(day, y, left) /\ InMonth(left, y, month, gone)
  BY DayOfYear
<1>2. InYear(day, year[1], year[2])
  BY YearOfDay
<1> HIDE DEF left, year
<1>3. year[1] = y /\ year[2] = left
  BY <1>1, <1>2, OneYear
<1>4. y \in Nat /\ left \in Nat /\ left < DaysIn(y)
  BY <1>1 DEF InYear
<1>5. InMonth(left, y, end[1], end[2])
  BY <1>4, MonthOfDay
<1> HIDE DEF end
<1>6. end[1] = month /\ end[2] = gone
  BY <1>1, <1>4, <1>5, OneMonth
<1>7. AfterMonths(Months(year[1]), year[2]) = end
  BY <1>3, Zenon DEF end
<1>8. days_to_ymd(day) = <<year[1], end[1], end[2] + 1>>
  BY <1>7, Zenon DEF days_to_ymd, year
<1> QED
  BY <1>3, <1>6, <1>8, Zenon

\* Every day has a date.
LEMMA SomeDate ==
  ASSUME NEW day \in Nat
  PROVE  \E y, month, gone : OnDay(day, y, month, gone)
<1> DEFINE y == AfterYears(day)[1]
           left == AfterYears(day)[2]
           month == AfterMonths(Months(y), left)[1]
           gone == AfterMonths(Months(y), left)[2]
<1>1. InYear(day, y, left)
  BY YearOfDay
<1> HIDE DEF y, left
<1>2. y \in Nat /\ left \in Nat /\ left < DaysIn(y) /\ YearStart(y) + left = YearStart(1970) + day
  BY <1>1 DEF InYear
<1>3. InMonth(left, y, month, gone)
  BY <1>2, MonthOfDay
<1> HIDE DEF month, gone
<1>4. /\ month \in 1 .. 12 /\ gone \in Nat /\ gone < Months(y)[month]
      /\ MonthStarts(y)[month] + gone = left
  BY <1>3 DEF InMonth
<1> DEFINE start == MonthStarts(y)[month]
<1>5. start \in Nat /\ YearStart(y) \in Int
  <2>1. MonthFits(y, month)
    BY <1>2, <1>4, MonthInYear
  <2> QED
    BY <2>1 DEF MonthFits
<1>6. YearStart(y) + start + gone = YearStart(1970) + day
  <2>1. start + gone = left
    BY <1>4
  <2> HIDE DEF start
  <2> QED
    BY <1>2, <1>4, <1>5, <2>1
<1>7. OnDay(day, y, month, gone)
  BY <1>2, <1>4, <1>6 DEF OnDay
<1> QED
  BY <1>7

\* The calendar's months are the code's.
LEMMA LastOfMonth ==
  ASSUME NEW y \in Nat, NEW month \in 1 .. 12 PROVE LastOf(y, month) = Months(y)[month]
<1>1. Leap(y) <=> is_leap(y)
  <2>1. y % 400 = 0 <=> y % 100 = 0 /\ (y \div 100) % 4 = 0
    OBVIOUS
  <2>2. y % 100 = 0 => y % 4 = 0
    OBVIOUS
  <2> QED
    BY <2>1, <2>2 DEF Leap, is_leap
<1> QED
  BY <1>1 DEF LastOf, Months

\* The calendar's next day is the code's.
LEMMA NextDate ==
  ASSUME NEW day \in Nat, NEW y, NEW month, NEW gone, OnDay(day, y, month, gone)
  PROVE  Tomorrow(<<y, month, gone + 1>>) = days_to_ymd(day + 1)
<1> DEFINE start == MonthStarts(y)[month]
           last == Months(y)[month]
<1>1. /\ y \in Nat /\ month \in 1 .. 12 /\ gone \in Nat /\ gone < last /\ day + 1 \in Nat
      /\ YearStart(y) + start + gone = YearStart(1970) + day
  BY DEF OnDay
<1>2. /\ start \in Nat /\ last \in Nat /\ last = LastOf(y, month)
      /\ YearStart(y) \in Int /\ YearStart(1970) \in Int
  <2>1. MonthFits(y, month) /\ LastOf(y, month) = last
    BY <1>1, MonthInYear, LastOfMonth
  <2> QED
    BY <2>1 DEF MonthFits
<1>3. MonthStarts(y)[month + 1] = start + last /\ (month = 12 => start + last = DaysIn(y))
  <2>1. MonthFits(y, month)
    BY <1>1, MonthInYear
  <2> QED
    BY <2>1 DEF MonthFits
<1>4. CASE gone + 1 < last
  <2>1. OnDay(day + 1, y, month, gone + 1)
    <3>1. gone + 1 \in Nat /\ gone + 1 < Months(y)[month]
      BY <1>1, <1>4
    <3> HIDE DEF start, last
    <3>2. YearStart(y) + start + (gone + 1) = YearStart(1970) + (day + 1)
      BY <1>1, <1>2
    <3> QED
      BY <1>1, <3>1, <3>2 DEF OnDay, start
  <2>2. days_to_ymd(day + 1) = <<y, month, (gone + 1) + 1>>
    BY <1>1, <2>1, OneDate
  <2>3. Tomorrow(<<y, month, gone + 1>>) = <<y, month, (gone + 1) + 1>>
    BY <1>2, <1>4 DEF Tomorrow
  <2> QED
    BY <2>2, <2>3
<1>5. CASE gone + 1 = last /\ month < 12
  <2>1. OnDay(day + 1, y, month + 1, 0)
    <3>1. month + 1 \in 1 .. 12
      BY <1>1, <1>5
    <3>2. 0 < Months(y)[month + 1]
      BY <1>1, <3>1, MonthInYear DEF MonthFits
    <3> HIDE DEF start, last
    <3>3. YearStart(y) + MonthStarts(y)[month + 1] + 0 = YearStart(1970) + (day + 1)
      BY <1>1, <1>2, <1>3, <1>5
    <3> QED
      BY <1>1, <3>1, <3>2, <3>3 DEF OnDay
  <2>2. days_to_ymd(day + 1) = <<y, month + 1, 0 + 1>>
    BY <1>1, <2>1, OneDate
  <2>3. Tomorrow(<<y, month, gone + 1>>) = <<y, month + 1, 1>>
    BY <1>2, <1>5 DEF Tomorrow
  <2> QED
    BY <2>2, <2>3
<1>6. CASE gone + 1 = last /\ month = 12
  <2>1. OnDay(day + 1, y + 1, 1, 0)
    <3>1. y + 1 \in Nat /\ 0 < Months(y + 1)[1] /\ MonthStarts(y + 1)[1] = 0
      <4>1. y + 1 \in Nat /\ 1 \in 1 .. 12
        BY <1>1
      <4> QED
        BY <4>1, MonthInYear, MonthsPass DEF MonthFits
    <3>2. YearStart(y + 1) = YearStart(y) + (start + last)
      BY <1>1, <1>3, <1>6, NextYearStart
    <3> HIDE DEF start, last
    <3>3. YearStart(y + 1) + 0 + 0 = YearStart(1970) + (day + 1)
      BY <1>1, <1>2, <1>6, <3>2
    <3> QED
      BY <3>1, <3>3 DEF OnDay
  <2>2. days_to_ymd(day + 1) = <<y + 1, 1, 0 + 1>>
    BY <1>1, <2>1, OneDate
  <2>3. Tomorrow(<<y, month, gone + 1>>) = <<y + 1, 1, 1>>
    BY <1>2, <1>6 DEF Tomorrow
  <2> QED
    BY <2>2, <2>3
<1> QED
  BY <1>1, <1>2, <1>4, <1>5, <1>6

\* From every first day on, for ever: the date that a manifest gets is that of
\* the calendar.
THEOREM DatesAreRight == CalendarSpec => []DateIsRight
<1> DEFINE Right == days \in Nat /\ DateIsRight
<1>1. CalendarInit => Right
  BY DayAssumption DEF CalendarInit, DateIsRight
<1>2. Right /\ [NextDay]_<<days, date>> => Right'
  <2> SUFFICES ASSUME Right, [NextDay]_<<days, date>> PROVE Right'
    OBVIOUS
  <2>1. CASE NextDay
    <3>1. days' = days + 1 /\ date' = Tomorrow(date) /\ days \in Nat /\ date = days_to_ymd(days)
      BY <2>1 DEF NextDay, DateIsRight
    <3>2. PICK y, month, gone : OnDay(days, y, month, gone)
      BY <3>1, SomeDate
    <3>3. date = <<y, month, gone + 1>>
      BY <3>1, <3>2, OneDate
    <3>4. Tomorrow(date) = days_to_ymd(days + 1)
      BY <3>1, <3>2, <3>3, NextDate
    <3> QED
      BY <3>1, <3>4 DEF DateIsRight
  <2>2. CASE UNCHANGED <<days, date>>
    BY <2>2 DEF DateIsRight
  <2> QED
    BY <2>1, <2>2
<1>3. Right => DateIsRight
  OBVIOUS
<1> HIDE DEF Right
<1> QED
  BY <1>1, <1>2, <1>3, PTL DEF CalendarSpec
-----------------------------------------------------------------------------
(* The bits of a digest *)

\* One turn of the recursion of Or, and the function that it defines.
OrTurn(f, at) ==
  IF at = <<0, 0>> THEN 0
  ELSE 2 * f[<<at[1] \div 2, at[2] \div 2>>] + IF at[1] % 2 = 1 \/ at[2] % 2 = 1 THEN 1 ELSE 0
Pairs(x, y) == (0 .. x) \X (0 .. y)
Ors(f, x, y) == [at \in Pairs(x, y) |-> OrTurn(f, at)]

\* Halving leads to <<0, 0>>.
LEMMA Halves ==
  ASSUME NEW x \in Nat, NEW y \in Nat, NEW at \in Pairs(x, y)
  PROVE  /\ at[1] + at[2] \in 0 .. x + y
         /\ <<at[1] \div 2, at[2] \div 2>> \in Pairs(x, y)
         /\ at # <<0, 0>> => (at[1] \div 2) + (at[2] \div 2) < at[1] + at[2]
BY DEF Pairs

\* There is that function.
LEMMA OrsExist ==
  ASSUME NEW x \in Nat, NEW y \in Nat
  PROVE  \E f : f = Ors(f, x, y)
<1> DEFINE S == Pairs(x, y)
           m(at) == at[1] + at[2]
           half(at) == <<at[1] \div 2, at[2] \div 2>>
           Good(f, k) == \A at \in S : m(at) <= k => f[at] = OrTurn(f, at)
           After(f) == [at \in S |-> OrTurn(f, at)]
           T == {k \in 0 .. x + y : \E f : Good(f, k)}
<1>1. \A at \in S : /\ m(at) \in 0 .. x + y /\ half(at) \in S /\ m(half(at)) \in 0 .. x + y
                    /\ at # <<0, 0>> => m(half(at)) < m(at)
  BY Halves
<1>2. \A f, g : \A at \in S : (at # <<0, 0>> => f[half(at)] = g[half(at)])
                          => OrTurn(f, at) = OrTurn(g, at)
  BY DEF OrTurn
<1> HIDE DEF S, m, half
<1>3. 0 \in T
  <2>1. Good([at \in S |-> 0], 0)
    <3> SUFFICES ASSUME NEW at \in S, m(at) <= 0 PROVE OrTurn([s \in S |-> 0], at) = 0
      OBVIOUS
    <3>1. at = <<0, 0>>
      BY <1>1
    <3> QED
      BY <3>1 DEF OrTurn
  <2>2. \E f : Good(f, 0)
    BY <2>1, Zenon
  <2>3. 0 \in 0 .. x + y
    OBVIOUS
  <2> QED
    BY <2>2, <2>3
<1>4. ASSUME NEW f, NEW k \in 0 .. x + y, NEW at \in S, Good(f, k), m(at) <= k + 1
      PROVE  After(f)[at] = OrTurn(After(f), at)
  <2>1. CASE at = <<0, 0>>
    BY <2>1 DEF OrTurn
  <2>2. CASE at # <<0, 0>>
    <3>1. half(at) \in S /\ m(half(at)) <= k
      BY <1>1, <1>4, <2>2
    <3>2. f[half(at)] = After(f)[half(at)]
      BY <1>4, <3>1
    <3> HIDE DEF After
    <3>3. OrTurn(f, at) = OrTurn(After(f), at)
      BY <1>2, <3>2
    <3> QED
      BY <3>3 DEF After
  <2> QED
    BY <2>1, <2>2
<1>5. ASSUME NEW i \in 1 .. x + y, i - 1 \in T PROVE i \in T
  <2>1. PICK f : Good(f, i - 1)
    BY <1>5
  <2>2. i - 1 \in 0 .. x + y /\ (i - 1) + 1 = i
    OBVIOUS
  <2> HIDE DEF After
  <2>3. \A at \in S : m(at) <= (i - 1) + 1 => After(f)[at] = OrTurn(After(f), at)
    BY <1>4, <2>1, <2>2
  <2>4. Good(After(f), i)
    BY <2>2, <2>3
  <2> QED
    BY <2>4
<1>6. x + y \in T
  <2> HIDE DEF T
  <2>1. x + y \in Nat
    OBVIOUS
  <2>2. 0 .. x + y \subseteq T
    BY <1>3, <1>5, <2>1, AllUpTo, Zenon
  <2> QED
    BY <2>2
<1>7. PICK f : Good(f, x + y)
  BY <1>6
<1>8. \A at \in S : After(f)[at] = OrTurn(After(f), at)
  <2> TAKE at \in S
  <2>1. m(at) <= (x + y) + 1 /\ x + y \in 0 .. x + y
    BY <1>1
  <2> HIDE DEF After, Good
  <2> QED
    BY <1>4, <1>7, <2>1
<1>9. After(f) = [at \in S |-> OrTurn(After(f), at)]
  BY <1>8
<1> QED
  BY <1>9, Zenon DEF Ors, S

\* Or is a value of it.
LEMMA OrIs ==
  ASSUME NEW x \in Nat, NEW y \in Nat
  PROVE  \E f : Or(x, y) = f[<<x, y>>] /\ \A at \in Pairs(x, y) : f[at] = OrTurn(f, at)
<1> DEFINE f == CHOOSE g : g = Ors(g, x, y)
<1>1. Or(x, y) = f[<<x, y>>]
  BY DEF Or, Ors, OrTurn, Pairs
<1>2. f = Ors(f, x, y)
  BY OrsExist
<1> HIDE DEF f
<1>3. \A at \in Pairs(x, y) : f[at] = OrTurn(f, at)
  BY <1>2 DEF Ors
<1> QED
  BY <1>1, <1>3

\* Two numbers without a bit in common, one below a power of two that divides
\* the other, and a function that adds such numbers up.
Split(x, y, p) == x < p /\ \E q \in Nat : y = p * q
Adds(f, x, y, p) ==
  \A a \in 0 .. x, b \in 0 .. y :
    Split(a, b, p) \/ Split(b, a, p) => f[<<a, b>>] = a + b

\* Below 1 is 0, whatever the other number is.
LEMMA AddsZero ==
  ASSUME NEW x \in Nat, NEW y \in Nat, NEW f, \A at \in Pairs(x, y) : f[at] = OrTurn(f, at)
  PROVE  Adds(f, x, y, 1)
<1> DEFINE m(at) == at[1] + at[2]
           T == {k \in 0 .. x + y : \A at \in Pairs(x, y) :
                   m(at) <= k /\ (at[1] = 0 \/ at[2] = 0) => f[at] = at[1] + at[2]}
<1>1. 0 \in T
  <2> SUFFICES ASSUME NEW at \in Pairs(x, y), m(at) <= 0 PROVE f[at] = at[1] + at[2]
    BY DEF Pairs
  <2>1. at = <<0, 0>>
    BY DEF Pairs
  <2> QED
    BY <2>1 DEF OrTurn
<1>2. ASSUME NEW k \in 1 .. x + y, k - 1 \in T PROVE k \in T
  <2> SUFFICES ASSUME NEW at \in Pairs(x, y), m(at) <= k, at[1] = 0 \/ at[2] = 0
               PROVE  f[at] = at[1] + at[2]
    OBVIOUS
  <2>1. CASE at = <<0, 0>>
    BY <2>1 DEF OrTurn
  <2>2. CASE at # <<0, 0>>
    <3> DEFINE half == <<at[1] \div 2, at[2] \div 2>>
    <3>1. /\ half \in Pairs(x, y) /\ m(half) <= k - 1 /\ (half[1] = 0 \/ half[2] = 0)
          /\ half[1] = at[1] \div 2 /\ half[2] = at[2] \div 2
      BY <2>2, Halves DEF Pairs
    <3> HIDE DEF half
    <3>2. f[half] = half[1] + half[2]
      BY <1>2, <3>1
    <3>3. f[at] = 2 * f[half] + IF at[1] % 2 = 1 \/ at[2] % 2 = 1 THEN 1 ELSE 0
      BY <2>2, Zenon DEF OrTurn, half
    <3>4. at[1] \in Nat /\ at[2] \in Nat
      BY DEF Pairs
    <3>5. \A a, b \in Nat : a = 0 \/ b = 0 =>
            2 * ((a \div 2) + (b \div 2)) + (IF a % 2 = 1 \/ b % 2 = 1 THEN 1 ELSE 0) = a + b
      OBVIOUS
    <3>6. f[half] = (at[1] \div 2) + (at[2] \div 2)
      BY <3>1, <3>2
    <3>7. 2 * ((at[1] \div 2) + (at[2] \div 2))
            + (IF at[1] % 2 = 1 \/ at[2] % 2 = 1 THEN 1 ELSE 0) = at[1] + at[2]
      BY <3>4, <3>5, Zenon
    <3> QED
      BY <3>3, <3>6, <3>7, Zenon
  <2> QED
    BY <2>1, <2>2
<1>3. x + y \in T
  <2> HIDE DEF T
  <2>1. x + y \in Nat
    OBVIOUS
  <2>2. 0 .. x + y \subseteq T
    BY <1>1, <1>2, <2>1, AllUpTo, Zenon
  <2> QED
    BY <2>1, <2>2
<1> SUFFICES ASSUME NEW a \in 0 .. x, NEW b \in 0 .. y, a = 0 \/ b = 0
             PROVE  f[<<a, b>>] = a + b
  BY DEF Adds, Split
<1>4. <<a, b>> \in Pairs(x, y)
  BY DEF Pairs
<1>5. m(<<a, b>>) <= x + y
  OBVIOUS
<1> QED
  BY <1>3, <1>4, <1>5

\* Numbers that are so apart at twice a power have halves that are at the power.
LEMMA SplitHalves ==
  ASSUME NEW p \in Nat, NEW a \in Nat, NEW b \in Nat, Split(a, b, 2 * p)
  PROVE  Split(a \div 2, b \div 2, p) /\ b = 2 * (b \div 2)
<1>1. PICK q \in Nat : b = (2 * p) * q
  BY DEF Split
<1>2. (2 * p) * q = 2 * (p * q) /\ p * q \in Nat
  OBVIOUS
<1> DEFINE r == p * q
<1>3. b = 2 * r /\ r \in Nat
  BY <1>1, <1>2
<1>4. r = p * q
  OBVIOUS
<1> HIDE DEF r
<1>5. b \div 2 = r
  BY <1>3
<1> QED
  BY <1>3, <1>4, <1>5 DEF Split

\* A function that adds at a power of two adds at the next.
LEMMA AddsTwice ==
  ASSUME NEW x \in Nat, NEW y \in Nat, NEW f, \A at \in Pairs(x, y) : f[at] = OrTurn(f, at),
         NEW p \in Nat, Adds(f, x, y, p)
  PROVE  Adds(f, x, y, 2 * p)
<1> SUFFICES ASSUME NEW a \in 0 .. x, NEW b \in 0 .. y, Split(a, b, 2 * p) \/ Split(b, a, 2 * p)
             PROVE  f[<<a, b>>] = a + b
  BY DEF Adds
<1>1. a \in Nat /\ b \in Nat /\ a \div 2 \in 0 .. x /\ b \div 2 \in 0 .. y
  OBVIOUS
<1>2. /\ Split(a \div 2, b \div 2, p) \/ Split(b \div 2, a \div 2, p)
      /\ a = 2 * (a \div 2) \/ b = 2 * (b \div 2)
  BY <1>1, SplitHalves
<1>3. f[<<a \div 2, b \div 2>>] = (a \div 2) + (b \div 2)
  BY <1>1, <1>2 DEF Adds
<1>4. CASE a = 0 /\ b = 0
  BY <1>4 DEF OrTurn, Pairs
<1>5. CASE ~(a = 0 /\ b = 0)
  <2>1. f[<<a, b>>] = 2 * f[<<a \div 2, b \div 2>>] + IF a % 2 = 1 \/ b % 2 = 1 THEN 1 ELSE 0
    BY <1>5 DEF OrTurn, Pairs
  <2> QED
    BY <1>1, <1>2, <1>3, <2>1
<1> QED
  BY <1>4, <1>5

\* The powers of two that the shifts of both codings leave apart.
Powers == {1, 2, 4, 8, 16, 32, 64, 128, 256, 4096, 262144}

\* Numbers without a bit in common are or-ed by adding them up.
LEMMA OrAdds ==
  ASSUME NEW x \in Nat, NEW y \in Nat, NEW p \in Powers, Split(x, y, p) \/ Split(y, x, p)
  PROVE  Or(x, y) = x + y
<1>1. PICK f : Or(x, y) = f[<<x, y>>] /\ \A at \in Pairs(x, y) : f[at] = OrTurn(f, at)
  BY OrIs
<1> DEFINE A(n) == Adds(f, x, y, n)
<1>2. ASSUME NEW n \in Nat, A(n) PROVE A(2 * n)
  BY <1>1, <1>2, AddsTwice
<1>3. A(1)
  BY <1>1, AddsZero
<1> HIDE DEF A
<1>4. A(2) /\ A(4) /\ A(8) /\ A(16)
  <2>1. A(2 * 1)
    BY <1>2, <1>3
  <2>2. A(2 * 2)
    BY <1>2, <2>1
  <2>3. A(2 * 4)
    BY <1>2, <2>2
  <2>4. A(2 * 8)
    BY <1>2, <2>3
  <2> QED
    BY <2>1, <2>2, <2>3, <2>4
<1>5. ASSUME NEW n \in Nat, A(n) PROVE A(16 * n)
  <2>1. A(2 * n)
    BY <1>2, <1>5
  <2>2. A(2 * (2 * n))
    BY <1>2, <2>1
  <2>3. A(2 * (2 * (2 * n)))
    BY <1>2, <2>2
  <2>4. A(2 * (2 * (2 * (2 * n))))
    BY <1>2, <2>3
  <2>5. 2 * (2 * (2 * (2 * n))) = 16 * n
    OBVIOUS
  <2> QED
    BY <2>4, <2>5
<1>6. A(16 * 2) /\ A(16 * 4) /\ A(16 * 8) /\ A(16 * 16)
  BY <1>4, <1>5
<1>7. A(16 * 256)
  BY <1>5, <1>6
<1>8. A(16 * (16 * 256))
  BY <1>5, <1>7
<1>9. A(2 * (16 * (16 * 256)))
  BY <1>2, <1>8
<1>10. A(2 * (2 * (16 * (16 * 256))))
  BY <1>2, <1>9
<1>11. A(p)
  BY <1>3, <1>4, <1>6, <1>7, <1>10 DEF Powers
<1> QED
  BY <1>1, <1>11 DEF Adds, A

\* A bit of a byte, and a byte of the digest, after which there is 0.
Bit(b, m) == (b \div 2^m) % 2
ByteAt(k) == IF k < Len(bytes) THEN bytes[k + 1] ELSE 0

\* A byte as the sum of eight bits.
Binary(b, z0, z1, z2, z3, z4, z5, z6, z7) ==
  /\ z0 \in 0 .. 1 /\ z1 \in 0 .. 1 /\ z2 \in 0 .. 1 /\ z3 \in 0 .. 1
  /\ z4 \in 0 .. 1 /\ z5 \in 0 .. 1 /\ z6 \in 0 .. 1 /\ z7 \in 0 .. 1
  /\ b = z0 + 2 * z1 + 4 * z2 + 8 * z3 + 16 * z4 + 32 * z5 + 64 * z6 + 128 * z7

\* Halved seven times, a number is the sum of what is left over.
LEMMA Halving ==
  ASSUME NEW b \in Int, NEW h1 \in Int, NEW h2 \in Int, NEW h3 \in Int,
         NEW h4 \in Int, NEW h5 \in Int, NEW h6 \in Int,
         NEW z0 \in Int, NEW z1 \in Int, NEW z2 \in Int, NEW z3 \in Int,
         NEW z4 \in Int, NEW z5 \in Int, NEW z6 \in Int, NEW z7 \in Int,
         b = 2 * h1 + z0, h1 = 2 * h2 + z1, h2 = 2 * h3 + z2, h3 = 2 * h4 + z3,
         h4 = 2 * h5 + z4, h5 = 2 * h6 + z5, h6 = 2 * z7 + z6
  PROVE  b = z0 + 2 * z1 + 4 * z2 + 8 * z3 + 16 * z4 + 32 * z5 + 64 * z6 + 128 * z7
OBVIOUS

\* The bits of a byte are so.
LEMMA InBinary ==
  ASSUME NEW b \in 0 .. 255
  PROVE  Binary(b, Bit(b, 0), Bit(b, 1), Bit(b, 2), Bit(b, 3),
                 Bit(b, 4), Bit(b, 5), Bit(b, 6), Bit(b, 7))
<1> DEFINE h1 == b \div 2   h2 == b \div 4   h3 == b \div 8   h4 == b \div 16
           h5 == b \div 32  h6 == b \div 64  h7 == b \div 128
<1>1. /\ Bit(b, 0) = b % 2 /\ Bit(b, 1) = h1 % 2 /\ Bit(b, 2) = h2 % 2 /\ Bit(b, 3) = h3 % 2
      /\ Bit(b, 4) = h4 % 2 /\ Bit(b, 5) = h5 % 2 /\ Bit(b, 6) = h6 % 2 /\ Bit(b, 7) = h7 % 2
  BY DEF Bit
<1>2. h1 = b \div 2 /\ h2 = h1 \div 2 /\ h3 = h2 \div 2 /\ h4 = h3 \div 2
  OBVIOUS
<1>3. h5 = h4 \div 2 /\ h6 = h5 \div 2 /\ h7 = h6 \div 2 /\ h7 \in 0 .. 1
  OBVIOUS
<1>4. h1 \in Nat /\ h2 \in Nat /\ h3 \in Nat /\ h4 \in Nat /\ h5 \in Nat /\ h6 \in Nat
  OBVIOUS
<1> HIDE DEF h1, h2, h3, h4, h5, h6, h7
<1>5. \A n \in Nat : n = 2 * (n \div 2) + (n % 2) /\ n % 2 \in 0 .. 1
  OBVIOUS
<1>6. b = 2 * h1 + (b % 2) /\ h1 = 2 * h2 + (h1 % 2) /\ h2 = 2 * h3 + (h2 % 2)
  BY <1>2, <1>4, <1>5
<1>7. h3 = 2 * h4 + (h3 % 2) /\ h4 = 2 * h5 + (h4 % 2) /\ h5 = 2 * h6 + (h5 % 2)
  BY <1>2, <1>3, <1>4, <1>5
<1>8. h6 = 2 * h7 + (h6 % 2) /\ h7 = h7 % 2 /\ h7 \in Nat
  BY <1>3, <1>4, <1>5
<1> DEFINE z0 == Bit(b, 0)  z1 == Bit(b, 1)  z2 == Bit(b, 2)  z3 == Bit(b, 3)
           z4 == Bit(b, 4)  z5 == Bit(b, 5)  z6 == Bit(b, 6)  z7 == Bit(b, 7)
<1>9. /\ z0 = b % 2 /\ z1 = h1 % 2 /\ z2 = h2 % 2 /\ z3 = h3 % 2
      /\ z4 = h4 % 2 /\ z5 = h5 % 2 /\ z6 = h6 % 2 /\ z7 = h7
  BY <1>1, <1>8
<1> HIDE DEF z0, z1, z2, z3, z4, z5, z6, z7
<1>10. /\ z0 \in 0 .. 1 /\ z1 \in 0 .. 1 /\ z2 \in 0 .. 1 /\ z3 \in 0 .. 1
       /\ z4 \in 0 .. 1 /\ z5 \in 0 .. 1 /\ z6 \in 0 .. 1 /\ z7 \in 0 .. 1
  BY <1>3, <1>4, <1>9
<1>11. \A n \in Nat : n \in Int
  OBVIOUS
<1>12. \A n \in 0 .. 1 : n \in Int
  OBVIOUS
<1>13. /\ b = 2 * h1 + z0 /\ h1 = 2 * h2 + z1 /\ h2 = 2 * h3 + z2 /\ h3 = 2 * h4 + z3
       /\ h4 = 2 * h5 + z4 /\ h5 = 2 * h6 + z5 /\ h6 = 2 * z7 + z6
  BY <1>6, <1>7, <1>8, <1>9, Zenon
<1>14. b = z0 + 2 * z1 + 4 * z2 + 8 * z3 + 16 * z4 + 32 * z5 + 64 * z6 + 128 * z7
  BY <1>4, <1>10, <1>13, Halving
<1>15. Binary(b, z0, z1, z2, z3, z4, z5, z6, z7)
  BY <1>10, <1>14, Zenon DEF Binary
<1> QED
  BY <1>15 DEF z0, z1, z2, z3, z4, z5, z6, z7

\* A digit of five bits, the lowest first.
FiveOf(z0, z1, z2, z3, z4) == 16 * z4 + 8 * z3 + 4 * z2 + 2 * z1 + z0

\* The bits of two bytes from the place j on.
Across(c0, c1, m) == IF m < 8 THEN Bit(c0, m) ELSE Bit(c1, m - 8)

\* The window over two bytes, in arithmetic.
LEMMA FiveSum ==
  ASSUME NEW c0 \in 0 .. 255, NEW c1 \in 0 .. 255, NEW j \in 0 .. 7
  PROVE  Five(c0, c1, j) = ((c0 \div 2^j) + c1 * 2^(8 - j)) % 32
<1>1. \E p, r \in Nat : p = 2^j /\ r = 2^(8 - j) /\ r \in Powers /\ c0 \div p \in 0 .. r - 1
  <2>1. j = 0 \/ j = 1 \/ j = 2 \/ j = 3 \/ j = 4 \/ j = 5 \/ j = 6 \/ j = 7
    OBVIOUS
  <2>2. CASE j = 0
    BY <2>2 DEF Powers
  <2>3. CASE j = 1
    BY <2>3 DEF Powers
  <2>4. CASE j = 2
    BY <2>4 DEF Powers
  <2>5. CASE j = 3
    BY <2>5 DEF Powers
  <2>6. CASE j = 4
    BY <2>6 DEF Powers
  <2>7. CASE j = 5
    BY <2>7 DEF Powers
  <2>8. CASE j = 6
    BY <2>8 DEF Powers
  <2>9. CASE j = 7
    BY <2>9 DEF Powers
  <2> QED
    BY <2>1, <2>2, <2>3, <2>4, <2>5, <2>6, <2>7, <2>8, <2>9
<1>2. PICK p \in Nat, r \in Nat :
        p = 2^j /\ r = 2^(8 - j) /\ r \in Powers /\ c0 \div p \in 0 .. r - 1
  BY <1>1
<1>3. Five(c0, c1, j) = Or(c0 \div p, c1 * r) % 32
  BY <1>2 DEF Five, Shr, Shl
<1> DEFINE x == c0 \div p  y == c1 * r
<1>4. x \in Nat /\ y \in Nat /\ x < r
  BY <1>2
<1>5. \E q \in Nat : y = r * q
  <2>1. y = r * c1 /\ c1 \in Nat
    OBVIOUS
  <2> QED
    BY <2>1
<1> HIDE DEF x, y
<1>6. Split(x, y, r)
  BY <1>4, <1>5 DEF Split
<1>7. Or(x, y) = x + y
  BY <1>2, <1>4, <1>6, OrAdds
<1> QED
  BY <1>2, <1>3, <1>7 DEF x, y

\* It shows the five bits from there on.
LEMMA FiveBits ==
  ASSUME NEW c0 \in 0 .. 255, NEW c1 \in 0 .. 255, NEW j \in 0 .. 7
  PROVE  Five(c0, c1, j) =
           FiveOf(Across(c0, c1, j), Across(c0, c1, j + 1), Across(c0, c1, j + 2),
                  Across(c0, c1, j + 3), Across(c0, c1, j + 4))
<1>1. Five(c0, c1, j) = ((c0 \div 2^j) + c1 * 2^(8 - j)) % 32
  BY FiveSum
<1> DEFINE z0 == Bit(c0, 0)  z1 == Bit(c0, 1)  z2 == Bit(c0, 2)  z3 == Bit(c0, 3)
           z4 == Bit(c0, 4)  z5 == Bit(c0, 5)  z6 == Bit(c0, 6)  z7 == Bit(c0, 7)
           y0 == Bit(c1, 0)  y1 == Bit(c1, 1)  y2 == Bit(c1, 2)  y3 == Bit(c1, 3)
           y4 == Bit(c1, 4)  y5 == Bit(c1, 5)  y6 == Bit(c1, 6)  y7 == Bit(c1, 7)
<1>2. Binary(c0, z0, z1, z2, z3, z4, z5, z6, z7) /\ Binary(c1, y0, y1, y2, y3, y4, y5, y6, y7)
  BY InBinary
<1> HIDE DEF z0, z1, z2, z3, z4, z5, z6, z7, y0, y1, y2, y3, y4, y5, y6, y7
<1>3. j = 0 \/ j = 1 \/ j = 2 \/ j = 3 \/ j = 4 \/ j = 5 \/ j = 6 \/ j = 7
  OBVIOUS
<1>4. CASE j = 0
  <2>1. /\ Across(c0, c1, j) = z0 /\ Across(c0, c1, j + 1) = z1 /\ Across(c0, c1, j + 2) = z2
        /\ Across(c0, c1, j + 3) = z3 /\ Across(c0, c1, j + 4) = z4
    BY <1>4 DEF Across, z0, z1, z2, z3, z4
  <2>2. ((c0 \div 1) + c1 * 256) % 32 = FiveOf(z0, z1, z2, z3, z4)
    BY <1>2 DEF Binary, FiveOf
  <2> QED
    BY <1>1, <1>4, <2>1, <2>2
<1>5. CASE j = 1
  <2>1. /\ Across(c0, c1, j) = z1 /\ Across(c0, c1, j + 1) = z2 /\ Across(c0, c1, j + 2) = z3
        /\ Across(c0, c1, j + 3) = z4 /\ Across(c0, c1, j + 4) = z5
    BY <1>5 DEF Across, z1, z2, z3, z4, z5
  <2>2. ((c0 \div 2) + c1 * 128) % 32 = FiveOf(z1, z2, z3, z4, z5)
    BY <1>2 DEF Binary, FiveOf
  <2> QED
    BY <1>1, <1>5, <2>1, <2>2
<1>6. CASE j = 2
  <2>1. /\ Across(c0, c1, j) = z2 /\ Across(c0, c1, j + 1) = z3 /\ Across(c0, c1, j + 2) = z4
        /\ Across(c0, c1, j + 3) = z5 /\ Across(c0, c1, j + 4) = z6
    BY <1>6 DEF Across, z2, z3, z4, z5, z6
  <2>2. ((c0 \div 4) + c1 * 64) % 32 = FiveOf(z2, z3, z4, z5, z6)
    BY <1>2 DEF Binary, FiveOf
  <2> QED
    BY <1>1, <1>6, <2>1, <2>2
<1>7. CASE j = 3
  <2>1. /\ Across(c0, c1, j) = z3 /\ Across(c0, c1, j + 1) = z4 /\ Across(c0, c1, j + 2) = z5
        /\ Across(c0, c1, j + 3) = z6 /\ Across(c0, c1, j + 4) = z7
    BY <1>7 DEF Across, z3, z4, z5, z6, z7
  <2>2. ((c0 \div 8) + c1 * 32) % 32 = FiveOf(z3, z4, z5, z6, z7)
    BY <1>2 DEF Binary, FiveOf
  <2> QED
    BY <1>1, <1>7, <2>1, <2>2
<1>8. CASE j = 4
  <2>1. /\ Across(c0, c1, j) = z4 /\ Across(c0, c1, j + 1) = z5 /\ Across(c0, c1, j + 2) = z6
        /\ Across(c0, c1, j + 3) = z7 /\ Across(c0, c1, j + 4) = y0
    BY <1>8 DEF Across, z4, z5, z6, z7, y0
  <2>2. ((c0 \div 16) + c1 * 16) % 32 = FiveOf(z4, z5, z6, z7, y0)
    BY <1>2 DEF Binary, FiveOf
  <2> QED
    BY <1>1, <1>8, <2>1, <2>2
<1>9. CASE j = 5
  <2>1. /\ Across(c0, c1, j) = z5 /\ Across(c0, c1, j + 1) = z6 /\ Across(c0, c1, j + 2) = z7
        /\ Across(c0, c1, j + 3) = y0 /\ Across(c0, c1, j + 4) = y1
    BY <1>9 DEF Across, z5, z6, z7, y0, y1
  <2>2. ((c0 \div 32) + c1 * 8) % 32 = FiveOf(z5, z6, z7, y0, y1)
    BY <1>2 DEF Binary, FiveOf
  <2> QED
    BY <1>1, <1>9, <2>1, <2>2
<1>10. CASE j = 6
  <2>1. /\ Across(c0, c1, j) = z6 /\ Across(c0, c1, j + 1) = z7 /\ Across(c0, c1, j + 2) = y0
        /\ Across(c0, c1, j + 3) = y1 /\ Across(c0, c1, j + 4) = y2
    BY <1>10 DEF Across, z6, z7, y0, y1, y2
  <2>2. ((c0 \div 64) + c1 * 4) % 32 = FiveOf(z6, z7, y0, y1, y2)
    BY <1>2 DEF Binary, FiveOf
  <2> QED
    BY <1>1, <1>10, <2>1, <2>2
<1>11. CASE j = 7
  <2>1. /\ Across(c0, c1, j) = z7 /\ Across(c0, c1, j + 1) = y0 /\ Across(c0, c1, j + 2) = y1
        /\ Across(c0, c1, j + 3) = y2 /\ Across(c0, c1, j + 4) = y3
    BY <1>11 DEF Across, z7, y0, y1, y2, y3
  <2>2. ((c0 \div 128) + c1 * 2) % 32 = FiveOf(z7, y0, y1, y2, y3)
    BY <1>2 DEF Binary, FiveOf
  <2> QED
    BY <1>1, <1>11, <2>1, <2>2
<1> QED
  BY <1>3, <1>4, <1>5, <1>6, <1>7, <1>8, <1>9, <1>10, <1>11

\* A digest is a sequence of bytes.
Digest == bytes \in Seq(Bytes)

\* There is a byte at every place.
LEMMA ByteAtIs ==
  ASSUME Digest, NEW k \in Nat
  PROVE  ByteAt(k) \in 0 .. 255 /\ (k < Len(bytes) => ByteAt(k) = bytes[k + 1])
<1>1. CASE k < Len(bytes)
  <2>1. k + 1 \in 1 .. Len(bytes)
    BY <1>1 DEF Digest
  <2>2. bytes[k + 1] \in Bytes
    BY <2>1 DEF Digest
  <2> QED
    BY <1>1, <2>2 DEF ByteAt, Bytes
<1>2. CASE ~(k < Len(bytes))
  BY <1>2 DEF ByteAt
<1> QED
  BY <1>1, <1>2

\* 0 has no bits.
LEMMA ZeroBits == ASSUME NEW m \in 0 .. 7 PROVE Bit(0, m) = 0
<1>1. m = 0 \/ m = 1 \/ m = 2 \/ m = 3 \/ m = 4 \/ m = 5 \/ m = 6 \/ m = 7
  OBVIOUS
<1>2. PICK p \in {1, 2, 4, 8, 16, 32, 64, 128} : 2^m = p
  <2>1. m = 0 => 2^m = 1
    OBVIOUS
  <2>2. m = 1 => 2^m = 2
    OBVIOUS
  <2>3. m = 2 => 2^m = 4
    OBVIOUS
  <2>4. m = 3 => 2^m = 8
    OBVIOUS
  <2>5. m = 4 => 2^m = 16
    OBVIOUS
  <2>6. m = 5 => 2^m = 32
    OBVIOUS
  <2>7. m = 6 => 2^m = 64
    OBVIOUS
  <2>8. m = 7 => 2^m = 128
    OBVIOUS
  <2> QED
    BY <1>1, <2>1, <2>2, <2>3, <2>4, <2>5, <2>6, <2>7, <2>8, Zenon
<1>3. (0 \div p) % 2 = 0
  OBVIOUS
<1> QED
  BY <1>2, <1>3 DEF Bit

\* The bits of the digest are those of its bytes.
LEMMA LowBitIs ==
  ASSUME Digest, NEW q \in Nat, NEW m \in 0 .. 7
  PROVE  LowBit(8 * q + m) = Bit(ByteAt(q), m)
<1>1. (8 * q + m) \div 8 = q /\ (8 * q + m) % 8 = m
  OBVIOUS
<1>2. Bit(0, m) = 0
  BY ZeroBits
<1> QED
  BY <1>1, <1>2, Zenon DEF LowBit, Bit, ByteAt

\* As far as into the next byte.
LEMMA AcrossIs ==
  ASSUME Digest, NEW q \in Nat, NEW m \in 0 .. 15
  PROVE  LowBit(8 * q + m) = Across(ByteAt(q), ByteAt(q + 1), m)
<1>1. CASE m < 8
  <2>1. m \in 0 .. 7
    BY <1>1
  <2>2. LowBit(8 * q + m) = Bit(ByteAt(q), m)
    BY <2>1, LowBitIs
  <2> QED
    BY <1>1, <2>2, Zenon DEF Across
<1>2. CASE ~(m < 8)
  <2>1. q + 1 \in Nat /\ m - 8 \in 0 .. 7 /\ 8 * (q + 1) + (m - 8) = 8 * q + m
    BY <1>2
  <2>2. LowBit(8 * (q + 1) + (m - 8)) = Bit(ByteAt(q + 1), m - 8)
    BY <2>1, LowBitIs
  <2> QED
    BY <1>2, <2>1, <2>2 DEF Across
<1> QED
  BY <1>1, <1>2

\* A digit of base-32, counted from the lowest, and the number of them.
Digit32(n) ==
  FiveOf(LowBit(5 * n + 0), LowBit(5 * n + 1), LowBit(5 * n + 2),
         LowBit(5 * n + 3), LowBit(5 * n + 4))
Len32 == Chars(Len(bytes) * 8, 5)

\* Base-32 is made of these digits.
LEMMA Base32Is == Base32 = [k \in 1 .. Len32 |-> Digit32(Len32 - k)]
BY DEF Base32, Digit32, FiveOf, Len32

\* They are enough for the digest, and no digit is beyond it.
LEMMA Len32Is ==
  ASSUME Digest
  PROVE  /\ Len(bytes) \in Nat /\ Len32 \in Nat
         /\ 8 * Len(bytes) <= 5 * Len32 /\ 5 * Len32 <= 8 * Len(bytes) + 4
BY DEF Digest, Len32, Chars

\* The digit that the code writes is that digit.
LEMMA DigitWritten ==
  ASSUME Digest, NEW n \in Nat, n < Len32
  PROVE  LET i == (n * 5) \div 8 + 1
         IN  Digit32(n) = Five(bytes[i], IF i < Len(bytes) THEN bytes[i + 1] ELSE 0, (n * 5) % 8)
<1> DEFINE q == (n * 5) \div 8  j == (n * 5) % 8
<1>1. q \in Nat /\ j \in 0 .. 7 /\ 5 * n = 8 * q + j
  OBVIOUS
<1>2. q < Len(bytes)
  BY Len32Is
<1> HIDE DEF q, j
<1>3. /\ 5 * n + 0 = 8 * q + j /\ 5 * n + 1 = 8 * q + (j + 1) /\ 5 * n + 2 = 8 * q + (j + 2)
      /\ 5 * n + 3 = 8 * q + (j + 3) /\ 5 * n + 4 = 8 * q + (j + 4)
      /\ j \in 0 .. 15 /\ j + 1 \in 0 .. 15 /\ j + 2 \in 0 .. 15
      /\ j + 3 \in 0 .. 15 /\ j + 4 \in 0 .. 15
  BY <1>1
<1> DEFINE c0 == ByteAt(q)  c1 == ByteAt(q + 1)
<1>4. /\ LowBit(8 * q + j) = Across(c0, c1, j) /\ LowBit(8 * q + (j + 1)) = Across(c0, c1, j + 1)
      /\ LowBit(8 * q + (j + 2)) = Across(c0, c1, j + 2)
      /\ LowBit(8 * q + (j + 3)) = Across(c0, c1, j + 3)
      /\ LowBit(8 * q + (j + 4)) = Across(c0, c1, j + 4)
  BY <1>1, <1>3, AcrossIs
<1>5. /\ c0 \in 0 .. 255 /\ c1 \in 0 .. 255 /\ c0 = bytes[q + 1]
      /\ c1 = IF q + 1 < Len(bytes) THEN bytes[(q + 1) + 1] ELSE 0
  <2>1. q + 1 \in Nat
    BY <1>1
  <2>2. c1 = IF q + 1 < Len(bytes) THEN bytes[(q + 1) + 1] ELSE 0
    BY DEF ByteAt
  <2> QED
    BY <1>1, <1>2, <2>1, <2>2, ByteAtIs
<1> HIDE DEF c0, c1
<1>6. Digit32(n) = Five(c0, c1, j)
  <2>1. Five(c0, c1, j) = FiveOf(Across(c0, c1, j), Across(c0, c1, j + 1), Across(c0, c1, j + 2),
                                 Across(c0, c1, j + 3), Across(c0, c1, j + 4))
    BY <1>1, <1>5, FiveBits
  <2> QED
    BY <1>3, <1>4, <2>1, Zenon DEF Digit32
<1> QED
  BY <1>5, <1>6, Zenon DEF q, j

\* A digest is written in base-32 as defined.
LEMMA WrittenInBase32 == ASSUME Digest PROVE nix_base32_encode(bytes) = Base32
<1> DEFINE W(n) == LET i == (n * 5) \div 8 + 1
                   IN  Five(bytes[i], IF i < Len(bytes) THEN bytes[i + 1] ELSE 0, (n * 5) % 8)
<1>1. nix_base32_encode(bytes) = [k \in 1 .. Len32 |-> W(Len32 - k)]
  BY DEF nix_base32_encode, Len32
<1>2. \A n \in Nat : n < Len32 => Digit32(n) = W(n)
  BY DigitWritten
<1> HIDE DEF W
<1>3. \A k \in 1 .. Len32 : Len32 - k \in Nat /\ Len32 - k < Len32
  BY Len32Is
<1> QED
  BY <1>1, <1>2, <1>3, Base32Is

\* A byte after so many of the characters, the last first.
Decoded(f, s, b, n) ==
  [i \in 0 .. n |-> IF i = 0 THEN 0 ELSE Or(f[i - 1], Into(s[Len(s) - (i - 1)], i - 1, b))]

\* There is the function that the loop over the characters defines.
LEMMA DecodedExists ==
  ASSUME NEW n \in Nat, NEW s, NEW b
  PROVE  \E f : f = Decoded(f, s, b, n)
<1> DEFINE Turn(f, i) == Or(f[i - 1], Into(s[Len(s) - (i - 1)], i - 1, b))
           Good(f, k) == f = [i \in 0 .. k |-> IF i = 0 THEN 0 ELSE Turn(f, i)]
           S == {k \in 0 .. n : \E f : Good(f, k)}
<1>1. \A f, k : Good(f, k) <=> f = Decoded(f, s, b, k)
  BY DEF Decoded
<1>2. \A f, g, i : f[i - 1] = g[i - 1] => Turn(f, i) = Turn(g, i)
  OBVIOUS
<1> HIDE DEF Turn
<1>3. 0 \in S
  <2>1. Good([i \in {0} |-> 0], 0)
    OBVIOUS
  <2> HIDE DEF Good
  <2> QED
    BY <2>1
<1>4. ASSUME NEW k \in 1 .. n, k - 1 \in S PROVE k \in S
  <2>1. PICK f : Good(f, k - 1)
    BY <1>4
  <2>2. DOMAIN f = 0 .. k - 1 /\ \A i \in 0 .. k - 1 : f[i] = IF i = 0 THEN 0 ELSE Turn(f, i)
    BY <2>1
  <2> DEFINE g == [i \in 0 .. k |-> IF i = k THEN Turn(f, k) ELSE f[i]]
  <2>3. \A i \in 0 .. k : g[i] = IF i = 0 THEN 0 ELSE Turn(g, i)
    <3> TAKE i \in 0 .. k
    <3>1. i # 0 => g[i - 1] = f[i - 1]
      OBVIOUS
    <3>2. i # 0 => Turn(g, i) = Turn(f, i)
      BY <1>2, <3>1
    <3>3. CASE i = k
      <4>1. g[i] = Turn(f, i) /\ i # 0
        BY <3>3
      <4> QED
        BY <3>2, <4>1
    <3>4. CASE i # k
      <4>1. g[i] = f[i] /\ i \in 0 .. k - 1
        BY <3>4
      <4> QED
        BY <2>2, <3>2, <4>1
    <3> QED
      BY <3>3, <3>4
  <2>4. Good(g, k)
    BY <2>3
  <2> HIDE DEF g, Good
  <2> QED
    BY <2>4
<1>5. n \in S
  <2> HIDE DEF S
  <2>1. 0 .. n \subseteq S
    BY <1>3, <1>4, AllUpTo, Zenon
  <2> QED
    BY <2>1
<1>6. PICK f : Good(f, n)
  BY <1>5
<1> QED
  BY <1>1, <1>6

\* The lowest bits of a byte.
Low(b, k) == IF k <= 0 THEN 0 ELSE IF k >= 8 THEN b ELSE b % 2^k

\* The part of a digit in a byte, when it begins e bits after the byte.
Piece(digit, e) == IF e >= 0 THEN U8(Shl(digit, e)) ELSE Spill(digit, e + 8)

\* A digit of five bits, those of which in the byte are the byte's.
Fits(b, e, z0, z1, z2, z3, z4) ==
  /\ z0 \in 0 .. 1 /\ z1 \in 0 .. 1 /\ z2 \in 0 .. 1 /\ z3 \in 0 .. 1 /\ z4 \in 0 .. 1
  /\ e \in 0 .. 7 => z0 = Bit(b, e)
  /\ e + 1 \in 0 .. 7 => z1 = Bit(b, e + 1)
  /\ e + 2 \in 0 .. 7 => z2 = Bit(b, e + 2)
  /\ e + 3 \in 0 .. 7 => z3 = Bit(b, e + 3)
  /\ e + 4 \in 0 .. 7 => z4 = Bit(b, e + 4)

\* The places of a digit that has bits in the byte.
Places == -4 .. 7

\* Or-ing it in extends the lowest bits of the byte by five.
LEMMA PieceAdds ==
  ASSUME NEW b \in Bytes, NEW e \in Places, NEW z0, NEW z1, NEW z2, NEW z3, NEW z4,
         Fits(b, e, z0, z1, z2, z3, z4)
  PROVE  Or(Low(b, e), Piece(FiveOf(z0, z1, z2, z3, z4), e)) = Low(b, e + 5)
<1> DEFINE y0 == Bit(b, 0)  y1 == Bit(b, 1)  y2 == Bit(b, 2)  y3 == Bit(b, 3)
           y4 == Bit(b, 4)  y5 == Bit(b, 5)  y6 == Bit(b, 6)  y7 == Bit(b, 7)
           d == FiveOf(z0, z1, z2, z3, z4)
<1>1. Binary(b, y0, y1, y2, y3, y4, y5, y6, y7)
  BY InBinary DEF Bytes
<1>2. z0 \in 0 .. 1 /\ z1 \in 0 .. 1 /\ z2 \in 0 .. 1 /\ z3 \in 0 .. 1 /\ z4 \in 0 .. 1
  BY DEF Fits
<1>3. d = z0 + 2 * z1 + 4 * z2 + 8 * z3 + 16 * z4 /\ d \in 0 .. 31
  BY <1>2 DEF FiveOf
<1>4. ASSUME NEW x \in Nat, NEW p \in Powers, NEW q \in Nat, NEW y \in Nat, x < p, y = p * q
      PROVE  Or(x, y) = x + y
  <2>1. Split(x, y, p)
    BY <1>4 DEF Split
  <2> QED
    BY <1>4, <2>1, OrAdds
<1> HIDE DEF y0, y1, y2, y3, y4, y5, y6, y7, d
<1>5. e = -4 \/ e = -3 \/ e = -2 \/ e = -1 \/ e = 0 \/ e = 1
      \/ e = 2 \/ e = 3 \/ e = 4 \/ e = 5 \/ e = 6 \/ e = 7
  BY DEF Places
<1>6. CASE e = -4
  <2>1. z4 = y0
    BY <1>6 DEF Fits, y0
  <2> DEFINE x == 0  y == (d \div 16) % 256
  <2>2. Low(b, e) = x /\ Piece(d, e) = y /\ Low(b, e + 5) = b % 2
    BY <1>6 DEF Bytes, Low, Piece, U8, Shl, Shr, Spill
  <2>3. x \in Nat /\ y \in Nat /\ x < 1 /\ \E q \in Nat : y = 1 * q
    BY <1>3 DEF Bytes
  <2>4. x + y = b % 2
    <3>1. y = z4
      BY <1>2, <1>3
    <3>2. x = 0 /\ b % 2 = y0
      BY <1>1 DEF Binary, Bytes
    <3> HIDE DEF x, y
    <3> QED
      BY <1>1, <2>1, <3>1, <3>2 DEF Binary, Bytes
  <2> HIDE DEF x, y
  <2>5. Or(x, y) = x + y
    BY <1>4, <2>3 DEF Powers
  <2> QED
    BY <2>2, <2>4, <2>5 DEF d
<1>7. CASE e = -3
  <2>1. z3 = y0 /\ z4 = y1
    BY <1>7 DEF Fits, y0, y1
  <2> DEFINE x == 0  y == (d \div 8) % 256
  <2>2. Low(b, e) = x /\ Piece(d, e) = y /\ Low(b, e + 5) = b % 4
    BY <1>7 DEF Bytes, Low, Piece, U8, Shl, Shr, Spill
  <2>3. x \in Nat /\ y \in Nat /\ x < 1 /\ \E q \in Nat : y = 1 * q
    BY <1>3 DEF Bytes
  <2>4. x + y = b % 4
    <3>1. y = z3 + 2 * z4
      BY <1>2, <1>3
    <3>2. x = 0 /\ b % 4 = y0 + 2 * y1
      BY <1>1 DEF Binary, Bytes
    <3> HIDE DEF x, y
    <3> QED
      BY <1>1, <2>1, <3>1, <3>2 DEF Binary, Bytes
  <2> HIDE DEF x, y
  <2>5. Or(x, y) = x + y
    BY <1>4, <2>3 DEF Powers
  <2> QED
    BY <2>2, <2>4, <2>5 DEF d
<1>8. CASE e = -2
  <2>1. z2 = y0 /\ z3 = y1 /\ z4 = y2
    BY <1>8 DEF Fits, y0, y1, y2
  <2> DEFINE x == 0  y == (d \div 4) % 256
  <2>2. Low(b, e) = x /\ Piece(d, e) = y /\ Low(b, e + 5) = b % 8
    BY <1>8 DEF Bytes, Low, Piece, U8, Shl, Shr, Spill
  <2>3. x \in Nat /\ y \in Nat /\ x < 1 /\ \E q \in Nat : y = 1 * q
    BY <1>3 DEF Bytes
  <2>4. x + y = b % 8
    <3>1. y = z2 + 2 * z3 + 4 * z4
      BY <1>2, <1>3
    <3>2. x = 0 /\ b % 8 = y0 + 2 * y1 + 4 * y2
      BY <1>1 DEF Binary, Bytes
    <3> HIDE DEF x, y
    <3> QED
      BY <1>1, <2>1, <3>1, <3>2 DEF Binary, Bytes
  <2> HIDE DEF x, y
  <2>5. Or(x, y) = x + y
    BY <1>4, <2>3 DEF Powers
  <2> QED
    BY <2>2, <2>4, <2>5 DEF d
<1>9. CASE e = -1
  <2>1. z1 = y0 /\ z2 = y1 /\ z3 = y2 /\ z4 = y3
    BY <1>9 DEF Fits, y0, y1, y2, y3
  <2> DEFINE x == 0  y == (d \div 2) % 256
  <2>2. Low(b, e) = x /\ Piece(d, e) = y /\ Low(b, e + 5) = b % 16
    BY <1>9 DEF Bytes, Low, Piece, U8, Shl, Shr, Spill
  <2>3. x \in Nat /\ y \in Nat /\ x < 1 /\ \E q \in Nat : y = 1 * q
    BY <1>3 DEF Bytes
  <2>4. x + y = b % 16
    <3>1. y = z1 + 2 * z2 + 4 * z3 + 8 * z4
      BY <1>2, <1>3
    <3>2. x = 0 /\ b % 16 = y0 + 2 * y1 + 4 * y2 + 8 * y3
      BY <1>1 DEF Binary, Bytes
    <3> HIDE DEF x, y
    <3> QED
      BY <1>1, <2>1, <3>1, <3>2 DEF Binary, Bytes
  <2> HIDE DEF x, y
  <2>5. Or(x, y) = x + y
    BY <1>4, <2>3 DEF Powers
  <2> QED
    BY <2>2, <2>4, <2>5 DEF d
<1>10. CASE e = 0
  <2>1. z0 = y0 /\ z1 = y1 /\ z2 = y2 /\ z3 = y3 /\ z4 = y4
    BY <1>10 DEF Fits, y0, y1, y2, y3, y4
  <2> DEFINE x == 0  y == (d * 1) % 256
  <2>2. Low(b, e) = x /\ Piece(d, e) = y /\ Low(b, e + 5) = b % 32
    BY <1>10 DEF Bytes, Low, Piece, U8, Shl, Shr, Spill
  <2>3. x \in Nat /\ y \in Nat /\ x < 1 /\ \E q \in Nat : y = 1 * q
    BY <1>3 DEF Bytes
  <2>4. x + y = b % 32
    BY <1>1, <1>3, <2>1 DEF Binary, Bytes
  <2> HIDE DEF x, y
  <2>5. Or(x, y) = x + y
    BY <1>4, <2>3 DEF Powers
  <2> QED
    BY <2>2, <2>4, <2>5 DEF d
<1>11. CASE e = 1
  <2>1. z0 = y1 /\ z1 = y2 /\ z2 = y3 /\ z3 = y4 /\ z4 = y5
    BY <1>11 DEF Fits, y1, y2, y3, y4, y5
  <2> DEFINE x == b % 2  y == (d * 2) % 256
  <2>2. Low(b, e) = x /\ Piece(d, e) = y /\ Low(b, e + 5) = b % 64
    BY <1>11 DEF Bytes, Low, Piece, U8, Shl, Shr, Spill
  <2>3. x \in Nat /\ y \in Nat /\ x < 2 /\ \E q \in Nat : y = 2 * q
    BY <1>3 DEF Bytes
  <2>4. x + y = b % 64
    BY <1>1, <1>3, <2>1 DEF Binary, Bytes
  <2> HIDE DEF x, y
  <2>5. Or(x, y) = x + y
    BY <1>4, <2>3 DEF Powers
  <2> QED
    BY <2>2, <2>4, <2>5 DEF d
<1>12. CASE e = 2
  <2>1. z0 = y2 /\ z1 = y3 /\ z2 = y4 /\ z3 = y5 /\ z4 = y6
    BY <1>12 DEF Fits, y2, y3, y4, y5, y6
  <2> DEFINE x == b % 4  y == (d * 4) % 256
  <2>2. Low(b, e) = x /\ Piece(d, e) = y /\ Low(b, e + 5) = b % 128
    BY <1>12 DEF Bytes, Low, Piece, U8, Shl, Shr, Spill
  <2>3. x \in Nat /\ y \in Nat /\ x < 4 /\ \E q \in Nat : y = 4 * q
    BY <1>3 DEF Bytes
  <2>4. x + y = b % 128
    BY <1>1, <1>3, <2>1 DEF Binary, Bytes
  <2> HIDE DEF x, y
  <2>5. Or(x, y) = x + y
    BY <1>4, <2>3 DEF Powers
  <2> QED
    BY <2>2, <2>4, <2>5 DEF d
<1>13. CASE e = 3
  <2>1. z0 = y3 /\ z1 = y4 /\ z2 = y5 /\ z3 = y6 /\ z4 = y7
    BY <1>13 DEF Fits, y3, y4, y5, y6, y7
  <2> DEFINE x == b % 8  y == (d * 8) % 256
  <2>2. Low(b, e) = x /\ Piece(d, e) = y /\ Low(b, e + 5) = b
    BY <1>13 DEF Bytes, Low, Piece, U8, Shl, Shr, Spill
  <2>3. x \in Nat /\ y \in Nat /\ x < 8 /\ \E q \in Nat : y = 8 * q
    BY <1>3 DEF Bytes
  <2>4. x + y = b
    BY <1>1, <1>3, <2>1 DEF Binary, Bytes
  <2> HIDE DEF x, y
  <2>5. Or(x, y) = x + y
    BY <1>4, <2>3 DEF Powers
  <2> QED
    BY <2>2, <2>4, <2>5 DEF d
<1>14. CASE e = 4
  <2>1. z0 = y4 /\ z1 = y5 /\ z2 = y6 /\ z3 = y7
    BY <1>14 DEF Fits, y4, y5, y6, y7
  <2> DEFINE x == b % 16  y == (d * 16) % 256
  <2>2. Low(b, e) = x /\ Piece(d, e) = y /\ Low(b, e + 5) = b
    BY <1>14 DEF Bytes, Low, Piece, U8, Shl, Shr, Spill
  <2>3. x \in Nat /\ y \in Nat /\ x < 16 /\ \E q \in Nat : y = 16 * q
    BY <1>3 DEF Bytes
  <2>4. x + y = b
    <3>1. y = 16 * z0 + 32 * z1 + 64 * z2 + 128 * z3
      BY <1>2, <1>3
    <3>2. x = y0 + 2 * y1 + 4 * y2 + 8 * y3
      BY <1>1 DEF Binary, Bytes
    <3> HIDE DEF x, y
    <3> QED
      BY <1>1, <2>1, <3>1, <3>2 DEF Binary, Bytes
  <2> HIDE DEF x, y
  <2>5. Or(x, y) = x + y
    BY <1>4, <2>3 DEF Powers
  <2> QED
    BY <2>2, <2>4, <2>5 DEF d
<1>15. CASE e = 5
  <2>1. z0 = y5 /\ z1 = y6 /\ z2 = y7
    BY <1>15 DEF Fits, y5, y6, y7
  <2> DEFINE x == b % 32  y == (d * 32) % 256
  <2>2. Low(b, e) = x /\ Piece(d, e) = y /\ Low(b, e + 5) = b
    BY <1>15 DEF Bytes, Low, Piece, U8, Shl, Shr, Spill
  <2>3. x \in Nat /\ y \in Nat /\ x < 32 /\ \E q \in Nat : y = 32 * q
    BY <1>3 DEF Bytes
  <2>4. x + y = b
    <3>1. y = 32 * z0 + 64 * z1 + 128 * z2
      BY <1>2, <1>3
    <3>2. x = y0 + 2 * y1 + 4 * y2 + 8 * y3 + 16 * y4
      BY <1>1 DEF Binary, Bytes
    <3> HIDE DEF x, y
    <3> QED
      BY <1>1, <2>1, <3>1, <3>2 DEF Binary, Bytes
  <2> HIDE DEF x, y
  <2>5. Or(x, y) = x + y
    BY <1>4, <2>3 DEF Powers
  <2> QED
    BY <2>2, <2>4, <2>5 DEF d
<1>16. CASE e = 6
  <2>1. z0 = y6 /\ z1 = y7
    BY <1>16 DEF Fits, y6, y7
  <2> DEFINE x == b % 64  y == (d * 64) % 256
  <2>2. Low(b, e) = x /\ Piece(d, e) = y /\ Low(b, e + 5) = b
    BY <1>16 DEF Bytes, Low, Piece, U8, Shl, Shr, Spill
  <2>3. x \in Nat /\ y \in Nat /\ x < 64 /\ \E q \in Nat : y = 64 * q
    BY <1>3 DEF Bytes
  <2>4. x + y = b
    <3>1. y = 64 * z0 + 128 * z1
      BY <1>2, <1>3
    <3>2. x = y0 + 2 * y1 + 4 * y2 + 8 * y3 + 16 * y4 + 32 * y5
      BY <1>1 DEF Binary, Bytes
    <3> HIDE DEF x, y
    <3> QED
      BY <1>1, <2>1, <3>1, <3>2 DEF Binary, Bytes
  <2> HIDE DEF x, y
  <2>5. Or(x, y) = x + y
    BY <1>4, <2>3 DEF Powers
  <2> QED
    BY <2>2, <2>4, <2>5 DEF d
<1>17. CASE e = 7
  <2>1. z0 = y7
    BY <1>17 DEF Fits, y7
  <2> DEFINE x == b % 128  y == (d * 128) % 256
  <2>2. Low(b, e) = x /\ Piece(d, e) = y /\ Low(b, e + 5) = b
    BY <1>17 DEF Bytes, Low, Piece, U8, Shl, Shr, Spill
  <2>3. x \in Nat /\ y \in Nat /\ x < 128 /\ \E q \in Nat : y = 128 * q
    BY <1>3 DEF Bytes
  <2>4. x + y = b
    <3>1. y = 128 * z0
      BY <1>2, <1>3
    <3>2. x = y0 + 2 * y1 + 4 * y2 + 8 * y3 + 16 * y4 + 32 * y5 + 64 * y6
      BY <1>1 DEF Binary, Bytes
    <3> HIDE DEF x, y
    <3> QED
      BY <1>1, <2>1, <3>1, <3>2 DEF Binary, Bytes
  <2> HIDE DEF x, y
  <2>5. Or(x, y) = x + y
    BY <1>4, <2>3 DEF Powers
  <2> QED
    BY <2>2, <2>4, <2>5 DEF d
<1> QED
  BY <1>5, <1>6, <1>7, <1>8, <1>9, <1>10, <1>11, <1>12, <1>13, <1>14, <1>15, <1>16, <1>17

\* A bit is 0 or 1.
LEMMA LowBitIsBit == ASSUME Digest, NEW k \in Nat PROVE LowBit(k) \in 0 .. 1
<1> DEFINE q == k \div 8  m == k % 8
<1>1. q \in Nat /\ m \in 0 .. 7 /\ k = 8 * q + m
  OBVIOUS
<1> HIDE DEF q, m
<1>2. m = 0 \/ m = 1 \/ m = 2 \/ m = 3 \/ m = 4 \/ m = 5 \/ m = 6 \/ m = 7
  BY <1>1
<1> DEFINE b == ByteAt(q)
<1>3. Binary(b, Bit(b, 0), Bit(b, 1), Bit(b, 2), Bit(b, 3),
                 Bit(b, 4), Bit(b, 5), Bit(b, 6), Bit(b, 7))
  BY <1>1, ByteAtIs, InBinary
<1> HIDE DEF b
<1>4. Bit(b, m) \in 0 .. 1
  BY <1>2, <1>3, Zenon DEF Binary
<1>5. LowBit(8 * q + m) = Bit(b, m)
  BY <1>1, LowBitIs DEF b
<1> QED
  BY <1>1, <1>4, <1>5

\* A digit of the digest extends what is known of a byte by five bits.
LEMMA DigitAdds ==
  ASSUME Digest, NEW k \in Nat, NEW n \in Nat, NEW e \in -4 .. 7, 5 * n = 8 * k + e
  PROVE  Or(Low(ByteAt(k), e), Piece(Digit32(n), e)) = Low(ByteAt(k), e + 5)
<1> DEFINE b == ByteAt(k)
           z0 == LowBit(5 * n + 0)  z1 == LowBit(5 * n + 1)  z2 == LowBit(5 * n + 2)
           z3 == LowBit(5 * n + 3)  z4 == LowBit(5 * n + 4)
<1>1. z0 \in 0 .. 1 /\ z1 \in 0 .. 1 /\ z2 \in 0 .. 1 /\ z3 \in 0 .. 1 /\ z4 \in 0 .. 1
  <2>1. /\ 5 * n + 0 \in Nat /\ 5 * n + 1 \in Nat /\ 5 * n + 2 \in Nat
        /\ 5 * n + 3 \in Nat /\ 5 * n + 4 \in Nat
    OBVIOUS
  <2> QED
    BY <2>1, LowBitIsBit
<1>2. ASSUME NEW t \in 0 .. 4, e + t \in 0 .. 7 PROVE LowBit(5 * n + t) = Bit(b, e + t)
  <2>1. 5 * n + t = 8 * k + (e + t)
    OBVIOUS
  <2>2. LowBit(8 * k + (e + t)) = Bit(b, e + t)
    BY <1>2, LowBitIs
  <2> QED
    BY <2>1, <2>2
<1>3. e + 0 = e
  OBVIOUS
<1>4. /\ e \in 0 .. 7 => z0 = Bit(b, e)
      /\ e + 1 \in 0 .. 7 => z1 = Bit(b, e + 1)
      /\ e + 2 \in 0 .. 7 => z2 = Bit(b, e + 2)
      /\ e + 3 \in 0 .. 7 => z3 = Bit(b, e + 3)
      /\ e + 4 \in 0 .. 7 => z4 = Bit(b, e + 4)
  <2>1. 0 \in 0 .. 4 /\ 1 \in 0 .. 4 /\ 2 \in 0 .. 4 /\ 3 \in 0 .. 4 /\ 4 \in 0 .. 4
    OBVIOUS
  <2> QED
    BY <1>2, <1>3, <2>1, Zenon
<1>5. b \in Bytes /\ e \in Places
  BY ByteAtIs DEF Bytes, Places
<1> HIDE DEF b, z0, z1, z2, z3, z4
<1>6. Fits(b, e, z0, z1, z2, z3, z4)
  BY <1>1, <1>4, Zenon DEF Fits
<1>7. Or(Low(b, e), Piece(FiveOf(z0, z1, z2, z3, z4), e)) = Low(b, e + 5)
  BY <1>5, <1>6, PieceAdds
<1> QED
  BY <1>7, Zenon DEF b, z0, z1, z2, z3, z4, Digit32

\* What a digit puts into a byte is its piece of it, if it has one.
LEMMA IntoIs ==
  ASSUME NEW k \in Nat, NEW n \in Nat, NEW d
  PROVE  LET e == 5 * n - 8 * k
         IN  Into(d, n, k) = IF e \in -4 .. 7 THEN Piece(d, e) ELSE 0
<1> DEFINE first == (5 * n) \div 8  off == (5 * n) % 8  e == 5 * n - 8 * k
<1>1. first \in Nat /\ off \in 0 .. 7 /\ e = 8 * (first - k) + off /\ e \in Int
  OBVIOUS
<1>2. Into(d, n, k) = CASE k = first -> U8(Shl(d, off))
                        [] k = first + 1 -> Spill(d, off)
                        [] OTHER -> 0
  BY DEF Into
<1> HIDE DEF first, off, e
<1>3. CASE k = first
  <2>1. e = off /\ e \in -4 .. 7 /\ e >= 0 /\ k # first + 1
    BY <1>1, <1>3
  <2> QED
    BY <1>2, <1>3, <2>1 DEF Piece, e
<1>4. CASE k = first + 1
  <2>1. e = off - 8 /\ ~(e >= 0) /\ e + 8 = off /\ k # first
    BY <1>1, <1>4
  <2>2. Into(d, n, k) = Spill(d, off)
    BY <1>2, <1>4, <2>1
  <2>3. CASE off > 3
    <3>1. e \in -4 .. 7
      BY <1>1, <2>1, <2>3
    <3> QED
      BY <2>1, <2>2, <3>1 DEF Piece, e
  <2>4. CASE ~(off > 3)
    <3>1. e \notin -4 .. 7
      BY <1>1, <2>1, <2>4
    <3> QED
      BY <2>2, <2>4, <3>1 DEF Spill, e
  <2> QED
    BY <2>3, <2>4
<1>5. CASE k # first /\ k # first + 1
  <2>1. e \notin -4 .. 7
    BY <1>1, <1>5
  <2> QED
    BY <1>2, <1>5, <2>1 DEF e
<1> QED
  BY <1>3, <1>4, <1>5

\* So every character extends it, from nothing to the byte.
LEMMA CharacterAdds ==
  ASSUME Digest, NEW k \in Nat, NEW n \in Nat
  PROVE  Or(Low(ByteAt(k), 5 * n - 8 * k), Into(Digit32(n), n, k))
           = Low(ByteAt(k), 5 * (n + 1) - 8 * k)
<1> DEFINE e == 5 * n - 8 * k  b == ByteAt(k)  into == Into(Digit32(n), n, k)
<1>1. e \in Int /\ 5 * (n + 1) - 8 * k = e + 5 /\ 5 * n = 8 * k + e
  OBVIOUS
<1>2. b \in 0 .. 255
  BY ByteAtIs
<1>3. into = IF e \in -4 .. 7 THEN Piece(Digit32(n), e) ELSE 0
  BY IntoIs
<1>4. e \in -4 .. 7 => Or(Low(b, e), Piece(Digit32(n), e)) = Low(b, e + 5)
  BY <1>1, DigitAdds
<1> HIDE DEF e, b, into
<1>5. e \in -4 .. 7 => Or(Low(b, e), into) = Low(b, e + 5)
  BY <1>3, <1>4, Zenon
<1>6. ASSUME e <= -5 PROVE Or(Low(b, e), into) = Low(b, e + 5)
  <2>1. into = 0 /\ Low(b, e) = 0 /\ Low(b, e + 5) = 0
    BY <1>1, <1>3, <1>6 DEF Low
  <2>2. Split(0, 0, 1) /\ 1 \in Powers
    BY DEF Split, Powers
  <2>3. Or(0, 0) = 0 + 0
    BY <2>2, OrAdds
  <2> QED
    BY <2>1, <2>3
<1>7. ASSUME e >= 8 PROVE Or(Low(b, e), into) = Low(b, e + 5)
  <2>1. into = 0 /\ Low(b, e) = b /\ Low(b, e + 5) = b
    BY <1>1, <1>3, <1>7 DEF Low
  <2>2. Split(b, 0, 256) /\ 256 \in Powers
    <3>1. b < 256 /\ 0 = 256 * 0 /\ 0 \in Nat
      BY <1>2
    <3> QED
      BY <3>1 DEF Split, Powers
  <2>3. Or(b, 0) = b + 0
    BY <1>2, <2>2, OrAdds
  <2> QED
    BY <1>2, <2>1, <2>3
<1>8. Or(Low(b, e), into) = Low(b, e + 5)
  BY <1>1, <1>5, <1>6, <1>7
<1> QED
  BY <1>1, <1>8 DEF e, b, into

\* The last character but so many is that digit.
LEMMA CharacterIs ==
  ASSUME Digest
  PROVE  /\ Len(Base32) = Len32
         /\ \A i \in 1 .. Len32 : Base32[Len32 - (i - 1)] = Digit32(i - 1)
<1>1. Len32 \in Nat
  BY Len32Is
<1>2. Base32 = [k \in 1 .. Len32 |-> Digit32(Len32 - k)]
  BY Base32Is
<1> HIDE DEF Base32
<1>3. Len(Base32) = Len32
  BY <1>1, <1>2
<1>4. ASSUME NEW i \in 1 .. Len32 PROVE Base32[Len32 - (i - 1)] = Digit32(i - 1)
  <2>1. Len32 - (i - 1) \in 1 .. Len32 /\ Len32 - (Len32 - (i - 1)) = i - 1
    BY <1>1
  <2> QED
    BY <1>2, <2>1
<1> QED
  BY <1>3, <1>4

\* The loop ends with the byte.
LEMMA ByteDecoded ==
  ASSUME Digest, NEW k \in Nat, k < Len(bytes), NEW f, f = Decoded(f, Base32, k, Len32)
  PROVE  f[Len32] = ByteAt(k)
<1>1. Len32 \in Nat /\ Len(bytes) \in Nat /\ 8 * Len(bytes) <= 5 * Len32
  BY Len32Is
<1>2. \A i \in 0 .. Len32 :
        f[i] = IF i = 0 THEN 0 ELSE Or(f[i - 1], Into(Base32[Len32 - (i - 1)], i - 1, k))
  BY CharacterIs DEF Decoded
<1> DEFINE S == {i \in 0 .. Len32 : f[i] = Low(ByteAt(k), 5 * i - 8 * k)}
<1>3. 0 \in S
  <2>1. f[0] = 0 /\ 0 \in 0 .. Len32
    BY <1>1, <1>2
  <2>2. 5 * 0 - 8 * k <= 0
    OBVIOUS
  <2> QED
    BY <2>1, <2>2 DEF Low
<1>4. ASSUME NEW i \in 1 .. Len32, i - 1 \in S PROVE i \in S
  <2>1. f[i - 1] = Low(ByteAt(k), 5 * (i - 1) - 8 * k) /\ i - 1 \in Nat /\ i # 0 /\ i \in 0 .. Len32
    BY <1>4
  <2>2. f[i] = Or(f[i - 1], Into(Digit32(i - 1), i - 1, k))
    BY <1>2, <2>1, CharacterIs
  <2>3. Or(Low(ByteAt(k), 5 * (i - 1) - 8 * k), Into(Digit32(i - 1), i - 1, k))
          = Low(ByteAt(k), 5 * ((i - 1) + 1) - 8 * k)
    BY <2>1, CharacterAdds
  <2>4. (i - 1) + 1 = i
    OBVIOUS
  <2>5. f[i] = Low(ByteAt(k), 5 * i - 8 * k)
    BY <2>1, <2>2, <2>3, <2>4, Zenon
  <2> QED
    BY <2>1, <2>5
<1>5. Len32 \in S
  <2> HIDE DEF S
  <2>1. 0 .. Len32 \subseteq S
    BY <1>1, <1>3, <1>4, AllUpTo, Zenon
  <2> QED
    BY <1>1, <2>1
<1>6. 5 * Len32 - 8 * k >= 8
  BY <1>1
<1> QED
  BY <1>1, <1>5, <1>6 DEF Low

\* A digest is read back from base-32.
LEMMA ReadFromBase32 == ASSUME Digest PROVE nix_base32_decode(Base32) = bytes
<1> DEFINE F(b) == CHOOSE f : f = Decoded(f, Base32, b, Len32)
<1>1. Len(Base32) = Len32
  BY CharacterIs
<1>2. nix_base32_decode(Base32) = [k \in 1 .. (Len32 * 5) \div 8 |-> F(k - 1)[Len32]]
  BY <1>1 DEF nix_base32_decode, Decoded
<1>3. /\ Len(bytes) \in Nat /\ Len32 \in Nat /\ (Len32 * 5) \div 8 = Len(bytes)
  BY Len32Is
<1>4. ASSUME NEW k \in 1 .. Len(bytes) PROVE F(k - 1)[Len32] = bytes[k]
  <2>1. k - 1 \in Nat /\ k - 1 < Len(bytes) /\ (k - 1) + 1 = k
    BY <1>3
  <2>2. F(k - 1) = Decoded(F(k - 1), Base32, k - 1, Len32)
    BY <1>3, DecodedExists
  <2> HIDE DEF F
  <2>3. F(k - 1)[Len32] = ByteAt(k - 1)
    BY <2>1, <2>2, ByteDecoded
  <2> QED
    BY <2>1, <2>3, ByteAtIs
<1> HIDE DEF F
<1>5. bytes = [k \in 1 .. Len(bytes) |-> bytes[k]]
  BY DEF Digest
<1> QED
  BY <1>2, <1>3, <1>4, <1>5

\* The bits of the digest, counted from the highest of each byte.
LEMMA HighBitIs ==
  ASSUME Digest, NEW q \in Nat, NEW m \in 0 .. 7
  PROVE  HighBit(8 * q + m) = Bit(ByteAt(q), 7 - m)
<1>1. (8 * q + m) \div 8 = q /\ (8 * q + m) % 8 = m
  OBVIOUS
<1>2. Bit(0, 7 - m) = 0
  <2>1. 7 - m \in 0 .. 7
    OBVIOUS
  <2> QED
    BY <2>1, ZeroBits
<1> QED
  BY <1>1, <1>2, Zenon DEF HighBit, Bit, ByteAt

\* A digit of base-64, and the number of them.
Digit64(n) ==
  32 * HighBit(6 * n + 0) + 16 * HighBit(6 * n + 1) + 8 * HighBit(6 * n + 2)
  + 4 * HighBit(6 * n + 3) + 2 * HighBit(6 * n + 4) + HighBit(6 * n + 5)
Len64 == Chars(Len(bytes) * 8, 6)

\* Base-64 is made of these digits.
LEMMA Base64Is == Base64 = [k \in 1 .. Len64 |-> Digit64(k - 1)]
BY DEF Base64, Digit64, Len64

\* What a digit shows of the byte that it begins in, and of the next.
LEMMA Digit64Is ==
  ASSUME Digest, NEW n \in Nat, NEW q \in Nat
  PROVE  LET b == ByteAt(q)  c == ByteAt(q + 1)
         IN  /\ 6 * n = 8 * q => Digit64(n) = b \div 4
             /\ 6 * n = 8 * q + 6 => Digit64(n) = (b % 4) * 16 + (c \div 16)
             /\ 6 * n = 8 * q + 4 => Digit64(n) = (b % 16) * 4 + (c \div 64)
             /\ 6 * n = 8 * q + 2 => Digit64(n) = b % 64
<1> DEFINE b == ByteAt(q)  c == ByteAt(q + 1)
           z0 == Bit(b, 0)  z1 == Bit(b, 1)  z2 == Bit(b, 2)  z3 == Bit(b, 3)
           z4 == Bit(b, 4)  z5 == Bit(b, 5)  z6 == Bit(b, 6)  z7 == Bit(b, 7)
           y0 == Bit(c, 0)  y1 == Bit(c, 1)  y2 == Bit(c, 2)  y3 == Bit(c, 3)
           y4 == Bit(c, 4)  y5 == Bit(c, 5)  y6 == Bit(c, 6)  y7 == Bit(c, 7)
<1>1. Binary(b, z0, z1, z2, z3, z4, z5, z6, z7) /\ Binary(c, y0, y1, y2, y3, y4, y5, y6, y7)
  <2>1. q + 1 \in Nat
    OBVIOUS
  <2>2. b \in 0 .. 255 /\ c \in 0 .. 255
    BY <2>1, ByteAtIs
  <2> HIDE DEF b, c
  <2> QED
    BY <2>2, InBinary
<1>2. /\ HighBit(8 * q + 0) = z7 /\ HighBit(8 * q + 1) = z6 /\ HighBit(8 * q + 2) = z5
      /\ HighBit(8 * q + 3) = z4 /\ HighBit(8 * q + 4) = z3 /\ HighBit(8 * q + 5) = z2
      /\ HighBit(8 * q + 6) = z1 /\ HighBit(8 * q + 7) = z0
  <2>1. \A m \in 0 .. 7 : HighBit(8 * q + m) = Bit(b, 7 - m)
    BY HighBitIs
  <2> HIDE DEF b
  <2> QED
    BY <2>1
<1>3. /\ HighBit(8 * q + 8) = y7 /\ HighBit(8 * q + 9) = y6 /\ HighBit(8 * q + 10) = y5
      /\ HighBit(8 * q + 11) = y4 /\ HighBit(8 * q + 12) = y3 /\ HighBit(8 * q + 13) = y2
      /\ HighBit(8 * q + 14) = y1 /\ HighBit(8 * q + 15) = y0
  <2>1. \A m \in 0 .. 7 : HighBit(8 * (q + 1) + m) = Bit(c, 7 - m)
    <3>1. q + 1 \in Nat
      OBVIOUS
    <3> QED
      BY <3>1, HighBitIs, Zenon
  <2>2. \A m \in 0 .. 7 : 8 * (q + 1) + m = 8 * q + (8 + m)
    OBVIOUS
  <2>3. \A m \in 0 .. 7 : HighBit(8 * q + (8 + m)) = Bit(c, 7 - m)
    BY <2>1, <2>2
  <2> HIDE DEF c
  <2> QED
    BY <2>3
<1> HIDE DEF b, c, z0, z1, z2, z3, z4, z5, z6, z7, y0, y1, y2, y3, y4, y5, y6, y7
<1>4. ASSUME 6 * n = 8 * q PROVE Digit64(n) = b \div 4
  <2>1. Digit64(n) = 32 * z7 + 16 * z6 + 8 * z5 + 4 * z4 + 2 * z3 + z2
    BY <1>2, <1>4, Zenon DEF Digit64
  <2> QED
    BY <1>1, <2>1 DEF Binary
<1>5. ASSUME 6 * n = 8 * q + 6 PROVE Digit64(n) = (b % 4) * 16 + (c \div 16)
  <2>1. /\ 6 * n + 0 = 8 * q + 6 /\ 6 * n + 1 = 8 * q + 7 /\ 6 * n + 2 = 8 * q + 8
        /\ 6 * n + 3 = 8 * q + 9 /\ 6 * n + 4 = 8 * q + 10 /\ 6 * n + 5 = 8 * q + 11
    BY <1>5
  <2>2. Digit64(n) = 32 * z1 + 16 * z0 + 8 * y7 + 4 * y6 + 2 * y5 + y4
    BY <1>2, <1>3, <2>1, Zenon DEF Digit64
  <2>3. (b % 4) = 2 * z1 + z0 /\ c \div 16 = 8 * y7 + 4 * y6 + 2 * y5 + y4
    BY <1>1 DEF Binary
  <2> QED
    BY <1>1, <2>2, <2>3 DEF Binary
<1>6. ASSUME 6 * n = 8 * q + 4 PROVE Digit64(n) = (b % 16) * 4 + (c \div 64)
  <2>1. /\ 6 * n + 0 = 8 * q + 4 /\ 6 * n + 1 = 8 * q + 5 /\ 6 * n + 2 = 8 * q + 6
        /\ 6 * n + 3 = 8 * q + 7 /\ 6 * n + 4 = 8 * q + 8 /\ 6 * n + 5 = 8 * q + 9
    BY <1>6
  <2>2. Digit64(n) = 32 * z3 + 16 * z2 + 8 * z1 + 4 * z0 + 2 * y7 + y6
    BY <1>2, <1>3, <2>1, Zenon DEF Digit64
  <2>3. (b % 16) = 8 * z3 + 4 * z2 + 2 * z1 + z0 /\ c \div 64 = 2 * y7 + y6
    BY <1>1 DEF Binary
  <2> QED
    BY <1>1, <2>2, <2>3 DEF Binary
<1>7. ASSUME 6 * n = 8 * q + 2 PROVE Digit64(n) = b % 64
  <2>1. /\ 6 * n + 0 = 8 * q + 2 /\ 6 * n + 1 = 8 * q + 3 /\ 6 * n + 2 = 8 * q + 4
        /\ 6 * n + 3 = 8 * q + 5 /\ 6 * n + 4 = 8 * q + 6 /\ 6 * n + 5 = 8 * q + 7
    BY <1>7
  <2>2. Digit64(n) = 32 * z5 + 16 * z4 + 8 * z3 + 4 * z2 + 2 * z1 + z0
    BY <1>2, <2>1, Zenon DEF Digit64
  <2> QED
    BY <1>1, <2>2 DEF Binary
<1> QED
  BY <1>4, <1>5, <1>6, <1>7, Zenon DEF b, c

\* Four digits are read to the three bytes that they show.
LEMMA GroupRead ==
  ASSUME NEW b0 \in 0 .. 255, NEW b1 \in 0 .. 255, NEW b2 \in 0 .. 255
  PROVE  Group(b0 \div 4, (b0 % 4) * 16 + (b1 \div 16), (b1 % 16) * 4 + (b2 \div 64), b2 % 64)
           = <<b0, b1, b2>>
<1> DEFINE a == b0 \div 4  b == (b0 % 4) * 16 + (b1 \div 16)
           c == (b1 % 16) * 4 + (b2 \div 64)  d == b2 % 64
<1>1. a \in 0 .. 63 /\ b \in 0 .. 63 /\ c \in 0 .. 63 /\ d \in 0 .. 63
  OBVIOUS
<1>2. 262144 * a + 4096 * b + 64 * c + d = 65536 * b0 + 256 * b1 + b2
  OBVIOUS
<1> HIDE DEF a, b, c, d
<1>3. ASSUME NEW x \in Nat, NEW y \in Nat, NEW p \in Powers, NEW q \in Nat, x = p * q, y < p
      PROVE  Or(x, y) = x + y
  <2>1. Split(y, x, p)
    BY <1>3 DEF Split
  <2> QED
    BY <1>3, <2>1, OrAdds
<1> DEFINE p6 == 64  p8 == 256  p12 == 4096  p16 == 65536  p18 == 262144
           x == a * p18  y == b * p12  z == c * p6  n == p16 * b0 + p8 * b1 + b2
<1>5. /\ x \in Nat /\ x = p18 * a /\ y \in Nat /\ y < p18
      /\ x + y \in Nat /\ x + y = p12 * (a * 64 + b) /\ a * 64 + b \in Nat /\ z \in Nat /\ z < p12
      /\ x + y + z \in Nat
      /\ x + y + z = p6 * (a * p12 + b * 64 + c) /\ a * p12 + b * 64 + c \in Nat
      /\ d \in Nat /\ d < p6
  BY <1>1
<1>4. p6 \in Powers /\ p12 \in Powers /\ p18 \in Powers
  BY DEF Powers
<1>6. x + y + z + d = n
  BY <1>1, <1>2
<1>7. /\ n \div p16 = b0 /\ n \div p8 = 256 * b0 + b1
      /\ b0 % 256 = b0 /\ (256 * b0 + b1) % 256 = b1 /\ n % 256 = b2
  OBVIOUS
<1>8. 2^6 = p6 /\ 2^8 = p8 /\ 2^12 = p12 /\ 2^16 = p16 /\ 2^18 = p18
  OBVIOUS
<1> HIDE DEF p6, p8, p12, p16, p18, n
<1>9. Or(x, y) = x + y
  <2> HIDE DEF x, y
  <2> QED
    BY <1>1, <1>3, <1>4, <1>5
<1>10. Or(x + y, z) = x + y + z
  <2> HIDE DEF x, y, z
  <2> QED
    BY <1>3, <1>4, <1>5
<1>11. Or(x + y + z, d) = x + y + z + d
  <2> HIDE DEF x, y, z
  <2> QED
    BY <1>3, <1>4, <1>5
<1>12. Group(a, b, c, d) = <<(n \div p16) % 256, (n \div p8) % 256, n % 256>>
  <2>1. Or(Or(Or(a * p18, b * p12), c * p6), d) = n
    BY <1>6, <1>9, <1>10, <1>11, Zenon
  <2>2. Shl(a, 18) = a * p18 /\ Shl(b, 12) = b * p12 /\ Shl(c, 6) = c * p6
    BY <1>8, Zenon DEF Shl
  <2>3. U8(Shr(n, 16)) = (n \div p16) % 256 /\ U8(Shr(n, 8)) = (n \div p8) % 256 /\ U8(n) = n % 256
    BY <1>8, Zenon DEF Shr, U8
  <2>4. Or(Or(Or(Shl(a, 18), Shl(b, 12)), Shl(c, 6)), d) = n
    BY <2>1, <2>2, Zenon
  <2> QED
    BY <2>3, <2>4, Zenon DEF Group
<1> QED
  BY <1>7, <1>12, Zenon DEF a, b, c, d

\* Two digits are read to the byte that they show, and three to the two.
LEMMA RestRead ==
  ASSUME NEW b0 \in 0 .. 255, NEW b1 \in 0 .. 255, NEW b2 \in 0 .. 255
  PROVE  /\ TwoChars(b0 \div 4, (b0 % 4) * 16 + (b1 \div 16)) = b0
         /\ ThreeChars(b0 \div 4, (b0 % 4) * 16 + (b1 \div 16), (b1 % 16) * 4 + (b2 \div 64))
              = <<b0, b1>>
<1> DEFINE a == b0 \div 4  b == (b0 % 4) * 16 + (b1 \div 16)  c == (b1 % 16) * 4 + (b2 \div 64)
<1>1. a \in Nat /\ b \in Nat /\ c \in Nat
  OBVIOUS
<1>2. b \div 16 = b0 % 4 /\ c \div 4 = b1 % 16
  OBVIOUS
<1>3. (a * 4 + (b0 % 4)) % 256 = b0 /\ (b * 16 + (b1 % 16)) % 256 = b1
  OBVIOUS
<1> HIDE DEF a, b, c
<1>4. ASSUME NEW x \in Nat, NEW y \in Nat, NEW p \in Powers, NEW q \in Nat, x = p * q, y < p
      PROVE  Or(x, y) = x + y
  <2>1. Split(y, x, p)
    BY <1>4 DEF Split
  <2> QED
    BY <1>4, <2>1, OrAdds
<1>5. Or(a * 4, b0 % 4) = a * 4 + (b0 % 4)
  <2>1. a * 4 \in Nat /\ b0 % 4 \in Nat /\ 4 \in Powers /\ a * 4 = 4 * a /\ b0 % 4 < 4
    BY <1>1 DEF Powers
  <2> QED
    BY <1>1, <1>4, <2>1
<1>6. Or(b * 16, b1 % 16) = b * 16 + (b1 % 16)
  <2>1. b * 16 \in Nat /\ b1 % 16 \in Nat /\ 16 \in Powers /\ b * 16 = 16 * b /\ b1 % 16 < 16
    BY <1>1 DEF Powers
  <2> QED
    BY <1>1, <1>4, <2>1
<1>7. 2^2 = 4 /\ 2^4 = 16
  OBVIOUS
<1>8. TwoChars(a, b) = b0
  <2>1. Shl(a, 2) = a * 4 /\ Shr(b, 4) = b0 % 4
    BY <1>2, <1>7, Zenon DEF Shl, Shr
  <2>2. TwoChars(a, b) = (a * 4 + (b0 % 4)) % 256
    BY <1>5, <2>1, Zenon DEF TwoChars, U8
  <2> QED
    BY <1>3, <2>2, Zenon
<1>9. ThreeChars(a, b, c) = <<b0, b1>>
  <2>1. Shl(b, 4) = b * 16 /\ Shr(c, 2) = b1 % 16
    BY <1>2, <1>7, Zenon DEF Shl, Shr
  <2>2. ThreeChars(a, b, c) = <<TwoChars(a, b), (b * 16 + (b1 % 16)) % 256>>
    BY <1>6, <2>1, Zenon DEF ThreeChars, U8
  <2> QED
    BY <1>3, <1>8, <2>2, Zenon
<1> QED
  BY <1>8, <1>9, Zenon DEF a, b, c

\* The digits of three bytes.
LEMMA DigitsOfThree ==
  ASSUME Digest, NEW g \in Nat
  PROVE  LET b0 == ByteAt(3 * g)  b1 == ByteAt(3 * g + 1)  b2 == ByteAt(3 * g + 2)
         IN  /\ b0 \in 0 .. 255 /\ b1 \in 0 .. 255 /\ b2 \in 0 .. 255
             /\ Digit64(4 * g) = b0 \div 4
             /\ Digit64(4 * g + 1) = (b0 % 4) * 16 + (b1 \div 16)
             /\ Digit64(4 * g + 2) = (b1 % 16) * 4 + (b2 \div 64)
             /\ Digit64(4 * g + 3) = b2 % 64
<1> DEFINE b0 == ByteAt(3 * g)  b1 == ByteAt(3 * g + 1)  b2 == ByteAt(3 * g + 2)
<1>1. /\ 3 * g \in Nat /\ 3 * g + 1 \in Nat /\ 3 * g + 2 \in Nat
      /\ 4 * g \in Nat /\ 4 * g + 1 \in Nat /\ 4 * g + 2 \in Nat /\ 4 * g + 3 \in Nat
      /\ (3 * g + 1) + 1 = 3 * g + 2
  OBVIOUS
<1>2. /\ 6 * (4 * g) = 8 * (3 * g) /\ 6 * (4 * g + 1) = 8 * (3 * g) + 6
      /\ 6 * (4 * g + 2) = 8 * (3 * g + 1) + 4 /\ 6 * (4 * g + 3) = 8 * (3 * g + 2) + 2
  OBVIOUS
<1>3. b0 \in 0 .. 255 /\ b1 \in 0 .. 255 /\ b2 \in 0 .. 255
  BY <1>1, ByteAtIs, Zenon
<1>4. Digit64(4 * g) = b0 \div 4 /\ Digit64(4 * g + 1) = (b0 % 4) * 16 + (b1 \div 16)
  BY <1>1, <1>2, Digit64Is, Zenon
<1>5. Digit64(4 * g + 2) = (b1 % 16) * 4 + (b2 \div 64)
  <2>1. Digit64(4 * g + 2) = (ByteAt(3 * g + 1) % 16) * 4 + (ByteAt((3 * g + 1) + 1) \div 64)
    BY <1>1, <1>2, Digit64Is, Zenon
  <2> QED
    BY <1>1, <2>1, Zenon
<1>6. Digit64(4 * g + 3) = b2 % 64
  BY <1>1, <1>2, Digit64Is, Zenon
<1> QED
  BY <1>3, <1>4, <1>5, <1>6, Zenon

\* As many digits as bytes need: four for every three, and two or three for the rest.
LEMMA Len64Is ==
  ASSUME Digest
  PROVE  LET m == Len(bytes) \div 3
         IN  /\ m \in Nat /\ Len(bytes) \in Nat /\ Len64 \in Nat /\ Len64 \div 4 = m
             /\ \/ Len(bytes) = 3 * m /\ Len64 = 4 * m
                \/ Len(bytes) = 3 * m + 1 /\ Len64 = 4 * m + 2
                \/ Len(bytes) = 3 * m + 2 /\ Len64 = 4 * m + 3
BY DEF Digest, Len64, Chars

\* A group of four characters is read to its three bytes.
LEMMA ThreeRead ==
  ASSUME Digest, NEW g \in Nat
  PROVE  Group(Digit64(4 * g), Digit64(4 * g + 1), Digit64(4 * g + 2), Digit64(4 * g + 3))
           = <<ByteAt(3 * g), ByteAt(3 * g + 1), ByteAt(3 * g + 2)>>
<1> DEFINE b0 == ByteAt(3 * g)  b1 == ByteAt(3 * g + 1)  b2 == ByteAt(3 * g + 2)
<1>1. /\ b0 \in 0 .. 255 /\ b1 \in 0 .. 255 /\ b2 \in 0 .. 255
      /\ Digit64(4 * g) = b0 \div 4 /\ Digit64(4 * g + 1) = (b0 % 4) * 16 + (b1 \div 16)
      /\ Digit64(4 * g + 2) = (b1 % 16) * 4 + (b2 \div 64) /\ Digit64(4 * g + 3) = b2 % 64
  BY DigitsOfThree
<1> HIDE DEF b0, b1, b2
<1>2. Group(b0 \div 4, (b0 % 4) * 16 + (b1 \div 16), (b1 % 16) * 4 + (b2 \div 64), b2 % 64)
        = <<b0, b1, b2>>
  BY <1>1, GroupRead, Zenon
<1> QED
  BY <1>1, <1>2, Zenon DEF b0, b1, b2

\* Two sequences that agree with the two parts of a third are that one.
LEMMA Joined ==
  ASSUME NEW s \in Seq(Bytes), NEW n \in Nat, NEW u \in Seq(Bytes), NEW v \in Seq(Bytes),
         Len(u) = n, Len(s) = n + Len(v),
         \A i \in 1 .. n : u[i] = s[i], \A i \in 1 .. Len(v) : v[i] = s[n + i]
  PROVE  u \o v = s
<1>1. /\ Len(u \o v) = Len(s) /\ u \o v \in Seq(Bytes) /\ Len(v) \in Nat
      /\ \A i \in 1 .. Len(s) : (u \o v)[i] = IF i <= n THEN u[i] ELSE v[i - n]
  <2>1. /\ u \o v \in Seq(Bytes) /\ Len(u \o v) = Len(u) + Len(v)
        /\ \A i \in 1 .. Len(u) + Len(v) : (u \o v)[i] = IF i <= Len(u) THEN u[i] ELSE v[i - Len(u)]
    BY ConcatProperties, Zenon
  <2>2. Len(v) \in Nat
    OBVIOUS
  <2> QED
    BY <2>1, <2>2, Zenon
<1>2. ASSUME NEW i \in 1 .. Len(s) PROVE (u \o v)[i] = s[i]
  <2>1. CASE i <= n
    <3>1. i \in 1 .. n
      BY <1>1, <2>1
    <3> QED
      BY <1>1, <2>1, <3>1, Zenon
  <2>2. CASE ~(i <= n)
    <3>1. i - n \in 1 .. Len(v) /\ n + (i - n) = i
      BY <1>1, <2>2
    <3>2. (u \o v)[i] = v[i - n]
      BY <1>1, <2>2, Zenon
    <3> QED
      BY <3>1, <3>2, Zenon
  <2> QED
    BY <2>1, <2>2
<1> QED
  BY <1>1, <1>2, SeqEqual

\* The characters of a digest.
LEMMA Base64Chars ==
  ASSUME Digest
  PROVE  /\ Len(Base64) = Len64 /\ Base64 = [k \in 1 .. Len64 |-> Digit64(k - 1)]
         /\ \A n \in Nat : n < Len64 => Base64[n + 1] = Digit64(n)
<1>1. Len64 \in Nat
  BY Len64Is
<1>2. Base64 = [k \in 1 .. Len64 |-> Digit64(k - 1)]
  BY Base64Is
<1> HIDE DEF Base64
<1>3. ASSUME NEW n \in Nat, n < Len64 PROVE Base64[n + 1] = Digit64(n)
  <2>1. n + 1 \in 1 .. Len64 /\ (n + 1) - 1 = n
    BY <1>1, <1>3
  <2> QED
    BY <1>2, <2>1
<1> QED
  BY <1>1, <1>2, <1>3

\* All groups of four are read to the bytes before the rest.
LEMMA GroupsRead ==
  ASSUME Digest, NEW k \in 1 .. 3 * (Len(bytes) \div 3)
  PROVE  LET g == (k - 1) \div 3
             three == Group(Base64[4 * g + 1], Base64[4 * g + 2],
                            Base64[4 * g + 3], Base64[4 * g + 4])
         IN  three[((k - 1) % 3) + 1] = bytes[k]
<1> DEFINE g == (k - 1) \div 3  t == (k - 1) % 3  m == Len(bytes) \div 3
<1>1. m \in Nat /\ Len(bytes) \in Nat /\ Len64 \in Nat /\ 3 * m <= Len(bytes) /\ 4 * m <= Len64
  BY Len64Is
<1>2. g \in Nat /\ t \in 0 .. 2 /\ k = 3 * g + t + 1 /\ g < m
  BY <1>1
<1> HIDE DEF g, t, m
<1>3. 4 * g \in Nat /\ 4 * g + 1 \in Nat /\ 4 * g + 2 \in Nat /\ 4 * g + 3 \in Nat
  BY <1>2
<1>4. 4 * g < Len64 /\ 4 * g + 1 < Len64 /\ 4 * g + 2 < Len64 /\ 4 * g + 3 < Len64
  BY <1>1, <1>2
<1>5. (4 * g + 1) + 1 = 4 * g + 2 /\ (4 * g + 2) + 1 = 4 * g + 3 /\ (4 * g + 3) + 1 = 4 * g + 4
  BY <1>2
<1>6. /\ Base64[4 * g + 1] = Digit64(4 * g) /\ Base64[4 * g + 2] = Digit64(4 * g + 1)
      /\ Base64[4 * g + 3] = Digit64(4 * g + 2) /\ Base64[4 * g + 4] = Digit64(4 * g + 3)
  BY <1>3, <1>4, <1>5, Base64Chars, Zenon
<1> DEFINE three == Group(Base64[4 * g + 1], Base64[4 * g + 2],
                          Base64[4 * g + 3], Base64[4 * g + 4])
<1>7. three = <<ByteAt(3 * g), ByteAt(3 * g + 1), ByteAt(3 * g + 2)>>
  BY <1>2, <1>6, ThreeRead, Zenon
<1> HIDE DEF three
<1>8. three[t + 1] = ByteAt(3 * g + t)
  <2>1. three[1] = ByteAt(3 * g) /\ three[2] = ByteAt(3 * g + 1) /\ three[3] = ByteAt(3 * g + 2)
    BY <1>7
  <2>2. t = 0 \/ t = 1 \/ t = 2
    BY <1>2
  <2>3. 3 * g + 0 = 3 * g
    BY <1>2
  <2> QED
    BY <2>1, <2>2, <2>3
<1>9. ByteAt(3 * g + t) = bytes[k]
  <2>1. 3 * g + t \in Nat /\ 3 * g + t < Len(bytes) /\ (3 * g + t) + 1 = k
    BY <1>1, <1>2
  <2> QED
    BY <2>1, ByteAtIs
<1> QED
  BY <1>8, <1>9, Zenon DEF g, t, three

\* The rest is read to the bytes after the groups.
LEMMA RestIsRead ==
  ASSUME Digest
  PROVE  LET n == 3 * (Len(bytes) \div 3)
             rest == Rest(SubSeq(Base64, 4 * (Len(bytes) \div 3) + 1, Len64))
         IN  /\ rest \in Seq(Bytes) /\ Len(bytes) = n + Len(rest)
             /\ \A i \in 1 .. Len(rest) : rest[i] = bytes[n + i]
<1> DEFINE m == Len(bytes) \div 3  s == SubSeq(Base64, 4 * m + 1, Len64)
           b0 == ByteAt(3 * m)  b1 == ByteAt(3 * m + 1)  b2 == ByteAt(3 * m + 2)
<1>1. /\ m \in Nat /\ Len(bytes) \in Nat /\ Len64 \in Nat
      /\ \/ Len(bytes) = 3 * m /\ Len64 = 4 * m
         \/ Len(bytes) = 3 * m + 1 /\ Len64 = 4 * m + 2
         \/ Len(bytes) = 3 * m + 2 /\ Len64 = 4 * m + 3
  BY Len64Is
<1> HIDE DEF m
<1>2. Len(s) = Len64 - 4 * m /\ \A i \in 1 .. Len64 - 4 * m : s[i] = Digit64(4 * m + i - 1)
  <2>1. Base64 = [k \in 1 .. Len64 |-> Digit64(k - 1)]
    BY Base64Chars
  <2> DEFINE c == Base64
  <2> HIDE DEF c
  <2>2. s = [i \in 1 .. Len64 - 4 * m |-> c[4 * m + i]]
    BY <1>1, <2>1 DEF c
  <2>3. ASSUME NEW i \in 1 .. Len64 - 4 * m PROVE c[4 * m + i] = Digit64(4 * m + i - 1)
    <3>1. 4 * m + i - 1 \in Nat /\ 4 * m + i - 1 < Len64 /\ (4 * m + i - 1) + 1 = 4 * m + i
      BY <1>1
    <3>2. Base64[(4 * m + i - 1) + 1] = Digit64(4 * m + i - 1)
      BY <3>1, Base64Chars, Zenon
    <3> QED
      BY <3>1, <3>2, Zenon DEF c
  <2> HIDE DEF s
  <2>4. Len64 - 4 * m \in Nat
    BY <1>1
  <2> QED
    BY <2>2, <2>3, <2>4
<1>3. /\ b0 \in Bytes /\ b1 \in Bytes /\ b2 \in Bytes
      /\ Digit64(4 * m) = b0 \div 4 /\ Digit64(4 * m + 1) = (b0 % 4) * 16 + (b1 \div 16)
      /\ Digit64(4 * m + 2) = (b1 % 16) * 4 + (b2 \div 64)
  BY <1>1, DigitsOfThree DEF Bytes
<1>4. /\ 3 * m < Len(bytes) => b0 = bytes[3 * m + 1]
      /\ 3 * m + 1 < Len(bytes) => b1 = bytes[(3 * m + 1) + 1]
  BY <1>1, ByteAtIs
<1> HIDE DEF s, b0, b1, b2
<1>5. /\ TwoChars(Digit64(4 * m), Digit64(4 * m + 1)) = b0
      /\ ThreeChars(Digit64(4 * m), Digit64(4 * m + 1), Digit64(4 * m + 2)) = <<b0, b1>>
  <2>1. b0 \in 0 .. 255 /\ b1 \in 0 .. 255 /\ b2 \in 0 .. 255
    BY <1>3, Zenon DEF Bytes
  <2>2. /\ TwoChars(b0 \div 4, (b0 % 4) * 16 + (b1 \div 16)) = b0
        /\ ThreeChars(b0 \div 4, (b0 % 4) * 16 + (b1 \div 16), (b1 % 16) * 4 + (b2 \div 64))
              = <<b0, b1>>
    BY <2>1, RestRead, Zenon
  <2> QED
    BY <1>3, <2>2, Zenon
<1> DEFINE rest == Rest(s)
<1>6. ASSUME Len(bytes) = 3 * m, Len64 = 4 * m PROVE rest = << >>
  <2>1. Len(s) = 0
    BY <1>1, <1>2, <1>6
  <2> QED
    BY <2>1 DEF Rest
<1>7. ASSUME Len(bytes) = 3 * m + 1, Len64 = 4 * m + 2 PROVE rest = <<b0>>
  <2>1. Len(s) = 2 /\ s[1] = Digit64(4 * m) /\ s[2] = Digit64(4 * m + 1)
    <3>1. Len64 - 4 * m = 2 /\ 4 * m + 1 - 1 = 4 * m /\ 4 * m + 2 - 1 = 4 * m + 1
      BY <1>1, <1>7
    <3> QED
      BY <1>2, <3>1
  <2>2. Rest(s) = <<TwoChars(s[1], s[2])>>
    BY <2>1 DEF Rest
  <2> QED
    BY <1>5, <2>1, <2>2, Zenon
<1>8. ASSUME Len(bytes) = 3 * m + 2, Len64 = 4 * m + 3 PROVE rest = <<b0, b1>>
  <2>1. /\ Len(s) = 3 /\ s[1] = Digit64(4 * m) /\ s[2] = Digit64(4 * m + 1)
        /\ s[3] = Digit64(4 * m + 2)
    <3>1. /\ Len64 - 4 * m = 3 /\ 4 * m + 1 - 1 = 4 * m /\ 4 * m + 2 - 1 = 4 * m + 1
          /\ 4 * m + 3 - 1 = 4 * m + 2
      BY <1>1, <1>8
    <3> QED
      BY <1>2, <3>1
  <2>2. Rest(s) = ThreeChars(s[1], s[2], s[3])
    BY <2>1 DEF Rest
  <2> QED
    BY <1>5, <2>1, <2>2, Zenon
<1> HIDE DEF rest
<1>9. /\ rest \in Seq(Bytes) /\ Len(bytes) = 3 * m + Len(rest)
      /\ \A i \in 1 .. Len(rest) : rest[i] = bytes[3 * m + i]
  <2>1. CASE Len(bytes) = 3 * m /\ Len64 = 4 * m
    BY <1>1, <1>6, <2>1
  <2>2. CASE Len(bytes) = 3 * m + 1 /\ Len64 = 4 * m + 2
    <3>1. 3 * m < Len(bytes)
      BY <1>1, <2>2
    <3>2. rest = <<b0>> /\ b0 = bytes[3 * m + 1]
      BY <1>4, <1>7, <2>2, <3>1
    <3> QED
      BY <1>1, <1>3, <2>2, <3>2
  <2>3. CASE Len(bytes) = 3 * m + 2 /\ Len64 = 4 * m + 3
    <3>1. (3 * m + 1) + 1 = 3 * m + 2 /\ 3 * m < Len(bytes) /\ 3 * m + 1 < Len(bytes)
      BY <1>1, <2>3
    <3>2. rest = <<b0, b1>> /\ b0 = bytes[3 * m + 1] /\ b1 = bytes[3 * m + 2]
      BY <1>4, <1>8, <2>3, <3>1
    <3> QED
      BY <1>1, <1>3, <2>3, <3>2
  <2> QED
    BY <1>1, <2>1, <2>2, <2>3
<1> QED
  BY <1>9, Zenon DEF m, s, rest

\* A digest is read back from base-64.
LEMMA ReadFromBase64 == ASSUME Digest PROVE base64_decode(Base64) = bytes
<1> DEFINE m == Len(bytes) \div 3
           Byte(k) == LET g == k \div 3
                          three == Group(Base64[4 * g + 1], Base64[4 * g + 2],
                                         Base64[4 * g + 3], Base64[4 * g + 4])
                      IN  three[(k % 3) + 1]
           u == [k \in 1 .. 3 * m |-> Byte(k - 1)]
           v == Rest(SubSeq(Base64, 4 * m + 1, Len64))
<1>1. m \in Nat /\ Len(bytes) \in Nat /\ Len64 \in Nat /\ Len64 \div 4 = m /\ Len(Base64) = Len64
  BY Len64Is, Base64Chars
<1>2. base64_decode(Base64) = u \o v
  BY <1>1 DEF base64_decode
<1>3. \A k \in 1 .. 3 * m : Byte(k - 1) = bytes[k]
  BY GroupsRead
<1>4. /\ v \in Seq(Bytes) /\ Len(bytes) = 3 * m + Len(v)
      /\ \A i \in 1 .. Len(v) : v[i] = bytes[3 * m + i]
  BY RestIsRead
<1> HIDE DEF m, Byte, v
<1>5. 3 * m \in Nat /\ Len(v) \in Nat
  BY <1>1, <1>4
<1>6. \A k \in 1 .. 3 * m : bytes[k] \in Bytes
  <2>1. \A k \in 1 .. 3 * m : k \in 1 .. Len(bytes)
    BY <1>4, <1>5
  <2> QED
    BY <2>1 DEF Digest
<1>7. u \in Seq(Bytes) /\ Len(u) = 3 * m /\ \A i \in 1 .. 3 * m : u[i] = bytes[i]
  BY <1>3, <1>5, <1>6
<1> HIDE DEF u
<1>8. u \o v = bytes
  BY <1>4, <1>5, <1>7, Joined DEF Digest
<1> QED
  BY <1>2, <1>8

\* Digests are made of bytes.
LEMMA DigestInvariant == HashSpec => []Digest
<1>1. HashInit => Digest
  BY DEF HashInit, Digest
<1>2. Digest /\ [\E b \in ByteValues : AppendByte(b)]_bytes => Digest'
  <2> SUFFICES ASSUME Digest, [\E b \in ByteValues : AppendByte(b)]_bytes PROVE Digest'
    OBVIOUS
  <2>1. ASSUME NEW b \in ByteValues, AppendByte(b) PROVE Digest'
    <3>1. b \in Bytes
      BY ByteAssumption DEF Bytes
    <3> QED
      BY <2>1, <3>1 DEF AppendByte, Digest
  <2>2. CASE UNCHANGED bytes
    BY <2>2 DEF Digest
  <2> QED
    BY <2>1, <2>2
<1> QED
  BY <1>1, <1>2, PTL DEF HashSpec

\* For digests of every length: the base-32 of a digest is written as defined, and
\* read back to the digest.
THEOREM DigestsInBase32 == HashSpec => []Base32IsRight
<1>1. Digest => Base32IsRight
  BY WrittenInBase32, ReadFromBase32 DEF Base32IsRight
<1> QED
  BY <1>1, DigestInvariant, PTL

\* For digests of every length: the base-64 of a digest is read to the digest.
THEOREM DigestsInBase64 == HashSpec => []Base64IsRight
<1>1. Digest => Base64IsRight
  BY ReadFromBase64 DEF Base64IsRight
<1> QED
  BY <1>1, DigestInvariant, PTL
=============================================================================
