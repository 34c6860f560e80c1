--------------------------- MODULE FileSysProofs ----------------------------
(***************************************************************************)
(* Proofs about FileSys.  The bitmap and the block pointers of the cache   *)
(* agree after every call; whenever the machine stops, the disk shows no   *)
(* file another's block, and has the files that were written out; and the  *)
(* calls are those of Files.                                               *)
(***************************************************************************)
EXTENDS FileSys, Induction, FiniteSetTheorems

(***************************************************************************)
(* The invariant.  It is about a memory m whose root directory has n        *)
(* blocks, while the blocks x are in hand: allocated, with no pointer to   *)
(* them yet.                                                               *)
(***************************************************************************)
Places == Block \X (0 .. BLKFILES - 1)
Inodes(m, n) == {Root} \cup ({Ptr(m, Root, k) : k \in 0 .. n - 1} \X (0 .. BLKFILES - 1))

Shaped(m) ==
    /\ m \in [Block -> Content]
    /\ m[Super].kind = "files" /\ m[Bitmap].kind = "bitmap"
Rooted(m, n) == n \in 0 .. Capacity /\ \A k \in 0 .. n - 1 : Ptr(m, Root, k) # 0

\* No block has two owners, and those of fixed use have none.
Owned(m, n) ==
    /\ \A f, g \in Inodes(m, n), i, j \in Slots :
          PtrAt(m, f, i) = PtrAt(m, g, j) /\ PtrAt(m, f, i) # 0 => f = g /\ i = j
    /\ \A f \in Inodes(m, n), i \in Slots : PtrAt(m, f, i) \notin {Super, Bitmap}
Has(m, n, b) == \E f \in Inodes(m, n), i \in Slots : PtrAt(m, f, i) = b
Exact(m, n, x) ==
    /\ \A b \in Block : b \in FreeIn(m) <=> ~ (b \in {Super, Bitmap} \cup x \/ Has(m, n, b))
    /\ \A b \in x : b \in Block \ {Super, Bitmap} /\ ~ Has(m, n, b)

\* What the blocks hold.  Only the blocks of the directory have ever held Files.
Indirects(m, n) == \A f \in Inodes(m, n) :
    LET b == File(m, f).indirect IN b # 0 => m[b] = Zero \/ m[b].kind = "ptrs"
Kinds(m, n) == \A b \in Block :
    m[b].kind = "files" => b = Super \/ \E k \in 0 .. n - 1 : b = Ptr(m, Root, k)

\* A file has no block behind its end, an unused entry none at all.
Ends(m, n) == \A f \in Inodes(m, n) \ {Root}, i \in 0 .. Capacity - 1 :
    i >= NBlocks(File(m, f).size) => Ptr(m, f, i) = 0
Blank(m, n) == \A f \in Inodes(m, n) \ {Root}, i \in Slots :
    File(m, f).name = NoName => PtrAt(m, f, i) = 0

Good(m, n, x) ==
    /\ Shaped(m) /\ Rooted(m, n)
    /\ Owned(m, n) /\ Exact(m, n, x)
    /\ Indirects(m, n) /\ Kinds(m, n)
    /\ Ends(m, n) /\ Blank(m, n)

\* Every block of the directory has the entry of a file, and no two files have
\* one name: there are no more blocks than names.
Listed(m, n) ==
    /\ \A k \in 0 .. n - 1 : \E j \in 0 .. BLKFILES - 1 : File(m, <<Ptr(m, Root, k), j>>).name \in Names
    /\ \A f, g \in Inodes(m, n) \ {Root} :
          File(m, f).name = File(m, g).name /\ File(m, f).name \in Names => f = g

NDir(m) == File(m, Root).size \div BLKSIZE
Whole(m) ==
    /\ File(m, Root).size = NDir(m) * BLKSIZE
    /\ Good(m, NDir(m), {}) /\ Listed(m, NDir(m))

-----------------------------------------------------------------------------
(* Types and arithmetic.                                                   *)

LEMMA Sizes ==
    /\ NBLOCKS \in Nat /\ NBLOCKS > 3 /\ BLKSIZE \in Nat \ {0} /\ BLKFILES \in Nat \ {0}
    /\ NDIRECT \in Nat \ {0} /\ NINDIRECT \in Nat \ {0} /\ MaxSize \in Nat \ {0} /\ MaxCount \in Nat \ {0}
    /\ Capacity \in Nat /\ Capacity = NDIRECT + NINDIRECT
    /\ Super \in Block /\ Bitmap \in Block /\ Super # Bitmap /\ 0 \notin Block /\ Block \subseteq Nat
  BY SizesAssumption DEF Capacity, Super, Bitmap, Block

LEMMA FileTypes ==
    /\ BlankFile \in FileType
    /\ BlankFile.name = NoName /\ BlankFile.size = 0 /\ BlankFile.indirect = 0
    /\ \A i \in 0 .. NDIRECT - 1 : BlankFile.direct[i] = 0
  BY Sizes DEF BlankFile, FileType

LEMMA ContentKinds ==
    ASSUME NEW c \in Content
    PROVE  /\ c.kind \in {"zero", "bitmap", "files", "ptrs", "bytes"}
           /\ c.kind = "zero" => c = Zero
           /\ c.kind = "bitmap" => c = [kind |-> "bitmap", free |-> c.free] /\ c.free \in SUBSET Block
           /\ c.kind = "files" => c = FilesBlock(c.files) /\ c.files \in [0 .. BLKFILES - 1 -> FileType]
           /\ c.kind = "ptrs" => c.ptrs \in [0 .. NINDIRECT - 1 -> {0} \cup Block]
           /\ c.kind = "bytes" => c.bytes \in [0 .. BLKSIZE - 1 -> Byte]
  BY DEF Content, Zero, FilesBlock

LEMMA ReadAs ==
    ASSUME NEW c \in Content
    PROVE  /\ FilesIn(c) \in [0 .. BLKFILES - 1 -> FileType]
           /\ PtrsIn(c) \in [0 .. NINDIRECT - 1 -> {0} \cup Block]
           /\ BytesIn(c) \in [0 .. BLKSIZE - 1 -> Byte]
           /\ c = Zero => \A j \in 0 .. BLKFILES - 1 : FilesIn(c)[j] = BlankFile
<1> HIDE DEF Content
<1>1. FilesIn(c) \in [0 .. BLKFILES - 1 -> FileType]
  BY ContentKinds, FileTypes, JunkAssumption DEF FilesIn
<1>2. PtrsIn(c) \in [0 .. NINDIRECT - 1 -> {0} \cup Block]
  BY ContentKinds, Sizes DEF PtrsIn
<1>3. BytesIn(c) \in [0 .. BLKSIZE - 1 -> Byte]
  BY ContentKinds, Sizes DEF BytesIn, Byte
<1>4. c = Zero => \A j \in 0 .. BLKFILES - 1 : FilesIn(c)[j] = BlankFile
  BY DEF FilesIn, Zero
<1>5. QED  BY <1>1, <1>2, <1>3, <1>4

LEMMA WrittenAs ==
    /\ Zero \in Content /\ Zero.kind = "zero"
    /\ \A fs \in [0 .. BLKFILES - 1 -> FileType] :
          /\ FilesBlock(fs) \in Content /\ FilesBlock(fs).kind = "files"
          /\ FilesIn(FilesBlock(fs)) = fs
    /\ \A ps \in [0 .. NINDIRECT - 1 -> {0} \cup Block] :
          /\ PtrsBlock(ps) \in Content /\ (PtrsBlock(ps) = Zero \/ PtrsBlock(ps).kind = "ptrs")
          /\ PtrsBlock(ps).kind # "files"
          /\ PtrsIn(PtrsBlock(ps)) = ps
    /\ \A bs \in [0 .. BLKSIZE - 1 -> Byte] :
          BytesBlock(bs) \in Content /\ BytesBlock(bs).kind # "files"
<1>1. Zero \in Content /\ Zero.kind = "zero"
  BY DEF Content, Zero
<1>2. ASSUME NEW fs \in [0 .. BLKFILES - 1 -> FileType]
      PROVE  /\ FilesBlock(fs) \in Content /\ FilesBlock(fs).kind = "files"
             /\ FilesIn(FilesBlock(fs)) = fs
  BY DEF Content, FilesBlock, FilesIn
<1>3. ASSUME NEW ps \in [0 .. NINDIRECT - 1 -> {0} \cup Block]
      PROVE  /\ PtrsBlock(ps) \in Content /\ (PtrsBlock(ps) = Zero \/ PtrsBlock(ps).kind = "ptrs")
             /\ PtrsBlock(ps).kind # "files"
             /\ PtrsIn(PtrsBlock(ps)) = ps
  <2>1. CASE \A i \in DOMAIN ps : ps[i] = 0
    <3>1. PtrsBlock(ps) = Zero /\ PtrsIn(Zero) = [i \in 0 .. NINDIRECT - 1 |-> 0]
      BY <2>1 DEF PtrsBlock, PtrsIn, Zero
    <3>2. ps = [i \in 0 .. NINDIRECT - 1 |-> 0]
      BY <2>1
    <3>3. QED  BY <1>1, <3>1, <3>2 DEF Zero
  <2>2. CASE ~ \A i \in DOMAIN ps : ps[i] = 0
    BY <2>2 DEF Content, PtrsBlock, PtrsIn
  <2>3. QED  BY <2>1, <2>2
<1>4. ASSUME NEW bs \in [0 .. BLKSIZE - 1 -> Byte]
      PROVE  BytesBlock(bs) \in Content /\ BytesBlock(bs).kind # "files"
  BY <1>1 DEF Content, BytesBlock, Zero
<1>5. QED  BY <1>1, <1>2, <1>3, <1>4

(* Blocks and sizes.                                                        *)
LEMMA Rounding ==
    ASSUME NEW a \in Nat
    PROVE  /\ NBlocks(a) \in Nat /\ a \div BLKSIZE \in Nat
           /\ (a \div BLKSIZE) * BLKSIZE <= a /\ a < (a \div BLKSIZE + 1) * BLKSIZE
           /\ a <= NBlocks(a) * BLKSIZE /\ NBlocks(a) * BLKSIZE < a + BLKSIZE
  BY Sizes DEF NBlocks
LEMMA Cancel ==
    ASSUME NEW p \in Nat, NEW q \in Nat, p * BLKSIZE < (q + 1) * BLKSIZE
    PROVE  p <= q
<1> SUFFICES ASSUME p >= q + 1  PROVE FALSE
  OBVIOUS
<1>1. PICK d \in Nat : p = q + 1 + d
  <2>1. p - (q + 1) \in Nat /\ p = q + 1 + (p - (q + 1))
    OBVIOUS
  <2>2. QED  BY <2>1
<1>2. p * BLKSIZE = (q + 1) * BLKSIZE + d * BLKSIZE /\ d * BLKSIZE \in Nat
  BY <1>1, Sizes
<1>3. (q + 1) * BLKSIZE \in Nat
  BY Sizes
<1>4. QED  BY <1>2, <1>3
LEMMA RoundingGrows ==
    ASSUME NEW a \in Nat, NEW b \in Nat, a <= b
    PROVE  NBlocks(a) <= NBlocks(b) /\ a \div BLKSIZE <= NBlocks(b)
<1>1. (NBlocks(b) + 1) * BLKSIZE = NBlocks(b) * BLKSIZE + BLKSIZE
  BY Rounding, Sizes
<1>2. NBlocks(a) * BLKSIZE < (NBlocks(b) + 1) * BLKSIZE
  BY Rounding, Sizes, <1>1
<1>3. (a \div BLKSIZE) * BLKSIZE < (NBlocks(b) + 1) * BLKSIZE
  BY Rounding, Sizes, <1>1
<1> HIDE DEF NBlocks
<1>4. QED  BY <1>2, <1>3, Rounding, Cancel
LEMMA WholeBlocks ==
    ASSUME NEW n \in Nat
    PROVE  (n * BLKSIZE) \div BLKSIZE = n /\ NBlocks(n * BLKSIZE) = n
  BY Sizes DEF NBlocks

-----------------------------------------------------------------------------
(* Files and pointers in a memory.                                         *)

Memory == [Block -> Content]
StaleEntries == Block \X (0 .. NINDIRECT - 1)
WithFile(m, f, file) == [m EXCEPT ![f[1]] = FilesBlock([FilesIn(@) EXCEPT ![f[2]] = file])]

LEMMA WithFileLemma ==
    ASSUME NEW m \in Memory, NEW f \in Places, NEW file \in FileType
    PROVE  LET w == WithFile(m, f, file)
           IN  /\ w \in Memory
               /\ File(w, f) = file
               /\ \A g \in Places : g # f => File(w, g) = File(m, g)
               /\ \A b \in Block : b # f[1] => w[b] = m[b]
               /\ w[f[1]].kind = "files"
<1> DEFINE w == WithFile(m, f, file)
           fs == [FilesIn(m[f[1]]) EXCEPT ![f[2]] = file]
<1> HIDE DEF Content, FileType, Block
<1>1. f[1] \in Block /\ f[2] \in 0 .. BLKFILES - 1 /\ m[f[1]] \in Content
  BY DEF Places, Memory
<1>2. FilesIn(m[f[1]]) \in [0 .. BLKFILES - 1 -> FileType]
  BY <1>1, ReadAs
<1>3. fs \in [0 .. BLKFILES - 1 -> FileType] /\ fs[f[2]] = file
      /\ \A j \in 0 .. BLKFILES - 1 : j # f[2] => fs[j] = FilesIn(m[f[1]])[j]
  BY <1>1, <1>2
<1>4. FilesBlock(fs) \in Content /\ FilesBlock(fs).kind = "files" /\ FilesIn(FilesBlock(fs)) = fs
  <2> HIDE DEF fs
  <2>1. QED  BY <1>3, WrittenAs
<1>5. w = [m EXCEPT ![f[1]] = FilesBlock(fs)]
  BY DEF WithFile
<1> HIDE DEF fs, w
<1>6. w \in Memory /\ w[f[1]] = FilesBlock(fs) /\ \A b \in Block : b # f[1] => w[b] = m[b]
  BY <1>1, <1>4, <1>5 DEF Memory
<1>7. File(w, f) = file
  BY <1>3, <1>4, <1>6 DEF File
<1>8. ASSUME NEW g \in Places, g # f  PROVE File(w, g) = File(m, g)
  <2>1. g[1] \in Block /\ g[2] \in 0 .. BLKFILES - 1 /\ g = <<g[1], g[2]>> /\ f = <<f[1], f[2]>>
    BY DEF Places
  <2>2. CASE g[1] # f[1]
    BY <1>6, <2>1, <2>2 DEF File
  <2>3. CASE g[1] = f[1] /\ g[2] # f[2]
    <3>1. FilesIn(w[g[1]]) = fs
      BY <1>4, <1>6, <2>3
    <3>2. fs[g[2]] = FilesIn(m[g[1]])[g[2]]
      BY <1>3, <2>1, <2>3
    <3>3. QED  BY <3>1, <3>2 DEF File
  <2>4. QED  BY <1>8, <2>1, <2>2, <2>3
<1>9. QED  BY <1>4, <1>6, <1>7, <1>8 DEF w

LEMMA PtrTypes ==
    ASSUME NEW m \in Memory, NEW f \in Places
    PROVE  /\ File(m, f) \in FileType
           /\ File(m, f).size \in Nat /\ File(m, f).indirect \in {0} \cup Block
           /\ File(m, f).direct \in [0 .. NDIRECT - 1 -> {0} \cup Block]
           /\ \A i \in Nat : /\ Ptr(m, f, i) \in {0} \cup Block
                             /\ i >= Capacity => Ptr(m, f, i) = 0
           /\ \A i \in Slots : PtrAt(m, f, i) \in {0} \cup Block
<1> HIDE DEF Content, Block
<1>1. File(m, f) \in FileType
  <2> HIDE DEF FileType
  <2>1. QED  BY ReadAs DEF Places, Memory, File
<1>2. /\ File(m, f).size \in Nat /\ File(m, f).indirect \in {0} \cup Block
      /\ File(m, f).direct \in [0 .. NDIRECT - 1 -> {0} \cup Block]
  BY <1>1 DEF FileType
<1>3. ASSUME NEW i \in Nat
      PROVE  Ptr(m, f, i) \in {0} \cup Block /\ (i >= Capacity => Ptr(m, f, i) = 0)
  <2>1. CASE i < NDIRECT
    BY <1>2, <2>1, Sizes DEF Ptr
  <2>2. CASE i >= Capacity \/ File(m, f).indirect = 0
    BY <1>2, <2>1, <2>2, Sizes DEF Ptr
  <2>3. CASE i \in NDIRECT .. Capacity - 1 /\ File(m, f).indirect # 0
    <3>1. File(m, f).indirect \in Block /\ m[File(m, f).indirect] \in Content
      BY <1>2, <2>3 DEF Memory
    <3>2. PtrsIn(m[File(m, f).indirect]) \in [0 .. NINDIRECT - 1 -> {0} \cup Block]
      BY <3>1, ReadAs
    <3>3. i - NDIRECT \in 0 .. NINDIRECT - 1 /\ ~ (i < NDIRECT) /\ ~ (i >= Capacity)
      BY <2>3, Sizes
    <3>4. Ptr(m, f, i) = PtrsIn(m[File(m, f).indirect])[i - NDIRECT]
      BY <2>3, <3>3 DEF Ptr
    <3>5. QED  BY <3>2, <3>3, <3>4
  <2>4. QED  BY <2>1, <2>2, <2>3, Sizes
<1>4. ASSUME NEW i \in Slots  PROVE PtrAt(m, f, i) \in {0} \cup Block
  BY <1>2, <1>3, Sizes DEF Slots, PtrAt
<1>5. QED  BY <1>1, <1>2, <1>3, <1>4

(* The pointers of a file depend on its File and its indirect block.        *)
LEMMA SameFile ==
    ASSUME NEW m, NEW w, NEW f,
           File(w, f).direct = File(m, f).direct, File(w, f).indirect = File(m, f).indirect,
           File(m, f).indirect # 0 => w[File(m, f).indirect] = m[File(m, f).indirect]
    PROVE  (\A i : Ptr(w, f, i) = Ptr(m, f, i)) /\ (\A i : PtrAt(w, f, i) = PtrAt(m, f, i))
<1>1. \A i : Ptr(w, f, i) = Ptr(m, f, i)
  BY DEF Ptr
<1>2. QED  BY <1>1 DEF PtrAt

LEMMA InodePlaces ==
    ASSUME NEW m, NEW n, Shaped(m), Rooted(m, n)
    PROVE  /\ m \in Memory /\ n \in 0 .. Capacity /\ n \in Nat
           /\ Inodes(m, n) \subseteq Places /\ Root \in Inodes(m, n) /\ Root \in Places
           /\ \A k \in 0 .. n - 1 : /\ k \in Slots /\ k < Capacity /\ PtrAt(m, Root, k) = Ptr(m, Root, k)
                                    /\ Ptr(m, Root, k) \in Block
           /\ \A f \in Inodes(m, n) : f = Root \/ \E k \in 0 .. n - 1 : f[1] = Ptr(m, Root, k)
<1> HIDE DEF Content, Block
<1>1. m \in Memory /\ n \in 0 .. Capacity /\ n \in Nat
  BY Sizes DEF Shaped, Rooted, Memory
<1>2. Root \in Inodes(m, n) /\ Root \in Places
  BY Sizes DEF Inodes, Places, Root
<1>3. \A k \in 0 .. n - 1 : k \in Slots /\ k < Capacity /\ k # Capacity /\ k \in Nat
  BY <1>1, Sizes DEF Slots
<1>4. \A k \in 0 .. n - 1 : PtrAt(m, Root, k) = Ptr(m, Root, k) /\ Ptr(m, Root, k) \in Block
  BY <1>1, <1>2, <1>3, PtrTypes DEF Rooted, PtrAt
<1>5. Inodes(m, n) \subseteq Places
  BY <1>2, <1>4 DEF Inodes, Places
<1>6. \A f \in Inodes(m, n) : f = Root \/ \E k \in 0 .. n - 1 : f[1] = Ptr(m, Root, k)
  BY DEF Inodes
<1>7. QED  BY <1>1, <1>2, <1>3, <1>4, <1>5, <1>6

(* The blocks of the directory, and the indirect block of a file, are       *)
(* nobody else's.                                                           *)
LEMMA Apart ==
    ASSUME NEW m, NEW n, NEW x, Good(m, n, x)
    PROVE  /\ \A f \in Inodes(m, n), k \in 0 .. n - 1 : /\ File(m, f).indirect # Ptr(m, Root, k)
                                                        /\ Ptr(m, Root, k) \notin {Super, Bitmap} \cup x
           /\ \A f \in Inodes(m, n) : /\ File(m, f).indirect \notin {Super, Bitmap} \cup x
                                      /\ File(m, f).indirect \in {0} \cup Block
           /\ \A f \in Inodes(m, n), g \in Inodes(m, n) :
                 File(m, f).indirect = File(m, g).indirect /\ File(m, f).indirect # 0 => f = g
           /\ \A f \in Inodes(m, n), g \in Inodes(m, n), i \in 0 .. Capacity - 1 :
                 Ptr(m, f, i) = File(m, g).indirect => Ptr(m, f, i) = 0
           /\ \A f \in Inodes(m, n) : f[1] \in Block /\ f[1] # Bitmap /\ f[1] \notin x
           /\ \A f, g \in Inodes(m, n) : f[1] # File(m, g).indirect
<1> HIDE DEF Content, Block
<1>1. Shaped(m) /\ Rooted(m, n) /\ Owned(m, n) /\ Exact(m, n, x)
  BY DEF Good
<1>2. /\ \A f \in Inodes(m, n) : PtrAt(m, f, Capacity) = File(m, f).indirect
      /\ \A f \in Inodes(m, n), i \in 0 .. Capacity - 1 : PtrAt(m, f, i) = Ptr(m, f, i)
      /\ Capacity \in Slots /\ 0 .. Capacity - 1 \subseteq Slots /\ \A i \in 0 .. Capacity - 1 : i # Capacity
  BY Sizes DEF PtrAt, Slots
<1>3. \A f \in Inodes(m, n) : File(m, f).indirect \in {0} \cup Block
  BY <1>1, InodePlaces, PtrTypes
<1>4. /\ \A k \in 0 .. n - 1 : /\ k \in 0 .. Capacity - 1 /\ Ptr(m, Root, k) # 0 /\ Ptr(m, Root, k) \in Block
                               /\ PtrAt(m, Root, k) = Ptr(m, Root, k)
      /\ Root \in Inodes(m, n)
  <2>1. /\ n \in 0 .. Capacity /\ Root \in Inodes(m, n)
        /\ \A k \in 0 .. n - 1 : Ptr(m, Root, k) \in Block /\ PtrAt(m, Root, k) = Ptr(m, Root, k)
    BY <1>1, InodePlaces
  <2>2. \A k \in 0 .. n - 1 : k \in 0 .. Capacity - 1
    BY <2>1, Sizes
  <2>3. \A k \in 0 .. n - 1 : Ptr(m, Root, k) # 0
    BY <1>1 DEF Rooted
  <2>4. QED  BY <2>1, <2>2, <2>3
<1>5. \A f \in Inodes(m, n), k \in 0 .. n - 1 : File(m, f).indirect # Ptr(m, Root, k)
  BY <1>1, <1>2, <1>4 DEF Owned
<1>6. ASSUME NEW f \in Inodes(m, n), NEW i \in Slots
      PROVE  PtrAt(m, f, i) \notin {Super, Bitmap} \cup x
  BY <1>1 DEF Owned, Exact, Has
<1>7. \A k \in 0 .. n - 1 : Ptr(m, Root, k) \notin {Super, Bitmap} \cup x
  BY <1>2, <1>4, <1>6
<1>8. \A f \in Inodes(m, n) : File(m, f).indirect \notin {Super, Bitmap} \cup x
  BY <1>2, <1>6
<1>9. \A f \in Inodes(m, n), g \in Inodes(m, n) :
         File(m, f).indirect = File(m, g).indirect /\ File(m, f).indirect # 0 => f = g
  BY <1>1, <1>2 DEF Owned
<1>10. ASSUME NEW f \in Inodes(m, n), NEW g \in Inodes(m, n), NEW i \in 0 .. Capacity - 1,
              Ptr(m, f, i) = File(m, g).indirect, Ptr(m, f, i) # 0
       PROVE  FALSE
  BY <1>1, <1>2, <1>10 DEF Owned
<1>11. \A f \in Inodes(m, n) : f = Root \/ \E k \in 0 .. n - 1 : f[1] = Ptr(m, Root, k)
  BY <1>1, InodePlaces
<1>12. Root[1] = Super /\ Super \notin x /\ Super # Bitmap /\ Super \in Block
  BY <1>1, Sizes DEF Root, Exact
<1>13. \A f \in Inodes(m, n) : f[1] \in Block /\ f[1] # Bitmap /\ f[1] \notin x
  BY <1>4, <1>7, <1>11, <1>12
<1>14. \A f, g \in Inodes(m, n) : f[1] # File(m, g).indirect
  BY <1>5, <1>8, <1>11, <1>12
<1>15. QED  BY <1>3, <1>5, <1>7, <1>8, <1>9, <1>10, <1>13, <1>14

(* A change that leaves the pointers alone.                                 *)
SamePointers(m, w, n) ==
    \A f \in Inodes(m, n) : /\ \A i \in Slots : PtrAt(w, f, i) = PtrAt(m, f, i)
                            /\ \A i \in 0 .. Capacity - 1 : Ptr(w, f, i) = Ptr(m, f, i)
SameNames(m, w, n) ==
    \A f \in Inodes(m, n) : File(w, f).name = File(m, f).name /\ File(w, f).size = File(m, f).size

\* What changes outside of f are no Files, and only blocks of B.
Touches(m, w, n, f, B) ==
    /\ \A g \in Inodes(m, n) : g # f => File(w, g) = File(m, g)
    /\ \A b \in Block : w[b] # m[b] => b \in B

ChangesFile(m, w, n, f) == Touches(m, w, n, f, {f[1]})
ChangesBlock(m, w, n, b) == \A f : Touches(m, w, n, f, {b})
ChangesCut(m, w, n, f) == Touches(m, w, n, f, {f[1], File(m, f).indirect, Bitmap})

LEMMA SameInodes ==
    ASSUME NEW m, NEW w, NEW n, \A k \in 0 .. n - 1 : Ptr(w, Root, k) = Ptr(m, Root, k)
    PROVE  Inodes(w, n) = Inodes(m, n)
<1>1. {Ptr(w, Root, k) : k \in 0 .. n - 1} = {Ptr(m, Root, k) : k \in 0 .. n - 1}
  OBVIOUS
<1>2. QED  BY <1>1 DEF Inodes

LEMMA SamePointersLemma ==
    ASSUME NEW m, NEW w, NEW n, NEW x, Good(m, n, x), SamePointers(m, w, n)
    PROVE  /\ Inodes(w, n) = Inodes(m, n) /\ Rooted(w, n) /\ Owned(w, n)
           /\ \A b : Has(w, n, b) <=> Has(m, n, b)
           /\ \A k \in 0 .. n - 1 : Ptr(w, Root, k) = Ptr(m, Root, k)
<1>1. Shaped(m) /\ Rooted(m, n) /\ Owned(m, n)
  BY DEF Good
<1>2. \A k \in 0 .. n - 1 : Ptr(w, Root, k) = Ptr(m, Root, k)
  <2>1. Root \in Inodes(m, n) /\ \A k \in 0 .. n - 1 : k \in 0 .. Capacity - 1
    BY <1>1, InodePlaces, Sizes
  <2>2. QED  BY <2>1 DEF SamePointers
<1>3. Inodes(w, n) = Inodes(m, n)
  BY <1>2, SameInodes
<1>4. Rooted(w, n)
  BY <1>1, <1>2 DEF Rooted
<1>5. Owned(w, n)
  BY <1>1, <1>3 DEF Owned, SamePointers
<1>6. ASSUME NEW b  PROVE Has(w, n, b) <=> Has(m, n, b)
  BY <1>3 DEF Has, SamePointers
<1>7. QED  BY <1>2, <1>3, <1>4, <1>5, <1>6

(* alloc_block takes a block into the hand.                                 *)
LEMMA TakeLemma ==
    ASSUME NEW m, NEW n, Good(m, n, {}), NEW b \in FreeIn(m)
    PROVE  LET w == [m EXCEPT ![Bitmap] = BitmapBlock(FreeIn(m) \ {b})]
           IN  /\ Good(w, n, {b}) /\ b \in Block \ {Super, Bitmap}
               /\ SamePointers(m, w, n) /\ SameNames(m, w, n)
               /\ \A f \in Inodes(m, n) : File(w, f) = File(m, f)
               /\ FreeIn(w) = FreeIn(m) \ {b} /\ \A f : Touches(m, w, n, f, {Bitmap})
<1> DEFINE c == [kind |-> "bitmap", free |-> FreeIn(m) \ {b}]
           w == [m EXCEPT ![Bitmap] = c]
<1>1. Shaped(m) /\ Rooted(m, n) /\ Owned(m, n) /\ Exact(m, n, {})
  BY DEF Good
<1>2. m[Bitmap] = [kind |-> "bitmap", free |-> FreeIn(m)] /\ FreeIn(m) \in SUBSET Block
  <2>1. m[Bitmap] \in Content /\ m[Bitmap].kind = "bitmap"
    BY <1>1, Sizes DEF Shaped
  <2> HIDE DEF Content
  <2>2. QED  BY <2>1, ContentKinds DEF FreeIn
<1>3. [m EXCEPT ![Bitmap] = BitmapBlock(FreeIn(m) \ {b})] = w
  BY DEF BitmapBlock
<1>4. c \in Content /\ c.kind = "bitmap" /\ c.free = FreeIn(m) \ {b}
  BY <1>2 DEF Content
<1> HIDE DEF c, Content, Block
<1>5. /\ w \in Memory /\ w[Bitmap] = c /\ FreeIn(w) = FreeIn(m) \ {b}
      /\ \A d \in Block \ {Bitmap} : w[d] = m[d]
  BY <1>1, <1>4, Sizes DEF Shaped, Memory, FreeIn
<1> HIDE DEF w
<1>6. \A f \in Inodes(m, n) : File(w, f) = File(m, f)
  BY <1>5, Apart DEF File
<1>7. \A f \in Inodes(m, n) : File(m, f).indirect # 0 => w[File(m, f).indirect] = m[File(m, f).indirect]
  BY <1>5, Apart
<1>8. SamePointers(m, w, n) /\ SameNames(m, w, n)
  BY <1>6, <1>7, SameFile DEF SamePointers, SameNames
<1>9. /\ Inodes(w, n) = Inodes(m, n) /\ Rooted(w, n) /\ Owned(w, n)
      /\ \A d : Has(w, n, d) <=> Has(m, n, d)
      /\ \A k \in 0 .. n - 1 : Ptr(w, Root, k) = Ptr(m, Root, k)
  BY <1>8, SamePointersLemma
<1>10. b \in Block \ {Super, Bitmap} /\ ~ Has(m, n, b)
  BY <1>1, <1>2 DEF Exact
<1>11. Exact(w, n, {b})
  <2>1. ASSUME NEW d \in Block
        PROVE  d \in FreeIn(w) <=> ~ (d \in {Super, Bitmap} \cup {b} \/ Has(w, n, d))
    <3>1. d \in FreeIn(m) <=> ~ (d \in {Super, Bitmap} \cup {} \/ Has(m, n, d))
      BY <1>1 DEF Exact
    <3>2. QED  BY <1>5, <1>9, <3>1
  <2>2. QED  BY <1>9, <1>10, <2>1 DEF Exact
<1>12. Shaped(w)
  BY <1>1, <1>4, <1>5, Sizes DEF Shaped, Memory
<1>13. Indirects(w, n)
  BY <1>6, <1>7, <1>9 DEF Good, Indirects
<1>14. Kinds(w, n)
  <2>1. w[Bitmap].kind # "files"
    BY <1>4, <1>5
  <2>2. QED  BY <1>5, <1>9, <2>1 DEF Good, Kinds
<1>15. Ends(w, n) /\ Blank(w, n)
  BY <1>6, <1>8, <1>9 DEF Good, Ends, Blank, SamePointers
<1>17. \A f : Touches(m, w, n, f, {Bitmap})
  BY <1>5, <1>6 DEF Touches
<1>16. QED  BY <1>3, <1>5, <1>6, <1>8, <1>9, <1>10, <1>11, <1>12, <1>13, <1>14, <1>15, <1>17 DEF Good

(* A block that holds no pointers changes.                                  *)
LEMMA DataLemma ==
    ASSUME NEW m, NEW n, NEW x, Good(m, n, x), NEW b \in Block \ {Super, Bitmap}, NEW c \in Content,
           c.kind # "files",
           \A k \in 0 .. n - 1 : Ptr(m, Root, k) # b,
           \A f \in Inodes(m, n) : File(m, f).indirect # b
    PROVE  LET w == [m EXCEPT ![b] = c]
           IN  /\ Good(w, n, x)
               /\ SamePointers(m, w, n) /\ SameNames(m, w, n)
               /\ \A f \in Inodes(m, n) : File(w, f) = File(m, f)
               /\ FreeIn(w) = FreeIn(m) /\ ChangesBlock(m, w, n, b)
<1> DEFINE w == [m EXCEPT ![b] = c]
<1> HIDE DEF Content, Block
<1>1. Shaped(m) /\ Rooted(m, n) /\ Owned(m, n) /\ Exact(m, n, x)
  BY DEF Good
<1>2. /\ w \in Memory /\ w[b] = c
      /\ \A d \in Block \ {b} : w[d] = m[d]
  BY <1>1, Sizes DEF Shaped, Memory
<1> HIDE DEF w
<1>3. \A f \in Inodes(m, n) : f[1] \in Block /\ f[1] # b
  <2>1. \A f \in Inodes(m, n) : f = Root \/ \E k \in 0 .. n - 1 : f[1] = Ptr(m, Root, k)
    BY <1>1, InodePlaces
  <2>2. Root[1] = Super
    BY DEF Root
  <2>3. QED  BY <2>1, <2>2, Apart
<1>4. \A f \in Inodes(m, n) : File(w, f) = File(m, f)
  BY <1>2, <1>3 DEF File
<1>5. \A f \in Inodes(m, n) : File(m, f).indirect # 0 => w[File(m, f).indirect] = m[File(m, f).indirect]
  BY <1>2, Apart
<1>6. SamePointers(m, w, n) /\ SameNames(m, w, n)
  BY <1>4, <1>5, SameFile DEF SamePointers, SameNames
<1>7. /\ Inodes(w, n) = Inodes(m, n) /\ Rooted(w, n) /\ Owned(w, n)
      /\ \A d : Has(w, n, d) <=> Has(m, n, d)
      /\ \A k \in 0 .. n - 1 : Ptr(w, Root, k) = Ptr(m, Root, k)
  BY <1>6, SamePointersLemma
<1>8. Shaped(w) /\ FreeIn(w) = FreeIn(m)
  BY <1>1, <1>2, Sizes DEF Shaped, FreeIn, Memory
<1>9. Exact(w, n, x)
  BY <1>1, <1>7, <1>8 DEF Exact
<1>10. Indirects(w, n)
  BY <1>4, <1>5, <1>7 DEF Good, Indirects
<1>11. Kinds(w, n)
  BY <1>2, <1>7 DEF Good, Kinds
<1>12. Ends(w, n) /\ Blank(w, n)
  BY <1>4, <1>6, <1>7 DEF Good, Ends, Blank, SamePointers
<1>13. ChangesBlock(m, w, n, b)
  BY <1>2, <1>4 DEF Touches, ChangesBlock
<1>14. QED  BY <1>4, <1>6, <1>7, <1>8, <1>9, <1>10, <1>11, <1>12, <1>13 DEF Good, w

(* A File changes: what is sure whatever it changes to.                     *)
LEMMA FileChanged ==
    ASSUME NEW m, NEW n, NEW x, Good(m, n, x), NEW f \in Inodes(m, n), NEW file \in FileType
    PROVE  LET w == WithFile(m, f, file)
           IN  /\ Shaped(w) /\ FreeIn(w) = FreeIn(m)
               /\ File(w, f) = file
               /\ \A g \in Inodes(m, n) : g # f => File(w, g) = File(m, g)
               /\ \A b \in Block : b # f[1] => w[b] = m[b]
               /\ \A g \in Inodes(m, n), b \in Block : b = File(m, g).indirect \/ b \in x => w[b] = m[b]
               /\ \A g \in Inodes(m, n) : g # f => /\ \A i : Ptr(w, g, i) = Ptr(m, g, i)
                                                   /\ \A i : PtrAt(w, g, i) = PtrAt(m, g, i)
               /\ (\A k \in 0 .. n - 1 : Ptr(w, Root, k) = Ptr(m, Root, k)) => Kinds(w, n)
               /\ ChangesFile(m, w, n, f)
<1> DEFINE w == WithFile(m, f, file)
<1> HIDE DEF Content, Block, FileType
<1>1. Shaped(m) /\ Rooted(m, n)
  BY DEF Good
<1>2. m \in Memory /\ Inodes(m, n) \subseteq Places /\ f \in Places
  BY <1>1, InodePlaces
<1>3. /\ w \in Memory
      /\ File(w, f) = file
      /\ \A g \in Places : g # f => File(w, g) = File(m, g)
      /\ \A b \in Block : b # f[1] => w[b] = m[b]
      /\ w[f[1]].kind = "files"
  BY <1>2, WithFileLemma
<1> HIDE DEF w
<1>4. f[1] \in Block /\ f[1] # Bitmap /\ f[1] \notin x /\ \A g \in Inodes(m, n) : f[1] # File(m, g).indirect
  BY Apart
<1>5. w[Super].kind = "files" /\ w[Bitmap] = m[Bitmap]
  BY <1>1, <1>3, <1>4, Sizes DEF Shaped
<1>6. Shaped(w) /\ FreeIn(w) = FreeIn(m)
  BY <1>1, <1>3, <1>5 DEF Shaped, FreeIn, Memory
<1>7. \A g \in Inodes(m, n), b \in Block : b = File(m, g).indirect \/ b \in x => w[b] = m[b]
  BY <1>3, <1>4
<1>8. \A g \in Inodes(m, n) : g # f => File(w, g) = File(m, g)
  BY <1>2, <1>3
<1>9. \A g \in Inodes(m, n) : File(m, g).indirect \in {0} \cup Block
  BY Apart
<1>10. \A g \in Inodes(m, n) : g # f => /\ \A i : Ptr(w, g, i) = Ptr(m, g, i)
                                        /\ \A i : PtrAt(w, g, i) = PtrAt(m, g, i)
  BY <1>7, <1>8, <1>9, SameFile
<1>11. ASSUME \A k \in 0 .. n - 1 : Ptr(w, Root, k) = Ptr(m, Root, k)
       PROVE  Kinds(w, n)
  <2>1. f[1] = Super \/ \E k \in 0 .. n - 1 : f[1] = Ptr(m, Root, k)
    <3>1. f = Root \/ \E k \in 0 .. n - 1 : f[1] = Ptr(m, Root, k)
      BY <1>1, InodePlaces
    <3>2. QED  BY <3>1 DEF Root
  <2>2. QED  BY <1>3, <1>11, <2>1 DEF Good, Kinds
<1>12. ChangesFile(m, w, n, f)
  BY <1>3, <1>8 DEF Touches, ChangesFile
<1>13. QED  BY <1>3, <1>6, <1>7, <1>8, <1>10, <1>11, <1>12 DEF w

(* The name or the size of a file changes.                                  *)
LEMMA RestateLemma ==
    ASSUME NEW m, NEW n, NEW x, Good(m, n, x), NEW f \in Inodes(m, n), NEW file \in FileType,
           file.direct = File(m, f).direct, file.indirect = File(m, f).indirect,
           f # Root => /\ file.name # NoName
                       /\ \A i \in 0 .. Capacity - 1 : i >= NBlocks(file.size) => Ptr(m, f, i) = 0
    PROVE  LET w == WithFile(m, f, file)
           IN  /\ Good(w, n, x) /\ SamePointers(m, w, n)
               /\ File(w, f) = file
               /\ \A g \in Inodes(m, n) : g # f => File(w, g) = File(m, g)
               /\ FreeIn(w) = FreeIn(m) /\ ChangesFile(m, w, n, f)
<1> DEFINE w == WithFile(m, f, file)
<1> HIDE DEF Content, Block, FileType
<1>1. /\ Shaped(w) /\ FreeIn(w) = FreeIn(m)
      /\ File(w, f) = file
      /\ \A g \in Inodes(m, n) : g # f => File(w, g) = File(m, g)
      /\ \A g \in Inodes(m, n), b \in Block : b = File(m, g).indirect \/ b \in x => w[b] = m[b]
      /\ \A g \in Inodes(m, n) : g # f => /\ \A i : Ptr(w, g, i) = Ptr(m, g, i)
                                          /\ \A i : PtrAt(w, g, i) = PtrAt(m, g, i)
      /\ (\A k \in 0 .. n - 1 : Ptr(w, Root, k) = Ptr(m, Root, k)) => Kinds(w, n)
      /\ ChangesFile(m, w, n, f)
  BY FileChanged
<1> HIDE DEF w
<1>2. \A g \in Inodes(m, n) : File(m, g).indirect \in {0} \cup Block
  BY Apart
<1>3. (\A i : Ptr(w, f, i) = Ptr(m, f, i)) /\ (\A i : PtrAt(w, f, i) = PtrAt(m, f, i))
  BY <1>1, <1>2, SameFile
<1>4. \A g \in Inodes(m, n) : /\ \A i : Ptr(w, g, i) = Ptr(m, g, i)
                              /\ \A i : PtrAt(w, g, i) = PtrAt(m, g, i)
  BY <1>1, <1>3
<1>5. SamePointers(m, w, n)
  BY <1>4 DEF SamePointers
<1>6. /\ Inodes(w, n) = Inodes(m, n) /\ Rooted(w, n) /\ Owned(w, n)
      /\ \A d : Has(w, n, d) <=> Has(m, n, d)
      /\ \A k \in 0 .. n - 1 : Ptr(w, Root, k) = Ptr(m, Root, k)
  BY <1>5, SamePointersLemma
<1>7. Exact(w, n, x)
  BY <1>1, <1>6 DEF Good, Exact
<1>8. Kinds(w, n)
  BY <1>1, <1>6
<1>9. \A g \in Inodes(m, n) : File(w, g).indirect = File(m, g).indirect
  BY <1>1
<1>10. Indirects(w, n)
  <2>1. ASSUME NEW g \in Inodes(m, n), File(m, g).indirect # 0
        PROVE  LET b == File(m, g).indirect IN w[b] = Zero \/ w[b].kind = "ptrs"
    BY <1>1, <1>2, <2>1 DEF Good, Indirects
  <2>2. QED  BY <1>6, <1>9, <2>1 DEF Indirects
<1>11. Ends(w, n)
  BY <1>1, <1>4, <1>6 DEF Good, Ends
<1>12. Blank(w, n)
  BY <1>1, <1>4, <1>6 DEF Good, Blank
<1>13. QED  BY <1>1, <1>5, <1>6, <1>7, <1>8, <1>10, <1>11, <1>12 DEF Good, w

(* A pointer to the block in hand is set.                                   *)
Pointed(m, w, n, f, i, b) ==
    \A g \in Inodes(m, n), j \in Slots :
        PtrAt(w, g, j) = IF g = f /\ j = i THEN b ELSE PtrAt(m, g, j)

(* The file has room for block i.                                           *)
Room(m, f, i) ==
    f # Root => File(m, f).name # NoName /\ (i # Capacity => i < NBlocks(File(m, f).size))

LEMMA PointLemma ==
    ASSUME NEW m, NEW n, NEW b, Good(m, n, {b}), NEW f \in Inodes(m, n), NEW i \in Slots,
           PtrAt(m, f, i) = 0, Room(m, f, i),
           NEW w, Pointed(m, w, n, f, i, b), Shaped(w), FreeIn(w) = FreeIn(m), SameNames(m, w, n),
           \A g \in Inodes(m, n) :
              LET d == File(w, g).indirect IN d # 0 => w[d] = Zero \/ w[d].kind = "ptrs",
           (\A k \in 0 .. n - 1 : Ptr(w, Root, k) = Ptr(m, Root, k)) => Kinds(w, n)
    PROVE  Good(w, n, {}) /\ Inodes(w, n) = Inodes(m, n)
<1> HIDE DEF Block
<1>1. Shaped(m) /\ Rooted(m, n) /\ Owned(m, n) /\ Exact(m, n, {b})
  BY DEF Good
<1>2. \A k \in 0 .. n - 1 : Ptr(w, Root, k) = Ptr(m, Root, k)
  <2>1. ASSUME NEW k \in 0 .. n - 1
        PROVE  /\ k \in Slots /\ PtrAt(m, Root, k) = Ptr(m, Root, k) /\ PtrAt(w, Root, k) = Ptr(w, Root, k)
               /\ PtrAt(m, Root, k) # 0
    <3>1. k \in Slots /\ k < Capacity
      BY <1>1, InodePlaces
    <3>2. Ptr(m, Root, k) # 0
      BY <1>1 DEF Rooted
    <3>3. QED  BY <3>1, <3>2, Sizes DEF PtrAt
  <2>2. Root \in Inodes(m, n)
    BY <1>1, InodePlaces
  <2>3. QED  BY <2>1, <2>2 DEF Pointed
<1>3. Inodes(w, n) = Inodes(m, n)
  BY <1>2, SameInodes
<1>4. Rooted(w, n)
  BY <1>1, <1>2 DEF Rooted
<1>5. b \in Block /\ b # 0 /\ b \notin {Super, Bitmap} /\ ~ Has(m, n, b)
  BY <1>1, Sizes DEF Exact
<1>6. Owned(w, n)
  <2>1. ASSUME NEW g \in Inodes(m, n), NEW j \in Slots
        PROVE  PtrAt(w, g, j) \notin {Super, Bitmap} /\ PtrAt(m, g, j) # b
    BY <1>1, <1>5 DEF Owned, Pointed, Has
  <2>2. ASSUME NEW g \in Inodes(m, n), NEW h \in Inodes(m, n), NEW j \in Slots, NEW k \in Slots,
               PtrAt(w, g, j) = PtrAt(w, h, k), PtrAt(w, g, j) # 0
        PROVE  g = h /\ j = k
    <3>1. CASE (g = f /\ j = i) \/ (h = f /\ k = i)
      BY <2>1, <2>2, <3>1 DEF Pointed
    <3>2. CASE ~ ((g = f /\ j = i) \/ (h = f /\ k = i))
      BY <1>1, <2>2, <3>2 DEF Pointed, Owned
    <3>3. QED  BY <3>1, <3>2
  <2>3. QED  BY <1>3, <2>1, <2>2 DEF Owned
<1>7. Exact(w, n, {})
  <2>1. ASSUME NEW d \in Block  PROVE Has(w, n, d) <=> (Has(m, n, d) \/ d = b)
    <3>1. ASSUME Has(w, n, d)  PROVE Has(m, n, d) \/ d = b
      BY <1>3, <3>1 DEF Has, Pointed
    <3>2. ASSUME Has(m, n, d)  PROVE Has(w, n, d)
      <4>1. PICK g \in Inodes(m, n), j \in Slots : PtrAt(m, g, j) = d
        BY <3>2 DEF Has
      <4>2. ~ (g = f /\ j = i)
        BY <4>1, Sizes
      <4>3. PtrAt(w, g, j) = d
        BY <4>1, <4>2 DEF Pointed
      <4>4. QED  BY <1>3, <4>3 DEF Has
    <3>3. Has(w, n, b)
      BY <1>3 DEF Has, Pointed
    <3>4. QED  BY <3>1, <3>2, <3>3
  <2>2. ASSUME NEW d \in Block
        PROVE  d \in FreeIn(w) <=> ~ (d \in {Super, Bitmap} \cup {} \/ Has(w, n, d))
    <3>1. d \in FreeIn(m) <=> ~ (d \in {Super, Bitmap} \cup {b} \/ Has(m, n, d))
      BY <1>1 DEF Exact
    <3>2. QED  BY <2>1, <3>1
  <2>3. QED  BY <2>2 DEF Exact
<1>8. Ends(w, n)
  <2>1. ASSUME NEW g \in Inodes(m, n) \ {Root}, NEW j \in 0 .. Capacity - 1, j >= NBlocks(File(w, g).size)
        PROVE  Ptr(w, g, j) = 0
    <3>1. Ptr(m, g, j) = 0 /\ File(w, g).size = File(m, g).size
      BY <2>1 DEF Good, Ends, SameNames
    <3>2. j \in Slots /\ j # Capacity /\ PtrAt(w, g, j) = Ptr(w, g, j) /\ PtrAt(m, g, j) = Ptr(m, g, j)
      BY Sizes DEF Slots, PtrAt
    <3>3. CASE g = f /\ j = i
      <4>1. NBlocks(File(m, f).size) \in Nat
        BY <1>1, InodePlaces, PtrTypes, Rounding
      <4>2. i < NBlocks(File(m, f).size)
        BY <2>1, <3>2, <3>3 DEF Room
      <4>3. QED  BY <2>1, <3>1, <3>3, <4>1, <4>2
    <3>4. CASE ~ (g = f /\ j = i)
      BY <3>1, <3>2, <3>4 DEF Pointed
    <3>5. QED  BY <3>3, <3>4
  <2>2. QED  BY <1>3, <2>1 DEF Ends
<1>9. Blank(w, n)
  <2>1. ASSUME NEW g \in Inodes(m, n) \ {Root}, NEW j \in Slots, File(w, g).name = NoName
        PROVE  PtrAt(w, g, j) = 0
    <3>1. PtrAt(m, g, j) = 0 /\ g # f
      BY <2>1 DEF Good, Blank, SameNames, Room
    <3>2. QED  BY <3>1 DEF Pointed
  <2>2. QED  BY <1>3, <2>1 DEF Blank
<1>10. Indirects(w, n)
  BY <1>3 DEF Indirects
<1>11. QED  BY <1>2, <1>3, <1>4, <1>6, <1>7, <1>8, <1>9, <1>10 DEF Good

WithDirect(m, f, i, b) == WithFile(m, f, [File(m, f) EXCEPT !.direct[i] = b])
LEMMA PointDirect ==
    ASSUME NEW m, NEW n, NEW b, Good(m, n, {b}), NEW f \in Inodes(m, n), NEW i \in 0 .. NDIRECT - 1,
           Ptr(m, f, i) = 0, Room(m, f, i)
    PROVE  LET w == WithDirect(m, f, i, b)
           IN  /\ Good(w, n, {}) /\ SameNames(m, w, n) /\ Ptr(w, f, i) # 0 /\ Inodes(w, n) = Inodes(m, n)
               /\ FreeIn(w) = FreeIn(m) /\ Pointed(m, w, n, f, i, b) /\ ChangesFile(m, w, n, f)
<1> DEFINE old == File(m, f)
           file == [old EXCEPT !.direct[i] = b]
           w == WithFile(m, f, file)
<1> HIDE DEF Content, Block, FileType
<1>1. Shaped(m) /\ Rooted(m, n) /\ b \in Block
  BY DEF Good, Exact
<1>2. /\ i \in Slots /\ i # Capacity /\ i < Capacity /\ i < NDIRECT /\ i \in Nat
      /\ PtrAt(m, f, i) = Ptr(m, f, i) /\ PtrAt(w, f, i) = Ptr(w, f, i)
      /\ b # 0
  BY <1>1, Sizes DEF Slots, PtrAt
<1>3. m \in Memory /\ f \in Places
  BY <1>1, InodePlaces
<1>4. /\ old \in FileType /\ file \in FileType
      /\ file.name = old.name /\ file.size = old.size /\ file.indirect = old.indirect
      /\ file.direct = [old.direct EXCEPT ![i] = b]
      /\ old.direct \in [0 .. NDIRECT - 1 -> {0} \cup Block]
  <2>1. old \in FileType
    BY <1>3, PtrTypes
  <2>2. QED  BY <1>1, <2>1 DEF FileType
<1> HIDE DEF old, file
<1>5. /\ Shaped(w) /\ FreeIn(w) = FreeIn(m)
      /\ File(w, f) = file
      /\ \A g \in Inodes(m, n) : g # f => File(w, g) = File(m, g)
      /\ \A g \in Inodes(m, n), d \in Block : d = File(m, g).indirect \/ d \in {b} => w[d] = m[d]
      /\ \A g \in Inodes(m, n) : g # f => /\ \A j : Ptr(w, g, j) = Ptr(m, g, j)
                                          /\ \A j : PtrAt(w, g, j) = PtrAt(m, g, j)
      /\ (\A k \in 0 .. n - 1 : Ptr(w, Root, k) = Ptr(m, Root, k)) => Kinds(w, n)
      /\ ChangesFile(m, w, n, f)
  BY <1>4, FileChanged
<1> HIDE DEF w
<1>6. \A g \in Inodes(m, n) : File(m, g).indirect \in {0} \cup Block
  BY Apart
<1>7. \A j \in 0 .. Capacity : Ptr(w, f, j) = IF j = i THEN b ELSE Ptr(m, f, j)
  <2>1. ASSUME NEW j \in 0 .. Capacity, j < NDIRECT  PROVE Ptr(w, f, j) = IF j = i THEN b ELSE Ptr(m, f, j)
    <3>1. Ptr(w, f, j) = file.direct[j] /\ Ptr(m, f, j) = old.direct[j] /\ j \in 0 .. NDIRECT - 1
      BY <1>5, <2>1, Sizes DEF Ptr, old
    <3>2. QED  BY <1>4, <3>1
  <2>2. ASSUME NEW j \in 0 .. Capacity, ~ (j < NDIRECT)  PROVE Ptr(w, f, j) = Ptr(m, f, j) /\ j # i
    BY <1>2, <1>4, <1>5, <1>6, <2>2 DEF Ptr, old
  <2>3. QED  BY <2>1, <2>2
<1>8. \A j \in Slots : PtrAt(w, f, j) = IF j = i THEN b ELSE PtrAt(m, f, j)
  BY <1>2, <1>4, <1>5, <1>7 DEF PtrAt, Slots, old
<1>9. Pointed(m, w, n, f, i, b)
  BY <1>5, <1>8 DEF Pointed
<1>10. ASSUME NEW g \in Inodes(m, n)
       PROVE  LET d == File(w, g).indirect IN d # 0 => w[d] = Zero \/ w[d].kind = "ptrs"
  <2>1. File(w, g).indirect = File(m, g).indirect
    BY <1>4, <1>5 DEF old
  <2>2. QED  BY <1>5, <1>6, <2>1 DEF Good, Indirects
<1>11. SameNames(m, w, n)
  BY <1>4, <1>5 DEF SameNames, old
<1>12. Good(w, n, {}) /\ Inodes(w, n) = Inodes(m, n)
  BY <1>2, <1>5, <1>9, <1>10, <1>11, PointLemma
<1>13. Ptr(w, f, i) = b
  BY <1>2, <1>7, Sizes
<1>14. QED  BY <1>2, <1>5, <1>9, <1>11, <1>12, <1>13 DEF w, file, old, WithDirect

LEMMA PointIndirect ==
    ASSUME NEW m, NEW n, NEW b, Good(m, n, {b}), NEW f \in Inodes(m, n), m[b] = Zero,
           File(m, f).indirect = 0, f # Root => File(m, f).name # NoName
    PROVE  LET w == WithFile(m, f, [File(m, f) EXCEPT !.indirect = b])
           IN  /\ Good(w, n, {}) /\ SameNames(m, w, n) /\ Inodes(w, n) = Inodes(m, n)
               /\ File(w, f).indirect # 0
               /\ \A j \in 0 .. Capacity - 1 : Ptr(w, f, j) = Ptr(m, f, j)
               /\ FreeIn(w) = FreeIn(m) /\ Pointed(m, w, n, f, Capacity, b) /\ ChangesFile(m, w, n, f)
<1> DEFINE old == File(m, f)
           file == [old EXCEPT !.indirect = b]
           w == WithFile(m, f, file)
<1> HIDE DEF Content, Block, FileType
<1>1. Shaped(m) /\ Rooted(m, n) /\ b \in Block
  BY DEF Good, Exact
<1>2. Capacity \in Slots /\ PtrAt(m, f, Capacity) = 0 /\ b # 0
  BY <1>1, Sizes DEF Slots, PtrAt
<1>3. m \in Memory /\ f \in Places
  BY <1>1, InodePlaces
<1>4. /\ old \in FileType /\ file \in FileType
      /\ file.name = old.name /\ file.size = old.size /\ file.indirect = b
      /\ file.direct = old.direct
  <2>1. old \in FileType
    BY <1>3, PtrTypes
  <2>2. QED  BY <1>1, <2>1 DEF FileType
<1> HIDE DEF old, file
<1>5. /\ Shaped(w) /\ FreeIn(w) = FreeIn(m)
      /\ File(w, f) = file
      /\ \A g \in Inodes(m, n) : g # f => File(w, g) = File(m, g)
      /\ \A g \in Inodes(m, n), d \in Block : d = File(m, g).indirect \/ d \in {b} => w[d] = m[d]
      /\ \A g \in Inodes(m, n) : g # f => /\ \A j : Ptr(w, g, j) = Ptr(m, g, j)
                                          /\ \A j : PtrAt(w, g, j) = PtrAt(m, g, j)
      /\ (\A k \in 0 .. n - 1 : Ptr(w, Root, k) = Ptr(m, Root, k)) => Kinds(w, n)
      /\ ChangesFile(m, w, n, f)
  BY <1>4, FileChanged
<1> HIDE DEF w
<1>6. \A g \in Inodes(m, n) : File(m, g).indirect \in {0} \cup Block
  BY Apart
<1>7. w[b] = Zero /\ PtrsIn(Zero) = [i \in 0 .. NINDIRECT - 1 |-> 0]
  BY <1>1, <1>5 DEF PtrsIn, Zero
<1>8. \A j \in 0 .. Capacity - 1 : Ptr(w, f, j) = Ptr(m, f, j)
  <2>1. ASSUME NEW j \in 0 .. Capacity - 1, j < NDIRECT  PROVE Ptr(w, f, j) = Ptr(m, f, j)
    BY <1>4, <1>5, <2>1 DEF Ptr, old
  <2>2. ASSUME NEW j \in 0 .. Capacity - 1, ~ (j < NDIRECT)  PROVE Ptr(w, f, j) = Ptr(m, f, j)
    <3>1. j - NDIRECT \in 0 .. NINDIRECT - 1 /\ ~ (j >= Capacity)
      BY <2>2, Sizes
    <3>2. Ptr(m, f, j) = 0
      BY <2>2 DEF Ptr
    <3>3. Ptr(w, f, j) = PtrsIn(w[b])[j - NDIRECT]
      BY <1>2, <1>4, <1>5, <2>2, <3>1 DEF Ptr
    <3>4. QED  BY <1>7, <3>1, <3>2, <3>3
  <2>3. QED  BY <2>1, <2>2
<1>9. \A j \in Slots : PtrAt(w, f, j) = IF j = Capacity THEN b ELSE PtrAt(m, f, j)
  BY <1>4, <1>5, <1>8, Sizes DEF PtrAt, Slots, old
<1>10. Pointed(m, w, n, f, Capacity, b)
  BY <1>5, <1>9 DEF Pointed
<1>11. ASSUME NEW g \in Inodes(m, n)
       PROVE  LET d == File(w, g).indirect IN d # 0 => w[d] = Zero \/ w[d].kind = "ptrs"
  <2>1. CASE g = f
    BY <1>4, <1>5, <1>7, <2>1
  <2>2. CASE g # f
    BY <1>5, <1>6, <2>2 DEF Good, Indirects
  <2>3. QED  BY <2>1, <2>2
<1>12. SameNames(m, w, n)
  BY <1>4, <1>5 DEF SameNames, old
<1>13. Room(m, f, Capacity)
  BY DEF Room
<1>14. Good(w, n, {}) /\ Inodes(w, n) = Inodes(m, n)
  BY <1>2, <1>5, <1>10, <1>11, <1>12, <1>13, PointLemma
<1>15. QED  BY <1>2, <1>4, <1>5, <1>8, <1>10, <1>12, <1>14 DEF w, file, old

LEMMA PointEntry ==
    ASSUME NEW m, NEW n, NEW b, Good(m, n, {b}), NEW f \in Inodes(m, n), NEW i \in NDIRECT .. Capacity - 1,
           Ptr(m, f, i) = 0, Room(m, f, i), File(m, f).indirect # 0
    PROVE  LET d == File(m, f).indirect
               w == [m EXCEPT ![d] = PtrsBlock([PtrsIn(@) EXCEPT ![i - NDIRECT] = b])]
           IN  /\ Good(w, n, {}) /\ SameNames(m, w, n) /\ Ptr(w, f, i) # 0 /\ Inodes(w, n) = Inodes(m, n)
               /\ FreeIn(w) = FreeIn(m) /\ Pointed(m, w, n, f, i, b) /\ ChangesBlock(m, w, n, d)
<1> DEFINE d == File(m, f).indirect
           ps == [PtrsIn(m[d]) EXCEPT ![i - NDIRECT] = b]
           w == [m EXCEPT ![d] = PtrsBlock(ps)]
<1> HIDE DEF Content, Block, FileType
<1>1. Shaped(m) /\ Rooted(m, n) /\ b \in Block
  BY DEF Good, Exact
<1>2. /\ i \in Slots /\ i # Capacity /\ i < Capacity /\ ~ (i < NDIRECT) /\ i \in Nat
      /\ PtrAt(m, f, i) = Ptr(m, f, i) /\ PtrAt(w, f, i) = Ptr(w, f, i)
      /\ b # 0 /\ i - NDIRECT \in 0 .. NINDIRECT - 1
  BY <1>1, Sizes DEF Slots, PtrAt
<1>3. /\ d \in Block \ {Super, Bitmap} /\ m[d] \in Content
      /\ \A g \in Inodes(m, n) : g[1] # d /\ g[1] \in Block
      /\ \A g \in Inodes(m, n) : g # f => File(m, g).indirect # d
      /\ \A g \in Inodes(m, n) : File(m, g).indirect \in {0} \cup Block
      /\ \A k \in 0 .. n - 1 : Ptr(m, Root, k) # d
  <2>1. d \in Block \ {Super, Bitmap}
    BY Apart
  <2>2. QED  BY <1>1, <2>1, Apart DEF Shaped
<1>4. PtrsIn(m[d]) \in [0 .. NINDIRECT - 1 -> {0} \cup Block]
  BY <1>3, ReadAs
<1>5. /\ ps \in [0 .. NINDIRECT - 1 -> {0} \cup Block]
      /\ \A j \in 0 .. NINDIRECT - 1 : ps[j] = IF j = i - NDIRECT THEN b ELSE PtrsIn(m[d])[j]
  BY <1>1, <1>2, <1>4
<1> HIDE DEF ps
<1>6. /\ PtrsBlock(ps) \in Content /\ (PtrsBlock(ps) = Zero \/ PtrsBlock(ps).kind = "ptrs")
      /\ PtrsBlock(ps).kind # "files" /\ PtrsIn(PtrsBlock(ps)) = ps
  BY <1>5, WrittenAs
<1>7. /\ w \in Memory /\ w[d] = PtrsBlock(ps)
      /\ \A c \in Block \ {d} : w[c] = m[c]
  BY <1>1, <1>3, <1>6 DEF Shaped, Memory
<1> HIDE DEF w
<1>8. Shaped(w) /\ FreeIn(w) = FreeIn(m)
  BY <1>1, <1>3, <1>7, Sizes DEF Shaped, Memory, FreeIn
<1>9. \A g \in Inodes(m, n) : File(w, g) = File(m, g)
  BY <1>3, <1>7 DEF File
<1>10. \A g \in Inodes(m, n) : g # f => \A j : PtrAt(w, g, j) = PtrAt(m, g, j)
  <2>1. ASSUME NEW g \in Inodes(m, n), g # f, File(m, g).indirect # 0
        PROVE  w[File(m, g).indirect] = m[File(m, g).indirect]
    BY <1>3, <1>7, <2>1
  <2>2. QED  BY <1>9, <2>1, SameFile
<1>11. \A j \in 0 .. Capacity - 1 : Ptr(w, f, j) = IF j = i THEN b ELSE Ptr(m, f, j)
  <2>1. ASSUME NEW j \in 0 .. Capacity - 1, j < NDIRECT  PROVE Ptr(w, f, j) = Ptr(m, f, j) /\ j # i
    BY <1>2, <1>9, <2>1 DEF Ptr
  <2>2. ASSUME NEW j \in 0 .. Capacity - 1, ~ (j < NDIRECT)  PROVE Ptr(w, f, j) = IF j = i THEN b ELSE Ptr(m, f, j)
    <3>1. j - NDIRECT \in 0 .. NINDIRECT - 1 /\ ~ (j >= Capacity) /\ (j = i <=> j - NDIRECT = i - NDIRECT)
      BY <1>2, <2>2, Sizes
    <3>2. Ptr(m, f, j) = PtrsIn(m[d])[j - NDIRECT] /\ Ptr(w, f, j) = PtrsIn(w[d])[j - NDIRECT]
      BY <1>9, <2>2, <3>1 DEF Ptr
    <3>3. QED  BY <1>5, <1>6, <1>7, <3>1, <3>2
  <2>3. QED  BY <2>1, <2>2
<1>12. \A j \in Slots : PtrAt(w, f, j) = IF j = i THEN b ELSE PtrAt(m, f, j)
  <2>1. \A j \in Slots : j = Capacity \/ j \in 0 .. Capacity - 1
    BY Sizes DEF Slots
  <2>2. QED  BY <1>2, <1>9, <1>11, <2>1 DEF PtrAt
<1>13. Pointed(m, w, n, f, i, b)
  BY <1>10, <1>12 DEF Pointed
<1>14. ASSUME NEW g \in Inodes(m, n)
       PROVE  LET c == File(w, g).indirect IN c # 0 => w[c] = Zero \/ w[c].kind = "ptrs"
  <2>1. CASE g = f
    BY <1>6, <1>7, <1>9, <2>1
  <2>2. CASE g # f
    BY <1>3, <1>7, <1>9, <2>2 DEF Good, Indirects
  <2>3. QED  BY <2>1, <2>2
<1>15. SameNames(m, w, n)
  BY <1>9 DEF SameNames
<1>16. ASSUME \A k \in 0 .. n - 1 : Ptr(w, Root, k) = Ptr(m, Root, k)  PROVE Kinds(w, n)
  BY <1>6, <1>7, <1>16 DEF Good, Kinds
<1>17. Good(w, n, {}) /\ Inodes(w, n) = Inodes(m, n)
  BY <1>2, <1>8, <1>13, <1>14, <1>15, <1>16, PointLemma
<1>18. Ptr(w, f, i) = b
  BY <1>2, <1>11, Sizes
<1>19. ChangesBlock(m, w, n, d)
  BY <1>7, <1>9 DEF Touches, ChangesBlock
<1>20. QED  BY <1>2, <1>8, <1>13, <1>15, <1>17, <1>18, <1>19 DEF w, ps

(* Pointers of a file are cleared, and their blocks given back.             *)
Cut(m, w, n, f, J) ==
    \A g \in Inodes(m, n), j \in Slots :
        PtrAt(w, g, j) = IF g = f /\ j \in J THEN 0 ELSE PtrAt(m, g, j)
Given(m, f, J) == {PtrAt(m, f, j) : j \in J} \ {0}
KeepsForms(m, w, n) ==
    /\ \A g \in Inodes(m, n) :
          LET d == File(w, g).indirect IN d # 0 => w[d] = Zero \/ w[d].kind = "ptrs"
    /\ (\A k \in 0 .. n - 1 : Ptr(w, Root, k) = Ptr(m, Root, k)) => Kinds(w, n)

LEMMA CutLemma ==
    ASSUME NEW m, NEW n, Good(m, n, {}), NEW f \in Inodes(m, n) \ {Root}, NEW J \in SUBSET Slots,
           NEW w, Cut(m, w, n, f, J), Shaped(w), FreeIn(w) = FreeIn(m) \cup Given(m, f, J),
           SameNames(m, w, n), KeepsForms(m, w, n)
    PROVE  Good(w, n, {}) /\ Inodes(w, n) = Inodes(m, n)
<1> HIDE DEF Block
<1>1. Shaped(m) /\ Rooted(m, n) /\ Owned(m, n) /\ Exact(m, n, {})
  BY DEF Good
<1>2. \A k \in 0 .. n - 1 : Ptr(w, Root, k) = Ptr(m, Root, k)
  <2>1. ASSUME NEW k \in 0 .. n - 1
        PROVE  k \in Slots /\ PtrAt(m, Root, k) = Ptr(m, Root, k) /\ PtrAt(w, Root, k) = Ptr(w, Root, k)
    <3>1. k \in Slots /\ k < Capacity
      BY <1>1, InodePlaces
    <3>2. QED  BY <3>1, Sizes DEF PtrAt
  <2>2. Root \in Inodes(m, n)
    BY <1>1, InodePlaces
  <2>3. QED  BY <2>1, <2>2 DEF Cut
<1>3. Inodes(w, n) = Inodes(m, n)
  BY <1>2, SameInodes
<1>4. Rooted(w, n)
  BY <1>1, <1>2 DEF Rooted
<1>5. Owned(w, n)
  <2>1. ASSUME NEW g \in Inodes(m, n), NEW j \in Slots
        PROVE  PtrAt(w, g, j) \notin {Super, Bitmap}
    BY <1>1, Sizes DEF Owned, Cut
  <2>2. ASSUME NEW g \in Inodes(m, n), NEW h \in Inodes(m, n), NEW j \in Slots, NEW k \in Slots,
               PtrAt(w, g, j) = PtrAt(w, h, k), PtrAt(w, g, j) # 0
        PROVE  g = h /\ j = k
    <3>1. PtrAt(w, g, j) = PtrAt(m, g, j) /\ PtrAt(w, h, k) = PtrAt(m, h, k)
      BY <2>2 DEF Cut
    <3>2. PtrAt(m, g, j) = PtrAt(m, h, k) /\ PtrAt(m, g, j) # 0
      BY <2>2, <3>1
    <3>3. QED  BY <1>1, <3>2 DEF Owned
  <2>3. QED  BY <1>3, <2>1, <2>2 DEF Owned
<1>6. Exact(w, n, {})
  <2>1. ASSUME NEW d \in Block  PROVE Has(w, n, d) <=> (Has(m, n, d) /\ d \notin Given(m, f, J))
    <3>1. ASSUME Has(w, n, d)  PROVE Has(m, n, d) /\ d \notin Given(m, f, J)
      <4>1. PICK g \in Inodes(m, n), j \in Slots : PtrAt(w, g, j) = d
        BY <1>3, <3>1 DEF Has
      <4>2. ~ (g = f /\ j \in J) /\ PtrAt(m, g, j) = d /\ d # 0
        BY <4>1, Sizes DEF Cut
      <4>3. ASSUME NEW i \in J  PROVE PtrAt(m, f, i) # d
        <5>1. i \in Slots /\ f \in Inodes(m, n) /\ (g # f \/ i # j)
          BY <4>2
        <5>2. QED  BY <1>1, <4>2, <5>1 DEF Owned
      <4>4. QED  BY <4>2, <4>3 DEF Has, Given
    <3>2. ASSUME Has(m, n, d), d \notin Given(m, f, J)  PROVE Has(w, n, d)
      <4>1. PICK g \in Inodes(m, n), j \in Slots : PtrAt(m, g, j) = d
        BY <3>2 DEF Has
      <4>2. ~ (g = f /\ j \in J)
        BY <3>2, <4>1, Sizes DEF Given
      <4>3. PtrAt(w, g, j) = d
        BY <4>1, <4>2 DEF Cut
      <4>4. QED  BY <1>3, <4>3 DEF Has
    <3>3. QED  BY <3>1, <3>2
  <2>2. \A d \in Given(m, f, J) : d \notin {Super, Bitmap}
    BY <1>1 DEF Given, Owned
  <2>3. ASSUME NEW d \in Block
        PROVE  d \in FreeIn(w) <=> ~ (d \in {Super, Bitmap} \cup {} \/ Has(w, n, d))
    <3>1. d \in FreeIn(m) <=> ~ (d \in {Super, Bitmap} \cup {} \/ Has(m, n, d))
      BY <1>1 DEF Exact
    <3>2. QED  BY <2>1, <2>2, <3>1
  <2>4. QED  BY <2>3 DEF Exact
<1>7. Ends(w, n)
  <2>1. ASSUME NEW g \in Inodes(m, n) \ {Root}, NEW j \in 0 .. Capacity - 1, j >= NBlocks(File(w, g).size)
        PROVE  Ptr(w, g, j) = 0
    <3>1. Ptr(m, g, j) = 0 /\ File(w, g).size = File(m, g).size
      BY <2>1 DEF Good, Ends, SameNames
    <3>2. j \in Slots /\ j # Capacity /\ PtrAt(w, g, j) = Ptr(w, g, j) /\ PtrAt(m, g, j) = Ptr(m, g, j)
      BY Sizes DEF Slots, PtrAt
    <3>3. QED  BY <3>1, <3>2 DEF Cut
  <2>2. QED  BY <1>3, <2>1 DEF Ends
<1>8. Blank(w, n)
  BY <1>3 DEF Good, Blank, SameNames, Cut
<1>9. Indirects(w, n)
  BY <1>3 DEF Indirects, KeepsForms
<1>10. Kinds(w, n)
  BY <1>2 DEF KeepsForms
<1>11. QED  BY <1>2, <1>10, <1>3, <1>4, <1>5, <1>6, <1>7, <1>8, <1>9 DEF Good

(* file_truncate_blocks, on the memory.                                     *)
CutFrom(file, newsize, ps, first) == [i \in DOMAIN ps |-> IF i + first \in Gone(file, newsize) THEN 0 ELSE ps[i]]
Released(m, f, newsize) ==
    LET file == File(m, f)
        freed == [m EXCEPT ![Bitmap] = BitmapBlock(FreeIn(m) \cup Freed(m, f, newsize))]
    IN  IF file.indirect = 0 THEN freed
        ELSE [freed EXCEPT ![file.indirect] = PtrsBlock(CutFrom(file, newsize, PtrsIn(@), NDIRECT))]
ShorterFile(file, newsize) ==
    [file EXCEPT !.direct = CutFrom(file, newsize, @, 0),
                 !.indirect = IF LosesIndirect(file, newsize) THEN 0 ELSE @]
Truncated(m, f, newsize) == WithFile(Released(m, f, newsize), f, ShorterFile(File(m, f), newsize))
Lost(file, newsize) == {j \in 0 .. Capacity - 1 : j \in Gone(file, newsize)}
                       \cup {j \in {Capacity} : LosesIndirect(file, newsize)}

(* What is free afterwards.                                                 *)
LEMMA FreedLemma ==
    ASSUME NEW m \in Memory, NEW f \in Places, NEW newsize \in Nat
    PROVE  /\ Freed(m, f, newsize) = Given(m, f, Lost(File(m, f), newsize))
           /\ Freed(m, f, newsize) \subseteq Block
           /\ Lost(File(m, f), newsize) \subseteq Slots
<1> DEFINE file == File(m, f)
<1> HIDE DEF Block, FileType, Content
<1>1. file.size \in Nat /\ NBlocks(file.size) \in Nat /\ NBlocks(newsize) \in Nat
  BY PtrTypes, Rounding
<1>2. Gone(file, newsize) \subseteq Nat
  BY <1>1 DEF Gone
<1>3. /\ \A j \in 0 .. Capacity - 1 : PtrAt(m, f, j) = Ptr(m, f, j)
      /\ PtrAt(m, f, Capacity) = file.indirect
  BY Sizes DEF PtrAt
<1>4. \A j \in Nat : j >= Capacity => Ptr(m, f, j) = 0
  BY PtrTypes
<1>5. \A i \in Gone(file, newsize) : Ptr(m, f, i) # 0 => i \in 0 .. Capacity - 1
  BY <1>2, <1>4, Sizes
<1>6. Lost(file, newsize) \subseteq Slots
  BY Sizes DEF Lost, Slots
<1> HIDE DEF file
<1>7. Given(m, f, Lost(file, newsize)) = Freed(m, f, newsize)
  <2>1. ASSUME NEW b \in Given(m, f, Lost(file, newsize))  PROVE b \in Freed(m, f, newsize)
    <3>1. PICK j \in Lost(file, newsize) : b = PtrAt(m, f, j) /\ b # 0
      BY <2>1 DEF Given
    <3>2. CASE j \in 0 .. Capacity - 1 /\ j \in Gone(file, newsize)
      BY <1>3, <3>1, <3>2 DEF Freed, file
    <3>3. CASE j = Capacity /\ LosesIndirect(file, newsize)
      BY <1>3, <3>1, <3>3 DEF Freed, file
    <3>4. QED  BY <3>1, <3>2, <3>3 DEF Lost
  <2>2. ASSUME NEW b \in Freed(m, f, newsize)  PROVE b \in Given(m, f, Lost(file, newsize))
    <3>1. CASE b = file.indirect /\ LosesIndirect(file, newsize)
      BY <1>3, <3>1 DEF Given, Lost, LosesIndirect
    <3>2. CASE \E i \in Gone(file, newsize) : b = Ptr(m, f, i) /\ b # 0
      <4>1. PICK i \in Gone(file, newsize) : b = Ptr(m, f, i) /\ b # 0
        BY <3>2
      <4>2. i \in 0 .. Capacity - 1 /\ i \in Lost(file, newsize)
        BY <1>5, <4>1 DEF Lost
      <4>3. QED  BY <1>3, <4>1, <4>2 DEF Given
    <3>3. QED  BY <2>2, <3>1, <3>2 DEF Freed, file
  <2>3. QED  BY <2>1, <2>2
<1>8. Given(m, f, Lost(file, newsize)) \subseteq Block
  BY <1>6, PtrTypes DEF Given
<1>9. QED  BY <1>6, <1>7, <1>8 DEF file

LEMMA ReleasedLemma ==
    ASSUME NEW m, NEW n, Good(m, n, {}), NEW f \in Inodes(m, n), NEW newsize \in Nat
    PROVE  LET r == Released(m, f, newsize)
               d == File(m, f).indirect
           IN  /\ r \in Memory /\ r[Bitmap].kind = "bitmap"
               /\ FreeIn(r) = FreeIn(m) \cup Freed(m, f, newsize)
               /\ \A b \in Block \ {Bitmap} : b # d => r[b] = m[b]
               /\ d # 0 => /\ r[d] = Zero \/ r[d].kind = "ptrs"
                           /\ r[d].kind # "files"
                           /\ \A j \in 0 .. NINDIRECT - 1 :
                                 PtrsIn(r[d])[j] = IF j + NDIRECT \in Gone(File(m, f), newsize) THEN 0
                                                   ELSE PtrsIn(m[d])[j]
<1> DEFINE file == File(m, f)
           d == file.indirect
           c == [kind |-> "bitmap", free |-> FreeIn(m) \cup Freed(m, f, newsize)]
           e == [m EXCEPT ![Bitmap] = c]
           ps == CutFrom(file, newsize, PtrsIn(m[d]), NDIRECT)
           r == Released(m, f, newsize)
<1>1. Shaped(m) /\ Rooted(m, n)
  BY DEF Good
<1>2. m \in Memory /\ f \in Places /\ m[Bitmap] \in Content
  BY <1>1, InodePlaces, Sizes DEF Memory
<1>3. Freed(m, f, newsize) \subseteq Block
  BY <1>2, FreedLemma
<1>4. m[Bitmap] = [kind |-> "bitmap", free |-> FreeIn(m)] /\ FreeIn(m) \in SUBSET Block
  <2>1. m[Bitmap].kind = "bitmap"
    BY <1>1 DEF Shaped
  <2> HIDE DEF Content
  <2>2. QED  BY <1>2, <2>1, ContentKinds DEF FreeIn
<1>5. [m EXCEPT ![Bitmap] = BitmapBlock(FreeIn(m) \cup Freed(m, f, newsize))] = e
  BY DEF BitmapBlock
<1>6. c \in Content /\ c.kind = "bitmap" /\ c.free = FreeIn(m) \cup Freed(m, f, newsize)
  BY <1>3, <1>4 DEF Content
<1> HIDE DEF c, Content, Block
<1>7. e \in Memory /\ e[Bitmap] = c /\ \A b \in Block \ {Bitmap} : e[b] = m[b]
  BY <1>2, <1>6, Sizes DEF Memory
<1>8. r = IF d = 0 THEN e ELSE [e EXCEPT ![d] = PtrsBlock(CutFrom(file, newsize, PtrsIn(@), NDIRECT))]
  BY <1>5 DEF Released
<1>9. d \in {0} \cup (Block \ {Super, Bitmap})
  BY Apart
<1> HIDE DEF e, r
<1>10. CASE d = 0
  BY <1>6, <1>7, <1>8, <1>10 DEF r, FreeIn
<1>11. CASE d # 0
  <2>1. d \in Block \ {Bitmap} /\ e[d] = m[d] /\ m[d] \in Content
    BY <1>2, <1>7, <1>9, <1>11 DEF Memory
  <2>2. PtrsIn(m[d]) \in [0 .. NINDIRECT - 1 -> {0} \cup Block]
    BY <2>1, ReadAs
  <2> HIDE DEF file
  <2>3. /\ ps \in [0 .. NINDIRECT - 1 -> {0} \cup Block]
        /\ \A j \in 0 .. NINDIRECT - 1 : ps[j] = IF j + NDIRECT \in Gone(file, newsize) THEN 0 ELSE PtrsIn(m[d])[j]
    BY <2>2 DEF CutFrom
  <2> HIDE DEF ps
  <2>4. /\ PtrsBlock(ps) \in Content /\ (PtrsBlock(ps) = Zero \/ PtrsBlock(ps).kind = "ptrs")
        /\ PtrsBlock(ps).kind # "files" /\ PtrsIn(PtrsBlock(ps)) = ps
    BY <2>3, WrittenAs
  <2>5. r = [e EXCEPT ![d] = PtrsBlock(ps)]
    BY <1>8, <1>11, <2>1 DEF ps
  <2>6. /\ r \in Memory /\ r[d] = PtrsBlock(ps)
        /\ \A b \in Block \ {d} : r[b] = e[b]
    BY <1>7, <2>1, <2>4, <2>5 DEF Memory
  <2>7. r[Bitmap] = c
    BY <1>7, <1>9, <1>11, <2>6, Sizes
  <2>8. QED  BY <1>6, <1>7, <1>11, <2>1, <2>3, <2>4, <2>6, <2>7 DEF r, FreeIn, file
<1>12. QED  BY <1>10, <1>11

LEMMA ShorterLemma ==
    ASSUME NEW old \in FileType, NEW newsize \in Nat
    PROVE  LET file == ShorterFile(old, newsize)
           IN  /\ file \in FileType /\ file.name = old.name /\ file.size = old.size
               /\ file.indirect = IF LosesIndirect(old, newsize) THEN 0 ELSE old.indirect
               /\ \A i \in 0 .. NDIRECT - 1 : file.direct[i] = IF i \in Gone(old, newsize) THEN 0 ELSE old.direct[i]
<1> HIDE DEF Block
<1> DEFINE dir == CutFrom(old, newsize, old.direct, 0)
           ind == IF LosesIndirect(old, newsize) THEN 0 ELSE old.indirect
           file == ShorterFile(old, newsize)
<1>1. old.direct \in [0 .. NDIRECT - 1 -> {0} \cup Block] /\ old.indirect \in {0} \cup Block
  BY DEF FileType
<1>2. dir \in [0 .. NDIRECT - 1 -> {0} \cup Block]
      /\ \A i \in 0 .. NDIRECT - 1 : dir[i] = IF i \in Gone(old, newsize) THEN 0 ELSE old.direct[i]
  <2>1. \A i \in 0 .. NDIRECT - 1 : i + 0 = i
    OBVIOUS
  <2>2. QED  BY <1>1, <2>1 DEF CutFrom
<1>3. file = [old EXCEPT !.direct = dir, !.indirect = ind]
  BY DEF ShorterFile
<1>4. ind \in {0} \cup Block
  BY <1>1
<1> HIDE DEF dir, ind, file
<1>5. file \in FileType /\ file.name = old.name /\ file.size = old.size /\ file.indirect = ind /\ file.direct = dir
  BY <1>2, <1>3, <1>4 DEF FileType
<1>6. QED  BY <1>2, <1>5 DEF ind, file

LEMMA TruncatedLemma ==
    ASSUME NEW m, NEW n, Good(m, n, {}), NEW f \in Inodes(m, n) \ {Root}, NEW newsize \in Nat,
           File(m, f).name # NoName
    PROVE  LET w == Truncated(m, f, newsize)
           IN  /\ Good(w, n, {}) /\ SameNames(m, w, n) /\ Inodes(w, n) = Inodes(m, n)
               /\ \A i \in 0 .. Capacity - 1 : i >= NBlocks(newsize) => Ptr(w, f, i) = 0
               /\ ChangesCut(m, w, n, f) /\ FreeIn(m) \subseteq FreeIn(w)
               /\ Cut(m, w, n, f, Lost(File(m, f), newsize))
<1> DEFINE old == File(m, f)
           d == old.indirect
           r == Released(m, f, newsize)
           file == ShorterFile(old, newsize)
           w == Truncated(m, f, newsize)
           J == Lost(old, newsize)
<1> HIDE DEF Content, Block, FileType
<1>1. Shaped(m) /\ Rooted(m, n)
  BY DEF Good
<1>2. m \in Memory /\ f \in Places /\ Inodes(m, n) \subseteq Places
  BY <1>1, InodePlaces
<1>3. /\ old \in FileType /\ old.size \in Nat /\ d \in {0} \cup Block
      /\ old.direct \in [0 .. NDIRECT - 1 -> {0} \cup Block]
      /\ NBlocks(old.size) \in Nat /\ NBlocks(newsize) \in Nat
  BY <1>2, PtrTypes, Rounding
<1>4. /\ r \in Memory /\ r[Bitmap].kind = "bitmap"
      /\ FreeIn(r) = FreeIn(m) \cup Freed(m, f, newsize)
      /\ \A b \in Block \ {Bitmap} : b # d => r[b] = m[b]
      /\ d # 0 => /\ r[d] = Zero \/ r[d].kind = "ptrs"
                  /\ r[d].kind # "files"
                  /\ \A j \in 0 .. NINDIRECT - 1 :
                        PtrsIn(r[d])[j] = IF j + NDIRECT \in Gone(old, newsize) THEN 0 ELSE PtrsIn(m[d])[j]
  BY ReleasedLemma
<1>5. /\ file \in FileType /\ file.name = old.name /\ file.size = old.size
      /\ file.indirect = IF LosesIndirect(old, newsize) THEN 0 ELSE d
      /\ \A i \in 0 .. NDIRECT - 1 : file.direct[i] = IF i \in Gone(old, newsize) THEN 0 ELSE old.direct[i]
  BY <1>3, ShorterLemma
<1>6. w = WithFile(r, f, file)
  BY DEF Truncated
<1> HIDE DEF file, r
<1>7. /\ w \in Memory /\ File(w, f) = file
      /\ \A g \in Places : g # f => File(w, g) = File(r, g)
      /\ \A b \in Block : b # f[1] => w[b] = r[b]
      /\ w[f[1]].kind = "files"
  BY <1>2, <1>4, <1>5, <1>6, WithFileLemma
<1> HIDE DEF w
<1>8. /\ \A g \in Inodes(m, n) : g[1] \in Block /\ g[1] # Bitmap /\ g[1] # d
      /\ \A g \in Inodes(m, n) : g[1] # File(m, g).indirect /\ f[1] # File(m, g).indirect
      /\ \A g \in Inodes(m, n) : File(m, g).indirect \in {0} \cup Block /\ File(m, g).indirect # Bitmap
      /\ \A g \in Inodes(m, n) : g # f /\ File(m, g).indirect # 0 => File(m, g).indirect # d
      /\ d \notin {Super, Bitmap}
      /\ \A k \in 0 .. n - 1 : Ptr(m, Root, k) # d
  BY Apart
<1>9. ASSUME NEW g \in Inodes(m, n), g # f  PROVE File(w, g) = File(m, g)
  <2>1. File(r, g) = File(m, g)
    <3>1. g[1] \in Block \ {Bitmap} /\ g[1] # d
      BY <1>8
    <3>2. r[g[1]] = m[g[1]]
      BY <1>4, <3>1
    <3>3. QED  BY <3>2 DEF File
  <2>2. File(w, g) = File(r, g)
    BY <1>2, <1>7, <1>9
  <2>3. QED  BY <2>1, <2>2
<1>10. Shaped(w) /\ FreeIn(w) = FreeIn(m) \cup Given(m, f, J)
  <2>1. w[Bitmap] = r[Bitmap]
    BY <1>7, <1>8, Sizes
  <2>2. w[Super].kind = "files"
    BY <1>1, <1>4, <1>7, <1>8, Sizes DEF Shaped
  <2>3. FreeIn(m) \cup Freed(m, f, newsize) = FreeIn(m) \cup Given(m, f, J)
    BY <1>2, FreedLemma
  <2>4. QED  BY <1>4, <1>7, <2>1, <2>2, <2>3 DEF Shaped, Memory, FreeIn
<1>11. \A g \in Inodes(m, n), b \in Block : g # f /\ b = File(m, g).indirect => w[b] = m[b]
  BY <1>4, <1>7, <1>8, Sizes
<1>12. ASSUME NEW g \in Inodes(m, n), g # f  PROVE \A j : PtrAt(w, g, j) = PtrAt(m, g, j)
  <2>1. File(w, g) = File(m, g) /\ File(m, g).indirect \in {0} \cup Block
    BY <1>8, <1>9, <1>12
  <2>2. File(m, g).indirect # 0 => w[File(m, g).indirect] = m[File(m, g).indirect]
    BY <1>11, <1>12, <2>1
  <2>3. QED  BY <2>1, <2>2, SameFile
<1>13. d # 0 => w[d] = r[d]
  BY <1>3, <1>7, <1>8
<1>14. \A j \in 0 .. Capacity - 1 : Ptr(w, f, j) = IF j \in Gone(old, newsize) THEN 0 ELSE Ptr(m, f, j)
  <2> HIDE DEF old
  <2>1. ASSUME NEW j \in 0 .. Capacity - 1, j < NDIRECT
        PROVE  Ptr(w, f, j) = IF j \in Gone(old, newsize) THEN 0 ELSE Ptr(m, f, j)
    <3>1. j \in 0 .. NDIRECT - 1
      BY <2>1, Sizes
    <3>2. Ptr(w, f, j) = file.direct[j] /\ Ptr(m, f, j) = old.direct[j]
      BY <1>7, <2>1 DEF Ptr, old
    <3>3. QED  BY <1>5, <3>1, <3>2
  <2>2. ASSUME NEW j \in 0 .. Capacity - 1, ~ (j < NDIRECT)
        PROVE  Ptr(w, f, j) = IF j \in Gone(old, newsize) THEN 0 ELSE Ptr(m, f, j)
    <3>1. j - NDIRECT \in 0 .. NINDIRECT - 1 /\ ~ (j >= Capacity) /\ (j - NDIRECT) + NDIRECT = j
      BY <2>2, Sizes
    <3>2. CASE d = 0
      <4>1. Ptr(w, f, j) = 0 /\ Ptr(m, f, j) = 0
        BY <1>5, <1>7, <2>2, <3>1, <3>2 DEF Ptr, old
      <4>2. QED  BY <4>1
    <3>3. CASE d # 0 /\ LosesIndirect(old, newsize)
      <4>1. Ptr(w, f, j) = 0
        BY <1>5, <1>7, <2>2, <3>1, <3>3 DEF Ptr
      <4>2. j \in Gone(old, newsize) \/ j >= NBlocks(old.size)
        BY <1>3, <2>2, <3>3, Sizes DEF Gone, LosesIndirect
      <4>3. j >= NBlocks(old.size) => Ptr(m, f, j) = 0
        BY DEF Good, Ends, old
      <4>4. QED  BY <4>1, <4>2, <4>3
    <3>4. CASE d # 0 /\ ~ LosesIndirect(old, newsize)
      <4>1. Ptr(m, f, j) = PtrsIn(m[d])[j - NDIRECT]
        BY <2>2, <3>1, <3>4 DEF Ptr, old
      <4>2. Ptr(w, f, j) = PtrsIn(w[d])[j - NDIRECT]
        BY <1>5, <1>7, <2>2, <3>1, <3>4 DEF Ptr
      <4>3. QED  BY <1>4, <1>13, <3>1, <3>4, <4>1, <4>2 DEF old
    <3>5. QED  BY <3>2, <3>3, <3>4
  <2>3. QED  BY <2>1, <2>2
<1>15. \A j \in Slots : PtrAt(w, f, j) = IF j \in J THEN 0 ELSE PtrAt(m, f, j)
  <2> HIDE DEF old
  <2>1. \A j \in Slots : j = Capacity \/ j \in 0 .. Capacity - 1
    BY Sizes DEF Slots
  <2>2. ASSUME NEW j \in 0 .. Capacity - 1
        PROVE  /\ PtrAt(w, f, j) = Ptr(w, f, j) /\ PtrAt(m, f, j) = Ptr(m, f, j)
               /\ j \in Lost(old, newsize) <=> j \in Gone(old, newsize)
    BY Sizes DEF PtrAt, Lost
  <2>3. /\ PtrAt(w, f, Capacity) = file.indirect /\ PtrAt(m, f, Capacity) = d
        /\ Capacity \in Lost(old, newsize) <=> LosesIndirect(old, newsize)
    BY <1>7, Sizes DEF PtrAt, Lost, old
  <2>4. QED  BY <1>5, <1>14, <2>1, <2>2, <2>3 DEF old
<1>16. Cut(m, w, n, f, J)
  BY <1>12, <1>15 DEF Cut
<1>17. J \in SUBSET Slots
  BY <1>2, FreedLemma
<1>18. SameNames(m, w, n)
  BY <1>5, <1>7, <1>9 DEF SameNames
<1>19. ASSUME NEW g \in Inodes(m, n)
       PROVE  LET b == File(w, g).indirect IN b # 0 => w[b] = Zero \/ w[b].kind = "ptrs"
  <2>1. CASE g = f
    BY <1>4, <1>5, <1>7, <1>13, <2>1
  <2>2. CASE g # f
    BY <1>8, <1>9, <1>11, <2>2 DEF Good, Indirects
  <2>3. QED  BY <2>1, <2>2
<1>20. ASSUME \A k \in 0 .. n - 1 : Ptr(w, Root, k) = Ptr(m, Root, k)  PROVE Kinds(w, n)
  <2>1. \E k \in 0 .. n - 1 : f[1] = Ptr(m, Root, k)
    BY <1>1, InodePlaces
  <2>2. w[Bitmap].kind # "files"
    BY <1>10 DEF Shaped
  <2>3. \A b \in Block : b # f[1] /\ b # d /\ b # Bitmap => w[b] = m[b]
    BY <1>4, <1>7
  <2>4. d \in Block => w[d].kind # "files"
    BY <1>4, <1>13, Sizes
  <2>5. ASSUME NEW b \in Block, w[b].kind = "files"
        PROVE  b = Super \/ \E k \in 0 .. n - 1 : b = Ptr(m, Root, k)
    <3>1. CASE b = f[1]
      BY <2>1, <3>1
    <3>2. CASE b # f[1]
      <4>1. w[b] = m[b]
        BY <2>2, <2>3, <2>4, <2>5, <3>2
      <4>2. QED  BY <2>5, <4>1 DEF Good, Kinds
    <3>3. QED  BY <3>1, <3>2
  <2>6. QED  BY <1>20, <2>5 DEF Kinds
<1>21. Good(w, n, {}) /\ Inodes(w, n) = Inodes(m, n)
  <2>1. KeepsForms(m, w, n)
    BY <1>19, <1>20, Zenon DEF KeepsForms
  <2>2. Shaped(w) /\ FreeIn(w) = FreeIn(m) \cup Given(m, f, J) /\ Good(m, n, {})
    BY <1>10
  <2> HIDE DEF J, old, w, r, file, Slots, d
  <2>3. QED  BY <1>16, <1>17, <1>18, <2>1, <2>2, CutLemma
<1>22. \A i \in 0 .. Capacity - 1 : i >= NBlocks(newsize) => Ptr(w, f, i) = 0
  <2>1. ASSUME NEW i \in 0 .. Capacity - 1, i >= NBlocks(newsize)  PROVE Ptr(w, f, i) = 0
    <3>1. i \in Gone(old, newsize) \/ i >= NBlocks(old.size)
      BY <1>3, <2>1 DEF Gone
    <3>2. i >= NBlocks(old.size) => Ptr(m, f, i) = 0
      BY DEF Good, Ends
    <3>3. QED  BY <1>14, <3>1, <3>2
  <2>2. QED  BY <2>1
<1>23. ChangesCut(m, w, n, f)
  BY <1>4, <1>7, <1>9 DEF Touches, ChangesCut
<1>24. FreeIn(m) \subseteq FreeIn(w)
  BY <1>10
<1>25. QED  BY <1>16, <1>18, <1>21, <1>22, <1>23, <1>24 DEF w

LEMMA Numbering ==
    /\ \A k \in Nat : /\ k \div BLKFILES \in Nat /\ k % BLKFILES \in 0 .. BLKFILES - 1
                      /\ k = (k \div BLKFILES) * BLKFILES + (k % BLKFILES)
    /\ \A q \in Nat, r \in 0 .. BLKFILES - 1 :
          /\ q * BLKFILES + r \in Nat
          /\ (q * BLKFILES + r) \div BLKFILES = q /\ (q * BLKFILES + r) % BLKFILES = r
  BY Sizes
LEMMA NumberingOrder ==
    ASSUME NEW q \in Nat, NEW r \in 0 .. BLKFILES - 1, NEW n \in Nat
    PROVE  q * BLKFILES + r < n * BLKFILES <=> q < n
<1>1. ASSUME q < n  PROVE q * BLKFILES + r < n * BLKFILES
  <2>1. n - q - 1 \in Nat /\ n = q + 1 + (n - q - 1)
    BY <1>1
  <2>2. n * BLKFILES = q * BLKFILES + BLKFILES + (n - q - 1) * BLKFILES
    BY <2>1, Sizes
  <2>3. (n - q - 1) * BLKFILES \in Nat
    BY <2>1, Sizes
  <2>4. QED  BY <2>2, <2>3, Sizes
<1>2. ASSUME ~ (q < n)  PROVE ~ (q * BLKFILES + r < n * BLKFILES)
  <2>1. q - n \in Nat /\ q = n + (q - n)
    BY <1>2
  <2>2. q * BLKFILES = n * BLKFILES + (q - n) * BLKFILES
    BY <2>1, Sizes
  <2>3. (q - n) * BLKFILES \in Nat /\ n * BLKFILES \in Nat /\ r >= 0
    BY <2>1, Sizes
  <2>4. QED  BY <2>2, <2>3, Sizes
<1>3. QED  BY <1>1, <1>2

LEMMA EntriesLemma ==
    ASSUME NEW m, NEW n \in Nat, NDir(m) = n
    PROVE  /\ \A k \in Entries(m) : /\ k \in Nat /\ k \div BLKFILES \in 0 .. n - 1
                                    /\ k % BLKFILES \in 0 .. BLKFILES - 1
                                    /\ Ptr(m, Root, k \div BLKFILES) # 0
           /\ \A q \in 0 .. n - 1, j \in 0 .. BLKFILES - 1 : Ptr(m, Root, q) # 0 =>
                 /\ q * BLKFILES + j \in Entries(m)
                 /\ Entry(m, q * BLKFILES + j) = <<Ptr(m, Root, q), j>>
<1>2. Entries(m) = {k \in 0 .. n * BLKFILES - 1 : Ptr(m, Root, k \div BLKFILES) # 0}
  BY DEF Entries, NDir
<1>3. n * BLKFILES \in Nat
  BY Sizes
<1>4. ASSUME NEW k \in Entries(m)
      PROVE  /\ k \in Nat /\ k \div BLKFILES \in 0 .. n - 1
             /\ k % BLKFILES \in 0 .. BLKFILES - 1
             /\ Ptr(m, Root, k \div BLKFILES) # 0
  <2>1. k \in Nat /\ k < n * BLKFILES /\ Ptr(m, Root, k \div BLKFILES) # 0
    BY <1>2, <1>3
  <2>2. k \div BLKFILES \in Nat /\ k % BLKFILES \in 0 .. BLKFILES - 1
        /\ k = (k \div BLKFILES) * BLKFILES + (k % BLKFILES)
    BY <2>1, Numbering
  <2>3. k \div BLKFILES < n
    BY <2>1, <2>2, NumberingOrder
  <2>4. QED  BY <2>1, <2>2, <2>3
<1>5. ASSUME NEW q \in 0 .. n - 1, NEW j \in 0 .. BLKFILES - 1, Ptr(m, Root, q) # 0
      PROVE  /\ q * BLKFILES + j \in Entries(m)
             /\ Entry(m, q * BLKFILES + j) = <<Ptr(m, Root, q), j>>
  <2>1. q \in Nat /\ q < n
    OBVIOUS
  <2>2. q * BLKFILES + j \in Nat /\ q * BLKFILES + j < n * BLKFILES
    BY <2>1, Numbering, NumberingOrder
  <2>3. (q * BLKFILES + j) \div BLKFILES = q /\ (q * BLKFILES + j) % BLKFILES = j
    BY <2>1, Numbering
  <2>4. QED  BY <1>2, <1>3, <1>5, <2>2, <2>3 DEF Entry
<1>6. QED  BY <1>4, <1>5

-----------------------------------------------------------------------------
(* What the disk shows.                                                    *)


\* DiskSound, of a disk d with the stale entries st.
ShownIn(d, st, p) == p[2] \in NDIRECT .. Capacity - 1 =>
    <<File(d, p[1]).indirect, p[2] - NDIRECT>> \notin st
Clear(d, st) ==
    LET shown == {p \in Used(d) : ShownIn(d, st, p)}
    IN  /\ \A p \in shown : At(d, p) \notin FreeIn(d) \cup {Super, Bitmap}
        /\ \A p, q \in shown : p # q => At(d, p) # At(d, q)

\* A disk d is behind a memory m whose directory has n blocks: the pointers it
\* shows are 0 or those of m, except the stale ones.
Shows(d, m, f, st) ==
    LET b == File(m, f).indirect
    IN  /\ File(d, f).indirect \in {0, b}
        /\ \A i \in 0 .. NDIRECT - 1 : PtrAt(d, f, i) \in {0, PtrAt(m, f, i)}
        /\ b # 0 => \A i \in NDIRECT .. Capacity - 1 :
              \/ PtrsIn(d[b])[i - NDIRECT] \in {0, PtrAt(m, f, i)}
              \/ <<b, i - NDIRECT>> \in st
Behind(d, m, n, st) ==
    /\ NDir(d) <= n /\ NDir(d) <= NDir(m)
    /\ \A b \in Block : d[b].kind = "files" => b = Super \/ \E k \in 0 .. n - 1 : b = Ptr(m, Root, k)
    /\ \A f \in Inodes(m, n) : Shows(d, m, f, st)
    /\ \A p \in st : p[1] # File(m, Root).indirect /\ PtrsIn(d[p[1]])[p[2]] # 0
Marked(d, m) == FreeIn(d) \subseteq FreeIn(m)

LEMMA NDirType ==
    ASSUME NEW m \in Memory
    PROVE  NDir(m) \in Nat
<1>1. Root \in Places
  BY Sizes DEF Places, Root
<1>2. File(m, Root).size \in Nat
  BY <1>1, PtrTypes
<1>3. QED  BY <1>2, Rounding DEF NDir

LEMMA SlotsLemma ==
    ASSUME NEW m, NEW f
    PROVE  /\ Capacity \in Slots /\ PtrAt(m, f, Capacity) = File(m, f).indirect
           /\ \A i \in 0 .. NDIRECT - 1 : /\ i \in Slots /\ i # Capacity /\ i \in 0 .. Capacity - 1
                                          /\ PtrAt(m, f, i) = File(m, f).direct[i]
                                          /\ PtrAt(m, f, i) = Ptr(m, f, i)
           /\ \A i \in NDIRECT .. Capacity - 1 :
                 /\ i \in Slots /\ i # Capacity /\ i \in 0 .. Capacity - 1 /\ i - NDIRECT \in 0 .. NINDIRECT - 1
                 /\ PtrAt(m, f, i) = Ptr(m, f, i)
                 /\ PtrAt(m, f, i) = IF File(m, f).indirect = 0 THEN 0
                                     ELSE PtrsIn(m[File(m, f).indirect])[i - NDIRECT]
           /\ \A i \in Slots : i = Capacity \/ i \in 0 .. NDIRECT - 1 \/ i \in NDIRECT .. Capacity - 1
           /\ \A i \in 0 .. Capacity - 1 : i \in Slots /\ PtrAt(m, f, i) = Ptr(m, f, i)
<1>1. Capacity \in Slots /\ PtrAt(m, f, Capacity) = File(m, f).indirect
  BY Sizes DEF Slots, PtrAt
<1>2. ASSUME NEW i \in 0 .. NDIRECT - 1
      PROVE  /\ i \in Slots /\ i # Capacity /\ i \in 0 .. Capacity - 1
             /\ PtrAt(m, f, i) = File(m, f).direct[i]
             /\ PtrAt(m, f, i) = Ptr(m, f, i)
  BY Sizes DEF Slots, PtrAt, Ptr
<1>3. ASSUME NEW i \in NDIRECT .. Capacity - 1
      PROVE  /\ i \in Slots /\ i # Capacity /\ i \in 0 .. Capacity - 1 /\ i - NDIRECT \in 0 .. NINDIRECT - 1
             /\ PtrAt(m, f, i) = Ptr(m, f, i)
             /\ PtrAt(m, f, i) = IF File(m, f).indirect = 0 THEN 0
                                 ELSE PtrsIn(m[File(m, f).indirect])[i - NDIRECT]
  <2>1. /\ i \in Slots /\ i # Capacity /\ i \in 0 .. Capacity - 1 /\ i - NDIRECT \in 0 .. NINDIRECT - 1
        /\ ~ (i < NDIRECT) /\ ~ (i >= Capacity)
    BY Sizes DEF Slots
  <2>2. QED  BY <2>1 DEF PtrAt, Ptr
<1>4. \A i \in Slots : i = Capacity \/ i \in 0 .. NDIRECT - 1 \/ i \in NDIRECT .. Capacity - 1
  BY Sizes DEF Slots
<1>5. \A i \in 0 .. Capacity - 1 : i \in Slots /\ PtrAt(m, f, i) = Ptr(m, f, i)
  BY Sizes DEF Slots, PtrAt
<1>6. QED  BY <1>1, <1>2, <1>3, <1>4, <1>5
LEMMA PtrSlots ==
    ASSUME NEW m, NEW f, NEW i \in 0 .. Capacity - 1
    PROVE  i \in Slots /\ PtrAt(m, f, i) = Ptr(m, f, i)
<1>1. QED  BY SlotsLemma

InSight(d, f, i, st) == f = Root \/ ShownIn(d, st, <<f, i>>)
LEMMA ShownLemma ==
    ASSUME NEW m, NEW n, NEW d, NEW st, Behind(d, m, n, st), NEW f \in Inodes(m, n), NEW i \in Slots,
           PtrAt(d, f, i) # 0, InSight(d, f, i, st)
    PROVE  PtrAt(d, f, i) = PtrAt(m, f, i)
<1> DEFINE b == File(m, f).indirect
<1>1. Shows(d, m, f, st)
  BY DEF Behind
<1>2. CASE i = Capacity
  BY <1>1, <1>2, SlotsLemma DEF Shows
<1>3. CASE i \in 0 .. NDIRECT - 1
  BY <1>1, <1>3 DEF Shows
<1>4. CASE i \in NDIRECT .. Capacity - 1
  <2>1. /\ File(d, f).indirect # 0
        /\ PtrAt(d, f, i) = PtrsIn(d[File(d, f).indirect])[i - NDIRECT]
    BY <1>4, SlotsLemma
  <2>2. File(d, f).indirect = b /\ b # 0
    BY <1>1, <2>1 DEF Shows
  <2>3. <<b, i - NDIRECT>> \notin st
    <3>1. CASE f = Root
      BY <3>1 DEF Behind
    <3>2. CASE ShownIn(d, st, <<f, i>>)
      BY <1>4, <2>2, <3>2 DEF ShownIn
    <3>3. QED  BY <3>1, <3>2 DEF InSight
  <2>4. QED  BY <1>1, <1>4, <2>1, <2>2, <2>3 DEF Shows
<1>5. QED  BY <1>2, <1>3, <1>4, SlotsLemma

LEMMA RootShown ==
    ASSUME NEW m, NEW n, NEW d, NEW st, Behind(d, m, n, st), NEW i \in Slots, PtrAt(d, Root, i) # 0
    PROVE  PtrAt(d, Root, i) = PtrAt(m, Root, i)
<1>1. Root \in Inodes(m, n)
  BY DEF Inodes
<1>2. InSight(d, Root, i, st)
  BY DEF InSight
<1>3. QED  BY <1>1, <1>2, ShownLemma

(* The disk then has no files but those of the memory.                      *)
LEMMA BehindFiles ==
    ASSUME NEW m, NEW n, NEW x, Good(m, n, x), NEW d \in Memory, NEW st, Behind(d, m, n, st)
    PROVE  Directory(d) \subseteq Inodes(m, n) /\ FilesOf(d) \subseteq Inodes(m, n)
<1>1. Root \in Places /\ Root \in Inodes(m, n) /\ n \in Nat
      /\ \A k \in 0 .. n - 1 : k \in Slots /\ PtrAt(m, Root, k) = Ptr(m, Root, k) /\ k < Capacity
  BY InodePlaces DEF Good
<1>2. NDir(d) \in Nat /\ NDir(d) <= n
  <2>1. File(d, Root).size \in Nat
    BY <1>1, PtrTypes
  <2>2. QED  BY <2>1, Rounding DEF NDir, Behind
<1>3. ASSUME NEW f \in Directory(d)  PROVE f \in Inodes(m, n)
  <2>1. PICK k \in Entries(d) : f = <<Ptr(d, Root, k \div BLKFILES), k % BLKFILES>>
    BY DEF Directory, Entry
  <2> DEFINE q == k \div BLKFILES
  <2>2. q \in 0 .. NDir(d) - 1 /\ k % BLKFILES \in 0 .. BLKFILES - 1 /\ Ptr(d, Root, q) # 0
    <3> HIDE DEF NDir
    <3>1. QED  BY <1>2, EntriesLemma
  <2> HIDE DEF q
  <2>3. q \in 0 .. n - 1
    BY <1>1, <1>2, <2>2
  <2>4. /\ PtrAt(d, Root, q) = Ptr(d, Root, q) /\ q \in Slots
        /\ PtrAt(m, Root, q) = Ptr(m, Root, q)
    <3>1. q \in 0 .. Capacity - 1
      BY <1>1, <2>3, Sizes
    <3>2. QED  BY <3>1, PtrSlots
  <2>5. Ptr(d, Root, q) = Ptr(m, Root, q)
    <3>1. PtrAt(d, Root, q) # 0
      BY <2>2, <2>4
    <3>2. PtrAt(d, Root, q) = PtrAt(m, Root, q)
      BY <2>4, <3>1, RootShown
    <3>3. QED  BY <2>4, <3>2
  <2>6. QED  BY <2>1, <2>2, <2>3, <2>5 DEF Inodes, q
<1>4. QED  BY <1>1, <1>3 DEF FilesOf

LEMMA ClearLemma ==
    ASSUME NEW m, NEW n, NEW x, Good(m, n, x), NEW d \in Memory, NEW st, Behind(d, m, n, st), Marked(d, m)
    PROVE  Clear(d, st)
<1>1. Owned(m, n) /\ Exact(m, n, x)
  BY DEF Good
<1>2. ASSUME NEW p \in Used(d), ShownIn(d, st, p)
      PROVE  /\ p = <<p[1], p[2]>> /\ p[1] \in Inodes(m, n) /\ p[2] \in Slots
             /\ At(d, p) = PtrAt(m, p[1], p[2]) /\ At(d, p) # 0
  <2>1. p = <<p[1], p[2]>> /\ p[1] \in FilesOf(d) /\ p[2] \in Slots /\ PtrAt(d, p[1], p[2]) # 0
    BY DEF Used
  <2>2. p[1] \in Inodes(m, n)
    BY <2>1, BehindFiles
  <2>3. InSight(d, p[1], p[2], st)
    BY <1>2, <2>1 DEF InSight
  <2>4. PtrAt(d, p[1], p[2]) = PtrAt(m, p[1], p[2])
    BY <2>1, <2>2, <2>3, ShownLemma
  <2>5. QED  BY <2>1, <2>2, <2>4 DEF At
<1>3. ASSUME NEW p \in Used(d), ShownIn(d, st, p)
      PROVE  At(d, p) \notin FreeIn(d) \cup {Super, Bitmap}
  <2>1. PtrAt(m, p[1], p[2]) \notin {Super, Bitmap}
    BY <1>1, <1>2, <1>3 DEF Owned
  <2>2. PtrAt(m, p[1], p[2]) \in Block
    <3>1. m \in Memory /\ p[1] \in Places
      BY <1>2, <1>3, InodePlaces DEF Good
    <3>2. QED  BY <1>2, <1>3, <3>1, PtrTypes
  <2>3. Has(m, n, PtrAt(m, p[1], p[2]))
    BY <1>2, <1>3 DEF Has
  <2>4. PtrAt(m, p[1], p[2]) \notin FreeIn(m)
    BY <1>1, <2>2, <2>3 DEF Exact
  <2>5. QED  BY <1>2, <1>3, <2>1, <2>4 DEF Marked
<1>4. ASSUME NEW p \in Used(d), ShownIn(d, st, p), NEW q \in Used(d), ShownIn(d, st, q), p # q
      PROVE  At(d, p) # At(d, q)
  BY <1>1, <1>2, <1>4 DEF Owned
<1>5. QED  BY <1>3, <1>4 DEF Clear

\* The stale entries that a write to block b leaves.
Left(st, b) == {p \in st : p[1] # b}

(* Writing a block to the disk brings the disk nearer to the memory.        *)
LEMMA BehindFlush ==
    ASSUME NEW m, NEW n, NEW x, Good(m, n, x), NEW d \in Memory, NEW st \in SUBSET StaleEntries,
           Behind(d, m, n, st), NEW b \in Block, b = Super => NDir(m) <= n
    PROVE  Behind([d EXCEPT ![b] = m[b]], m, n, Left(st, b))
<1> DEFINE e == [d EXCEPT ![b] = m[b]]
           left == {p \in st : p[1] # b}
<1>0. Left(st, b) = left
  BY DEF Left
<1> HIDE DEF Block, Content
<1>1. e[b] = m[b] /\ \A a \in Block : a # b => e[a] = d[a]
  BY DEF Memory
<1> HIDE DEF e
<1>2. /\ m \in Memory /\ Inodes(m, n) \subseteq Places /\ Root \in Inodes(m, n) /\ Root \in Places
      /\ \A f \in Inodes(m, n) : f[1] \in Block
  BY InodePlaces, Apart DEF Good
<1>3. \A f \in Inodes(m, n) : File(e, f) = (IF f[1] = b THEN File(m, f) ELSE File(d, f))
  BY <1>1, <1>2 DEF File
<1>4. NDir(e) <= n /\ NDir(e) <= NDir(m)
  <2>1. NDir(e) = (IF Super = b THEN NDir(m) ELSE NDir(d))
    BY <1>2, <1>3 DEF NDir, Root
  <2>2. NDir(m) \in Nat
    BY <1>2, NDirType
  <2> HIDE DEF NDir
  <2>3. QED  BY <2>1, <2>2 DEF Behind
<1>5. ASSUME NEW a \in Block, e[a].kind = "files"
      PROVE  a = Super \/ \E k \in 0 .. n - 1 : a = Ptr(m, Root, k)
  BY <1>1, <1>5 DEF Behind, Good, Kinds
<1>6. ASSUME NEW f \in Inodes(m, n)  PROVE Shows(e, m, f, left)
  <2> DEFINE c == File(m, f).indirect
  <2>1. Shows(d, m, f, st) /\ c \in {0} \cup Block
    BY <1>2, PtrTypes DEF Behind
  <2>2. File(e, f).indirect \in {0, c}
    BY <1>3, <2>1 DEF Shows
  <2>3. ASSUME NEW i \in 0 .. NDIRECT - 1  PROVE PtrAt(e, f, i) \in {0, PtrAt(m, f, i)}
    <3>1. /\ PtrAt(e, f, i) = File(e, f).direct[i] /\ PtrAt(d, f, i) = File(d, f).direct[i]
          /\ PtrAt(m, f, i) = File(m, f).direct[i]
      BY SlotsLemma
    <3>2. PtrAt(d, f, i) \in {0, PtrAt(m, f, i)}
      BY <2>1 DEF Shows
    <3>3. QED  BY <1>3, <3>1, <3>2
  <2>4. ASSUME c # 0, NEW i \in NDIRECT .. Capacity - 1
        PROVE  PtrsIn(e[c])[i - NDIRECT] \in {0, PtrAt(m, f, i)} \/ <<c, i - NDIRECT>> \in left
    <3>1. CASE c = b
      <4>1. PtrAt(m, f, i) = PtrsIn(m[c])[i - NDIRECT]
        BY <2>4, SlotsLemma
      <4>2. QED  BY <1>1, <3>1, <4>1
    <3>2. CASE c # b
      <4>1. e[c] = d[c]
        BY <1>1, <2>1, <2>4, <3>2
      <4>2. PtrsIn(d[c])[i - NDIRECT] \in {0, PtrAt(m, f, i)} \/ <<c, i - NDIRECT>> \in st
        BY <2>1, <2>4 DEF Shows
      <4>3. QED  BY <3>2, <4>1, <4>2
    <3>3. QED  BY <3>1, <3>2
  <2> HIDE DEF c, left
  <2>5. QED  BY <2>2, <2>3, <2>4 DEF Shows, c
<1>7. ASSUME NEW p \in left  PROVE p[1] # File(m, Root).indirect /\ PtrsIn(e[p[1]])[p[2]] # 0
  BY <1>1 DEF Behind, StaleEntries
<1>8. QED  BY <1>0, <1>4, <1>5, <1>6, <1>7 DEF Behind, e

(* The directory entries the disk shows stay.                               *)
LEMMA DirectoryFlush ==
    ASSUME NEW m, NEW n, NEW x, Good(m, n, x), NEW d \in Memory, NEW st \in SUBSET StaleEntries,
           Behind(d, m, n, st), NEW b \in Block, b = Super => NDir(m) <= n
    PROVE  Directory(d) \subseteq Directory([d EXCEPT ![b] = m[b]])
<1> DEFINE e == [d EXCEPT ![b] = m[b]]
<1> HIDE DEF Block, Content
<1>1. e[b] = m[b] /\ \A a \in Block : a # b => e[a] = d[a]
  BY DEF Memory
<1>2. Shaped(m) /\ Rooted(m, n)
  BY DEF Good
<1>3. /\ m \in Memory /\ m[b] \in Content /\ Root \in Inodes(m, n) /\ Root \in Places
      /\ File(m, Root).indirect \in {0} \cup Block /\ n \in 0 .. Capacity
      /\ Root[1] \in Block /\ Root[1] # File(m, Root).indirect
  <2>1. m \in Memory /\ Root \in Inodes(m, n) /\ Root \in Places /\ n \in 0 .. Capacity
    BY <1>2, InodePlaces
  <2>2. /\ File(m, Root).indirect \in {0} \cup Block
        /\ Root[1] \in Block /\ Root[1] # File(m, Root).indirect
    BY <2>1, Apart
  <2>3. QED  BY <2>1, <2>2 DEF Memory
<1>4. e \in Memory
  BY <1>3 DEF Memory
<1> HIDE DEF e
<1>5. File(e, Root) = (IF b = Super THEN File(m, Root) ELSE File(d, Root))
  BY <1>1, <1>3 DEF File, Root
<1>6. /\ NDir(d) \in Nat /\ NDir(m) \in Nat /\ NDir(e) \in Nat
      /\ NDir(d) <= NDir(e) /\ NDir(d) <= n
  <2>1. NDir(d) \in Nat /\ NDir(m) \in Nat /\ NDir(e) \in Nat
    BY <1>3, <1>4, NDirType
  <2>2. NDir(e) = (IF b = Super THEN NDir(m) ELSE NDir(d))
    BY <1>5 DEF NDir
  <2> HIDE DEF NDir
  <2>3. QED  BY <2>1, <2>2 DEF Behind
<1>7. ASSUME NEW q \in 0 .. NDir(d) - 1, Ptr(d, Root, q) # 0
      PROVE  Ptr(e, Root, q) = Ptr(d, Root, q)
  <2>1. q \in 0 .. Capacity - 1 /\ (q \in 0 .. NDIRECT - 1 \/ q \in NDIRECT .. Capacity - 1)
    <3> HIDE DEF NDir
    <3>1. QED  BY <1>3, <1>6, Sizes
  <2>2. /\ PtrAt(d, Root, q) = Ptr(d, Root, q) /\ PtrAt(m, Root, q) = Ptr(m, Root, q)
        /\ PtrAt(e, Root, q) = Ptr(e, Root, q) /\ q \in Slots
    BY <2>1, PtrSlots
  <2>3. PtrAt(d, Root, q) = PtrAt(m, Root, q)
    BY <1>7, <2>2, RootShown
  <2>4. CASE q \in 0 .. NDIRECT - 1
    <3>1. /\ PtrAt(d, Root, q) = File(d, Root).direct[q] /\ PtrAt(m, Root, q) = File(m, Root).direct[q]
          /\ PtrAt(e, Root, q) = File(e, Root).direct[q]
      BY <2>4, SlotsLemma
    <3>2. QED  BY <1>5, <2>2, <2>3, <3>1
  <2>5. CASE q \in NDIRECT .. Capacity - 1
    <3> DEFINE c == File(m, Root).indirect
    <3>1. /\ PtrAt(d, Root, Capacity) = File(d, Root).indirect /\ Capacity \in Slots
          /\ PtrAt(m, Root, Capacity) = c
          /\ File(d, Root).indirect # 0 /\ PtrAt(d, Root, q) = PtrsIn(d[File(d, Root).indirect])[q - NDIRECT]
      BY <1>7, <2>2, <2>5, SlotsLemma
    <3>2. File(d, Root).indirect = c /\ c # 0
      BY <3>1, RootShown
    <3>3. PtrAt(m, Root, q) = PtrsIn(m[c])[q - NDIRECT]
      BY <2>5, <3>2, SlotsLemma
    <3>4. File(e, Root).indirect = c
      BY <1>5, <3>2
    <3>5. PtrAt(e, Root, q) = PtrsIn(e[c])[q - NDIRECT]
      BY <2>5, <3>2, <3>4, SlotsLemma
    <3>6. e[c] = m[c] \/ e[c] = d[c]
      BY <1>1, <1>3, <3>2
    <3>7. QED  BY <2>2, <2>3, <3>1, <3>2, <3>3, <3>5, <3>6
  <2>6. QED  BY <2>1, <2>4, <2>5
<1>8. ASSUME NEW f \in Directory(d)  PROVE f \in Directory(e)
  <2>1. PICK k \in Entries(d) : f = <<Ptr(d, Root, k \div BLKFILES), k % BLKFILES>>
    BY DEF Directory, Entry
  <2> DEFINE q == k \div BLKFILES
  <2>2. /\ q \in 0 .. NDir(d) - 1 /\ k % BLKFILES \in 0 .. BLKFILES - 1 /\ Ptr(d, Root, q) # 0
        /\ k \in Nat
    <3>1. k \in Nat
      BY DEF Entries
    <3> HIDE DEF NDir
    <3>2. QED  BY <1>6, <3>1, EntriesLemma
  <2>3. q \in 0 .. NDir(e) - 1 /\ Ptr(e, Root, q) = Ptr(d, Root, q)
    <3>1. Ptr(e, Root, q) = Ptr(d, Root, q)
      BY <1>7, <2>2
    <3> HIDE DEF NDir, q
    <3>2. QED  BY <1>6, <2>2, <3>1
  <2>4. <<Ptr(e, Root, q), k % BLKFILES>> \in Directory(e)
    <3>1. q \in 0 .. NDir(e) - 1 /\ Ptr(e, Root, q) # 0 /\ k % BLKFILES \in 0 .. BLKFILES - 1
      BY <2>2, <2>3
    <3> HIDE DEF NDir, q
    <3>2. QED  BY <1>6, <3>1, EntriesLemma DEF Directory
  <2>5. QED  BY <2>1, <2>3, <2>4
<1>9. QED  BY <1>8 DEF e

-----------------------------------------------------------------------------
(* What two memories have in common.                                       *)

\* A file is the same in d and in m: its File, the bytes, its pointers.  Of the
\* root directory, only the File and the pointers.
OwnSlots(g) == IF g = Root THEN {Capacity} ELSE Slots
Agrees(d, m, g) ==
    /\ File(d, g) = File(m, g)
    /\ \A i \in OwnSlots(g) : PtrAt(m, g, i) # 0 => d[PtrAt(m, g, i)] = m[PtrAt(m, g, i)]
Others(m, w, n, f) == \A g \in Inodes(m, n) : g # f => Agrees(w, m, g)

LEMMA AgreesSelf ==
    ASSUME NEW m, NEW g
    PROVE  Agrees(m, m, g)
  BY DEF Agrees
LEMMA AgreesPtrs ==
    ASSUME NEW d, NEW m, NEW g, Agrees(d, m, g)
    PROVE  (\A i : Ptr(d, g, i) = Ptr(m, g, i)) /\ (\A i : PtrAt(d, g, i) = PtrAt(m, g, i))
<1>1. Capacity \in OwnSlots(g) /\ PtrAt(m, g, Capacity) = File(m, g).indirect
  BY SlotsLemma DEF OwnSlots
<1>2. File(m, g).indirect # 0 => d[File(m, g).indirect] = m[File(m, g).indirect]
  BY <1>1 DEF Agrees
<1>3. File(d, g) = File(m, g)
  BY DEF Agrees
<1>4. QED  BY <1>2, <1>3, SameFile
LEMMA AgreesBoth ==
    ASSUME NEW d, NEW w, NEW m, NEW g, Agrees(d, m, g), Agrees(w, m, g)
    PROVE  Agrees(d, w, g)
<1>1. \A i : PtrAt(w, g, i) = PtrAt(m, g, i)
  BY AgreesPtrs
<1>2. QED  BY <1>1 DEF Agrees
LEMMA AgreesVia ==
    ASSUME NEW d, NEW w, NEW m, NEW g, Agrees(d, w, g), Agrees(w, m, g)
    PROVE  Agrees(d, m, g)
<1>1. \A i : PtrAt(w, g, i) = PtrAt(m, g, i)
  BY AgreesPtrs
<1>2. QED  BY <1>1 DEF Agrees

LEMMA AgreesFlush ==
    ASSUME NEW d \in Memory, NEW m, NEW c \in Memory, NEW g \in Places, NEW b \in Block,
           Agrees(d, c, g), Agrees(m, c, g)
    PROVE  Agrees([d EXCEPT ![b] = m[b]], c, g)
<1> DEFINE e == [d EXCEPT ![b] = m[b]]
<1> HIDE DEF Block, Content
<1>1. \A a \in Block : e[a] = d[a] \/ e[a] = m[a]
  BY DEF Memory
<1> HIDE DEF e
<1>2. g[1] \in Block
  BY DEF Places
<1>3. File(e, g) = File(c, g)
  <2>1. File(d, g) = File(c, g) /\ File(m, g) = File(c, g)
    BY DEF Agrees
  <2>2. QED  BY <1>1, <1>2, <2>1 DEF File
<1>4. ASSUME NEW i \in OwnSlots(g), PtrAt(c, g, i) # 0
      PROVE  e[PtrAt(c, g, i)] = c[PtrAt(c, g, i)]
  <2>1. i \in Slots
    BY SlotsLemma DEF OwnSlots
  <2>2. PtrAt(c, g, i) \in Block
    BY <1>4, <2>1, PtrTypes
  <2>3. d[PtrAt(c, g, i)] = c[PtrAt(c, g, i)] /\ m[PtrAt(c, g, i)] = c[PtrAt(c, g, i)]
    BY <1>4 DEF Agrees
  <2>4. QED  BY <1>1, <2>2, <2>3
<1>5. QED  BY <1>3, <1>4 DEF Agrees, e

\* The blocks that a call which works on f may change.
OfFile(m, f, x) == {Super, Bitmap, f[1]} \cup x \cup {PtrAt(m, f, i) : i \in Slots}
LEMMA OthersLemma ==
    ASSUME NEW m, NEW n, NEW x, Good(m, n, x), NEW f \in Inodes(m, n), NEW w, NEW B,
           Touches(m, w, n, f, B), B \subseteq OfFile(m, f, x)
    PROVE  Others(m, w, n, f)
<1> HIDE DEF Block
<1>1. Shaped(m) /\ Rooted(m, n) /\ Owned(m, n) /\ Exact(m, n, x)
  BY DEF Good
<1>2. m \in Memory /\ Inodes(m, n) \subseteq Places /\ Root \in Inodes(m, n)
  BY <1>1, InodePlaces
<1>3. ASSUME NEW g \in Inodes(m, n), g # f, NEW i \in OwnSlots(g), PtrAt(m, g, i) # 0
      PROVE  PtrAt(m, g, i) \notin OfFile(m, f, x) /\ PtrAt(m, g, i) \in Block
  <2> DEFINE b == PtrAt(m, g, i)
  <2>1. i \in Slots
    BY SlotsLemma DEF OwnSlots
  <2>2. b \in Block
    BY <1>2, <1>3, <2>1, PtrTypes
  <2>3. b \notin {Super, Bitmap}
    BY <1>1, <2>1 DEF Owned
  <2>4. b \notin x
    BY <1>1, <2>1 DEF Exact, Has
  <2>5. ASSUME NEW j \in Slots  PROVE PtrAt(m, f, j) # b
    BY <1>1, <1>3, <2>1, <2>5 DEF Owned
  <2>6. f[1] # b
    <3>1. CASE f = Root
      BY <2>3, <3>1 DEF Root
    <3>2. CASE \E k \in 0 .. n - 1 : f[1] = Ptr(m, Root, k)
      <4>1. PICK k \in 0 .. n - 1 : f[1] = Ptr(m, Root, k)
        BY <3>2
      <4>2. k \in Slots /\ k < Capacity /\ PtrAt(m, Root, k) = Ptr(m, Root, k)
        BY <1>1, InodePlaces
      <4>3. g # Root \/ i # k
        BY <4>2, Sizes DEF OwnSlots
      <4>4. PtrAt(m, Root, k) # PtrAt(m, g, i)
        BY <1>1, <1>2, <1>3, <2>1, <4>2, <4>3 DEF Owned
      <4>5. QED  BY <4>1, <4>2, <4>4
    <3>3. QED  BY <1>1, <3>1, <3>2, InodePlaces
  <2>7. QED  BY <2>2, <2>3, <2>4, <2>5, <2>6 DEF OfFile
<1>4. ASSUME NEW g \in Inodes(m, n), g # f  PROVE Agrees(w, m, g)
  <2>1. File(w, g) = File(m, g)
    BY <1>4 DEF Touches
  <2>2. ASSUME NEW i \in OwnSlots(g), PtrAt(m, g, i) # 0
        PROVE  w[PtrAt(m, g, i)] = m[PtrAt(m, g, i)]
    BY <1>3, <1>4, <2>2 DEF Touches
  <2>3. QED  BY <2>1, <2>2 DEF Agrees
<1>5. QED  BY <1>4 DEF Others

-----------------------------------------------------------------------------
(* The memory moves on and the disk does not.                              *)

Carries(d, m, w, n, f) ==
    /\ Others(m, w, n, f) /\ Inodes(w, n) = Inodes(m, n)
    /\ \A st \in SUBSET StaleEntries : Behind(d, m, n, st) => Behind(d, w, n, st)

(* No pointer changes.                                                      *)
LEMMA CarriesSame ==
    ASSUME NEW m, NEW n, NEW x, Good(m, n, x), NEW f \in Inodes(m, n), NEW w \in Memory, NEW B,
           Touches(m, w, n, f, B), B \subseteq OfFile(m, f, x), SamePointers(m, w, n),
           NDir(m) <= NDir(w), NEW d \in Memory
    PROVE  Carries(d, m, w, n, f)
<1>1. Others(m, w, n, f)
  BY OthersLemma
<1>2. Inodes(w, n) = Inodes(m, n) /\ \A k \in 0 .. n - 1 : Ptr(w, Root, k) = Ptr(m, Root, k)
  BY SamePointersLemma
<1>3. \A g \in Inodes(m, n) : /\ File(w, g).indirect = File(m, g).indirect
                              /\ \A i \in Slots : PtrAt(w, g, i) = PtrAt(m, g, i)
  BY SlotsLemma DEF SamePointers
<1>4. Root \in Inodes(m, n)
  BY DEF Inodes
<1>5. ASSUME NEW st \in SUBSET StaleEntries, Behind(d, m, n, st)  PROVE Behind(d, w, n, st)
  <2>1. NDir(d) <= n /\ NDir(d) <= NDir(w)
    <3>1. NDir(d) \in Nat /\ NDir(m) \in Nat /\ NDir(w) \in Nat
      BY NDirType DEF Good, Shaped, Memory
    <3>2. NDir(d) <= n /\ NDir(d) <= NDir(m)
      BY <1>5 DEF Behind
    <3> HIDE DEF NDir
    <3>3. QED  BY <3>1, <3>2
  <2>2. ASSUME NEW b \in Block, d[b].kind = "files"
        PROVE  b = Super \/ \E k \in 0 .. n - 1 : b = Ptr(w, Root, k)
    BY <1>2, <1>5, <2>2 DEF Behind
  <2>3. ASSUME NEW g \in Inodes(m, n)  PROVE Shows(d, w, g, st)
    <3>1. Shows(d, m, g, st)
      BY <1>5, <2>3 DEF Behind
    <3>2. \A i \in 0 .. NDIRECT - 1 : i \in Slots
      BY SlotsLemma
    <3>3. \A i \in NDIRECT .. Capacity - 1 : i \in Slots
      BY SlotsLemma
    <3>4. QED  BY <1>3, <2>3, <3>1, <3>2, <3>3 DEF Shows
  <2>4. \A p \in st : p[1] # File(w, Root).indirect /\ PtrsIn(d[p[1]])[p[2]] # 0
    BY <1>3, <1>4, <1>5 DEF Behind
  <2>5. QED  BY <1>2, <2>1, <2>2, <2>3, <2>4 DEF Behind
<1>6. QED  BY <1>1, <1>2, <1>5 DEF Carries

(* A pointer is set: to a cleared block, if to an indirect block.           *)
LEMMA CarriesPointed ==
    ASSUME NEW m, NEW n, NEW b, Good(m, n, {b}), NEW f \in Inodes(m, n), NEW i \in Slots, PtrAt(m, f, i) = 0,
           NEW w \in Memory, NEW B, Touches(m, w, n, f, B), B \subseteq OfFile(m, f, {b}),
           Pointed(m, w, n, f, i, b), Inodes(w, n) = Inodes(m, n), NDir(w) = NDir(m),
           NEW d \in Memory, i = Capacity => d[b] = Zero
    PROVE  Carries(d, m, w, n, f)
<1> HIDE DEF Block
<1>1. Others(m, w, n, f)
  BY OthersLemma
<1>2. /\ Shaped(m) /\ Rooted(m, n) /\ b \in Block /\ b # 0
  BY Sizes DEF Good, Exact
<1>3. \A k \in 0 .. n - 1 : Ptr(w, Root, k) = Ptr(m, Root, k)
  <2>1. ASSUME NEW k \in 0 .. n - 1
        PROVE  /\ k \in Slots /\ PtrAt(m, Root, k) = Ptr(m, Root, k) /\ PtrAt(w, Root, k) = Ptr(w, Root, k)
               /\ PtrAt(m, Root, k) # 0
    <3>1. k \in Slots /\ k < Capacity
      BY <1>2, InodePlaces
    <3>2. Ptr(m, Root, k) # 0
      BY <1>2 DEF Rooted
    <3>3. QED  BY <3>1, <3>2, Sizes DEF PtrAt
  <2>2. Root \in Inodes(m, n)
    BY <1>2, InodePlaces
  <2>3. QED  BY <2>1, <2>2 DEF Pointed
<1>4. /\ \A g \in Inodes(m, n) : File(m, g).indirect = PtrAt(m, g, Capacity)
                                 /\ File(w, g).indirect = PtrAt(w, g, Capacity)
      /\ Capacity \in Slots /\ Root \in Inodes(m, n)
  BY <1>2, SlotsLemma, InodePlaces
<1>5. \A j \in 0 .. NINDIRECT - 1 : i = Capacity => PtrsIn(d[b])[j] = 0
  BY DEF PtrsIn, Zero
<1>6. ASSUME NEW st \in SUBSET StaleEntries, Behind(d, m, n, st)  PROVE Behind(d, w, n, st)
  <2>1. NDir(d) <= n /\ NDir(d) <= NDir(w)
    BY <1>6 DEF Behind
  <2>2. ASSUME NEW a \in Block, d[a].kind = "files"
        PROVE  a = Super \/ \E k \in 0 .. n - 1 : a = Ptr(w, Root, k)
    BY <1>3, <1>6, <2>2 DEF Behind
  <2>3. ASSUME NEW g \in Inodes(m, n)  PROVE Shows(d, w, g, st)
    <3> DEFINE c == File(w, g).indirect
    <3>1. Shows(d, m, g, st)
      BY <1>6, <2>3 DEF Behind
    <3>2. File(d, g).indirect \in {0, c}
      BY <1>4, <2>3, <3>1 DEF Shows, Pointed
    <3>3. ASSUME NEW j \in 0 .. NDIRECT - 1  PROVE PtrAt(d, g, j) \in {0, PtrAt(w, g, j)}
      <4>1. j \in Slots /\ PtrAt(d, g, j) \in {0, PtrAt(m, g, j)}
        BY <3>1, SlotsLemma DEF Shows
      <4>2. QED  BY <2>3, <4>1 DEF Pointed
    <3>4. ASSUME c # 0, NEW j \in NDIRECT .. Capacity - 1
          PROVE  PtrsIn(d[c])[j - NDIRECT] \in {0, PtrAt(w, g, j)} \/ <<c, j - NDIRECT>> \in st
      <4>1. j \in Slots /\ j # Capacity /\ j - NDIRECT \in 0 .. NINDIRECT - 1
        BY <3>4, SlotsLemma
      <4>2. CASE g = f /\ i = Capacity
        <5>1. c = b
          BY <1>4, <2>3, <4>2 DEF Pointed
        <5>2. QED  BY <1>5, <4>1, <4>2, <5>1
      <4>3. CASE ~ (g = f /\ i = Capacity)
        <5>1. c = File(m, g).indirect
          BY <1>4, <2>3, <4>3 DEF Pointed
        <5>2. PtrsIn(d[c])[j - NDIRECT] \in {0, PtrAt(m, g, j)} \/ <<c, j - NDIRECT>> \in st
          BY <3>1, <3>4, <5>1 DEF Shows
        <5>3. PtrAt(m, g, j) \in {0, PtrAt(w, g, j)}
          BY <2>3, <4>1 DEF Pointed
        <5>4. QED  BY <5>2, <5>3
      <4>4. QED  BY <4>2, <4>3
    <3> HIDE DEF c
    <3>5. QED  BY <3>2, <3>3, <3>4 DEF Shows, c
  <2>4. ASSUME NEW p \in st  PROVE p[1] # File(w, Root).indirect /\ PtrsIn(d[p[1]])[p[2]] # 0
    <3>1. p[1] # File(m, Root).indirect /\ PtrsIn(d[p[1]])[p[2]] # 0 /\ p[2] \in 0 .. NINDIRECT - 1
      BY <1>6, <2>4 DEF Behind, StaleEntries
    <3>2. CASE f = Root /\ i = Capacity
      <4>1. File(w, Root).indirect = b
        BY <1>4, <3>2 DEF Pointed
      <4>2. QED  BY <1>5, <3>1, <3>2, <4>1
    <3>3. CASE ~ (f = Root /\ i = Capacity)
      BY <1>4, <3>1, <3>3 DEF Pointed
    <3>4. QED  BY <3>2, <3>3
  <2>5. QED  BY <2>1, <2>2, <2>3, <2>4 DEF Behind
<1>7. QED  BY <1>1, <1>6 DEF Carries

(* A block comes to the directory.                                          *)
LEMMA BehindGrown ==
    ASSUME NEW m, NEW n, NEW x, Good(m, n, x), n < Capacity, Ptr(m, Root, n) # 0,
           m[Ptr(m, Root, n)] = Zero, NEW d \in Memory, d[Ptr(m, Root, n)] = Zero,
           NEW st, Behind(d, m, n, st)
    PROVE  Behind(d, m, n + 1, st)
<1> DEFINE b == Ptr(m, Root, n)
<1> HIDE DEF Block, Content
<1>1. Shaped(m) /\ Rooted(m, n) /\ Owned(m, n) /\ n \in Nat /\ m \in Memory
  BY InodePlaces DEF Good
<1>2. Root \in Inodes(m, n) /\ n \in Slots /\ PtrAt(m, Root, n) = b /\ b # 0 /\ n # Capacity
  BY <1>1, Sizes DEF Inodes, Slots, PtrAt
<1>3. b \in Block \ {Super, Bitmap} /\ \A k \in 0 .. n - 1 : Ptr(m, Root, k) # b
  <2>1. b \in Block
    BY <1>1, InodePlaces, PtrTypes
  <2>2. b \notin {Super, Bitmap}
    BY <1>1, <1>2 DEF Owned
  <2>3. ASSUME NEW k \in 0 .. n - 1, Ptr(m, Root, k) = b  PROVE FALSE
    <3>1. k \in Slots /\ PtrAt(m, Root, k) = Ptr(m, Root, k) /\ k # n
      BY <1>1, InodePlaces
    <3>2. QED  BY <1>1, <1>2, <2>3, <3>1 DEF Owned
  <2>4. QED  BY <2>1, <2>2, <2>3
<1> HIDE DEF b
<1>4. Inodes(m, n + 1) = Inodes(m, n) \cup ({b} \X (0 .. BLKFILES - 1))
  <2>1. 0 .. (n + 1) - 1 = (0 .. n - 1) \cup {n}
    BY <1>1
  <2>2. {Ptr(m, Root, k) : k \in 0 .. (n + 1) - 1} = {Ptr(m, Root, k) : k \in 0 .. n - 1} \cup {b}
    BY <2>1 DEF b
  <2>3. QED  BY <2>2 DEF Inodes
<1>5. m[b] = Zero /\ d[b] = Zero
  BY DEF b
<1>6. ASSUME NEW v, v[b] = Zero, NEW f \in {b} \X (0 .. BLKFILES - 1)
      PROVE  /\ File(v, f).indirect = 0
             /\ \A i \in 0 .. NDIRECT - 1 : PtrAt(v, f, i) = 0
  <2>1. File(v, f) = BlankFile
    BY <1>6, WrittenAs, ReadAs DEF File
  <2>2. File(v, f).indirect = 0 /\ \A i \in 0 .. NDIRECT - 1 : File(v, f).direct[i] = 0
    BY <2>1, FileTypes
  <2>3. QED  BY <2>2, SlotsLemma
<1>7. ASSUME NEW f \in Inodes(m, n + 1)  PROVE Shows(d, m, f, st)
  <2>1. CASE f \in Inodes(m, n)
    BY <2>1 DEF Behind
  <2>2. CASE f \in {b} \X (0 .. BLKFILES - 1)
    <3>1. /\ File(m, f).indirect = 0 /\ File(d, f).indirect = 0
          /\ \A i \in 0 .. NDIRECT - 1 : PtrAt(d, f, i) = 0
      BY <1>5, <1>6, <2>2
    <3>2. QED  BY <3>1 DEF Shows
  <2>3. QED  BY <1>4, <2>1, <2>2
<1>8. NDir(d) <= n + 1 /\ NDir(d) <= NDir(m)
  <2>1. NDir(d) \in Nat /\ NDir(d) <= n /\ NDir(d) <= NDir(m)
    BY NDirType DEF Behind
  <2> HIDE DEF NDir
  <2>2. QED  BY <1>1, <2>1
<1>9. ASSUME NEW a \in Block, d[a].kind = "files"
      PROVE  a = Super \/ \E k \in 0 .. (n + 1) - 1 : a = Ptr(m, Root, k)
  <2>1. \A k \in 0 .. n - 1 : k \in 0 .. (n + 1) - 1
    BY <1>1
  <2>2. QED  BY <1>9, <2>1 DEF Behind
<1>10. QED  BY <1>7, <1>8, <1>9 DEF Behind

(* Pointers of f are cleared, and then its File is written out: what the    *)
(* disk still shows of it are entries of its indirect block.                *)
LEMMA BehindCut ==
    ASSUME NEW m, NEW n, Good(m, n, {}), NEW f \in Inodes(m, n), f # Root, NEW w, Good(w, n, {}),
           Inodes(w, n) = Inodes(m, n), \A g \in Inodes(m, n) : g # f => File(w, g) = File(m, g),
           \A g \in Inodes(m, n), i \in Slots :
              PtrAt(w, g, i) = PtrAt(m, g, i) \/ (g = f /\ PtrAt(w, g, i) = 0),
           w[f[1]].kind = "files",
           NEW d \in Memory, NEW st \in SUBSET StaleEntries, Behind(d, m, n, st),
           NEW un \in SUBSET StaleEntries,
           \A p \in un : p[1] = File(m, f).indirect /\ PtrsIn(d[p[1]])[p[2]] # 0,
           \A i \in NDIRECT .. Capacity - 1 :
              LET c == File(w, f).indirect
              IN  c # 0 /\ PtrAt(w, f, i) = 0 /\ PtrsIn(d[c])[i - NDIRECT] # 0
                  => PtrAt(m, f, i) = 0 \/ <<c, i - NDIRECT>> \in un
    PROVE  Behind([d EXCEPT ![f[1]] = w[f[1]]], w, n, st \cup un)
<1> DEFINE e == [d EXCEPT ![f[1]] = w[f[1]]]
<1> HIDE DEF Block, Content
<1>1. /\ Shaped(m) /\ Rooted(m, n) /\ Root \in Inodes(m, n) /\ Inodes(m, n) \subseteq Places
      /\ f[1] \in Block /\ \E k \in 0 .. n - 1 : f[1] = Ptr(m, Root, k)
  <2>1. Shaped(m) /\ Rooted(m, n)
    BY DEF Good
  <2>2. /\ Root \in Inodes(m, n) /\ Inodes(m, n) \subseteq Places
        /\ \E k \in 0 .. n - 1 : f[1] = Ptr(m, Root, k)
    BY <2>1, InodePlaces
  <2>3. QED  BY <2>1, <2>2 DEF Places
<1>2. f[1] # Super /\ Root[1] = Super /\ Super \in Block
  BY <1>1, Apart, Sizes DEF Root
<1>3. /\ \A g \in Inodes(m, n) : /\ f[1] # File(m, g).indirect
                                 /\ File(m, g).indirect \in {0} \cup Block
      /\ File(m, f).indirect # 0 => File(m, f).indirect # File(m, Root).indirect
  BY <1>1, Apart
<1>4. e[f[1]] = w[f[1]] /\ \A a \in Block : a # f[1] => e[a] = d[a]
  BY <1>1 DEF Memory
<1> HIDE DEF e
<1>5. \A k \in 0 .. n - 1 : Ptr(w, Root, k) = Ptr(m, Root, k)
  <2>1. \A k \in 0 .. n - 1 : k \in 0 .. Capacity - 1 /\ k \in Slots
    BY <1>1, InodePlaces, Sizes
  <2>2. QED  BY <1>1, <2>1, PtrSlots
<1>6. \A g \in Inodes(m, n) : g[1] \in Block /\ File(e, g) = IF g[1] = f[1] THEN File(w, g) ELSE File(d, g)
  BY <1>1, <1>4 DEF File, Places
<1>7. NDir(e) <= n /\ NDir(e) <= NDir(w)
  <2>1. File(e, Root) = File(d, Root) /\ File(w, Root) = File(m, Root)
    BY <1>1, <1>2, <1>6
  <2>2. QED  BY <2>1 DEF NDir, Behind
<1>8. ASSUME NEW a \in Block, e[a].kind = "files"
      PROVE  a = Super \/ \E k \in 0 .. n - 1 : a = Ptr(w, Root, k)
  <2>1. CASE a = f[1]
    BY <1>1, <1>5, <2>1
  <2>2. CASE a # f[1]
    BY <1>4, <1>5, <1>8, <2>2 DEF Behind
  <2>3. QED  BY <2>1, <2>2
<1>9. /\ \A g \in Inodes(m, n) : /\ File(m, g).indirect = PtrAt(m, g, Capacity)
                                 /\ File(w, g).indirect = PtrAt(w, g, Capacity)
      /\ Capacity \in Slots
  BY SlotsLemma
<1>10. ASSUME NEW g \in Inodes(m, n)  PROVE Shows(e, w, g, st \cup un)
  <2> DEFINE c == File(w, g).indirect
  <2>1. Shows(d, m, g, st)
    BY <1>10 DEF Behind
  <2>2. c = File(m, g).indirect \/ (g = f /\ c = 0)
    BY <1>9, <1>10
  <2>3. CASE g = f
    <3>1. File(e, g).indirect = c /\ \A i \in 0 .. NDIRECT - 1 : PtrAt(e, g, i) = PtrAt(w, g, i)
      <4>1. File(e, g) = File(w, g)
        BY <1>6, <2>3
      <4>2. QED  BY <4>1, SlotsLemma
    <3>2. ASSUME c # 0, NEW i \in NDIRECT .. Capacity - 1
          PROVE  PtrsIn(e[c])[i - NDIRECT] \in {0, PtrAt(w, g, i)} \/ <<c, i - NDIRECT>> \in st \cup un
      <4>1. c = File(m, g).indirect /\ e[c] = d[c]
        BY <1>3, <1>4, <2>2, <3>2
      <4>2. PtrsIn(d[c])[i - NDIRECT] \in {0, PtrAt(m, g, i)} \/ <<c, i - NDIRECT>> \in st
        BY <2>1, <3>2, <4>1 DEF Shows
      <4>3. i \in Slots
        BY <3>2, SlotsLemma
      <4>4. PtrAt(w, g, i) = PtrAt(m, g, i) \/ PtrAt(w, g, i) = 0
        BY <4>3
      <4>5. CASE PtrAt(w, g, i) = PtrAt(m, g, i)
        BY <4>1, <4>2, <4>5
      <4>6. CASE PtrAt(w, g, i) = 0 /\ PtrsIn(d[c])[i - NDIRECT] # 0
        <5>1. PtrAt(m, g, i) = 0 \/ <<c, i - NDIRECT>> \in un
          BY <2>3, <3>2, <4>6
        <5>2. QED  BY <4>1, <4>2, <4>6, <5>1
      <4>7. QED  BY <4>1, <4>4, <4>5, <4>6
    <3> HIDE DEF c
    <3>3. QED  BY <3>1, <3>2 DEF Shows, c
  <2>4. CASE g # f
    <3>1. c = File(m, g).indirect /\ File(w, g) = File(m, g) /\ \A i \in Slots : PtrAt(w, g, i) = PtrAt(m, g, i)
      BY <1>10, <2>4
    <3>2. File(e, g).indirect \in {0, c}
      BY <1>6, <1>10, <2>1, <3>1 DEF Shows
    <3>3. ASSUME NEW i \in 0 .. NDIRECT - 1  PROVE PtrAt(e, g, i) \in {0, PtrAt(w, g, i)}
      <4>1. /\ PtrAt(e, g, i) = File(e, g).direct[i] /\ PtrAt(d, g, i) = File(d, g).direct[i]
            /\ PtrAt(w, g, i) = File(w, g).direct[i] /\ i \in Slots
        BY SlotsLemma
      <4>2. PtrAt(d, g, i) \in {0, PtrAt(m, g, i)}
        BY <2>1 DEF Shows
      <4>3. QED  BY <1>6, <1>10, <3>1, <4>1, <4>2
    <3>4. ASSUME c # 0, NEW i \in NDIRECT .. Capacity - 1
          PROVE  PtrsIn(e[c])[i - NDIRECT] \in {0, PtrAt(w, g, i)} \/ <<c, i - NDIRECT>> \in st \cup un
      <4>1. e[c] = d[c] /\ i \in Slots
        BY <1>3, <1>4, <1>10, <3>1, <3>4, SlotsLemma
      <4>2. PtrsIn(d[c])[i - NDIRECT] \in {0, PtrAt(m, g, i)} \/ <<c, i - NDIRECT>> \in st
        BY <2>1, <3>1, <3>4 DEF Shows
      <4>3. QED  BY <3>1, <4>1, <4>2
    <3> HIDE DEF c
    <3>5. QED  BY <3>2, <3>3, <3>4 DEF Shows, c
  <2>5. QED  BY <2>3, <2>4
<1>11. ASSUME NEW p \in st \cup un  PROVE p[1] # File(w, Root).indirect /\ PtrsIn(e[p[1]])[p[2]] # 0
  <2>1. File(w, Root).indirect = File(m, Root).indirect
    BY <1>1
  <2>2. p[1] \in Block /\ p[1] # 0 /\ p[2] \in 0 .. NINDIRECT - 1
    BY Sizes DEF StaleEntries
  <2>3. CASE p \in un
    <3>1. p[1] = File(m, f).indirect /\ PtrsIn(d[p[1]])[p[2]] # 0
      BY <2>3
    <3>2. e[p[1]] = d[p[1]]
      BY <1>3, <1>4, <2>2, <3>1
    <3>3. QED  BY <1>3, <2>1, <2>2, <3>1, <3>2
  <2>4. CASE p \in st
    <3>1. p[1] # File(m, Root).indirect /\ PtrsIn(d[p[1]])[p[2]] # 0
      BY <2>4 DEF Behind
    <3>2. PtrsIn(w[f[1]])[p[2]] # 0
      <4>1. w[f[1]].kind # "ptrs" /\ w[f[1]] # Zero
        BY DEF Zero
      <4>2. QED  BY <2>2, <4>1, Sizes DEF PtrsIn
    <3>3. QED  BY <1>4, <2>1, <2>2, <3>1, <3>2
  <2>5. QED  BY <2>3, <2>4
<1>12. QED  BY <1>7, <1>8, <1>10, <1>11 DEF Behind, e

(* A file that is the same has the same bytes.                              *)
LEMMA ContentsLemma ==
    ASSUME NEW d, NEW m \in Memory, NEW g \in Places, g # Root, Agrees(d, m, g)
    PROVE  Contents(d, g) = Contents(m, g)
<1>1. File(d, g) = File(m, g) /\ \A i : Ptr(d, g, i) = Ptr(m, g, i)
  BY AgreesPtrs DEF Agrees
<1>2. File(m, g).size \in Nat
  BY PtrTypes
<1>3. ASSUME NEW i \in 0 .. File(m, g).size - 1
      PROVE  ByteAt(d, g, i) = ByteAt(m, g, i)
  <2> DEFINE q == i \div BLKSIZE
  <2>1. q \in Nat
    BY <1>2, Sizes
  <2> HIDE DEF q
  <2>2. CASE Ptr(m, g, q) = 0
    BY <1>1, <2>2 DEF ByteAt, q
  <2>3. CASE Ptr(m, g, q) # 0
    <3>1. q \in 0 .. Capacity - 1
      <4>1. q < Capacity
        BY <2>1, <2>3, Sizes DEF Ptr
      <4>2. QED  BY <2>1, <4>1, Sizes
    <3>2. q \in OwnSlots(g) /\ PtrAt(m, g, q) = Ptr(m, g, q)
      BY <3>1, PtrSlots DEF OwnSlots
    <3>3. d[Ptr(m, g, q)] = m[Ptr(m, g, q)]
      BY <2>3, <3>2 DEF Agrees
    <3>4. QED  BY <1>1, <2>3, <3>3 DEF ByteAt, q
  <2>4. QED  BY <2>2, <2>3
<1>4. QED  BY <1>1, <1>3 DEF Contents

-----------------------------------------------------------------------------
(* What a call on f makes of the bytes of the files.                       *)

\* The bytes of f outside W that some call has touched stay, and other files.
KeepsBytes(m, w, f, W) == \A p \in Nat \ W : ByteAt(m, f, p) # Unset => ByteAt(w, f, p) = ByteAt(m, f, p)
Alters(m, w, n, f, W) == Others(m, w, n, f) /\ KeepsBytes(m, w, f, W)

LEMMA AltersSelf ==
    ASSUME NEW m, NEW n, NEW f, NEW W
    PROVE  Alters(m, m, n, f, W)
  BY AgreesSelf DEF Alters, Others, KeepsBytes
LEMMA AltersTrans ==
    ASSUME NEW m, NEW w, NEW v, NEW n, NEW f, NEW W, Inodes(w, n) = Inodes(m, n),
           Alters(m, w, n, f, W), Alters(w, v, n, f, W)
    PROVE  Alters(m, v, n, f, W)
<1>1. Others(m, v, n, f)
  <2>1. ASSUME NEW g \in Inodes(m, n), g # f  PROVE Agrees(v, m, g)
    <3>1. Agrees(w, m, g) /\ Agrees(v, w, g)
      BY <2>1 DEF Alters, Others
    <3>2. QED  BY <3>1, AgreesVia
  <2>2. QED  BY <2>1 DEF Others
<1>2. KeepsBytes(m, v, f, W)
  BY DEF Alters, KeepsBytes
<1>3. QED  BY <1>1, <1>2 DEF Alters
LEMMA AltersWider ==
    ASSUME NEW m, NEW w, NEW n, NEW f, NEW V, NEW W, V \subseteq W, Alters(m, w, n, f, V)
    PROVE  Alters(m, w, n, f, W)
  BY DEF Alters, KeepsBytes

\* The pointers to the bytes of f outside W stay.
PtrsStay(m, w, f, W) == \A p \in Nat \ W :
    LET i == p \div BLKSIZE IN i \in 0 .. Capacity - 1 /\ Ptr(m, f, i) # 0 => Ptr(w, f, i) = Ptr(m, f, i)
\* The blocks of a file that hold no bytes of it.
Meta(m, f, x) == {Super, Bitmap, f[1], File(m, f).indirect} \cup x
LEMMA DataApart ==
    ASSUME NEW m, NEW n, NEW x, Good(m, n, x), NEW f \in Inodes(m, n), NEW i \in 0 .. Capacity - 1,
           Ptr(m, f, i) # 0
    PROVE  Ptr(m, f, i) \in Block /\ Ptr(m, f, i) \notin Meta(m, f, x)
<1> DEFINE b == Ptr(m, f, i)
<1> HIDE DEF Block
<1>1. /\ m \in Memory /\ f \in Places /\ Owned(m, n) /\ Exact(m, n, x) /\ Root \in Inodes(m, n)
      /\ \A k \in 0 .. n - 1 : k \in Slots /\ PtrAt(m, Root, k) = Ptr(m, Root, k)
  BY InodePlaces DEF Good
<1>2. i \in Slots /\ PtrAt(m, f, i) = b
  BY PtrSlots
<1>3. b \in Block
  BY <1>1, <1>2, PtrTypes
<1>4. b \notin {Super, Bitmap} /\ b \notin x
  BY <1>1, <1>2 DEF Owned, Exact, Has
<1>5. b # File(m, f).indirect
  BY Apart
<1>6. b # f[1]
  <2>1. CASE f = Root
    BY <1>4, <2>1 DEF Root
  <2>2. CASE f # Root
    <3>1. PICK k \in 0 .. n - 1 : f[1] = Ptr(m, Root, k)
      BY <2>2, InodePlaces DEF Good
    <3>2. QED  BY <1>1, <1>2, <2>2, <3>1 DEF Owned
  <2>3. QED  BY <2>1, <2>2
<1>7. QED  BY <1>3, <1>4, <1>5, <1>6 DEF Meta, b

LEMMA AltersLemma ==
    ASSUME NEW m, NEW n, NEW x, Good(m, n, x), NEW f \in Inodes(m, n), NEW w, NEW B,
           Touches(m, w, n, f, B), B \subseteq Meta(m, f, x), NEW W, PtrsStay(m, w, f, W)
    PROVE  Alters(m, w, n, f, W)
<1> HIDE DEF Block
<1>1. Others(m, w, n, f)
  <2>1. Capacity \in Slots /\ PtrAt(m, f, Capacity) = File(m, f).indirect
    BY SlotsLemma
  <2>2. B \subseteq OfFile(m, f, x)
    BY <2>1 DEF Meta, OfFile
  <2>3. QED  BY <2>2, OthersLemma
<1>2. ASSUME NEW p \in Nat \ W, ByteAt(m, f, p) # Unset  PROVE ByteAt(w, f, p) = ByteAt(m, f, p)
  <2> DEFINE i == p \div BLKSIZE
             b == Ptr(m, f, i)
  <2>1. i \in Nat /\ b # 0
    BY <1>2, Rounding DEF ByteAt
  <2>2. m \in Memory /\ f \in Places
    BY InodePlaces DEF Good
  <2>3. i \in 0 .. Capacity - 1
    <3>1. ~ (i >= Capacity)
      BY <2>1, <2>2, PtrTypes
    <3> HIDE DEF i
    <3>2. QED  BY <2>1, <3>1, Sizes
  <2>4. b \in Block /\ b \notin Meta(m, f, x)
    BY <2>1, <2>3, DataApart
  <2>5. w[b] = m[b]
    BY <2>4 DEF Touches
  <2>6. Ptr(w, f, i) = b
    BY <2>1, <2>3 DEF PtrsStay
  <2>7. QED  BY <2>5, <2>6 DEF ByteAt
<1>3. QED  BY <1>1, <1>2 DEF Alters, KeepsBytes

LEMMA AltersPointed ==
    ASSUME NEW m, NEW n, NEW b, Good(m, n, {b}), NEW f \in Inodes(m, n), NEW i \in Slots, PtrAt(m, f, i) = 0,
           NEW w, NEW B, Touches(m, w, n, f, B), B \subseteq Meta(m, f, {b}), Pointed(m, w, n, f, i, b)
    PROVE  Alters(m, w, n, f, {})
<1>1. ASSUME NEW j \in 0 .. Capacity - 1, Ptr(m, f, j) # 0  PROVE Ptr(w, f, j) = Ptr(m, f, j)
  <2>1. j \in Slots /\ PtrAt(m, f, j) = Ptr(m, f, j)
    BY PtrSlots
  <2>2. PtrAt(w, f, j) = Ptr(w, f, j)
    BY PtrSlots
  <2>3. QED  BY <1>1, <2>1, <2>2 DEF Pointed
<1>2. PtrsStay(m, w, f, {})
  BY <1>1 DEF PtrsStay
<1>3. QED  BY <1>2, AltersLemma
LEMMA AltersSame ==
    ASSUME NEW m, NEW n, NEW x, Good(m, n, x), NEW f \in Inodes(m, n), NEW w, NEW B,
           Touches(m, w, n, f, B), B \subseteq Meta(m, f, x), SamePointers(m, w, n)
    PROVE  Alters(m, w, n, f, {})
<1>1. PtrsStay(m, w, f, {})
  BY DEF SamePointers, PtrsStay
<1>2. QED  BY <1>1, AltersLemma

\* The bytes of W that are b stay so, and those of block i become b.
Fills(m, w, f, W, i, b) == \A p \in W :
    p \div BLKSIZE = i \/ ByteAt(m, f, p) = b => ByteAt(w, f, p) = b

LEMMA BytesWritten ==
    ASSUME NEW bs \in [0 .. BLKSIZE - 1 -> Byte]
    PROVE  BytesIn(BytesBlock(bs)) = bs
<1>1. CASE \A i \in DOMAIN bs : bs[i] = 0
  <2>1. BytesBlock(bs) = Zero /\ BytesIn(Zero) = [i \in 0 .. BLKSIZE - 1 |-> 0]
    BY <1>1 DEF BytesBlock, BytesIn, Zero
  <2>2. bs = [i \in 0 .. BLKSIZE - 1 |-> 0]
    BY <1>1
  <2>3. QED  BY <2>1, <2>2
<1>2. CASE ~ \A i \in DOMAIN bs : bs[i] = 0
  BY <1>2 DEF BytesBlock, BytesIn
<1>3. QED  BY <1>1, <1>2
LEMMA Remainder ==
    ASSUME NEW p \in Nat
    PROVE  p % BLKSIZE \in 0 .. BLKSIZE - 1 /\ p \div BLKSIZE \in Nat
           /\ (p \div BLKSIZE) * BLKSIZE + (p % BLKSIZE) = p
  BY Sizes

(* Bytes are put into block i of f.                                         *)
LEMMA AltersBytes ==
    ASSUME NEW m, NEW n, Good(m, n, {}), NEW f \in Inodes(m, n), NEW i \in 0 .. Capacity - 1, Ptr(m, f, i) # 0,
           NEW W \in SUBSET Nat, NEW c \in Byte, NEW bs \in [0 .. BLKSIZE - 1 -> Byte],
           \A q \in 0 .. BLKSIZE - 1 : bs[q] = IF i * BLKSIZE + q \in W THEN c ELSE BytesIn(m[Ptr(m, f, i)])[q],
           NEW w, w[Ptr(m, f, i)] = BytesBlock(bs),
           SamePointers(m, w, n), Touches(m, w, n, f, {Ptr(m, f, i)})
    PROVE  Alters(m, w, n, f, W) /\ Fills(m, w, f, W, i, c)
<1> DEFINE b == Ptr(m, f, i)
<1> HIDE DEF Block, Content, Byte, Memory
<1>1. m \in Memory /\ f \in Places /\ Owned(m, n)
  BY InodePlaces DEF Good
<1>2. i \in Slots /\ PtrAt(m, f, i) = b /\ b # 0
  BY PtrSlots
<1>3. Others(m, w, n, f)
  <2>1. {b} \subseteq OfFile(m, f, {})
    BY <1>2 DEF OfFile
  <2>2. QED  BY <2>1, OthersLemma
<1>4. BytesIn(w[b]) = bs
  BY BytesWritten
<1>5. ASSUME NEW p \in Nat, ByteAt(m, f, p) # Unset
      PROVE  ByteAt(w, f, p) = IF p \div BLKSIZE = i /\ p \in W THEN c ELSE ByteAt(m, f, p)
  <2> DEFINE j == p \div BLKSIZE
             a == Ptr(m, f, j)
             q == p % BLKSIZE
  <2>1. j \in Nat /\ a # 0 /\ q \in 0 .. BLKSIZE - 1 /\ j * BLKSIZE + q = p
    BY <1>5, Remainder DEF ByteAt
  <2>2. j \in 0 .. Capacity - 1
    <3>1. ~ (j >= Capacity)
      BY <1>1, <2>1, PtrTypes
    <3> HIDE DEF j
    <3>2. QED  BY <2>1, <3>1, Sizes
  <2>3. a \in Block /\ Ptr(w, f, j) = a /\ j \in Slots /\ PtrAt(m, f, j) = a
    <3>1. a \in Block
      BY <2>1, <2>2, DataApart
    <3>2. j \in Slots /\ PtrAt(m, f, j) = a
      BY <2>2, PtrSlots
    <3>3. QED  BY <2>2, <3>1, <3>2 DEF SamePointers
  <2>4. ByteAt(m, f, p) = BytesIn(m[a])[q] /\ ByteAt(w, f, p) = BytesIn(w[a])[q]
    BY <2>1, <2>3 DEF ByteAt
  <2> HIDE DEF j, q, a
  <2>5. CASE j = i
    <3>1. a = b /\ bs[q] = IF j * BLKSIZE + q \in W THEN c ELSE BytesIn(m[b])[q]
      BY <2>1, <2>5 DEF a
    <3>2. QED  BY <1>4, <2>1, <2>4, <2>5, <3>1 DEF j
  <2>6. CASE j # i
    <3>1. a # b
      BY <1>1, <1>2, <2>1, <2>3, <2>6 DEF Owned
    <3>2. w[a] = m[a]
      BY <2>3, <3>1 DEF Touches
    <3>3. QED  BY <2>4, <2>6, <3>2 DEF j
  <2>7. QED  BY <2>5, <2>6
<1>6. KeepsBytes(m, w, f, W)
  BY <1>5 DEF KeepsBytes
<1>7. ASSUME NEW p \in W, p \div BLKSIZE = i \/ ByteAt(m, f, p) = c  PROVE ByteAt(w, f, p) = c
  <2>1. ByteAt(m, f, p) # Unset
    <3>1. CASE ByteAt(m, f, p) = c
      BY <3>1, ByteAssumption DEF Byte
    <3>2. CASE p \div BLKSIZE = i
      <4>1. b \in Block /\ m[b] \in Content /\ p % BLKSIZE \in 0 .. BLKSIZE - 1
        BY <1>1, <1>2, DataApart, Remainder DEF Memory
      <4>2. BytesIn(m[b])[p % BLKSIZE] \in Byte
        BY <4>1, ReadAs
      <4>3. QED  BY <1>2, <3>2, <4>2, ByteAssumption DEF ByteAt, Byte
    <3>3. QED  BY <1>7, <3>1, <3>2
  <2>2. QED  BY <1>5, <1>7, <2>1
<1>8. QED  BY <1>3, <1>6, <1>7 DEF Alters, Fills

From(size) == {p \in Nat : p >= size}
LEMMA BlocksBelow ==
    ASSUME NEW a \in Nat, NEW b \in Nat
    PROVE  /\ a < b => a \div BLKSIZE < NBlocks(b)
           /\ a <= b => a \div BLKSIZE <= b \div BLKSIZE
<1>1. ASSUME a < b  PROVE a \div BLKSIZE < NBlocks(b)
  <2> DEFINE c == a \div BLKSIZE
  <2>4. c \in Nat /\ c * BLKSIZE <= a /\ NBlocks(b) \in Nat /\ b <= NBlocks(b) * BLKSIZE
    BY Rounding
  <2> HIDE DEF c, NBlocks
  <2>1. c \in Nat /\ NBlocks(b) \in Nat /\ c * BLKSIZE < NBlocks(b) * BLKSIZE
    <3>1. c * BLKSIZE \in Nat /\ NBlocks(b) * BLKSIZE \in Nat
      BY <2>4, Sizes
    <3>2. QED  BY <1>1, <2>4, <3>1
  <2>2. CASE NBlocks(b) = 0
    <3>1. c * BLKSIZE \in Nat
      BY <2>1, Sizes
    <3>2. QED  BY <2>1, <2>2, <3>1, Sizes
  <2>3. CASE NBlocks(b) # 0
    <3> DEFINE e == NBlocks(b) - 1
    <3>1. e \in Nat /\ NBlocks(b) = e + 1
      BY <2>1, <2>3
    <3> HIDE DEF e
    <3>2. c * BLKSIZE < (e + 1) * BLKSIZE
      BY <2>1, <3>1
    <3>3. c <= e
      BY <2>1, <3>1, <3>2, Cancel
    <3>4. c < NBlocks(b)
      BY <2>1, <3>1, <3>3
    <3>5. QED  BY <3>4 DEF c
  <2>5. QED  BY <2>2, <2>3 DEF c
<1>2. ASSUME a <= b  PROVE a \div BLKSIZE <= b \div BLKSIZE
  <2> DEFINE c == a \div BLKSIZE
             e == b \div BLKSIZE
  <2>1. c \in Nat /\ e \in Nat /\ c * BLKSIZE <= a /\ b < (e + 1) * BLKSIZE
    BY Rounding
  <2> HIDE DEF c, e
  <2>2. c * BLKSIZE < (e + 1) * BLKSIZE
    <3>1. c * BLKSIZE \in Nat /\ (e + 1) * BLKSIZE \in Nat
      BY <2>1, Sizes
    <3>2. QED  BY <1>2, <2>1, <3>1
  <2>3. c <= e
    BY <2>1, <2>2, Cancel
  <2>4. QED  BY <2>3 DEF c, e
<1>3. QED  BY <1>1, <1>2

(* A file loses what lies behind its new end.                               *)
LEMMA AltersCut ==
    ASSUME NEW m, NEW n, Good(m, n, {}), NEW f \in Inodes(m, n), NEW w, NEW newsize \in Nat,
           Cut(m, w, n, f, Lost(File(m, f), newsize)), ChangesCut(m, w, n, f)
    PROVE  Alters(m, w, n, f, From(newsize))
<1>1. {f[1], File(m, f).indirect, Bitmap} \subseteq Meta(m, f, {})
  BY DEF Meta
<1>2. ASSUME NEW p \in Nat \ From(newsize), p \div BLKSIZE \in 0 .. Capacity - 1
      PROVE  Ptr(w, f, p \div BLKSIZE) = Ptr(m, f, p \div BLKSIZE)
  <2> DEFINE i == p \div BLKSIZE
  <2>1. i < NBlocks(newsize) /\ i \in Nat /\ NBlocks(newsize) \in Nat
    BY <1>2, BlocksBelow, Rounding DEF From
  <2>2. i \in Slots /\ PtrAt(m, f, i) = Ptr(m, f, i) /\ i # Capacity
    BY <1>2, PtrSlots, Sizes
  <2>3. PtrAt(w, f, i) = Ptr(w, f, i)
    BY <1>2, PtrSlots
  <2> HIDE DEF i, NBlocks
  <2>4. i \notin Lost(File(m, f), newsize)
    BY <2>1, <2>2 DEF Lost, Gone
  <2>5. QED  BY <2>2, <2>3, <2>4 DEF Cut, i
<1>3. PtrsStay(m, w, f, From(newsize))
  BY <1>2 DEF PtrsStay
<1>4. QED  BY <1>1, <1>3, AltersLemma DEF ChangesCut

-----------------------------------------------------------------------------
(* A call under way.                                                       *)

State == [mem : Memory, disk : Memory, log : Seq(Block \X Content),
          blk : {0} \cup Block, err : {"ok", "panic", "inval"}]
Runs(s, n) == s \in State /\ Good(s.mem, n, {})

\* Writes take a disk with its stale entries from x to y through states of G.
Wrote(x, e) == <<[x[1] EXCEPT ![e[1]] = e[2]], Left(x[2], e[1])>>
Trail(G, x, log, y) == \E h \in [0 .. Len(log) -> G] :
    /\ h[0] = x /\ h[Len(log)] = y
    /\ \A k \in 1 .. Len(log) : h[k] = Wrote(h[k - 1], log[k])

\* What a call has to keep, c: it began with the memory c.mem and the disk
\* c.start, and the files c.held are on the disk and are none of its business.
Holds(d, c) == c.held \ {Root} \subseteq Directory(d) /\ \A g \in c.held : Agrees(d, c.mem, g)
Disks == Memory \X SUBSET StaleEntries
Fine(c) == {x \in Disks : Clear(x[1], x[2]) /\ Holds(x[1], c)}
Traced(s, n, c) ==
    /\ c.mem \in Memory /\ c.held \subseteq Inodes(s.mem, n)
    /\ \A g \in c.held : Agrees(s.mem, c.mem, g)
    /\ \E st \in SUBSET StaleEntries :
          Trail(Fine(c), c.start, s.log, <<s.disk, st>>) /\ Behind(s.disk, s.mem, n, st)
Safe(s, n, c) == Traced(s, n, c) /\ Marked(s.disk, s.mem)
Safely(s, r, n, f) == \A c : f \notin c.held /\ Safe(s, n, c) => Safe(r, n, c)

\* Who writes has taken a block.
Takes(s, r) ==
    /\ FreeIn(r.mem) \subseteq FreeIn(s.mem)
    /\ FreeIn(r.mem) = FreeIn(s.mem) => r.disk = s.disk /\ r.log = s.log
Keeps(s, r, n, f) ==
    /\ Runs(r, n) /\ SameNames(s.mem, r.mem, n) /\ Inodes(r.mem, n) = Inodes(s.mem, n)
    /\ Takes(s, r) /\ Safely(s, r, n, f)

LEMMA TrailNone ==
    ASSUME NEW G, NEW x, NEW y
    PROVE  Trail(G, x, <<>>, y) <=> x = y /\ x \in G
<1>1. Len(<<>>) = 0 /\ 0 .. 0 = {0} /\ 1 .. 0 = {}
  OBVIOUS
<1>2. ASSUME Trail(G, x, <<>>, y)  PROVE x = y /\ x \in G
  BY <1>1, <1>2 DEF Trail
<1>3. ASSUME x \in G  PROVE Trail(G, x, <<>>, x)
  <2> DEFINE h == [k \in {0} |-> x]
  <2>1. h \in [0 .. Len(<<>>) -> G] /\ h[0] = x /\ h[Len(<<>>)] = x
    BY <1>1, <1>3
  <2> HIDE DEF h
  <2>2. QED  BY <1>1, <2>1 DEF Trail
<1>4. QED  BY <1>2, <1>3

LEMMA TrailEnds ==
    ASSUME NEW S, NEW G, NEW x, NEW log \in Seq(S), NEW y, Trail(G, x, log, y)
    PROVE  x \in G /\ y \in G
<1>1. PICK h \in [0 .. Len(log) -> G] : h[0] = x /\ h[Len(log)] = y
  BY DEF Trail
<1>2. 0 \in 0 .. Len(log) /\ Len(log) \in 0 .. Len(log)
  OBVIOUS
<1>3. QED  BY <1>1, <1>2

LEMMA TrailWider ==
    ASSUME NEW G, NEW H, G \subseteq H, NEW x, NEW log, NEW y, Trail(G, x, log, y)
    PROVE  Trail(H, x, log, y)
  BY DEF Trail

LEMMA TrailAppend ==
    ASSUME NEW S, NEW G, NEW x, NEW log \in Seq(S), NEW y, Trail(G, x, log, y),
           NEW e \in S, Wrote(y, e) \in G
    PROVE  Trail(G, x, Append(log, e), Wrote(y, e))
<1> DEFINE z == Wrote(y, e)
           n == Len(log)
<1>1. PICK h \in [0 .. n -> G] :
         h[0] = x /\ h[n] = y /\ \A k \in 1 .. n : h[k] = Wrote(h[k - 1], log[k])
  BY DEF Trail
<1>2. n \in Nat /\ Len(Append(log, e)) = n + 1 /\ Append(log, e)[n + 1] = e
      /\ \A k \in 1 .. n : Append(log, e)[k] = log[k]
  OBVIOUS
<1> HIDE DEF n, z
<1> DEFINE g == [k \in 0 .. n + 1 |-> IF k = n + 1 THEN z ELSE h[k]]
<1>3. /\ g \in [0 .. n + 1 -> G] /\ g[0] = x /\ g[n + 1] = z
      /\ \A k \in 0 .. n : g[k] = h[k]
  BY <1>1, <1>2 DEF z
<1> HIDE DEF g
<1>4. ASSUME NEW k \in 1 .. n + 1  PROVE g[k] = Wrote(g[k - 1], Append(log, e)[k])
  <2>1. CASE k \in 1 .. n
    <3>1. k \in 0 .. n /\ k - 1 \in 0 .. n
      BY <1>2, <2>1
    <3>2. QED  BY <1>1, <1>2, <1>3, <2>1, <3>1
  <2>2. CASE k = n + 1
    <3>1. k - 1 = n /\ n \in 0 .. n
      BY <1>2, <2>2
    <3>2. QED  BY <1>1, <1>2, <1>3, <2>2, <3>1 DEF z
  <2>3. QED  BY <1>2, <2>1, <2>2
<1>5. QED  BY <1>2, <1>3, <1>4 DEF Trail, z

LEMMA TrailTail ==
    ASSUME NEW S, NEW G, NEW x, NEW log \in Seq(S), log # <<>>, NEW y, Trail(G, x, log, y)
    PROVE  Trail(G, Wrote(x, Head(log)), Tail(log), y)
<1> DEFINE n == Len(log)
<1>1. PICK h \in [0 .. n -> G] :
         h[0] = x /\ h[n] = y /\ \A k \in 1 .. n : h[k] = Wrote(h[k - 1], log[k])
  BY DEF Trail
<1>2. n \in Nat \ {0} /\ Len(Tail(log)) = n - 1 /\ Head(log) = log[1]
      /\ \A k \in 1 .. n - 1 : Tail(log)[k] = log[k + 1]
  OBVIOUS
<1> HIDE DEF n
<1> DEFINE g == [k \in 0 .. n - 1 |-> h[k + 1]]
<1>3. /\ g \in [0 .. n - 1 -> G] /\ g[0] = h[1] /\ g[n - 1] = y
      /\ \A k \in 0 .. n - 1 : g[k] = h[k + 1]
  BY <1>1, <1>2
<1> HIDE DEF g
<1>4. g[0] = Wrote(x, Head(log))
  <2>1. 1 \in 1 .. n /\ 1 - 1 = 0
    BY <1>2
  <2>2. QED  BY <1>1, <1>2, <1>3, <2>1
<1>5. ASSUME NEW k \in 1 .. n - 1  PROVE g[k] = Wrote(g[k - 1], Tail(log)[k])
  <2>1. k \in 0 .. n - 1 /\ k - 1 \in 0 .. n - 1 /\ k + 1 \in 1 .. n /\ (k + 1) - 1 = k /\ (k - 1) + 1 = k
    BY <1>2
  <2>2. h[k + 1] = Wrote(h[k], log[k + 1])
    BY <1>1, <2>1
  <2>3. QED  BY <1>2, <1>3, <2>1, <2>2
<1>6. QED  BY <1>2, <1>3, <1>4, <1>5 DEF Trail

LEMMA StateFields ==
    ASSUME NEW s \in State
    PROVE  /\ s.mem \in Memory /\ s.disk \in Memory /\ s.log \in Seq(Block \X Content)
           /\ s.blk \in {0} \cup Block /\ s.err \in {"ok", "panic", "inval"}
<1> HIDE DEF Memory, Block, Content
<1>1. QED  BY DEF State

LEMMA SafeSame ==
    ASSUME NEW s, NEW r, NEW n, NEW c, r.mem = s.mem, r.disk = s.disk, r.log = s.log, Safe(s, n, c)
    PROVE  Safe(r, n, c)
  BY DEF Safe, Traced
LEMMA SafelyTrans ==
    ASSUME NEW s, NEW r, NEW t, NEW n, NEW f, Safely(s, r, n, f), Safely(r, t, n, f)
    PROVE  Safely(s, t, n, f)
  BY DEF Safely
LEMMA TracedMoved ==
    ASSUME NEW s, NEW r, NEW n, NEW f, NEW c, Traced(s, n, c), f \notin c.held,
           r.disk = s.disk, r.log = s.log, Carries(s.disk, s.mem, r.mem, n, f)
    PROVE  Traced(r, n, c)
<1>1. ASSUME NEW g \in c.held  PROVE Agrees(r.mem, c.mem, g)
  <2>1. Agrees(s.mem, c.mem, g) /\ g \in Inodes(s.mem, n) /\ g # f
    BY <1>1 DEF Traced
  <2>2. Agrees(r.mem, s.mem, g)
    BY <2>1 DEF Carries, Others
  <2>3. QED  BY <2>1, <2>2, AgreesVia
<1>2. PICK st \in SUBSET StaleEntries :
         Trail(Fine(c), c.start, s.log, <<s.disk, st>>) /\ Behind(s.disk, s.mem, n, st)
  BY DEF Traced
<1>3. Trail(Fine(c), c.start, r.log, <<r.disk, st>>) /\ Behind(r.disk, r.mem, n, st)
  BY <1>2 DEF Carries
<1>4. c.mem \in Memory /\ c.held \subseteq Inodes(r.mem, n)
  BY DEF Traced, Carries
<1>5. QED  BY <1>1, <1>3, <1>4 DEF Traced
LEMMA SafelyMoved ==
    ASSUME NEW s, NEW r, NEW n, NEW f, r.disk = s.disk, r.log = s.log,
           Carries(s.disk, s.mem, r.mem, n, f), FreeIn(s.mem) \subseteq FreeIn(r.mem)
    PROVE  Safely(s, r, n, f)
<1>1. ASSUME NEW c, f \notin c.held, Safe(s, n, c)  PROVE Safe(r, n, c)
  <2>1. Traced(r, n, c)
    BY <1>1, TracedMoved DEF Safe
  <2>2. QED  BY <1>1, <2>1 DEF Safe, Marked
<1>2. QED  BY <1>1 DEF Safely

LEMMA KeepsTrans ==
    ASSUME NEW s, NEW r, NEW t, NEW n, NEW f, Keeps(s, r, n, f), Keeps(r, t, n, f)
    PROVE  Keeps(s, t, n, f)
<1> HIDE DEF Memory, Block, Content, State, Runs
<1>1. Takes(s, t)
  BY DEF Keeps, Takes
<1>2. Safely(s, t, n, f)
  BY SafelyTrans DEF Keeps
<1>3. QED  BY <1>1, <1>2 DEF Keeps, SameNames
LEMMA KeepsSelf ==
    ASSUME NEW s, NEW r, NEW n, NEW f, Runs(s, n), r \in State, r.mem = s.mem, r.disk = s.disk, r.log = s.log
    PROVE  Keeps(s, r, n, f)
<1> HIDE DEF Memory, Block, Content, State
<1>1. Safely(s, r, n, f)
  BY SafeSame DEF Safely
<1>2. QED  BY <1>1 DEF Keeps, Runs, SameNames, Takes

LEMMA FlushBlockLemma ==
    ASSUME NEW s \in State, NEW b \in Block
    PROVE  LET r == FlushBlock(s, b)
           IN  /\ r \in State /\ r.mem = s.mem /\ r.err = s.err /\ r.blk = s.blk
               /\ r.disk = [s.disk EXCEPT ![b] = s.mem[b]]
               /\ \/ r.disk = s.disk /\ r.log = s.log
                  \/ r.log = Append(s.log, <<b, s.mem[b]>>)
<1> HIDE DEF Block, Content
<1>1. s.mem[b] \in Content /\ s.disk \in Memory /\ s.log \in Seq(Block \X Content)
  BY StateFields DEF Memory
<1>2. [s.disk EXCEPT ![b] = s.mem[b]] \in Memory
  BY <1>1 DEF Memory
<1>3. Append(s.log, <<b, s.mem[b]>>) \in Seq(Block \X Content)
  BY <1>1
<1>4. CASE s.mem[b] = s.disk[b]
  <2>1. FlushBlock(s, b) = s
    BY <1>4 DEF FlushBlock
  <2>2. [s.disk EXCEPT ![b] = s.mem[b]] = s.disk
    BY <1>1, <1>4 DEF Memory
  <2>3. QED  BY <2>1, <2>2
<1>5. CASE s.mem[b] # s.disk[b]
  <2> DEFINE d == [s.disk EXCEPT ![b] = s.mem[b]]
             l == Append(s.log, <<b, s.mem[b]>>)
  <2>1. FlushBlock(s, b) = [s EXCEPT !.disk = d, !.log = l]
    BY <1>5 DEF FlushBlock
  <2> HIDE DEF Memory, d, l
  <2>2. d \in Memory /\ l \in Seq(Block \X Content)
    BY <1>2, <1>3 DEF d, l
  <2> DEFINE r == FlushBlock(s, b)
  <2>3. r \in State /\ r.mem = s.mem /\ r.err = s.err /\ r.blk = s.blk /\ r.disk = d /\ r.log = l
    BY <2>1, <2>2 DEF State
  <2> HIDE DEF r
  <2>4. QED  BY <2>3 DEF d, l, r
<1>6. QED  BY <1>4, <1>5

(* Writing a block out is safe; and is what alloc_block does in the end.    *)
LEMMA FlushTraced ==
    ASSUME NEW s \in State, NEW n, NEW x, Good(s.mem, n, x), NEW c, Traced(s, n, c),
           NEW b \in Block, b = Super => NDir(s.mem) <= n,
           Marked([s.disk EXCEPT ![b] = s.mem[b]], s.mem)
    PROVE  Safe(FlushBlock(s, b), n, c)
<1> DEFINE m == s.mem
           d == s.disk
           e == [d EXCEPT ![b] = m[b]]
           r == FlushBlock(s, b)
           entry == <<b, m[b]>>
<1> HIDE DEF Block, Content, State
<1>1. m \in Memory /\ d \in Memory /\ s.log \in Seq(Block \X Content) /\ entry \in Block \X Content
  <2>1. m \in Memory /\ d \in Memory /\ s.log \in Seq(Block \X Content)
    BY StateFields
  <2>2. QED  BY <2>1 DEF Memory
<1>2. /\ r.mem = m /\ r.disk = e
      /\ (r.disk = d /\ r.log = s.log) \/ r.log = Append(s.log, entry)
  BY FlushBlockLemma
<1>3. e \in Memory
  BY <1>1 DEF Memory
<1>4. /\ c.mem \in Memory /\ c.held \subseteq Inodes(m, n) /\ \A g \in c.held : Agrees(m, c.mem, g)
      /\ c.held \subseteq Places
  BY InodePlaces DEF Traced, Good
<1>5. PICK st \in SUBSET StaleEntries : Trail(Fine(c), c.start, s.log, <<d, st>>) /\ Behind(d, m, n, st)
  BY DEF Traced
<1> DEFINE left == Left(st, b)
<1>6. left \in SUBSET StaleEntries
  BY DEF Left
<1>7. Behind(e, m, n, left)
  BY <1>1, <1>5, BehindFlush
<1>8. <<d, st>> \in Fine(c)
  BY <1>1, <1>5, TrailEnds
<1>9. Holds(d, c)
  BY <1>8 DEF Fine
<1>10. Directory(d) \subseteq Directory(e)
  BY <1>1, <1>5, DirectoryFlush
<1>11. \A g \in c.held : Agrees(e, c.mem, g)
  BY <1>1, <1>4, <1>9, AgreesFlush DEF Holds
<1>12. Wrote(<<d, st>>, entry) = <<e, left>>
  BY DEF Wrote
<1> HIDE DEF left, e
<1>13. Clear(e, left)
  BY <1>3, <1>6, <1>7, ClearLemma DEF e
<1>14. Holds(e, c)
  BY <1>9, <1>10, <1>11 DEF Holds
<1>15. <<e, left>> \in Fine(c)
  BY <1>3, <1>6, <1>13, <1>14 DEF Fine, Disks
<1> HIDE DEF m, d, entry, r
<1>16. CASE r.disk = d /\ r.log = s.log
  <2>1. Trail(Fine(c), c.start, r.log, <<r.disk, st>>) /\ Behind(r.disk, r.mem, n, st)
    BY <1>2, <1>5, <1>16
  <2>2. Traced(r, n, c)
    BY <1>2, <1>4, <2>1 DEF Traced
  <2>3. QED  BY <1>2, <2>2 DEF Safe, r, e, d, m
<1>17. CASE r.log = Append(s.log, entry)
  <2>1. Trail(Fine(c), c.start, r.log, <<r.disk, left>>) /\ Behind(r.disk, r.mem, n, left)
    <3>1. Trail(Fine(c), c.start, Append(s.log, entry), Wrote(<<d, st>>, entry))
      BY <1>1, <1>5, <1>12, <1>15, TrailAppend
    <3>2. QED  BY <1>2, <1>7, <1>12, <1>17, <3>1
  <2>2. Traced(r, n, c)
    BY <1>2, <1>4, <1>6, <2>1 DEF Traced
  <2>3. QED  BY <1>2, <2>2 DEF Safe, r, e, d, m
<1>18. QED  BY <1>2, <1>16, <1>17 DEF r
LEMMA FlushSafe ==
    ASSUME NEW s \in State, NEW n, NEW x, Good(s.mem, n, x), NEW b \in Block, b = Super => NDir(s.mem) <= n,
           NEW c, Safe(s, n, c)
    PROVE  Safe(FlushBlock(s, b), n, c)
<1> HIDE DEF Block, Content, State
<1>1. s.disk \in Memory
  BY StateFields
<1>2. [s.disk EXCEPT ![b] = s.mem[b]][Bitmap] \in {s.disk[Bitmap], s.mem[Bitmap]}
  BY <1>1, Sizes DEF Memory
<1>3. Marked([s.disk EXCEPT ![b] = s.mem[b]], s.mem)
  BY <1>2 DEF Safe, Marked, FreeIn
<1>4. Traced(s, n, c)
  BY DEF Safe
<1>5. QED  BY <1>3, <1>4, FlushTraced

LEMMA SafelyFlush ==
    ASSUME NEW s \in State, NEW n, NEW x, Good(s.mem, n, x), NEW b \in Block, b = Super => NDir(s.mem) <= n,
           NEW f
    PROVE  Safely(s, FlushBlock(s, b), n, f)
  BY FlushSafe DEF Safely
LEMMA SameNDir ==
    ASSUME NEW m, NEW w, NEW n, SameNames(m, w, n)
    PROVE  NDir(w) = NDir(m)
  BY DEF SameNames, NDir, Inodes
\* Nothing but the memory changes, and no pointer.
LEMMA SafelySame ==
    ASSUME NEW s, NEW r, NEW n, NEW x, s \in State, r \in State, r.disk = s.disk, r.log = s.log,
           Good(s.mem, n, x), NEW f \in Inodes(s.mem, n), NEW B,
           Touches(s.mem, r.mem, n, f, B), B \subseteq OfFile(s.mem, f, x), SamePointers(s.mem, r.mem, n),
           NDir(s.mem) <= NDir(r.mem), FreeIn(s.mem) \subseteq FreeIn(r.mem)
    PROVE  Safely(s, r, n, f)
<1> HIDE DEF State
<1>1. r.mem \in Memory /\ s.disk \in Memory
  BY StateFields
<1>2. Carries(s.disk, s.mem, r.mem, n, f)
  BY <1>1, CarriesSame
<1>3. QED  BY <1>2, SafelyMoved

\* Nothing but the memory changes, and one pointer of f.
LEMMA SafelyPointed ==
    ASSUME NEW s, NEW r, NEW n, NEW b, s \in State, r \in State, r.disk = s.disk, r.log = s.log,
           Good(s.mem, n, {b}), NEW f \in Inodes(s.mem, n), NEW i \in Slots, PtrAt(s.mem, f, i) = 0,
           NEW B, Touches(s.mem, r.mem, n, f, B), B \subseteq OfFile(s.mem, f, {b}),
           Pointed(s.mem, r.mem, n, f, i, b), Inodes(r.mem, n) = Inodes(s.mem, n),
           SameNames(s.mem, r.mem, n), FreeIn(r.mem) = FreeIn(s.mem), i = Capacity => s.disk[b] = Zero
    PROVE  Safely(s, r, n, f)
<1> HIDE DEF State
<1>1. r.mem \in Memory /\ s.disk \in Memory /\ NDir(r.mem) = NDir(s.mem)
  BY StateFields, SameNDir
<1>2. Carries(s.disk, s.mem, r.mem, n, f)
  BY <1>1, CarriesPointed
<1>3. QED  BY <1>2, SafelyMoved

LEMMA SetMem ==
    ASSUME NEW s \in State, NEW w \in Memory
    PROVE  LET r == [s EXCEPT !.mem = w]
           IN  /\ r \in State /\ r.mem = w /\ r.err = s.err /\ r.blk = s.blk
               /\ r.disk = s.disk /\ r.log = s.log
<1> HIDE DEF Memory, Block, Content
<1>1. QED  BY DEF State
LEMMA SetErr ==
    ASSUME NEW s \in State, NEW e \in {"panic", "inval"}
    PROVE  LET r == [s EXCEPT !.err = e]
           IN  /\ r \in State /\ r.mem = s.mem /\ r.err = e /\ Failed(r)
               /\ r.disk = s.disk /\ r.log = s.log
<1> HIDE DEF Memory, Block, Content
<1>1. QED  BY DEF State, Failed

LEMMA PutFileLemma ==
    ASSUME NEW s \in State, NEW f \in Places, NEW file \in FileType
    PROVE  LET r == PutFile(s, f, file)
           IN  /\ r \in State /\ r.mem = WithFile(s.mem, f, file) /\ r.err = s.err /\ r.blk = s.blk
               /\ r.disk = s.disk /\ r.log = s.log
<1> HIDE DEF Block, Content, FileType
<1>1. PutFile(s, f, file) = [s EXCEPT !.mem = WithFile(s.mem, f, file)]
  BY DEF PutFile, WithFile
<1>2. WithFile(s.mem, f, file) \in Memory
  BY StateFields, WithFileLemma
<1> HIDE DEF Memory, State
<1>3. QED  BY <1>1, <1>2, SetMem

(* The least free block.                                                    *)
LEMMA LeastFree ==
    ASSUME NEW S \in SUBSET Block, S # {}
    PROVE  Min(S) \in S
<1>1. S \subseteq Nat
  BY Sizes
<1>2. \E b \in S : \A c \in S : b <= c
  BY <1>1, LeastNumber
<1>3. QED  BY <1>2 DEF Min

LEMMA AllocBlockLemma ==
    ASSUME NEW s, NEW n, Runs(s, n)
    PROVE  LET r == AllocBlock(s)
           IN  /\ r \in State
               /\ Failed(s) => Failed(r)
               /\ \A b \in Block \ {Bitmap} : r.mem[b] = s.mem[b]
               /\ FreeIn(s.mem) = {} => /\ Failed(r) /\ r.err = "panic" /\ r.mem = s.mem
                                        /\ r.disk = s.disk /\ r.log = s.log
               /\ FreeIn(s.mem) # {} =>
                     /\ Failed(r) <=> Failed(s)
                     /\ r.blk \in Block \ {Super, Bitmap}
                     /\ Good(r.mem, n, {r.blk})
                     /\ SamePointers(s.mem, r.mem, n) /\ SameNames(s.mem, r.mem, n)
                     /\ \A f \in Inodes(s.mem, n) : File(r.mem, f) = File(s.mem, f)
                     /\ FreeIn(r.mem) = FreeIn(s.mem) \ {r.blk} /\ r.blk \in FreeIn(s.mem)
                     /\ \A f \in Inodes(s.mem, n) : Safely(s, r, n, f) /\ Alters(s.mem, r.mem, n, f, {})
<1> DEFINE m == s.mem
           b == Min(FreeIn(m))
           w == [m EXCEPT ![Bitmap] = BitmapBlock(FreeIn(m) \ {b})]
           t == Take(s, b)
<1> HIDE DEF Content, Block
<1>1. s \in State /\ Good(m, n, {})
  BY DEF Runs
<1>2. CASE FreeIn(m) = {}
  <2>1. AllocBlock(s) = [s EXCEPT !.err = "panic"]
    BY <1>2 DEF AllocBlock
  <2> HIDE DEF State
  <2>2. QED  BY <1>1, <1>2, <2>1, SetErr
<1>3. CASE FreeIn(m) # {}
  <2>1. FreeIn(m) \in SUBSET Block
    <3>1. m[Bitmap] \in Content /\ m[Bitmap].kind = "bitmap"
      BY <1>1, Sizes DEF Good, Shaped
    <3>2. QED  BY <3>1, ContentKinds DEF FreeIn
  <2>2. b \in FreeIn(m)
    BY <1>3, <2>1, LeastFree
  <2> HIDE DEF b
  <2>3. /\ Good(w, n, {b}) /\ b \in Block \ {Super, Bitmap}
        /\ SamePointers(m, w, n) /\ SameNames(m, w, n)
        /\ \A f \in Inodes(m, n) : File(w, f) = File(m, f)
        /\ FreeIn(w) = FreeIn(m) \ {b} /\ \A f : Touches(m, w, n, f, {Bitmap})
    BY <1>1, <2>2, TakeLemma
  <2>4. w \in Memory
    BY <2>3 DEF Good, Shaped, Memory
  <2>5. t = [s EXCEPT !.mem = w, !.blk = b]
    BY DEF Take
  <2>6. t \in State /\ t.mem = w /\ t.blk = b /\ t.err = s.err /\ t.disk = s.disk /\ t.log = s.log
    <3> HIDE DEF w, t, Memory
    <3>1. QED  BY <1>1, <2>3, <2>4, <2>5 DEF State
  <2>7. AllocBlock(s) = FlushBlock(t, Bitmap)
    BY <1>3 DEF AllocBlock, b
  <2> HIDE DEF t, w, m
  <2>8. LET r == FlushBlock(t, Bitmap) IN r \in State /\ r.mem = w /\ r.err = s.err /\ r.blk = b
    <3> HIDE DEF State
    <3>1. QED  BY <2>6, FlushBlockLemma, Sizes
  <2> HIDE DEF State
  <2>9. ASSUME NEW f \in Inodes(m, n)  PROVE Safely(s, FlushBlock(t, Bitmap), n, f)
    <3>1. s.disk \in Memory
      BY <1>1, StateFields
    <3>2. NDir(m) = NDir(w) /\ NDir(m) \in Nat
      <4>1. Root \in Inodes(m, n)
        BY DEF Inodes
      <4>2. m \in Memory
        BY <1>1, InodePlaces DEF Good
      <4>3. QED  BY <2>3, <4>1, <4>2, NDirType DEF NDir
    <3>3. Carries(s.disk, m, w, n, f)
      <4>1. {Bitmap} \subseteq OfFile(m, f, {})
        BY DEF OfFile
      <4>2. NDir(m) <= NDir(w)
        <5> HIDE DEF NDir
        <5>1. QED  BY <3>2
      <4>3. Touches(m, w, n, f, {Bitmap})
        BY <2>3
      <4>4. QED  BY <1>1, <2>3, <2>4, <3>1, <4>1, <4>2, <4>3, CarriesSame
    <3>4. Marked([t.disk EXCEPT ![Bitmap] = t.mem[Bitmap]], t.mem)
      BY <2>6, <3>1, Sizes DEF Marked, FreeIn, Memory
    <3>5. ASSUME NEW c, f \notin c.held, Safe(s, n, c)  PROVE Safe(FlushBlock(t, Bitmap), n, c)
      <4>1. Traced(t, n, c)
        BY <2>6, <3>3, <3>5, TracedMoved DEF Safe, m
      <4>2. QED  BY <2>3, <2>6, <3>4, <4>1, FlushTraced, Sizes
    <3>6. QED  BY <3>5 DEF Safely
  <2>10. ASSUME NEW f \in Inodes(m, n)  PROVE Alters(m, w, n, f, {})
    <3>1. {Bitmap} \subseteq Meta(m, f, {}) /\ Touches(m, w, n, f, {Bitmap})
      BY <2>3 DEF Meta
    <3>2. QED  BY <1>1, <2>3, <3>1, AltersSame
  <2>12. \A c \in Block \ {Bitmap} : w[c] = m[c]
    BY <2>3, Root \in Inodes(m, n) DEF Touches, Inodes
  <2>11. QED  BY <1>3, <2>2, <2>3, <2>7, <2>8, <2>9, <2>10, <2>12 DEF m, Failed
<1>4. QED  BY <1>2, <1>3

Live(m, n, f) == f \in Inodes(m, n) /\ (f # Root => File(m, f).name # NoName)

LEMMA BlockWalkLemma ==
    ASSUME NEW s, NEW n, Runs(s, n), ~ Failed(s), NEW f, Live(s.mem, n, f), NEW i \in Nat
    PROVE  LET r == BlockWalk(s, f, i)
           IN  /\ Keeps(s, r, n, f) /\ Alters(s.mem, r.mem, n, f, {})
               /\ ~ Failed(r) => i < Capacity /\ (i < NDIRECT \/ File(r.mem, f).indirect # 0)
               /\ Failed(r) => r.err = "panic" \/ i >= Capacity
<1> DEFINE r == BlockWalk(s, f, i)
           m == s.mem
           a == AllocBlock(s)
           z == FlushBlock([a EXCEPT !.mem[a.blk] = Zero], a.blk)
           file == [File(z.mem, f) EXCEPT !.indirect = a.blk]
<1> HIDE DEF Content, Block, State, FileType
<1>1. s \in State /\ Good(m, n, {}) /\ f \in Inodes(m, n) /\ (f # Root => File(m, f).name # NoName)
  BY DEF Runs, Live
<1>2. CASE i >= Capacity
  <2>1. r = [s EXCEPT !.err = "inval"]
    BY <1>2 DEF BlockWalk
  <2>2. QED  BY <1>1, <1>2, <2>1, SetErr, KeepsSelf, AltersSelf
<1>3. CASE ~ (i >= Capacity) /\ (i < NDIRECT \/ File(m, f).indirect # 0)
  <2>1. r = s
    BY <1>3 DEF BlockWalk
  <2>2. QED  BY <1>1, <1>3, <2>1, KeepsSelf, AltersSelf, Sizes
<1>4. CASE ~ (i >= Capacity) /\ ~ (i < NDIRECT \/ File(m, f).indirect # 0)
  <2>1. r = IF Failed(a) THEN a ELSE PutFile(z, f, file)
    BY <1>4 DEF BlockWalk
  <2>2. CASE FreeIn(m) = {}
    <3>1. a \in State /\ Failed(a) /\ a.err = "panic" /\ a.mem = m /\ a.disk = s.disk /\ a.log = s.log
      BY <2>2, AllocBlockLemma
    <3>2. QED  BY <2>1, <3>1, KeepsSelf, AltersSelf
  <2>3. CASE FreeIn(m) # {}
    <3>1. /\ a \in State /\ ~ Failed(a) /\ a.blk \in Block \ {Super, Bitmap}
          /\ Good(a.mem, n, {a.blk})
          /\ SamePointers(m, a.mem, n) /\ SameNames(m, a.mem, n)
          /\ \A g \in Inodes(m, n) : File(a.mem, g) = File(m, g)
          /\ FreeIn(a.mem) = FreeIn(m) \ {a.blk} /\ a.blk \in FreeIn(m)
          /\ Safely(s, a, n, f) /\ Alters(m, a.mem, n, f, {})
      BY <1>1, <2>3, AllocBlockLemma
    <3> HIDE DEF a
    <3> DEFINE v == [a.mem EXCEPT ![a.blk] = Zero]
    <3>2. Inodes(a.mem, n) = Inodes(m, n)
      BY <1>1, <3>1, SamePointersLemma
    <3>3. /\ \A k \in 0 .. n - 1 : Ptr(a.mem, Root, k) # a.blk
          /\ \A g \in Inodes(a.mem, n) : File(a.mem, g).indirect # a.blk
      <4>1. Root \in Inodes(a.mem, n)
        BY DEF Inodes
      <4>2. QED  BY <3>1, <4>1, Apart
    <3>4. /\ Good(v, n, {a.blk})
          /\ SamePointers(a.mem, v, n) /\ SameNames(a.mem, v, n)
          /\ \A g \in Inodes(a.mem, n) : File(v, g) = File(a.mem, g)
          /\ FreeIn(v) = FreeIn(a.mem) /\ ChangesBlock(a.mem, v, n, a.blk)
      BY <3>1, <3>3, DataLemma, WrittenAs
    <3>5. Inodes(v, n) = Inodes(m, n)
      BY <3>1, <3>2, <3>4, SamePointersLemma
    <3>6. v \in Memory /\ v[a.blk] = Zero
      BY <3>1, <3>4, StateFields DEF Good, Shaped, Memory
    <3>7. z \in State /\ z.mem = v /\ z.err = a.err /\ z.disk[a.blk] = Zero /\ Safely(s, z, n, f)
      <4> DEFINE u == [a EXCEPT !.mem = v]
      <4>1. u \in State /\ u.mem = v /\ u.err = a.err /\ u.disk = a.disk /\ u.log = a.log
        <5> HIDE DEF v
        <5>1. QED  BY <3>1, <3>6, SetMem
      <4>2. z = FlushBlock(u, a.blk)
        OBVIOUS
      <4> HIDE DEF u, v, z
      <4>3. z \in State /\ z.mem = v /\ z.err = a.err /\ z.disk[a.blk] = Zero
        <5>1. u.disk \in Memory
          BY <4>1, StateFields
        <5>2. z.disk = [u.disk EXCEPT ![a.blk] = u.mem[a.blk]]
          BY <3>1, <4>1, <4>2, FlushBlockLemma
        <5>3. QED  BY <3>1, <3>6, <4>1, <4>2, <5>1, <5>2, FlushBlockLemma DEF Memory
      <4>4. Safely(a, u, n, f)
        <5>1. {a.blk} \subseteq OfFile(a.mem, f, {a.blk}) /\ Touches(a.mem, v, n, f, {a.blk})
          BY <3>4 DEF OfFile, ChangesBlock
        <5>2. NDir(a.mem) <= NDir(v)
          <6>1. NDir(a.mem) = NDir(v) /\ NDir(v) \in Nat
            BY <3>4, <3>6, SameNDir, NDirType
          <6> HIDE DEF NDir
          <6>2. QED  BY <6>1
        <5>3. f \in Inodes(a.mem, n)
          BY <1>1, <3>2
        <5>4. QED  BY <3>1, <3>4, <4>1, <5>1, <5>2, <5>3, SafelySame
      <4>5. Safely(u, z, n, f)
        BY <3>1, <3>4, <4>1, <4>2, SafelyFlush
      <4>6. QED  BY <3>1, <4>3, <4>4, <4>5, SafelyTrans
    <3> HIDE DEF z, v, m
    <3>8. File(z.mem, f) = File(m, f) /\ File(m, f).indirect = 0
      BY <1>1, <1>4, <3>1, <3>2, <3>4, <3>7 DEF m
    <3>9. f \in Places /\ f \in Inodes(v, n) /\ File(v, f) \in FileType
      <4>1. f \in Places
        BY <1>1, InodePlaces DEF Good
      <4>2. QED  BY <1>1, <3>5, <3>6, <4>1, PtrTypes
    <3>10. file \in FileType
      BY <3>1, <3>7, <3>9 DEF FileType
    <3>11. LET w == WithFile(v, f, [File(v, f) EXCEPT !.indirect = a.blk])
           IN  /\ Good(w, n, {}) /\ SameNames(v, w, n) /\ Inodes(w, n) = Inodes(v, n)
               /\ File(w, f).indirect # 0
               /\ FreeIn(w) = FreeIn(v) /\ Pointed(v, w, n, f, Capacity, a.blk) /\ ChangesFile(v, w, n, f)
      <4>1. /\ Good(v, n, {a.blk}) /\ f \in Inodes(v, n) /\ v[a.blk] = Zero
            /\ File(v, f).indirect = 0 /\ (f # Root => File(v, f).name # NoName)
        BY <1>1, <3>4, <3>6, <3>7, <3>8, <3>9 DEF m
      <4>2. QED  BY ONLY <4>1, PointIndirect
    <3> DEFINE q == PutFile(z, f, file)
    <3>12. /\ q \in State /\ ~ Failed(q) /\ q.disk = z.disk /\ q.log = z.log
           /\ q.mem = WithFile(v, f, [File(v, f) EXCEPT !.indirect = a.blk])
      BY <3>1, <3>7, <3>9, <3>10, PutFileLemma DEF Failed
    <3>13. r = q
      BY <2>1, <3>1
    <3> HIDE DEF q, r
    <3>14. SameNames(m, q.mem, n)
      BY <3>1, <3>2, <3>4, <3>5, <3>11, <3>12 DEF SameNames
    <3>15. Takes(s, q)
      BY <3>1, <3>4, <3>11, <3>12 DEF Takes, m
    <3>16. Safely(z, q, n, f)
      <4>1. /\ z.disk \in Memory /\ q.mem \in Memory
            /\ {f[1]} \subseteq OfFile(v, f, {a.blk}) /\ Capacity \in Slots /\ PtrAt(v, f, Capacity) = 0
        BY <3>7, <3>8, <3>12, StateFields, SlotsLemma DEF OfFile
      <4>2. NDir(q.mem) = NDir(v)
        BY <3>11, <3>12, SameNDir
      <4>3. /\ Good(v, n, {a.blk}) /\ f \in Inodes(v, n) /\ Touches(v, q.mem, n, f, {f[1]})
            /\ Pointed(v, q.mem, n, f, Capacity, a.blk) /\ Inodes(q.mem, n) = Inodes(v, n)
            /\ z.disk[a.blk] = Zero
        BY <3>4, <3>7, <3>9, <3>11, <3>12 DEF ChangesFile
      <4>4. Carries(z.disk, v, q.mem, n, f)
        BY ONLY <4>1, <4>2, <4>3, CarriesPointed
      <4>5. FreeIn(z.mem) \subseteq FreeIn(q.mem)
        BY <3>7, <3>11, <3>12
      <4>6. QED  BY <3>7, <3>12, <4>4, <4>5, SafelyMoved
    <3>17. Safely(s, q, n, f)
      BY <3>7, <3>16, SafelyTrans
    <3>18. Alters(m, q.mem, n, f, {})
      <4>1. Alters(a.mem, v, n, f, {})
        <5>1. /\ {a.blk} \subseteq Meta(a.mem, f, {a.blk}) /\ Touches(a.mem, v, n, f, {a.blk})
              /\ f \in Inodes(a.mem, n)
          BY <1>1, <3>2, <3>4 DEF Meta, ChangesBlock, m
        <5>2. QED  BY <3>1, <3>4, <5>1, AltersSame
      <4>2. Alters(v, q.mem, n, f, {})
        <5>1. {f[1]} \subseteq Meta(v, f, {a.blk}) /\ Capacity \in Slots /\ PtrAt(v, f, Capacity) = 0
          BY <3>7, <3>8, SlotsLemma DEF Meta
        <5>2. Touches(v, q.mem, n, f, {f[1]}) /\ Pointed(v, q.mem, n, f, Capacity, a.blk)
          BY <3>11, <3>12 DEF ChangesFile
        <5>3. QED  BY <3>4, <3>9, <5>1, <5>2, AltersPointed
      <4>3. Alters(m, v, n, f, {})
        BY <3>1, <3>2, <4>1, AltersTrans
      <4>4. QED  BY <3>5, <4>2, <4>3, AltersTrans
    <3>19. QED  BY <1>4, <3>5, <3>11, <3>12, <3>13, <3>14, <3>15, <3>17, <3>18, Sizes DEF Keeps, Runs, m, r
  <2>4. QED  BY <2>2, <2>3
<1>5. QED  BY <1>2, <1>3, <1>4

LEMMA GetBlockLemma ==
    ASSUME NEW s, NEW n, Runs(s, n), ~ Failed(s), NEW f, Live(s.mem, n, f), NEW i \in Nat,
           f # Root => i < NBlocks(File(s.mem, f).size)
    PROVE  LET r == GetBlock(s, f, i)
           IN  /\ Keeps(s, r, n, f) /\ Alters(s.mem, r.mem, n, f, {})
               /\ ~ Failed(r) => i < Capacity /\ Ptr(r.mem, f, i) # 0
               /\ Failed(r) => r.err = "panic" \/ i >= Capacity
<1> DEFINE r == GetBlock(s, f, i)
           w == BlockWalk(s, f, i)
           a == AllocBlock(w)
<1> HIDE DEF Content, Block, State, FileType
<1>1. /\ Keeps(s, w, n, f) /\ Alters(s.mem, w.mem, n, f, {})
      /\ ~ Failed(w) => i < Capacity /\ (i < NDIRECT \/ File(w.mem, f).indirect # 0)
      /\ Failed(w) => w.err = "panic" \/ i >= Capacity
  BY BlockWalkLemma
<1>2. r = IF Failed(w) \/ Ptr(w.mem, f, i) # 0 THEN w
          ELSE IF Failed(a) THEN a ELSE PutPtr(a, f, i, a.blk)
  BY DEF GetBlock
<1> HIDE DEF r, w
<1>3. CASE Failed(w) \/ Ptr(w.mem, f, i) # 0
  BY <1>1, <1>2, <1>3 DEF r
<1>4. CASE ~ Failed(w) /\ Ptr(w.mem, f, i) = 0
  <2>1. Runs(w, n) /\ w \in State /\ Good(w.mem, n, {}) /\ Inodes(w.mem, n) = Inodes(s.mem, n)
    BY <1>1 DEF Keeps, Runs
  <2>2. CASE FreeIn(w.mem) = {}
    <3>1. a \in State /\ Failed(a) /\ a.err = "panic" /\ a.mem = w.mem /\ a.disk = w.disk /\ a.log = w.log
      BY <2>1, <2>2, AllocBlockLemma
    <3>2. Keeps(w, a, n, f) /\ Alters(w.mem, a.mem, n, f, {})
      BY <2>1, <3>1, KeepsSelf, AltersSelf
    <3> HIDE DEF a
    <3>3. QED  BY <1>1, <1>2, <1>4, <3>1, <3>2, KeepsTrans DEF r
  <2>3. CASE FreeIn(w.mem) # {}
    <3>1. /\ a \in State /\ ~ Failed(a) /\ a.blk \in Block
          /\ Good(a.mem, n, {a.blk})
          /\ SamePointers(w.mem, a.mem, n) /\ SameNames(w.mem, a.mem, n)
          /\ \A g \in Inodes(w.mem, n) : File(a.mem, g) = File(w.mem, g)
          /\ FreeIn(a.mem) = FreeIn(w.mem) \ {a.blk} /\ a.blk \in FreeIn(w.mem)
          /\ Safely(w, a, n, f) /\ Alters(w.mem, a.mem, n, f, {})
      BY <1>4, <2>1, <2>3, AllocBlockLemma DEF Live
    <3> HIDE DEF a
    <3> DEFINE file == File(a.mem, f)
               q == PutPtr(a, f, i, a.blk)
    <3>2. /\ f \in Inodes(w.mem, n) /\ Inodes(a.mem, n) = Inodes(w.mem, n)
          /\ file = File(w.mem, f)
      BY <2>1, <3>1, SamePointersLemma DEF Live
    <3>3. f \in Places /\ file \in FileType /\ a.mem \in Memory
      BY <2>1, <3>1, <3>2, InodePlaces, PtrTypes DEF Good
    <3>4. i < Capacity /\ i \in 0 .. Capacity - 1 /\ Ptr(a.mem, f, i) = 0
      BY <1>1, <1>4, <3>1, <3>2, Sizes DEF SamePointers
    <3>5. f # Root => file.name # NoName /\ i < NBlocks(file.size)
      BY <1>1, <2>1, <3>2 DEF Live, Keeps, SameNames
    <3>6. Room(a.mem, f, i)
      BY <3>5 DEF Room
    <3>17. i \in Slots /\ i # Capacity /\ PtrAt(a.mem, f, i) = 0 /\ f \in Inodes(a.mem, n)
      BY <3>2, <3>4, SlotsLemma, Sizes
    <3>7. /\ q \in State /\ ~ Failed(q) /\ Good(q.mem, n, {}) /\ SameNames(a.mem, q.mem, n)
          /\ Ptr(q.mem, f, i) # 0 /\ Inodes(q.mem, n) = Inodes(a.mem, n)
          /\ FreeIn(q.mem) = FreeIn(a.mem) /\ Safely(a, q, n, f) /\ Alters(a.mem, q.mem, n, f, {})
      <4>1. CASE i < NDIRECT
        <5> DEFINE new == [file EXCEPT !.direct[i] = a.blk]
        <5>1. q = PutFile(a, f, new)
          BY <4>1 DEF PutPtr
        <5>2. i \in 0 .. NDIRECT - 1
          BY <4>1, Sizes
        <5>3. new \in FileType
          BY <3>1, <3>3, <5>2 DEF FileType
        <5>4. LET x == WithDirect(a.mem, f, i, a.blk)
              IN  /\ Good(x, n, {}) /\ SameNames(a.mem, x, n) /\ Ptr(x, f, i) # 0 /\ Inodes(x, n) = Inodes(a.mem, n)
                  /\ FreeIn(x) = FreeIn(a.mem) /\ Pointed(a.mem, x, n, f, i, a.blk) /\ ChangesFile(a.mem, x, n, f)
          <6>1. /\ Good(a.mem, n, {a.blk}) /\ f \in Inodes(a.mem, n) /\ i \in 0 .. NDIRECT - 1
                /\ Ptr(a.mem, f, i) = 0 /\ Room(a.mem, f, i)
            BY <3>1, <3>2, <3>4, <3>6, <5>2
          <6>2. QED  BY ONLY <6>1, PointDirect
        <5>0. WithFile(a.mem, f, new) = WithDirect(a.mem, f, i, a.blk)
          BY DEF WithDirect
        <5> HIDE DEF new, q
        <5>5. q \in State /\ ~ Failed(q) /\ q.mem = WithFile(a.mem, f, new) /\ q.disk = a.disk /\ q.log = a.log
          BY <3>1, <3>3, <5>1, <5>3, PutFileLemma DEF Failed
        <5>6. {f[1]} \subseteq OfFile(a.mem, f, {a.blk}) /\ Touches(a.mem, q.mem, n, f, {f[1]})
          BY <5>0, <5>4, <5>5 DEF OfFile, ChangesFile
        <5>7. Safely(a, q, n, f)
          <6> HIDE DEF file
          <6>1. /\ SameNames(a.mem, q.mem, n) /\ Inodes(q.mem, n) = Inodes(a.mem, n)
                /\ FreeIn(q.mem) = FreeIn(a.mem) /\ Pointed(a.mem, q.mem, n, f, i, a.blk)
            BY <5>0, <5>4, <5>5
          <6>2. /\ a \in State /\ q \in State /\ q.disk = a.disk /\ q.log = a.log /\ Good(a.mem, n, {a.blk})
            BY <3>1, <5>5
          <6>3. QED  BY ONLY <3>17, <5>6, <6>1, <6>2, SafelyPointed
        <5>8. Alters(a.mem, q.mem, n, f, {})
          <6>1. {f[1]} \subseteq Meta(a.mem, f, {a.blk}) /\ Pointed(a.mem, q.mem, n, f, i, a.blk)
            BY <5>0, <5>4, <5>5 DEF Meta
          <6>2. QED  BY <3>1, <3>17, <5>6, <6>1, AltersPointed
        <5>9. QED  BY <5>0, <5>4, <5>5, <5>7, <5>8
      <4>2. CASE ~ (i < NDIRECT)
        <5> DEFINE d == file.indirect
                   x == [a.mem EXCEPT ![d] = PtrsBlock([PtrsIn(@) EXCEPT ![i - NDIRECT] = a.blk])]
        <5>1. q = [a EXCEPT !.mem = x]
          BY <4>2 DEF PutPtr
        <5>2. i \in NDIRECT .. Capacity - 1
          BY <3>4, <4>2, Sizes
        <5>3. d # 0
          BY <1>1, <1>4, <3>2, <4>2
        <5>4. /\ Good(x, n, {}) /\ SameNames(a.mem, x, n) /\ Ptr(x, f, i) # 0 /\ Inodes(x, n) = Inodes(a.mem, n)
              /\ FreeIn(x) = FreeIn(a.mem) /\ Pointed(a.mem, x, n, f, i, a.blk) /\ ChangesBlock(a.mem, x, n, d)
          BY <3>1, <3>2, <3>4, <3>6, <5>2, <5>3, PointEntry
        <5>5. x \in Memory
          BY <5>4 DEF Good, Shaped, Memory
        <5> HIDE DEF x, q
        <5>6. q \in State /\ ~ Failed(q) /\ q.mem = x /\ q.disk = a.disk /\ q.log = a.log
          BY <3>1, <5>1, <5>5, SetMem DEF Failed
        <5>7. {d} \subseteq OfFile(a.mem, f, {a.blk}) /\ Touches(a.mem, q.mem, n, f, {d})
          <6> HIDE DEF d
          <6>1. Capacity \in Slots /\ PtrAt(a.mem, f, Capacity) = d
            BY SlotsLemma DEF d
          <6>2. d \in OfFile(a.mem, f, {a.blk})
            BY <6>1 DEF OfFile
          <6>3. Touches(a.mem, q.mem, n, f, {d})
            BY <5>4, <5>6 DEF ChangesBlock
          <6>4. QED  BY <6>2, <6>3
        <5>8. Safely(a, q, n, f)
          <6>1. /\ SameNames(a.mem, q.mem, n) /\ Inodes(q.mem, n) = Inodes(a.mem, n)
                /\ FreeIn(q.mem) = FreeIn(a.mem) /\ Pointed(a.mem, q.mem, n, f, i, a.blk)
            BY <5>4, <5>6
          <6>2. /\ a \in State /\ q \in State /\ q.disk = a.disk /\ q.log = a.log /\ Good(a.mem, n, {a.blk})
            BY <3>1, <5>6
          <6>3. QED  BY ONLY <3>17, <5>7, <6>1, <6>2, SafelyPointed
        <5>9. Alters(a.mem, q.mem, n, f, {})
          <6>1. {d} \subseteq Meta(a.mem, f, {a.blk}) /\ Pointed(a.mem, q.mem, n, f, i, a.blk)
            BY <5>4, <5>6 DEF Meta
          <6>2. QED  BY <3>1, <3>17, <5>7, <6>1, AltersPointed
        <5>10. QED  BY <5>4, <5>6, <5>8, <5>9
      <4>3. QED  BY <4>1, <4>2
    <3>8. r = q
      BY <1>2, <1>4, <3>1 DEF a
    <3> HIDE DEF q
    <3>9. SameNames(w.mem, q.mem, n)
      BY <3>1, <3>2, <3>7 DEF SameNames
    <3>10. Keeps(w, q, n, f)
      <4>1. Takes(w, q)
        BY <3>1, <3>7 DEF Takes
      <4>2. Safely(w, q, n, f)
        BY <3>1, <3>7, SafelyTrans
      <4>3. QED  BY <3>2, <3>7, <3>9, <4>1, <4>2 DEF Keeps, Runs
    <3>11. Keeps(s, q, n, f)
      BY <1>1, <3>10, KeepsTrans
    <3>12. Alters(s.mem, q.mem, n, f, {})
      <4>1. Alters(w.mem, q.mem, n, f, {})
        BY <3>1, <3>2, <3>7, AltersTrans
      <4>2. QED  BY <1>1, <2>1, <4>1, AltersTrans
    <3>13. QED  BY <3>4, <3>7, <3>8, <3>11, <3>12 DEF r
  <2>4. QED  BY <2>2, <2>3
<1>5. QED  BY <1>3, <1>4

LEMMA PutBytesLemma ==
    ASSUME NEW s, NEW n, Runs(s, n), NEW f \in Inodes(s.mem, n) \ {Root}, NEW i \in 0 .. Capacity - 1,
           Ptr(s.mem, f, i) # 0, NEW range \in SUBSET Nat, NEW c \in Byte
    PROVE  LET r == PutBytes(s, f, i, range, c)
           IN  /\ Keeps(s, r, n, f) /\ r.err = s.err
               /\ Alters(s.mem, r.mem, n, f, range) /\ Fills(s.mem, r.mem, f, range, i, c)
<1> DEFINE m == s.mem
           b == Ptr(m, f, i)
           bs == [p \in DOMAIN BytesIn(m[b]) |-> IF i * BLKSIZE + p \in range THEN c ELSE BytesIn(m[b])[p]]
           w == [m EXCEPT ![b] = BytesBlock(bs)]
           r == PutBytes(s, f, i, range, c)
<1> HIDE DEF Content, Block, State, Byte
<1>1. s \in State /\ Good(m, n, {}) /\ m \in Memory /\ f \in Places /\ Rooted(m, n) /\ Owned(m, n)
  BY InodePlaces DEF Runs, Good
<1>2. i \in Slots /\ PtrAt(m, f, i) = b /\ b # 0
  BY Sizes DEF Slots, PtrAt
<1>3. b \in Block \ {Super, Bitmap}
  <2>1. b \in Block
    BY <1>1, <1>2, PtrTypes
  <2>2. QED  BY <1>1, <1>2, <2>1 DEF Owned
<1>4. \A k \in 0 .. n - 1 : Ptr(m, Root, k) # b
  <2>1. /\ Root \in Inodes(m, n)
        /\ \A k \in 0 .. n - 1 : k \in Slots /\ PtrAt(m, Root, k) = Ptr(m, Root, k)
    BY <1>1, InodePlaces DEF Good
  <2>2. QED  BY <1>1, <1>2, <2>1 DEF Owned
<1>5. \A g \in Inodes(m, n) : File(m, g).indirect # b
  BY <1>1, <1>2, Apart
<1>6. BytesIn(m[b]) \in [0 .. BLKSIZE - 1 -> Byte]
  BY <1>1, <1>3, ReadAs DEF Memory
<1>7. /\ bs \in [0 .. BLKSIZE - 1 -> Byte]
      /\ \A q \in 0 .. BLKSIZE - 1 : bs[q] = IF i * BLKSIZE + q \in range THEN c ELSE BytesIn(m[b])[q]
  BY <1>6
<1>8. r = [s EXCEPT !.mem = w]
  BY DEF PutBytes
<1> HIDE DEF bs
<1>9. BytesBlock(bs) \in Content /\ BytesBlock(bs).kind # "files"
  BY <1>7, WrittenAs
<1>10. /\ Good(w, n, {}) /\ SamePointers(m, w, n) /\ SameNames(m, w, n)
       /\ FreeIn(w) = FreeIn(m) /\ ChangesBlock(m, w, n, b)
  BY <1>1, <1>3, <1>4, <1>5, <1>9, DataLemma
<1>11. w \in Memory
  BY <1>10 DEF Good, Shaped, Memory
<1>12. Inodes(w, n) = Inodes(m, n)
  BY <1>1, <1>10, SamePointersLemma
<1>17. Alters(m, w, n, f, range) /\ Fills(m, w, f, range, i, c)
  <2>1. w[b] = BytesBlock(bs)
    BY <1>1, <1>3 DEF Memory
  <2> HIDE DEF w
  <2>2. QED  BY <1>1, <1>2, <1>7, <1>10, <2>1, AltersBytes DEF ChangesBlock
<1> HIDE DEF w, r
<1>13. r \in State /\ r.mem = w /\ r.err = s.err /\ r.disk = s.disk /\ r.log = s.log
  BY <1>1, <1>8, <1>11, SetMem
<1>14. Takes(s, r)
  BY <1>10, <1>13 DEF Takes
<1>15. Safely(s, r, n, f)
  <2> HIDE DEF b
  <2>1. Touches(m, w, n, f, {b}) /\ {b} \subseteq OfFile(m, f, {})
    BY <1>2, <1>10 DEF ChangesBlock, OfFile
  <2>2. NDir(m) <= NDir(w)
    <3>1. NDir(m) = NDir(w) /\ NDir(m) \in Nat
      BY <1>1, <1>10, SameNDir, NDirType
    <3> HIDE DEF NDir
    <3>2. QED  BY <3>1
  <2>3. QED  BY <1>1, <1>10, <1>13, <2>1, <2>2, SafelySame
<1>16. QED  BY <1>10, <1>12, <1>13, <1>14, <1>15, <1>17 DEF Keeps, Runs, r

(* A call may change the size of one file, and then the others are as they  *)
(* were.                                                                    *)
Resized(m, w, n, f, size) ==
    /\ Inodes(w, n) = Inodes(m, n)
    /\ \A g \in Inodes(m, n) : File(w, g).name = File(m, g).name
    /\ \A g \in Inodes(m, n) : File(w, g).size = IF g = f THEN size ELSE File(m, g).size

\* The entries that Uncleared adds, and what a call that adds them has to keep.
UnclearedIn(m, d, f, newsize) ==
    LET file == File(m, f)
    IN  {p \in {file.indirect} \X (0 .. NINDIRECT - 1) :
            /\ file.indirect # 0 /\ ~ LosesIndirect(file, newsize)
            /\ p[2] + NDIRECT \in Gone(file, newsize)
            /\ PtrsIn(d[p[1]])[p[2]] # 0}
WithStale(c, un) == [mem |-> c.mem, held |-> c.held, start |-> <<c.start[1], c.start[2] \cup un>>]

LEMMA NotSuper ==
    ASSUME NEW m, NEW n, NEW x, Good(m, n, x), NEW f \in Inodes(m, n), f # Root
    PROVE  f[1] \in Block \ {Super, Bitmap}
<1>1. f[1] \in Block
  BY Apart
<1>2. \E k \in 0 .. n - 1 : f[1] = Ptr(m, Root, k)
  BY InodePlaces DEF Good
<1>3. QED  BY <1>1, <1>2, Apart

(* The directory on a disk is where its pointers are.                       *)
LEMMA SameDirectory ==
    ASSUME NEW d, NEW e, File(e, Root) = File(d, Root), \A k : Ptr(e, Root, k) = Ptr(d, Root, k)
    PROVE  Directory(e) = Directory(d)
<1>1. Entries(e) = Entries(d)
  BY DEF Entries
<1>2. \A k : Entry(e, k) = Entry(d, k)
  BY DEF Entry
<1>3. QED  BY <1>1, <1>2 DEF Directory

(* file_set_size, of a file that gets shorter, as the first thing of a      *)
(* call.                                                                    *)
LEMMA CutSafe ==
    ASSUME NEW s \in State, NEW r \in State, NEW n, Good(s.mem, n, {}), Good(r.mem, n, {}),
           Inodes(r.mem, n) = Inodes(s.mem, n), NEW f \in Inodes(s.mem, n), f # Root, NEW newsize \in Nat,
           Cut(s.mem, r.mem, n, f, Lost(File(s.mem, f), newsize)), ChangesCut(s.mem, r.mem, n, f),
           FreeIn(s.mem) \subseteq FreeIn(r.mem), r.mem[f[1]].kind = "files",
           s.log = <<>>, r.disk = [s.disk EXCEPT ![f[1]] = r.mem[f[1]]],
           (r.disk = s.disk /\ r.log = s.log) \/ r.log = Append(s.log, <<f[1], r.mem[f[1]]>>),
           NEW c, f \notin c.held, Safe(s, n, c)
    PROVE  Safe(r, n, WithStale(c, UnclearedIn(s.mem, s.disk, f, newsize)))
<1> DEFINE m == s.mem
           w == r.mem
           d == s.disk
           e == r.disk
           un == UnclearedIn(s.mem, s.disk, f, newsize)
           z == WithStale(c, un)
<1> HIDE DEF Block, Content, State
<1>1. m \in Memory /\ w \in Memory /\ d \in Memory /\ e \in Memory
  BY StateFields
<1>2. f[1] \in Block \ {Super, Bitmap}
  BY NotSuper
<1>3. PICK st \in SUBSET StaleEntries : Trail(Fine(c), c.start, s.log, <<d, st>>) /\ Behind(d, m, n, st)
  BY DEF Safe, Traced
<1>4. c.start = <<d, st>> /\ <<d, st>> \in Fine(c)
  BY <1>3, TrailNone
<1>5. z.mem = c.mem /\ z.held = c.held /\ z.start = <<d, st \cup un>>
  BY <1>4 DEF WithStale
<1>6. un \in SUBSET StaleEntries /\ st \cup un \in SUBSET StaleEntries
  <2>1. File(m, f).indirect \in {0} \cup Block
    BY Apart
  <2>2. QED  BY <2>1 DEF UnclearedIn, StaleEntries
<1> DEFINE both == st \cup un
           left == Left(both, f[1])
<1>7. Behind(e, w, n, both)
  <2>1. \A g \in Inodes(m, n) : g # f => File(w, g) = File(m, g)
    BY DEF ChangesCut, Touches
  <2>2. \A g \in Inodes(m, n), i \in Slots :
              PtrAt(w, g, i) = PtrAt(m, g, i) \/ (g = f /\ PtrAt(w, g, i) = 0)
    BY DEF Cut
  <2>3. \A p \in un : p[1] = File(m, f).indirect /\ PtrsIn(d[p[1]])[p[2]] # 0
    BY DEF UnclearedIn
  <2>4. ASSUME NEW i \in NDIRECT .. Capacity - 1, File(w, f).indirect # 0, PtrAt(w, f, i) = 0,
               PtrsIn(d[File(w, f).indirect])[i - NDIRECT] # 0, PtrAt(m, f, i) # 0
        PROVE  <<File(w, f).indirect, i - NDIRECT>> \in un
    <3>1. /\ Capacity \in Slots /\ PtrAt(w, f, Capacity) = File(w, f).indirect
          /\ PtrAt(m, f, Capacity) = File(m, f).indirect
          /\ i \in Slots /\ i # Capacity /\ i - NDIRECT \in 0 .. NINDIRECT - 1
          /\ (i - NDIRECT) + NDIRECT = i
      BY SlotsLemma, Sizes
    <3>2. File(w, f).indirect = File(m, f).indirect /\ Capacity \notin Lost(File(m, f), newsize)
      BY <2>4, <3>1 DEF Cut
    <3>3. i \in Lost(File(m, f), newsize)
      BY <2>4, <3>1 DEF Cut
    <3>4. i \in Gone(File(m, f), newsize) /\ ~ LosesIndirect(File(m, f), newsize)
      BY <3>1, <3>2, <3>3 DEF Lost
    <3>5. QED  BY <2>4, <3>1, <3>2, <3>4 DEF UnclearedIn
  <2> HIDE DEF un
  <2>5. \A i \in NDIRECT .. Capacity - 1 :
              LET a == File(w, f).indirect
              IN  a # 0 /\ PtrAt(w, f, i) = 0 /\ PtrsIn(d[a])[i - NDIRECT] # 0
                  => PtrAt(m, f, i) = 0 \/ <<a, i - NDIRECT>> \in un
    BY <2>4
  <2>6. Behind([d EXCEPT ![f[1]] = w[f[1]]], w, n, st \cup un)
    BY ONLY <1>1, <1>3, <1>6, <2>1, <2>2, <2>3, <2>5, BehindCut, Good(s.mem, n, {}), Good(r.mem, n, {}),
            Inodes(r.mem, n) = Inodes(s.mem, n), f \in Inodes(s.mem, n), f # Root, r.mem[f[1]].kind = "files"
  <2>7. QED  BY <2>6
<1> HIDE DEF un, z
<1>8. left \in SUBSET StaleEntries
  BY <1>6 DEF Left
<1>9. Behind(e, w, n, left)
  <2>1. [e EXCEPT ![f[1]] = w[f[1]]] = e
    BY <1>1, <1>2 DEF Memory
  <2>2. Behind([e EXCEPT ![f[1]] = w[f[1]]], w, n, Left(both, f[1]))
    BY <1>1, <1>2, <1>6, <1>7, BehindFlush
  <2>3. QED  BY <2>1, <2>2
<1>10. Marked(e, w)
  <2>1. FreeIn(e) = FreeIn(d)
    BY <1>1, <1>2, Sizes DEF FreeIn, Memory
  <2>2. QED  BY <2>1 DEF Safe, Marked
<1>11. Clear(e, left)
  BY <1>1, <1>9, <1>10, ClearLemma
<1>12. Clear(d, both)
  <2>1. Clear(d, st)
    BY <1>4 DEF Fine
  <2>2. \A p : ShownIn(d, both, p) => ShownIn(d, st, p)
    BY DEF ShownIn
  <2>3. QED  BY <2>1, <2>2 DEF Clear
<1>13. Directory(e) = Directory(d)
  <2>1. Root[1] \in Block /\ Root[1] = Super /\ Super # f[1]
    BY <1>2, Sizes DEF Root
  <2>2. File(e, Root) = File(d, Root)
    BY <1>1, <1>2, <2>1 DEF File, Memory
  <2>3. Root \in Inodes(m, n)
    BY DEF Inodes
  <2>4. File(d, Root).indirect # 0 => File(d, Root).indirect = File(m, Root).indirect
    BY <1>3, <2>3 DEF Behind, Shows
  <2>5. File(m, Root).indirect # f[1] /\ File(m, Root).indirect \in {0} \cup Block
    BY <2>3, Apart
  <2>6. File(d, Root).indirect # 0 => e[File(d, Root).indirect] = d[File(d, Root).indirect]
    BY <1>1, <1>2, <2>4, <2>5 DEF Memory
  <2>7. \A k : Ptr(e, Root, k) = Ptr(d, Root, k)
    <3>1. /\ File(e, Root).direct = File(d, Root).direct /\ File(e, Root).indirect = File(d, Root).indirect
          /\ File(d, Root).indirect # 0 => e[File(d, Root).indirect] = d[File(d, Root).indirect]
      BY <2>2, <2>6
    <3> HIDE DEF d, e
    <3>2. QED  BY <3>1 DEF Ptr
  <2>8. QED  BY <2>2, <2>7, SameDirectory
<1>14. /\ c.mem \in Memory /\ c.held \subseteq Inodes(w, n) /\ c.held \subseteq Places
       /\ \A g \in c.held : Agrees(w, c.mem, g)
  <2>1. /\ c.mem \in Memory /\ c.held \subseteq Inodes(m, n) /\ \A g \in c.held : Agrees(m, c.mem, g)
    BY DEF Safe, Traced
  <2>2. Others(m, w, n, f)
    <3>1. {f[1], File(m, f).indirect, Bitmap} \subseteq OfFile(m, f, {})
      <4>1. Capacity \in Slots /\ PtrAt(m, f, Capacity) = File(m, f).indirect
        BY SlotsLemma
      <4>2. QED  BY <4>1 DEF OfFile
    <3>2. QED  BY <3>1, OthersLemma DEF ChangesCut
  <2>3. \A g \in c.held : Agrees(w, m, g)
    BY <2>1, <2>2 DEF Others
  <2>4. \A g \in c.held : Agrees(w, c.mem, g)
    BY <2>1, <2>3, AgreesVia
  <2>5. Inodes(m, n) \subseteq Places
    BY InodePlaces DEF Good
  <2>6. QED  BY <2>1, <2>4, <2>5
<1>15. Holds(d, c) /\ Holds(e, c)
  <2>1. Holds(d, c)
    BY <1>4 DEF Fine
  <2>2. \A g \in c.held : Agrees([d EXCEPT ![f[1]] = w[f[1]]], c.mem, g)
    BY <1>1, <1>2, <1>14, <2>1, AgreesFlush DEF Holds
  <2>3. QED  BY <1>13, <2>1, <2>2 DEF Holds
<1>16. \A x : x \in Fine(z) <=> x \in Disks /\ Clear(x[1], x[2]) /\ Holds(x[1], c)
  BY <1>5 DEF Fine, Holds
<1>17. <<d, both>> \in Fine(z) /\ <<e, left>> \in Fine(z) /\ <<e, both>> \in Fine(z)
  <2>1. <<d, both>> \in Disks /\ <<e, left>> \in Disks /\ <<e, both>> \in Disks
    BY <1>1, <1>6, <1>8 DEF Disks
  <2>2. Clear(e, both)
    BY <1>1, <1>6, <1>7, <1>10, ClearLemma
  <2> HIDE DEF both, left
  <2>3. QED  BY <1>11, <1>12, <1>15, <1>16, <2>1, <2>2
<1>18. ASSUME NEW so \in SUBSET StaleEntries, Trail(Fine(z), z.start, r.log, <<e, so>>), Behind(e, w, n, so)
       PROVE  Safe(r, n, z)
  <2>1. \A g \in z.held : Agrees(w, z.mem, g)
    BY <1>5, <1>14
  <2>2. QED  BY <1>5, <1>10, <1>14, <1>18, <2>1 DEF Safe, Traced
<1>19. CASE e = d /\ r.log = <<>>
  <2>1. Trail(Fine(z), z.start, r.log, <<e, both>>)
    <3>1. Trail(Fine(z), z.start, <<>>, <<d, both>>)
      BY <1>5, <1>17, TrailNone
    <3>2. QED  BY <1>19, <3>1
  <2>2. QED  BY <1>6, <1>7, <1>18, <2>1 DEF z, un
<1>20. CASE r.log = Append(<<>>, <<f[1], w[f[1]]>>)
  <2> DEFINE entry == <<f[1], w[f[1]]>>
  <2>1. entry \in Block \X Content /\ <<>> \in Seq(Block \X Content)
    BY <1>1, <1>2 DEF Memory
  <2>2. Wrote(<<d, both>>, entry) = <<e, left>>
    BY DEF Wrote
  <2> HIDE DEF both, left, entry
  <2>3. Trail(Fine(z), z.start, <<>>, <<d, both>>)
    BY <1>5, <1>17, TrailNone DEF both
  <2>4. Trail(Fine(z), z.start, Append(<<>>, entry), Wrote(<<d, both>>, entry))
    BY <1>17, <2>1, <2>2, <2>3, TrailAppend
  <2>5. Trail(Fine(z), z.start, r.log, <<e, left>>)
    BY <1>20, <2>2, <2>4 DEF entry
  <2>6. QED  BY <1>8, <1>9, <1>18, <2>5 DEF z, un, left
<1>21. QED  BY <1>19, <1>20 DEF z, un

LEMMA FileSetSizeLemma ==
    ASSUME NEW s, NEW n, Runs(s, n), NEW f, f # Root, Live(s.mem, n, f), NEW newsize \in Nat
    PROVE  LET r == FileSetSize(s, f, newsize)
           IN  /\ Runs(r, n) /\ r.err = s.err /\ Resized(s.mem, r.mem, n, f, newsize)
               /\ Alters(s.mem, r.mem, n, f, From(newsize))
               /\ newsize >= File(s.mem, f).size => Safely(s, r, n, f)
               /\ \A c : newsize < File(s.mem, f).size /\ s.log = <<>> /\ f \notin c.held /\ Safe(s, n, c)
                        => Safe(r, n, WithStale(c, UnclearedIn(s.mem, s.disk, f, newsize)))
<1> DEFINE m == s.mem
           t == IF File(m, f).size > newsize THEN TruncateBlocks(s, f, newsize) ELSE s
           file == [File(t.mem, f) EXCEPT !.size = newsize]
           q == PutFile(t, f, file)
           r == FileSetSize(s, f, newsize)
<1> HIDE DEF Content, Block, State, FileType
<1>1. s \in State /\ Good(m, n, {}) /\ f \in Inodes(m, n) \ {Root} /\ File(m, f).name # NoName
  BY DEF Runs, Live
<1>2. m \in Memory /\ Inodes(m, n) \subseteq Places /\ f \in Places
  BY <1>1, InodePlaces DEF Good
<1>3. File(m, f) \in FileType /\ File(m, f).size \in Nat
  BY <1>2, PtrTypes
<1>4. /\ Good(t.mem, n, {}) /\ Inodes(t.mem, n) = Inodes(m, n) /\ SameNames(m, t.mem, n)
      /\ t \in State /\ t.err = s.err /\ t.disk = s.disk /\ t.log = s.log
      /\ \A i \in 0 .. Capacity - 1 : i >= NBlocks(newsize) => Ptr(t.mem, f, i) = 0
      /\ newsize >= File(m, f).size => t = s
      /\ newsize < File(m, f).size =>
            /\ ChangesCut(m, t.mem, n, f) /\ FreeIn(m) \subseteq FreeIn(t.mem)
            /\ Cut(m, t.mem, n, f, Lost(File(m, f), newsize))
  <2>1. CASE File(m, f).size > newsize
    <3> DEFINE rel == Released(m, f, newsize)
               u == [s EXCEPT !.mem = rel]
               short == ShorterFile(File(m, f), newsize)
    <3>1. t = PutFile(u, f, short)
      BY <2>1 DEF TruncateBlocks, Released, ShorterFile, CutFrom
    <3>2. rel \in Memory
      BY <1>1, ReleasedLemma
    <3>3. short \in FileType
      BY <1>3, ShorterLemma
    <3>4. LET w == WithFile(rel, f, short)
          IN  /\ Good(w, n, {}) /\ SameNames(m, w, n) /\ Inodes(w, n) = Inodes(m, n)
              /\ \A i \in 0 .. Capacity - 1 : i >= NBlocks(newsize) => Ptr(w, f, i) = 0
              /\ ChangesCut(m, w, n, f) /\ FreeIn(m) \subseteq FreeIn(w)
              /\ Cut(m, w, n, f, Lost(File(m, f), newsize))
      BY <1>1, TruncatedLemma DEF Truncated
    <3> HIDE DEF rel, short
    <3>5. u \in State /\ u.mem = rel /\ u.err = s.err /\ u.disk = s.disk /\ u.log = s.log
      BY <1>1, <3>2, SetMem
    <3> HIDE DEF u, t
    <3>6. t \in State /\ t.mem = WithFile(rel, f, short) /\ t.err = s.err /\ t.disk = s.disk /\ t.log = s.log
      BY <1>2, <3>1, <3>3, <3>5, PutFileLemma
    <3>7. QED  BY <1>3, <2>1, <3>4, <3>6
  <2>2. CASE ~ (File(m, f).size > newsize)
    <3>1. t = s
      BY <2>2
    <3>2. SameNames(m, m, n)
      BY DEF SameNames
    <3>3. NBlocks(File(m, f).size) <= NBlocks(newsize) /\ NBlocks(File(m, f).size) \in Nat /\ NBlocks(newsize) \in Nat
      BY <1>3, <2>2, RoundingGrows, Rounding
    <3>4. ASSUME NEW i \in 0 .. Capacity - 1, i >= NBlocks(newsize)  PROVE Ptr(m, f, i) = 0
      <4>1. i >= NBlocks(File(m, f).size)
        BY <3>3, <3>4
      <4>2. QED  BY <1>1, <4>1 DEF Good, Ends
    <3>5. QED  BY <1>1, <1>3, <2>2, <3>1, <3>2, <3>4
  <2>3. QED  BY <2>1, <2>2
<1> HIDE DEF t
<1>5. t \in State /\ Good(t.mem, n, {}) /\ Inodes(t.mem, n) = Inodes(m, n) /\ SameNames(m, t.mem, n)
  BY <1>4
<1>6. t.mem \in Memory /\ File(t.mem, f) \in FileType
  BY <1>2, <1>5, StateFields, PtrTypes
<1>7. /\ file \in FileType /\ file.name = File(t.mem, f).name /\ file.size = newsize
      /\ file.direct = File(t.mem, f).direct /\ file.indirect = File(t.mem, f).indirect
  BY <1>6 DEF FileType
<1>8. r = FlushBlock(q, f[1])
  BY DEF FileSetSize, t
<1> HIDE DEF file
<1> DEFINE w == WithFile(t.mem, f, file)
<1>9. file.name # NoName
  BY <1>1, <1>5, <1>7 DEF SameNames
<1>10. /\ Good(w, n, {}) /\ SamePointers(t.mem, w, n)
       /\ File(w, f) = file
       /\ \A g \in Inodes(t.mem, n) : g # f => File(w, g) = File(t.mem, g)
       /\ FreeIn(w) = FreeIn(t.mem) /\ ChangesFile(t.mem, w, n, f)
  BY <1>1, <1>4, <1>5, <1>7, <1>9, RestateLemma
<1>11. q \in State /\ q.mem = w /\ q.err = t.err /\ q.disk = s.disk /\ q.log = s.log
  BY <1>2, <1>4, <1>5, <1>7, PutFileLemma
<1>16. w \in Memory /\ w[f[1]].kind = "files"
  BY <1>2, <1>6, <1>7, WithFileLemma
<1> HIDE DEF q, w, r
<1>12. /\ r \in State /\ r.mem = w /\ r.err = t.err
       /\ r.disk = [s.disk EXCEPT ![f[1]] = w[f[1]]]
       /\ (r.disk = s.disk /\ r.log = s.log) \/ r.log = Append(s.log, <<f[1], w[f[1]]>>)
  <2>1. f[1] \in Block
    BY <1>2 DEF Places
  <2>2. /\ r \in State /\ r.mem = q.mem /\ r.err = q.err
        /\ r.disk = [q.disk EXCEPT ![f[1]] = q.mem[f[1]]]
        /\ (r.disk = q.disk /\ r.log = q.log) \/ r.log = Append(q.log, <<f[1], q.mem[f[1]]>>)
    BY <1>8, <1>11, <2>1, FlushBlockLemma
  <2>3. QED  BY <1>11, <2>2
<1>13. Inodes(w, n) = Inodes(m, n)
  BY <1>5, <1>10, SamePointersLemma
<1>14. Resized(m, w, n, f, newsize)
  BY <1>5, <1>7, <1>10, <1>13 DEF Resized, SameNames
<1>17. f[1] \in Block \ {Super, Bitmap}
  BY <1>1, NotSuper
<1>18. ASSUME newsize >= File(m, f).size  PROVE Safely(s, r, n, f)
  <2>1. t = s
    BY <1>4, <1>18
  <2>2. Touches(m, w, n, f, {f[1]}) /\ {f[1]} \subseteq OfFile(m, f, {})
    BY <1>10, <2>1 DEF ChangesFile, OfFile
  <2>3. NDir(m) <= NDir(w)
    <3>1. Root \in Inodes(m, n) /\ Root # f
      BY <1>1 DEF Inodes
    <3>2. NDir(m) = NDir(w) /\ NDir(m) \in Nat
      BY <1>2, <1>10, <2>1, <3>1, NDirType DEF NDir
    <3> HIDE DEF NDir
    <3>3. QED  BY <3>2
  <2>4. Safely(s, q, n, f)
    BY <1>1, <1>10, <1>11, <2>1, <2>2, <2>3, SafelySame
  <2>5. Safely(q, r, n, f)
    BY <1>8, <1>10, <1>11, <1>17, SafelyFlush
  <2>6. QED  BY <2>4, <2>5, SafelyTrans
<1>19. ASSUME NEW c, newsize < File(m, f).size, s.log = <<>>, f \notin c.held, Safe(s, n, c)
       PROVE  Safe(r, n, WithStale(c, UnclearedIn(m, s.disk, f, newsize)))
  <2>1. /\ ChangesCut(m, t.mem, n, f) /\ FreeIn(m) \subseteq FreeIn(t.mem)
        /\ Cut(m, t.mem, n, f, Lost(File(m, f), newsize))
    BY <1>4, <1>19
  <2>2. Cut(m, r.mem, n, f, Lost(File(m, f), newsize)) /\ ChangesCut(m, r.mem, n, f)
    BY <1>4, <1>10, <1>12, <2>1 DEF Cut, SamePointers, ChangesCut, ChangesFile, Touches
  <2>3. /\ r \in State /\ Good(r.mem, n, {}) /\ Inodes(r.mem, n) = Inodes(m, n)
        /\ FreeIn(m) \subseteq FreeIn(r.mem) /\ r.mem[f[1]].kind = "files"
        /\ r.disk = [s.disk EXCEPT ![f[1]] = r.mem[f[1]]]
        /\ (r.disk = s.disk /\ r.log = s.log) \/ r.log = Append(s.log, <<f[1], r.mem[f[1]]>>)
    BY <1>10, <1>12, <1>13, <1>16, <2>1
  <2>4. s \in State /\ Good(s.mem, n, {}) /\ f \in Inodes(s.mem, n) /\ f # Root /\ newsize \in Nat
    BY <1>1
  <2>5. s.log = <<>> /\ f \notin c.held /\ Safe(s, n, c)
    BY <1>19
  <2> HIDE DEF m
  <2>6. Safe(r, n, WithStale(c, UnclearedIn(s.mem, s.disk, f, newsize)))
    BY ONLY <2>2, <2>3, <2>4, <2>5, CutSafe DEF m
  <2>7. QED  BY <2>6 DEF m
<1>20. Alters(m, w, n, f, From(newsize))
  <2>1. Alters(m, t.mem, n, f, From(newsize))
    <3>1. CASE newsize >= File(m, f).size
      BY <1>4, <3>1, AltersSelf
    <3>2. CASE ~ (newsize >= File(m, f).size)
      <4>1. newsize < File(m, f).size
        BY <1>3, <3>2
      <4>2. QED  BY <1>1, <1>4, <4>1, AltersCut
    <3>3. QED  BY <3>1, <3>2
  <2>2. Alters(t.mem, w, n, f, {})
    <3>1. {f[1]} \subseteq Meta(t.mem, f, {}) /\ f \in Inodes(t.mem, n)
      BY <1>1, <1>5 DEF Meta
    <3>2. QED  BY <1>5, <1>10, <3>1, AltersSame DEF ChangesFile
  <2>3. Alters(t.mem, w, n, f, From(newsize))
    BY <2>2, AltersWider
  <2>4. QED  BY <1>5, <2>1, <2>3, AltersTrans
<1>15. QED  BY <1>4, <1>10, <1>12, <1>14, <1>18, <1>19, <1>20 DEF Runs, r

-----------------------------------------------------------------------------
(* The loops over the blocks of a file.                                     *)

(* There is a function that takes the steps F.                              *)
Steps(k, M, z, F) ==
    \E g \in [0 .. k -> M] : g[0] = z /\ \A i \in 1 .. k : g[i] = F[i - 1][g[i - 1]]
LEMMA StepsLemma ==
    ASSUME NEW k \in Nat, NEW M, NEW z \in M, NEW F,
           \A i \in 0 .. k - 1 : \A x \in M : F[i][x] \in M
    PROVE  Steps(k, M, z, F)
<1>1. PICK g \in [0 .. k -> M] : g[0] = z /\ \A i \in 0 .. k - 1 : g[i + 1] = F[i][g[i]]
  <2>1. Stepwise(k, M, z, F)
    BY StepwiseFunction
  <2>2. QED  BY <2>1 DEF Stepwise
<1>2. ASSUME NEW i \in 1 .. k  PROVE g[i] = F[i - 1][g[i - 1]]
  <2>1. i - 1 \in 0 .. k - 1 /\ (i - 1) + 1 = i
    OBVIOUS
  <2>2. g[(i - 1) + 1] = F[i - 1][g[i - 1]]
    BY <1>1, <2>1
  <2>3. QED  BY <2>1, <2>2
<1>3. QED  BY <1>1, <1>2 DEF Steps

(* A function that takes these steps stays where they stay.                 *)
Follows(k, M, z, F, h) == h[0] = z /\ \A i \in 1 .. k : h[i - 1] \in M => h[i] = F[i - 1][h[i - 1]]
LEMMA StaysLemma ==
    ASSUME NEW k \in Nat, NEW M, NEW z \in M, NEW F,
           \A i \in 0 .. k - 1 : \A x \in M : F[i][x] \in M,
           NEW h, Follows(k, M, z, F, h)
    PROVE  h[k] \in M
<1> DEFINE S == {i \in 0 .. k : h[i] \in M}
<1>1. 0 \in S
  BY DEF Follows
<1>2. ASSUME NEW i \in 0 .. k - 1, i \in S  PROVE i + 1 \in S
  <2>1. i + 1 \in 1 .. k /\ (i + 1) - 1 = i /\ h[i] \in M
    BY <1>2
  <2>2. h[i + 1] = F[i][h[i]]
    BY <2>1 DEF Follows
  <2>3. QED  BY <2>1, <2>2
<1> HIDE DEF S
<1>3. 0 .. k \subseteq S
  BY <1>1, <1>2, InductiveTo
<1>4. QED  BY <1>3 DEF S

\* And it comes to where they lead.
LEMMA ReachesLemma ==
    ASSUME NEW k \in Nat, NEW M, NEW z, NEW F, NEW h, Follows(k, M, z, F, h),
           NEW N, z \in N[0], \A i \in 0 .. k : N[i] \subseteq M,
           \A i \in 0 .. k - 1 : \A x \in N[i] : F[i][x] \in N[i + 1]
    PROVE  h[k] \in N[k]
<1> DEFINE S == {i \in 0 .. k : h[i] \in N[i]}
<1>1. 0 \in S
  BY DEF Follows
<1>2. ASSUME NEW i \in 0 .. k - 1, i \in S  PROVE i + 1 \in S
  <2>1. i \in 0 .. k /\ i + 1 \in 0 .. k /\ i + 1 \in 1 .. k /\ (i + 1) - 1 = i /\ h[i] \in N[i]
    BY <1>2
  <2>2. h[i + 1] = F[i][h[i]]
    BY <2>1 DEF Follows
  <2>3. QED  BY <2>1, <2>2
<1> HIDE DEF S
<1>3. 0 .. k \subseteq S
  BY <1>1, <1>2, InductiveTo
<1>4. QED  BY <1>3 DEF S

LEMMA FileReadLemma ==
    ASSUME NEW s, NEW n, Runs(s, n), ~ Failed(s), NEW f, f # Root, Live(s.mem, n, f),
           NEW offset \in Nat, NEW count \in Nat
    PROVE  LET r == FileRead(s, f, offset, count)
           IN  Keeps(s, r, n, f) /\ Alters(s.mem, r.mem, n, f, {})
<1> DEFINE size == File(s.mem, f).size
           end == Min({size, offset + count})
           first == offset \div BLKSIZE
           k == NBlocks(end) - first
           op(t, j) == IF Failed(t) THEN t ELSE GetBlock(t, f, first + j - 1)
           after[j \in 0 .. k] == IF j = 0 THEN s ELSE op(after[j - 1], j)
           M == {x \in State : Keeps(s, x, n, f) /\ Alters(s.mem, x.mem, n, f, {})}
           F == [i \in 0 .. k - 1 |-> [x \in M |-> op(x, i + 1)]]
           r == FileRead(s, f, offset, count)
<1>1. r = IF offset >= end THEN s ELSE after[k]
  BY Zenon DEF FileRead, ForBlocks
<1> HIDE DEF State, Block, Content
<1>2. s \in State /\ s \in M
  BY KeepsSelf, AltersSelf DEF Runs
<1>3. size \in Nat
  BY InodePlaces, PtrTypes DEF Runs, Good, Live
<1>4. end \in Nat /\ end <= size
  <2>1. {size, offset + count} \subseteq Nat /\ {size, offset + count} # {}
    BY <1>3
  <2>2. \E b \in {size, offset + count} : \A c \in {size, offset + count} : b <= c
    BY <2>1, LeastNumber
  <2>3. end \in {size, offset + count} /\ end <= size
    BY <2>2 DEF Min
  <2>4. QED  BY <2>1, <2>3
<1> HIDE DEF end
<1>5. CASE offset >= end
  BY <1>1, <1>2, <1>5
<1>6. CASE ~ (offset >= end)
  <2>1. first \in Nat /\ NBlocks(end) \in Nat /\ first <= NBlocks(end) /\ NBlocks(end) <= NBlocks(size) /\ k \in Nat
    <3>1. offset <= end
      BY <1>4, <1>6
    <3>2. first \in Nat /\ NBlocks(end) \in Nat
      BY <1>4, Rounding
    <3>3. first <= NBlocks(end)
      BY <1>4, <3>1, RoundingGrows
    <3>4. NBlocks(end) <= NBlocks(size)
      BY <1>3, <1>4, RoundingGrows
    <3> HIDE DEF first, size, NBlocks
    <3>5. QED  BY <3>2, <3>3, <3>4
  <2> HIDE DEF first, size
  <2>2. ASSUME NEW i \in 0 .. k - 1, NEW x \in M  PROVE op(x, i + 1) \in M
    <3>1. CASE Failed(x)
      BY <3>1
    <3>2. CASE ~ Failed(x)
      <4>1. /\ Runs(x, n) /\ Live(x.mem, n, f) /\ File(x.mem, f).size = size
        BY DEF Keeps, Live, SameNames, size
      <4>2. first + (i + 1) - 1 \in Nat /\ first + (i + 1) - 1 < NBlocks(size) /\ NBlocks(size) \in Nat
        BY <1>3, <2>1, Rounding
      <4> DEFINE y == GetBlock(x, f, first + (i + 1) - 1)
      <4>3. Keeps(x, y, n, f) /\ Alters(x.mem, y.mem, n, f, {})
        BY <3>2, <4>1, <4>2, GetBlockLemma
      <4> HIDE DEF y
      <4>4. Keeps(s, y, n, f) /\ y \in State /\ Alters(s.mem, y.mem, n, f, {})
        BY <4>3, KeepsTrans, AltersTrans DEF Keeps, Runs
      <4>5. QED  BY <3>2, <4>4 DEF y
    <3>3. QED  BY <3>1, <3>2
  <2> HIDE DEF M
  <2>3. \A i \in 0 .. k - 1 : \A x \in M : F[i][x] = op(x, i + 1)
    OBVIOUS
  <2>4. \A j \in 1 .. k : \A x \in M : F[j - 1][x] = op(x, j)
    <3>1. ASSUME NEW j \in 1 .. k  PROVE j - 1 \in 0 .. k - 1 /\ (j - 1) + 1 = j
      BY <2>1
    <3> HIDE DEF F, op
    <3>2. QED  BY <2>3, <3>1
  <2> HIDE DEF F, op, k
  <2>5. \A i \in 0 .. k - 1 : \A x \in M : F[i][x] \in M
    BY <2>2, <2>3
  <2>6. PICK g \in [0 .. k -> M] : g[0] = s /\ \A j \in 1 .. k : g[j] = F[j - 1][g[j - 1]]
    <3>1. Steps(k, M, s, F)
      BY <1>2, <2>1, <2>5, StepsLemma
    <3>2. QED  BY <3>1 DEF Steps
  <2>7. \A j \in 0 .. k : g[j] = IF j = 0 THEN s ELSE op(g[j - 1], j)
    <3>1. ASSUME NEW j \in 0 .. k, j # 0  PROVE j \in 1 .. k /\ j - 1 \in 0 .. k
      BY <2>1, <3>1
    <3>2. ASSUME NEW j \in 0 .. k, j # 0  PROVE g[j] = op(g[j - 1], j)
      <4>1. j \in 1 .. k /\ g[j - 1] \in M
        BY <2>6, <3>1, <3>2
      <4>2. QED  BY <2>4, <2>6, <4>1
    <3>3. QED  BY <2>6, <3>2
  <2>8. g = [j \in 0 .. k |-> IF j = 0 THEN s ELSE op(g[j - 1], j)]
    BY <2>6, <2>7
  <2>9. after = [j \in 0 .. k |-> IF j = 0 THEN s ELSE op(after[j - 1], j)]
    BY <2>8
  <2> HIDE DEF after
  <2>10. Follows(k, M, s, F, after)
    <3>1. 0 \in 0 .. k /\ \A j \in 1 .. k : j \in 0 .. k /\ j # 0
      BY <2>1
    <3>2. QED  BY <2>4, <2>9, <3>1 DEF Follows
  <2>11. after[k] \in M
    BY <1>2, <2>1, <2>5, <2>10, StaysLemma
  <2>12. QED  BY <1>1, <1>6, <2>11 DEF M
<1>7. QED  BY <1>5, <1>6

SameOthers(m, w, n, f) ==
    /\ Inodes(w, n) = Inodes(m, n)
    /\ \A g \in Inodes(m, n) : File(w, g).name = File(m, g).name
    /\ \A g \in Inodes(m, n) \ {f} : File(w, g).size = File(m, g).size

\* The call r writes b to bytes offset .. offset + count - 1 of f, as far as
\* there are blocks for them.
Puts(m, r, n, f, offset, count, b) ==
    LET size == File(r.mem, f).size
        W == offset .. offset + count - 1
    IN  /\ size = IF offset + count > File(m, f).size THEN offset + count ELSE File(m, f).size
        /\ Alters(m, r.mem, n, f, From(size) \cup W)
        /\ r.err # "panic" => \A p \in W : p \div BLKSIZE < Capacity => ByteAt(r.mem, f, p) = b

LEMMA FileWriteLemma ==
    ASSUME NEW s, NEW n, Runs(s, n), ~ Failed(s), NEW f, f # Root, Live(s.mem, n, f),
           NEW offset \in Nat, NEW count \in Nat \ {0}, NEW b \in Byte
    PROVE  LET r == FileWrite(s, f, offset, count, b)
           IN  /\ Runs(r, n) /\ SameOthers(s.mem, r.mem, n, f) /\ Safely(s, r, n, f)
               /\ Puts(s.mem, r, n, f, offset, count, b)
<1> DEFINE end == offset + count
           W == offset .. end - 1
           t == IF end > File(s.mem, f).size THEN FileSetSize(s, f, end) ELSE s
           first == offset \div BLKSIZE
           k == NBlocks(end) - first
           put(u, i) == LET g == GetBlock(u, f, i)
                        IN  IF Failed(g) THEN g ELSE PutBytes(g, f, i, offset .. end - 1, b)
           op(u, j) == IF Failed(u) THEN u ELSE put(u, first + j - 1)
           after[j \in 0 .. k] == IF j = 0 THEN t ELSE op(after[j - 1], j)
           M == {x \in State : Keeps(t, x, n, f) /\ Alters(t.mem, x.mem, n, f, W)}
           F == [i \in 0 .. k - 1 |-> [x \in M |-> op(x, i + 1)]]
           r == FileWrite(s, f, offset, count, b)
<1>1. r = after[k]
  BY Zenon DEF FileWrite, ForBlocks
<1> HIDE DEF State, Block, Content, Byte
<1>2. /\ t \in State /\ Runs(t, n) /\ t \in M /\ ~ Failed(t)
      /\ SameOthers(s.mem, t.mem, n, f) /\ Live(t.mem, n, f)
      /\ File(t.mem, f).size \in Nat /\ end <= File(t.mem, f).size
      /\ File(t.mem, f).size = IF end > File(s.mem, f).size THEN end ELSE File(s.mem, f).size
      /\ Safely(s, t, n, f) /\ Alters(s.mem, t.mem, n, f, From(File(t.mem, f).size))
      /\ end \in Nat /\ W \subseteq Nat
  <2>1. f \in Inodes(s.mem, n) /\ File(s.mem, f).size \in Nat /\ end \in Nat
    BY InodePlaces, PtrTypes DEF Runs, Good, Live
  <2>2. /\ Runs(t, n) /\ ~ Failed(t) /\ SameOthers(s.mem, t.mem, n, f)
        /\ File(t.mem, f).size \in Nat /\ end <= File(t.mem, f).size
        /\ File(t.mem, f).size = IF end > File(s.mem, f).size THEN end ELSE File(s.mem, f).size
        /\ Safely(s, t, n, f) /\ Alters(s.mem, t.mem, n, f, From(File(t.mem, f).size))
    <3>1. CASE end > File(s.mem, f).size
      <4>1. LET q == FileSetSize(s, f, end)
            IN  /\ Runs(q, n) /\ q.err = s.err /\ Resized(s.mem, q.mem, n, f, end)
                /\ end >= File(s.mem, f).size => Safely(s, q, n, f)
                /\ Alters(s.mem, q.mem, n, f, From(end))
        BY <2>1, FileSetSizeLemma
      <4>2. t = FileSetSize(s, f, end)
        BY <3>1
      <4> HIDE DEF t, end
      <4>3. QED  BY <2>1, <3>1, <4>1, <4>2 DEF Resized, SameOthers, Failed
    <3>2. CASE ~ (end > File(s.mem, f).size)
      BY <2>1, <3>2, AltersSelf DEF SameOthers, Safely
    <3>3. QED  BY <3>1, <3>2
  <2>5. W \subseteq Nat
    BY <2>1
  <2> HIDE DEF t, end, W
  <2>3. Live(t.mem, n, f)
    BY <2>1, <2>2 DEF Live, SameOthers
  <2>4. QED  BY <2>1, <2>2, <2>3, <2>5, KeepsSelf, AltersSelf DEF Runs
<1> HIDE DEF t
<1>3. first \in Nat /\ NBlocks(end) \in Nat /\ first <= NBlocks(end)
      /\ NBlocks(end) <= NBlocks(File(t.mem, f).size) /\ k \in Nat
  <2>1. end \in Nat /\ offset <= end /\ File(t.mem, f).size \in Nat /\ end <= File(t.mem, f).size
    BY <1>2
  <2>2. first \in Nat /\ NBlocks(end) \in Nat
    BY <2>1, Rounding
  <2> HIDE DEF end
  <2>3. first <= NBlocks(end) /\ NBlocks(end) <= NBlocks(File(t.mem, f).size)
    BY <2>1, RoundingGrows
  <2> HIDE DEF first, NBlocks
  <2>4. QED  BY <2>2, <2>3
<1> HIDE DEF first
<1>26. ASSUME NEW i \in 0 .. k - 1
       PROVE  /\ i \in Nat /\ i \in 0 .. k /\ i + 1 \in 0 .. k /\ first + (i + 1) - 1 = first + i
              /\ first + i \in Nat /\ first + i < NBlocks(File(t.mem, f).size)
              /\ NBlocks(File(t.mem, f).size) \in Nat
  <2>1. NBlocks(File(t.mem, f).size) \in Nat
    BY <1>2, Rounding
  <2> HIDE DEF NBlocks, end
  <2>2. QED  BY <1>3, <2>1
<1>4. ASSUME NEW i \in 0 .. k - 1, NEW x \in M  PROVE op(x, i + 1) \in M
  <2>1. CASE Failed(x)
    BY <2>1
  <2>2. CASE ~ Failed(x)
    <3> DEFINE j == first + (i + 1) - 1
               y == GetBlock(x, f, j)
               z == PutBytes(y, f, j, offset .. end - 1, b)
    <3>1. Runs(x, n) /\ Live(x.mem, n, f) /\ File(x.mem, f).size = File(t.mem, f).size
      BY <1>2 DEF Keeps, Live, SameNames
    <3>2. j \in Nat /\ j < NBlocks(File(t.mem, f).size) /\ NBlocks(File(t.mem, f).size) \in Nat
      BY <1>26
    <3>3. op(x, i + 1) = IF Failed(y) THEN y ELSE z
      BY <2>2
    <3> HIDE DEF op, j
    <3>4. /\ Keeps(x, y, n, f) /\ (~ Failed(y) => j < Capacity /\ Ptr(y.mem, f, j) # 0)
          /\ Alters(x.mem, y.mem, n, f, {})
      BY <2>2, <3>1, <3>2, GetBlockLemma
    <3> HIDE DEF y, W
    <3>5. /\ Keeps(t, y, n, f) /\ y \in State /\ Runs(y, n) /\ f \in Inodes(y.mem, n) \ {Root}
          /\ Alters(t.mem, y.mem, n, f, W)
      <4>1. Alters(x.mem, y.mem, n, f, W)
        BY <3>4, AltersWider
      <4>2. QED  BY <1>2, <3>4, <4>1, KeepsTrans, AltersTrans DEF Keeps, Runs, Live
    <3>6. CASE Failed(y)
      BY <3>3, <3>5, <3>6
    <3>7. CASE ~ Failed(y)
      <4>1. j \in 0 .. Capacity - 1
        BY <3>2, <3>4, <3>7, Sizes
      <4>2. Keeps(y, z, n, f) /\ Alters(y.mem, z.mem, n, f, W)
        BY <1>2, <3>4, <3>5, <3>7, <4>1, PutBytesLemma DEF W
      <4> HIDE DEF z
      <4>3. Keeps(t, z, n, f) /\ z \in State /\ Alters(t.mem, z.mem, n, f, W)
        BY <3>5, <4>2, KeepsTrans, AltersTrans DEF Keeps, Runs
      <4>4. QED  BY <3>3, <3>7, <4>3
    <3>8. QED  BY <3>6, <3>7
  <2>3. QED  BY <2>1, <2>2
\* The bytes of the blocks that have been done are b, up to the capacity.
<1> DEFINE Done(x, i) == \A p \in W :
             p \div BLKSIZE < first + i /\ p \div BLKSIZE < Capacity => ByteAt(x.mem, f, p) = b
           N == [i \in 0 .. k |-> {x \in M : x.err # "panic" =>
                                     Done(x, i) /\ (Failed(x) => first + i > Capacity)}]
<1>17. ASSUME NEW i \in 0 .. k - 1, NEW x \in M, x \in N[i]  PROVE op(x, i + 1) \in N[i + 1]
  <2>1. op(x, i + 1) \in M /\ i \in 0 .. k /\ i + 1 \in 0 .. k /\ i \in Nat
    BY <1>4, <1>17, <1>26
  <2>2. x.err # "panic" => Done(x, i) /\ (Failed(x) => first + i > Capacity)
    BY <1>17, <2>1
  <2>3. \A p \in W : p \in Nat /\ p \div BLKSIZE \in Nat
    BY <1>2, Rounding
  <2> SUFFICES ASSUME op(x, i + 1).err # "panic"
               PROVE  /\ Done(op(x, i + 1), i + 1)
                      /\ Failed(op(x, i + 1)) => first + (i + 1) > Capacity
    <3> HIDE DEF op, M, Done
    <3>1. QED  BY <2>1
  <2>4. CASE Failed(x)
    <3>1. op(x, i + 1) = x
      BY <2>4
    <3> HIDE DEF op
    <3>2. Done(x, i) /\ first + i > Capacity
      BY <2>2, <2>4, <3>1
    <3>3. ASSUME NEW p \in W, p \div BLKSIZE < Capacity  PROVE p \div BLKSIZE < first + i
      <4> DEFINE a == p \div BLKSIZE
                 e == first + i
      <4>1. a \in Nat /\ e \in Nat /\ a < Capacity /\ e > Capacity /\ Capacity \in Nat
        BY <1>26, <2>3, <3>2, <3>3, Sizes
      <4> HIDE DEF a, e
      <4>2. a < e
        BY <4>1
      <4>3. QED  BY <4>2 DEF a, e
    <3>4. Done(x, i + 1)
      <4> HIDE DEF W
      <4>1. QED  BY <3>2, <3>3
    <3>5. first + (i + 1) > Capacity
      BY <1>3, <1>26, <3>2, Sizes
    <3>6. QED  BY <3>1, <3>4, <3>5
  <2>5. CASE ~ Failed(x)
    <3> DEFINE j == first + (i + 1) - 1
               y == GetBlock(x, f, j)
               z == PutBytes(y, f, j, offset .. end - 1, b)
    <3>1. Runs(x, n) /\ Live(x.mem, n, f) /\ File(x.mem, f).size = File(t.mem, f).size
      BY <1>2 DEF Keeps, Live, SameNames
    <3>2. /\ j \in Nat /\ j < NBlocks(File(t.mem, f).size) /\ NBlocks(File(t.mem, f).size) \in Nat
          /\ j = first + i
      BY <1>26
    <3>3. op(x, i + 1) = IF Failed(y) THEN y ELSE z
      BY <2>5
    <3> HIDE DEF op, j
    <3>4. /\ Keeps(x, y, n, f) /\ (~ Failed(y) => j < Capacity /\ Ptr(y.mem, f, j) # 0)
          /\ Alters(x.mem, y.mem, n, f, {}) /\ (Failed(y) => y.err = "panic" \/ j >= Capacity)
      BY <2>5, <3>1, <3>2, GetBlockLemma
    <3> HIDE DEF y, W, M, Done
    <3>5. Runs(y, n) /\ f \in Inodes(y.mem, n) \ {Root}
      BY <1>2, <3>1, <3>4 DEF Keeps, Live
    <3>6. Done(x, i)
      BY <2>2, <2>5 DEF Failed
    <3>7. Done(y, i)
      BY <1>2, <3>4, <3>6, ByteAssumption DEF Done, Alters, KeepsBytes, Byte
    <3>8. CASE Failed(y)
      <4>1. op(x, i + 1) = y /\ j >= Capacity
        BY <3>3, <3>4, <3>8
      <4>2. Done(y, i + 1)
        BY <1>3, <2>1, <2>3, <3>2, <3>7, <4>1, Sizes DEF Done
      <4>3. QED  BY <1>3, <2>1, <3>2, <4>1, <4>2, Sizes
    <3>9. CASE ~ Failed(y)
      <4>1. j \in 0 .. Capacity - 1
        BY <3>2, <3>4, <3>9, Sizes
      <4>2. z.err = y.err /\ Fills(y.mem, z.mem, f, W, j, b)
        BY <1>2, <3>4, <3>5, <3>9, <4>1, PutBytesLemma DEF W
      <4>3. op(x, i + 1) = z
        BY <3>3, <3>9
      <4> HIDE DEF z
      <4>4. Done(z, i + 1)
        <5>1. ASSUME NEW p \in W, p \div BLKSIZE < first + (i + 1), p \div BLKSIZE < Capacity
              PROVE  ByteAt(z.mem, f, p) = b
          <6>1. p \div BLKSIZE = j \/ p \div BLKSIZE < first + i
            BY <1>3, <2>1, <2>3, <3>2, <5>1
          <6>2. p \div BLKSIZE = j \/ ByteAt(y.mem, f, p) = b
            BY <3>7, <5>1, <6>1 DEF Done
          <6>3. QED  BY <4>2, <6>2 DEF Fills
        <5>2. QED  BY <5>1 DEF Done
      <4>5. QED  BY <3>9, <4>2, <4>3, <4>4 DEF Failed
    <3>10. QED  BY <3>8, <3>9
  <2>6. QED  BY <2>4, <2>5
<1>18. t \in N[0]
  <2>1. t \in M /\ ~ Failed(t) /\ 0 \in 0 .. k
    BY <1>2, <1>3
  <2>2. ASSUME NEW p \in W  PROVE ~ (p \div BLKSIZE < first + 0)
    <3>1. p \in Nat /\ offset <= p
      BY <1>2
    <3>2. first <= p \div BLKSIZE /\ p \div BLKSIZE \in Nat
      BY <3>1, BlocksBelow, Rounding DEF first
    <3>3. QED  BY <1>3, <3>2
  <2> HIDE DEF M, W
  <2>3. QED  BY <2>1, <2>2
<1>19. \A i \in 0 .. k : N[i] \subseteq M
  <2> HIDE DEF M
  <2>1. QED  OBVIOUS
<1>20. \A x \in N[k] : x.err # "panic" => \A p \in W : p \div BLKSIZE < Capacity => ByteAt(x.mem, f, p) = b
  <2>1. ASSUME NEW p \in W  PROVE p \div BLKSIZE < first + k
    <3>1. p \in Nat /\ p < end
      BY <1>2
    <3>2. p \div BLKSIZE < NBlocks(end) /\ p \div BLKSIZE \in Nat
      BY <1>2, <3>1, BlocksBelow, Rounding
    <3> HIDE DEF NBlocks, end
    <3>3. QED  BY <1>3, <3>2
  <2>2. k \in 0 .. k
    BY <1>3
  <2> HIDE DEF M, W, k
  <2>3. QED  BY <2>1, <2>2
<1> HIDE DEF put
<1> HIDE DEF M, N
<1>5. \A i \in 0 .. k - 1 : \A x \in M : F[i][x] = op(x, i + 1)
  OBVIOUS
<1>6. \A j \in 1 .. k : \A x \in M : F[j - 1][x] = op(x, j)
  <2>1. ASSUME NEW j \in 1 .. k  PROVE j - 1 \in 0 .. k - 1 /\ (j - 1) + 1 = j
    BY <1>3
  <2> HIDE DEF F, op
  <2>2. QED  BY <1>5, <2>1
<1> HIDE DEF F, op, k
<1>7. \A i \in 0 .. k - 1 : \A x \in M : F[i][x] \in M
  BY <1>4, <1>5
<1>8. PICK g \in [0 .. k -> M] : g[0] = t /\ \A j \in 1 .. k : g[j] = F[j - 1][g[j - 1]]
  <2>1. Steps(k, M, t, F)
    BY <1>2, <1>3, <1>7, StepsLemma
  <2>2. QED  BY <2>1 DEF Steps
<1>9. \A j \in 0 .. k : g[j] = IF j = 0 THEN t ELSE op(g[j - 1], j)
  <2>1. ASSUME NEW j \in 0 .. k, j # 0  PROVE j \in 1 .. k /\ j - 1 \in 0 .. k
    BY <1>3, <2>1
  <2>2. ASSUME NEW j \in 0 .. k, j # 0  PROVE g[j] = op(g[j - 1], j)
    <3>1. j \in 1 .. k /\ g[j - 1] \in M
      BY <1>8, <2>1, <2>2
    <3>2. QED  BY <1>6, <1>8, <3>1
  <2>3. QED  BY <1>8, <2>2
<1>10. g = [j \in 0 .. k |-> IF j = 0 THEN t ELSE op(g[j - 1], j)]
  BY <1>8, <1>9
<1>11. after = [j \in 0 .. k |-> IF j = 0 THEN t ELSE op(after[j - 1], j)]
  BY <1>10
<1> HIDE DEF after
<1>12. Follows(k, M, t, F, after)
  <2>1. 0 \in 0 .. k /\ \A j \in 1 .. k : j \in 0 .. k /\ j # 0
    BY <1>3
  <2>2. QED  BY <1>6, <1>11, <2>1 DEF Follows
<1>21. \A i \in 0 .. k - 1 : \A x \in N[i] : F[i][x] \in N[i + 1]
  <2>1. \A i \in 0 .. k - 1 : i \in 0 .. k
    BY <1>3
  <2>2. QED  BY <1>5, <1>17, <1>19, <2>1
<1>13. after[k] \in M /\ after[k] \in N[k]
  <2>1. after[k] \in N[k]
    BY <1>3, <1>12, <1>18, <1>19, <1>21, ReachesLemma
  <2>2. k \in 0 .. k
    BY <1>3
  <2>3. QED  BY <1>19, <2>1, <2>2
<1>14. Keeps(t, r, n, f) /\ Alters(t.mem, r.mem, n, f, W)
  BY <1>1, <1>13 DEF M
<1>22. r.err # "panic" => \A p \in W : p \div BLKSIZE < Capacity => ByteAt(r.mem, f, p) = b
  BY <1>1, <1>13, <1>20
<1> HIDE DEF r
<1>15. Safely(s, r, n, f)
  BY <1>2, <1>14, SafelyTrans DEF Keeps
<1>23. File(r.mem, f).size = File(t.mem, f).size
  BY <1>2, <1>14 DEF Keeps, SameNames, Live
<1>24. Alters(s.mem, r.mem, n, f, From(File(r.mem, f).size) \cup W)
  <2> HIDE DEF W
  <2>1. /\ Alters(s.mem, t.mem, n, f, From(File(r.mem, f).size) \cup W)
        /\ Alters(t.mem, r.mem, n, f, From(File(r.mem, f).size) \cup W)
    BY <1>2, <1>14, <1>23, AltersWider
  <2>2. Inodes(t.mem, n) = Inodes(s.mem, n)
    BY <1>2 DEF SameOthers
  <2>3. QED  BY <2>1, <2>2, AltersTrans
<1>25. Runs(r, n) /\ SameOthers(s.mem, r.mem, n, f)
  BY <1>2, <1>14 DEF Keeps, SameNames, SameOthers
<1>28. File(r.mem, f).size = IF offset + count > File(s.mem, f).size THEN offset + count ELSE File(s.mem, f).size
  BY <1>2, <1>23
<1>27. Puts(s.mem, r, n, f, offset, count, b)
  BY <1>22, <1>24, <1>28 DEF Puts
<1>16. QED  BY <1>15, <1>25, <1>27 DEF r

\* From s to x blocks have been written out, and those of D at least.
Moved(s, x, D) ==
    /\ x \in State /\ x.mem = s.mem /\ x.err = s.err
    /\ \A b \in Block : s.disk[b] = s.mem[b] \/ b \in D => x.disk[b] = s.mem[b]
    /\ \A n, c : Good(s.mem, n, {}) /\ NDir(s.mem) <= n /\ Safe(s, n, c) => Safe(x, n, c)
LEMMA MovedSelf ==
    ASSUME NEW s \in State
    PROVE  Moved(s, s, {})
  BY DEF Moved
LEMMA MovedFlush ==
    ASSUME NEW s \in State, NEW D, NEW x, Moved(s, x, D), NEW b \in Block
    PROVE  Moved(s, FlushBlock(x, b), D \cup {b})
<1> DEFINE r == FlushBlock(x, b)
<1> HIDE DEF Block, Content, State
<1>1. x \in State /\ x.disk \in Memory
  BY StateFields DEF Moved
<1>2. r \in State /\ r.mem = x.mem /\ r.err = x.err /\ r.disk = [x.disk EXCEPT ![b] = x.mem[b]]
  BY <1>1, FlushBlockLemma
<1> HIDE DEF r
<1>3. ASSUME NEW a \in Block, s.disk[a] = s.mem[a] \/ a \in D \cup {b}
      PROVE  r.disk[a] = s.mem[a]
  BY <1>1, <1>2, <1>3 DEF Moved, Memory
<1> HIDE DEF NDir
<1>4. ASSUME NEW n, NEW c, Good(s.mem, n, {}), NDir(s.mem) <= n, Safe(s, n, c)
      PROVE  Safe(r, n, c)
  <2>1. Safe(x, n, c) /\ Good(x.mem, n, {}) /\ NDir(x.mem) <= n
    BY <1>4 DEF Moved
  <2>2. QED  BY <1>1, <2>1, FlushSafe DEF r
<1>5. QED  BY <1>2, <1>3, <1>4 DEF Moved, r

PtrsBelow(m, f, i) == {Ptr(m, f, j) : j \in 0 .. i - 1}
LEMMA FlushedAgrees ==
    ASSUME NEW s \in State, NEW r, NEW f,
           Moved(s, r, PtrsBelow(s.mem, f, NBlocks(File(s.mem, f).size)) \cup {f[1]} \cup {File(s.mem, f).indirect}),
           NEW n, Good(s.mem, n, {}), f \in Inodes(s.mem, n)
    PROVE  Agrees(r.disk, s.mem, f)
<1> DEFINE m == s.mem
           k == NBlocks(File(m, f).size)
           D == PtrsBelow(m, f, k) \cup {f[1]} \cup {File(m, f).indirect}
<1> HIDE DEF Block, Content, State
<1>1. m \in Memory /\ f \in Places /\ f[1] \in Block /\ Shaped(m) /\ Rooted(m, n)
  BY InodePlaces, Apart DEF Good
<1>2. \A b \in Block : b \in D => r.disk[b] = m[b]
  <2>1. Moved(s, r, D)
    BY Zenon
  <2> HIDE DEF D
  <2>2. QED  BY <2>1 DEF Moved
<1>3. File(r.disk, f) = File(m, f)
  BY <1>1, <1>2 DEF File
<1>4. k \in Nat
  BY <1>1, PtrTypes, Rounding
<1> HIDE DEF k
<1>5. ASSUME NEW i \in OwnSlots(f), PtrAt(m, f, i) # 0
      PROVE  r.disk[PtrAt(m, f, i)] = m[PtrAt(m, f, i)]
  <2>1. i \in Slots
    BY SlotsLemma DEF OwnSlots
  <2>2. PtrAt(m, f, i) \in Block
    BY <1>1, <1>5, <2>1, PtrTypes
  <2>3. PtrAt(m, f, i) \in D
    <3>1. CASE i = Capacity
      BY <3>1, SlotsLemma
    <3>2. CASE i # Capacity
      <4>1. f # Root /\ i \in 0 .. Capacity - 1
        BY <2>1, <3>2, Sizes DEF OwnSlots, Slots
      <4>2. Ptr(m, f, i) # 0 /\ PtrAt(m, f, i) = Ptr(m, f, i) /\ i \in Nat
        BY <1>5, <4>1, PtrSlots
      <4>3. ~ (i >= k)
        BY <4>1, <4>2 DEF Good, Ends, k
      <4>4. i \in 0 .. k - 1
        BY <1>4, <4>2, <4>3
      <4>5. QED  BY <4>2, <4>4 DEF PtrsBelow
    <3>3. QED  BY <3>1, <3>2
  <2> HIDE DEF D
  <2>4. QED  BY <1>2, <2>2, <2>3
<1>6. QED  BY <1>3, <1>5 DEF Agrees

LEMMA FileFlushLemma ==
    ASSUME NEW s \in State, NEW f \in Places, ~ Failed(s)
    PROVE  LET r == FileFlush(s, f)
           IN  /\ r \in State /\ r.mem = s.mem /\ r.err = s.err
               /\ \E D : Moved(s, r, D)
               /\ \A n : Good(s.mem, n, {}) /\ f \in Inodes(s.mem, n) => Agrees(r.disk, s.mem, f)
<1> DEFINE end == File(s.mem, f).size
           first == 0 \div BLKSIZE
           k == NBlocks(end) - first
           out(t, i) == IF Ptr(t.mem, f, i) = 0 THEN t ELSE FlushBlock(t, Ptr(t.mem, f, i))
           op(u, j) == IF Failed(u) THEN u ELSE out(u, first + j - 1)
           after[j \in 0 .. k] == IF j = 0 THEN s ELSE op(after[j - 1], j)
           M == {x \in State : x.mem = s.mem /\ x.err = s.err}
           F == [i \in 0 .. k - 1 |-> [x \in M |-> op(x, i + 1)]]
           d == FlushBlock(after[k], f[1])
           indirect == File(d.mem, f).indirect
           r == FileFlush(s, f)
<1>1. r = IF indirect = 0 THEN d ELSE FlushBlock(d, indirect)
  BY Zenon DEF FileFlush, ForBlocks
<1> HIDE DEF State, Block, Content
<1>2. s \in M /\ s.mem \in Memory /\ end \in Nat
  BY StateFields, PtrTypes
<1>3. first = 0 /\ k \in Nat /\ k = NBlocks(end)
  BY <1>2, Sizes, Rounding
<1> DEFINE N == [i \in 0 .. k |-> {x \in M : Moved(s, x, PtrsBelow(s.mem, f, i))}]
<1> HIDE DEF first
<1>17. ASSUME NEW i \in 0 .. k - 1, NEW x \in M, Moved(s, x, PtrsBelow(s.mem, f, i))
       PROVE  Moved(s, op(x, i + 1), PtrsBelow(s.mem, f, i + 1))
  <2> DEFINE p == Ptr(x.mem, f, first + (i + 1) - 1)
             D == PtrsBelow(s.mem, f, i)
  <2>1. i \in Nat /\ first + (i + 1) - 1 = i /\ x.mem = s.mem /\ ~ Failed(x)
    BY <1>3 DEF Failed
  <2>2. p = Ptr(s.mem, f, i) /\ p \in {0} \cup Block
    BY <1>2, <2>1, PtrTypes
  <2>3. PtrsBelow(s.mem, f, i + 1) = D \cup {p}
    <3>1. 0 .. (i + 1) - 1 = (0 .. i - 1) \cup {i}
      BY <2>1
    <3>2. QED  BY <2>2, <3>1 DEF PtrsBelow
  <2>4. op(x, i + 1) = IF p = 0 THEN x ELSE FlushBlock(x, p)
    BY <2>1
  <2> HIDE DEF op, p, D, M
  <2>5. CASE p = 0
    <3>1. Moved(s, x, D \cup {p})
      BY <1>17, <2>5, Sizes DEF Moved, D
    <3>2. QED  BY <2>3, <2>4, <2>5, <3>1
  <2>6. CASE p # 0
    <3>1. Moved(s, FlushBlock(x, p), D \cup {p})
      BY <1>17, <2>2, <2>6, MovedFlush DEF D
    <3>2. QED  BY <2>3, <2>4, <2>6, <3>1
  <2>7. QED  BY <2>5, <2>6
<1>4. ASSUME NEW i \in 0 .. k - 1, NEW x \in M  PROVE op(x, i + 1) \in M
  <2> DEFINE p == Ptr(x.mem, f, first + (i + 1) - 1)
  <2>1. first + (i + 1) - 1 \in Nat
    BY <1>3
  <2>2. p \in {0} \cup Block
    BY <1>2, <2>1, PtrTypes
  <2> HIDE DEF p
  <2>3. p # 0 => FlushBlock(x, p) \in M
    BY <2>2, FlushBlockLemma
  <2>4. op(x, i + 1) = IF Failed(x) \/ p = 0 THEN x ELSE FlushBlock(x, p)
    BY DEF p
  <2> HIDE DEF op, M
  <2>5. QED  BY <2>3, <2>4
<1> HIDE DEF out
<1> HIDE DEF M
<1>5. \A i \in 0 .. k - 1 : \A x \in M : F[i][x] = op(x, i + 1)
  OBVIOUS
<1>6. \A j \in 1 .. k : \A x \in M : F[j - 1][x] = op(x, j)
  <2>1. ASSUME NEW j \in 1 .. k  PROVE j - 1 \in 0 .. k - 1 /\ (j - 1) + 1 = j
    BY <1>3
  <2> HIDE DEF F, op
  <2>2. QED  BY <1>5, <2>1
<1> HIDE DEF F, op, k
<1>7. \A i \in 0 .. k - 1 : \A x \in M : F[i][x] \in M
  BY <1>4, <1>5
<1>8. PICK g \in [0 .. k -> M] : g[0] = s /\ \A j \in 1 .. k : g[j] = F[j - 1][g[j - 1]]
  <2>1. Steps(k, M, s, F)
    BY <1>2, <1>3, <1>7, StepsLemma
  <2>2. QED  BY <2>1 DEF Steps
<1>9. \A j \in 0 .. k : g[j] = IF j = 0 THEN s ELSE op(g[j - 1], j)
  <2>1. ASSUME NEW j \in 0 .. k, j # 0  PROVE j \in 1 .. k /\ j - 1 \in 0 .. k
    BY <1>3, <2>1
  <2>2. ASSUME NEW j \in 0 .. k, j # 0  PROVE g[j] = op(g[j - 1], j)
    <3>1. j \in 1 .. k /\ g[j - 1] \in M
      BY <1>8, <2>1, <2>2
    <3>2. QED  BY <1>6, <1>8, <3>1
  <2>3. QED  BY <1>8, <2>2
<1>10. g = [j \in 0 .. k |-> IF j = 0 THEN s ELSE op(g[j - 1], j)]
  BY <1>8, <1>9
<1>11. after = [j \in 0 .. k |-> IF j = 0 THEN s ELSE op(after[j - 1], j)]
  BY <1>10
<1> HIDE DEF after
<1>12. Follows(k, M, s, F, after)
  <2>1. 0 \in 0 .. k /\ \A j \in 1 .. k : j \in 0 .. k /\ j # 0
    BY <1>3
  <2>2. QED  BY <1>6, <1>11, <2>1 DEF Follows
<1>13. after[k] \in M
  BY <1>2, <1>3, <1>7, <1>12, StaysLemma
<1>18. Moved(s, after[k], PtrsBelow(s.mem, f, k))
  <2>1. \A i \in 0 .. k : N[i] = {x \in M : Moved(s, x, PtrsBelow(s.mem, f, i))}
    OBVIOUS
  <2> HIDE DEF N
  <2>2. s \in N[0]
    <3>1. PtrsBelow(s.mem, f, 0) = {}
      BY DEF PtrsBelow
    <3>2. 0 \in 0 .. k
      BY <1>3
    <3>3. QED  BY <1>2, <2>1, <3>1, <3>2, MovedSelf
  <2>3. \A i \in 0 .. k : N[i] \subseteq M
    BY <2>1
  <2>4. ASSUME NEW i \in 0 .. k - 1, NEW x \in N[i]  PROVE F[i][x] \in N[i + 1]
    <3>1. i \in 0 .. k /\ i + 1 \in 0 .. k
      BY <1>3
    <3>2. x \in M /\ Moved(s, x, PtrsBelow(s.mem, f, i))
      BY <2>1, <3>1
    <3>3. F[i][x] = op(x, i + 1) /\ F[i][x] \in M
      BY <1>5, <1>7, <3>2
    <3>4. Moved(s, op(x, i + 1), PtrsBelow(s.mem, f, i + 1))
      BY <1>17, <3>2
    <3>5. QED  BY <2>1, <3>1, <3>3, <3>4
  <2>5. after[k] \in N[k]
    BY <1>3, <1>12, <2>2, <2>3, <2>4, ReachesLemma
  <2>6. k \in 0 .. k
    BY <1>3
  <2>7. QED  BY <2>1, <2>5, <2>6
<1> HIDE DEF after, N
<1>14. d \in State /\ d.mem = s.mem /\ d.err = s.err
  <2>1. after[k] \in State /\ after[k].mem = s.mem /\ after[k].err = s.err
    BY <1>13 DEF M
  <2>2. f[1] \in Block
    BY DEF Places
  <2>3. QED  BY <2>1, <2>2, FlushBlockLemma
<1>19. Moved(s, d, PtrsBelow(s.mem, f, k) \cup {f[1]})
  <2>1. f[1] \in Block
    BY DEF Places
  <2>2. QED  BY <1>18, <2>1, MovedFlush
<1> HIDE DEF d
<1>15. indirect \in {0} \cup Block /\ indirect = File(s.mem, f).indirect
  BY <1>2, <1>14, PtrTypes
<1> HIDE DEF indirect, r
<1>20. Moved(s, r, PtrsBelow(s.mem, f, k) \cup {f[1]} \cup {indirect})
  <2>1. CASE indirect = 0
    <3>1. Moved(s, d, PtrsBelow(s.mem, f, k) \cup {f[1]} \cup {indirect})
      BY <1>19, <2>1, Sizes DEF Moved
    <3>2. QED  BY <1>1, <2>1, <3>1
  <2>2. CASE indirect # 0
    BY <1>1, <1>15, <1>19, <2>2, MovedFlush
  <2>3. QED  BY <2>1, <2>2
<1>21. \A n : Good(s.mem, n, {}) /\ f \in Inodes(s.mem, n) => Agrees(r.disk, s.mem, f)
  BY <1>3, <1>15, <1>20, FlushedAgrees DEF k
<1>16. QED  BY <1>20, <1>21 DEF r, Moved

LEMMA FsSyncLemma ==
    ASSUME NEW s \in State
    PROVE  LET r == FsSync(s)
           IN  /\ r \in State /\ r.mem = s.mem /\ r.err = s.err
               /\ (\E D : Moved(s, r, D)) /\ r.disk = s.mem
<1> DEFINE k == NBLOCKS - 1
           op(u, j) == FlushBlock(u, j)
           after[j \in 0 .. k] == IF j = 0 THEN s ELSE op(after[j - 1], j)
           M == {x \in State : x.mem = s.mem /\ x.err = s.err}
           F == [i \in 0 .. k - 1 |-> [x \in M |-> op(x, i + 1)]]
           N == [i \in 0 .. k |-> {x \in M : Moved(s, x, 1 .. i)}]
<1>1. FsSync(s) = after[k]
  BY Zenon DEF FsSync
<1> HIDE DEF State, Content
<1>2. s \in M
  OBVIOUS
<1>3. k \in Nat
  BY Sizes
<1>15. ASSUME NEW i \in 0 .. k - 1, NEW x \in M, Moved(s, x, 1 .. i)
       PROVE  Moved(s, op(x, i + 1), 1 .. i + 1)
  <2>1. i + 1 \in Block
    BY Sizes DEF Block
  <2>2. 1 .. i + 1 = (1 .. i) \cup {i + 1}
    OBVIOUS
  <2>3. Moved(s, op(x, i + 1), (1 .. i) \cup {i + 1})
    BY <1>15, <2>1, MovedFlush
  <2>4. QED  BY <2>2, <2>3
<1>4. ASSUME NEW i \in 0 .. k - 1, NEW x \in M  PROVE op(x, i + 1) \in M
  <2>1. i + 1 \in Block
    BY Sizes DEF Block
  <2>2. QED  BY <2>1, FlushBlockLemma
<1> HIDE DEF M
<1>5. \A i \in 0 .. k - 1 : \A x \in M : F[i][x] = op(x, i + 1)
  OBVIOUS
<1>6. \A j \in 1 .. k : \A x \in M : F[j - 1][x] = op(x, j)
  <2>1. ASSUME NEW j \in 1 .. k  PROVE j - 1 \in 0 .. k - 1 /\ (j - 1) + 1 = j
    BY <1>3
  <2> HIDE DEF F, op
  <2>2. QED  BY <1>5, <2>1
<1> HIDE DEF F, op, k
<1>7. \A i \in 0 .. k - 1 : \A x \in M : F[i][x] \in M
  BY <1>4, <1>5
<1>8. PICK g \in [0 .. k -> M] : g[0] = s /\ \A j \in 1 .. k : g[j] = F[j - 1][g[j - 1]]
  <2>1. Steps(k, M, s, F)
    BY <1>2, <1>3, <1>7, StepsLemma
  <2>2. QED  BY <2>1 DEF Steps
<1>9. \A j \in 0 .. k : g[j] = IF j = 0 THEN s ELSE op(g[j - 1], j)
  <2>1. ASSUME NEW j \in 0 .. k, j # 0  PROVE j \in 1 .. k /\ j - 1 \in 0 .. k
    BY <1>3, <2>1
  <2>2. ASSUME NEW j \in 0 .. k, j # 0  PROVE g[j] = op(g[j - 1], j)
    <3>1. j \in 1 .. k /\ g[j - 1] \in M
      BY <1>8, <2>1, <2>2
    <3>2. QED  BY <1>6, <1>8, <3>1
  <2>3. QED  BY <1>8, <2>2
<1>10. g = [j \in 0 .. k |-> IF j = 0 THEN s ELSE op(g[j - 1], j)]
  BY <1>8, <1>9
<1>11. after = [j \in 0 .. k |-> IF j = 0 THEN s ELSE op(after[j - 1], j)]
  BY <1>10
<1> HIDE DEF after
<1>12. Follows(k, M, s, F, after)
  <2>1. 0 \in 0 .. k /\ \A j \in 1 .. k : j \in 0 .. k /\ j # 0
    BY <1>3
  <2>2. QED  BY <1>6, <1>11, <2>1 DEF Follows
<1>13. Moved(s, after[k], 1 .. k)
  <2>1. \A i \in 0 .. k : N[i] = {x \in M : Moved(s, x, 1 .. i)}
    OBVIOUS
  <2> HIDE DEF N
  <2>2. s \in N[0]
    <3>1. 1 .. 0 = {}
      OBVIOUS
    <3>2. 0 \in 0 .. k
      BY <1>3
    <3>3. QED  BY <1>2, <2>1, <3>1, <3>2, MovedSelf
  <2>3. \A i \in 0 .. k : N[i] \subseteq M
    BY <2>1
  <2>4. ASSUME NEW i \in 0 .. k - 1, NEW x \in N[i]  PROVE F[i][x] \in N[i + 1]
    <3>1. i \in 0 .. k /\ i + 1 \in 0 .. k
      BY <1>3
    <3>2. x \in M /\ Moved(s, x, 1 .. i)
      BY <2>1, <3>1
    <3>3. F[i][x] = op(x, i + 1) /\ F[i][x] \in M
      BY <1>5, <1>7, <3>2
    <3>4. Moved(s, op(x, i + 1), 1 .. i + 1)
      BY <1>15, <3>2
    <3>5. QED  BY <2>1, <3>1, <3>3, <3>4
  <2>5. after[k] \in N[k]
    BY <1>3, <1>12, <2>2, <2>3, <2>4, ReachesLemma
  <2>6. k \in 0 .. k
    BY <1>3
  <2>7. QED  BY <2>1, <2>5, <2>6
<1>14. Moved(s, FsSync(s), Block)
  BY <1>1, <1>13 DEF k, Block
<1>16. FsSync(s).disk = s.mem
  <2>1. FsSync(s).disk \in Memory /\ s.mem \in Memory
    BY <1>14, StateFields DEF Moved
  <2>2. \A b \in Block : FsSync(s).disk[b] = s.mem[b]
    BY <1>14 DEF Moved
  <2>3. QED  BY <2>1, <2>2 DEF Memory
<1>17. QED  BY <1>14, <1>16 DEF Moved

-----------------------------------------------------------------------------
(* The directory.                                                          *)

LEMMA DirectoryLemma ==
    ASSUME NEW m, NEW n, Good(m, n, {}), File(m, Root).size = n * BLKSIZE
    PROVE  Directory(m) = Inodes(m, n) \ {Root} /\ n \in Nat
<1>1. Shaped(m) /\ Rooted(m, n) /\ n \in Nat
  BY InodePlaces DEF Good
<1>2. /\ \A k \in Entries(m) : k \div BLKFILES \in 0 .. n - 1 /\ k % BLKFILES \in 0 .. BLKFILES - 1
      /\ \A q \in 0 .. n - 1, j \in 0 .. BLKFILES - 1 :
            /\ q * BLKFILES + j \in Entries(m)
            /\ Entry(m, q * BLKFILES + j) = <<Ptr(m, Root, q), j>>
  <2>1. NDir(m) = n
    BY <1>1, WholeBlocks DEF NDir
  <2>2. QED  BY <1>1, <2>1, EntriesLemma DEF Rooted
<1>3. Root \in Inodes(m, n)
  BY DEF Inodes
<1>4. \A k \in 0 .. n - 1 : Ptr(m, Root, k) # Super
  BY <1>3, Apart
<1>5. ASSUME NEW f \in Directory(m)  PROVE f \in Inodes(m, n) \ {Root}
  <2>1. PICK k \in Entries(m) : f = <<Ptr(m, Root, k \div BLKFILES), k % BLKFILES>>
    BY DEF Directory, Entry
  <2>2. k \div BLKFILES \in 0 .. n - 1 /\ k % BLKFILES \in 0 .. BLKFILES - 1
    BY <1>2
  <2>3. f \in Inodes(m, n)
    BY <2>1, <2>2 DEF Inodes
  <2>4. f # Root
    BY <1>4, <2>1, <2>2 DEF Root
  <2>5. QED  BY <2>3, <2>4
<1>6. ASSUME NEW f \in Inodes(m, n) \ {Root}  PROVE f \in Directory(m)
  <2>1. PICK q \in 0 .. n - 1, j \in 0 .. BLKFILES - 1 : f = <<Ptr(m, Root, q), j>>
    BY DEF Inodes
  <2>2. q * BLKFILES + j \in Entries(m) /\ Entry(m, q * BLKFILES + j) = f
    BY <1>2, <2>1
  <2>3. QED  BY <2>2 DEF Directory
<1>7. QED  BY <1>1, <1>5, <1>6

(* There are names enough: a directory in which a name is missing has room  *)
(* for another block.                                                       *)
LEMMA RoomLemma ==
    ASSUME NEW m, NEW n, Good(m, n, {}), Listed(m, n), NEW c \in Names,
           \A f \in Inodes(m, n) \ {Root} : File(m, f).name # c
    PROVE  n < Capacity
<1>1. Shaped(m) /\ Rooted(m, n) /\ Owned(m, n) /\ n \in Nat
  BY InodePlaces DEF Good
<1> DEFINE H(k) == CHOOSE j \in 0 .. BLKFILES - 1 : File(m, <<Ptr(m, Root, k), j>>).name \in Names
           e(k) == <<Ptr(m, Root, k), H(k)>>
           h == [k \in 0 .. n - 1 |-> File(m, e(k)).name]
<1>2. ASSUME NEW k \in 0 .. n - 1
      PROVE  e(k) \in Inodes(m, n) \ {Root} /\ File(m, e(k)).name \in Names
  <2>1. H(k) \in 0 .. BLKFILES - 1 /\ File(m, e(k)).name \in Names
    BY DEF Listed
  <2>2. Root \in Inodes(m, n)
    BY DEF Inodes
  <2>3. Ptr(m, Root, k) # Super
    BY <2>2, Apart
  <2> HIDE DEF H
  <2>4. QED  BY <2>1, <2>3 DEF Inodes, Root
<1>3. ASSUME NEW k \in 0 .. n - 1, NEW l \in 0 .. n - 1, h[k] = h[l]  PROVE k = l
  <2> HIDE DEF H
  <2>1. e(k) = e(l)
    BY <1>2, <1>3 DEF Listed
  <2>2. Ptr(m, Root, k) = Ptr(m, Root, l)
    BY <2>1
  <2>3. /\ k \in Slots /\ l \in Slots /\ PtrAt(m, Root, k) = PtrAt(m, Root, l) /\ PtrAt(m, Root, k) # 0
        /\ Root \in Inodes(m, n)
    BY <1>1, <2>2, InodePlaces DEF Rooted
  <2>4. QED  BY <1>1, <2>3 DEF Owned
<1>4. h \in [0 .. n - 1 -> Names \ {c}]
  <2> HIDE DEF e
  <2>1. QED  BY <1>2
<1> HIDE DEF h
<1>5. h \in Injection(0 .. n - 1, Names \ {c})
  BY <1>3, <1>4 DEF Injection, IsInjective
<1>6. IsFiniteSet(Names \ {c}) /\ Cardinality(Names \ {c}) = Cardinality(Names) - 1
  BY RoomAssumption, FS_RemoveElement
<1>7. Cardinality(0 .. n - 1) <= Cardinality(Names \ {c})
  BY <1>5, <1>6, FS_Injection
<1>8. Cardinality(0 .. n - 1) = n
  BY <1>1, FS_Interval
<1>9. Cardinality(Names) \in Nat
  BY RoomAssumption, FS_CardinalityType
<1>10. QED  BY <1>1, <1>6, <1>7, <1>8, <1>9, RoomAssumption, Sizes

(* A block that has just come to the directory has no files and no pointers. *)
LEMMA GrowLemma ==
    ASSUME NEW m, NEW n, Good(m, n, {}), n < Capacity, Ptr(m, Root, n) # 0, m[Ptr(m, Root, n)] = Zero
    PROVE  /\ Good(m, n + 1, {})
           /\ \A f \in Inodes(m, n + 1) : f \in Inodes(m, n) \/ f[1] = Ptr(m, Root, n)
           /\ \A f \in Inodes(m, n + 1) \ Inodes(m, n) :
                 /\ File(m, f) = BlankFile
                 /\ \A i \in Slots : PtrAt(m, f, i) = 0
           /\ \A j \in 0 .. BLKFILES - 1 : <<Ptr(m, Root, n), j>> \in Inodes(m, n + 1) \ Inodes(m, n)
           /\ Inodes(m, n) \subseteq Inodes(m, n + 1)
<1> HIDE DEF Block, Content
<1> DEFINE b == Ptr(m, Root, n)
           New == {b} \X (0 .. BLKFILES - 1)
<1>1. Shaped(m) /\ Rooted(m, n) /\ Owned(m, n) /\ Exact(m, n, {}) /\ n \in Nat /\ m \in Memory
  BY InodePlaces DEF Good
<1>2. Root \in Inodes(m, n) /\ n \in Slots /\ PtrAt(m, Root, n) = b /\ b # 0 /\ n # Capacity
  BY <1>1, Sizes DEF Inodes, Slots, PtrAt
<1>3. b \in Block \ {Super, Bitmap} /\ \A k \in 0 .. n - 1 : Ptr(m, Root, k) # b
  <2>1. b \in Block
    BY <1>1, InodePlaces, PtrTypes
  <2>2. b \notin {Super, Bitmap}
    BY <1>1, <1>2 DEF Owned
  <2>3. ASSUME NEW k \in 0 .. n - 1, Ptr(m, Root, k) = b  PROVE FALSE
    <3>1. k \in Slots /\ PtrAt(m, Root, k) = Ptr(m, Root, k) /\ k # n
      BY <1>1, InodePlaces
    <3>2. QED  BY <1>1, <1>2, <2>3, <3>1 DEF Owned
  <2>4. QED  BY <2>1, <2>2, <2>3
<1> HIDE DEF b
<1>4. Inodes(m, n + 1) = Inodes(m, n) \cup New
  <2>1. 0 .. (n + 1) - 1 = (0 .. n - 1) \cup {n}
    BY <1>1
  <2>2. {Ptr(m, Root, k) : k \in 0 .. (n + 1) - 1} = {Ptr(m, Root, k) : k \in 0 .. n - 1} \cup {b}
    BY <2>1 DEF b
  <2>3. QED  BY <2>2 DEF Inodes
<1>5. \A f \in New : f \notin Inodes(m, n) /\ f # Root /\ f \in Places
  BY <1>3 DEF Inodes, Root, Places
<1>6. m[b] = Zero
  BY DEF b
<1>7. ASSUME NEW f \in New
      PROVE  /\ File(m, f) = BlankFile /\ File(m, f).indirect = 0
             /\ \A i \in Slots : PtrAt(m, f, i) = 0
             /\ \A i \in 0 .. Capacity - 1 : Ptr(m, f, i) = 0
  <2>1. File(m, f) = BlankFile
    BY <1>6, WrittenAs, ReadAs DEF File
  <2>2. /\ File(m, f).indirect = 0
        /\ \A i \in 0 .. NDIRECT - 1 : File(m, f).direct[i] = 0
    BY <2>1, FileTypes
  <2>3. \A i \in 0 .. Capacity - 1 : Ptr(m, f, i) = 0
    BY <2>2, Sizes DEF Ptr
  <2>4. \A i \in Slots : PtrAt(m, f, i) = 0
    BY <2>2, <2>3, Sizes DEF PtrAt, Slots
  <2>5. QED  BY <2>1, <2>2, <2>3, <2>4
<1>8. Rooted(m, n + 1)
  <2>1. \A k \in 0 .. (n + 1) - 1 : k \in 0 .. n - 1 \/ k = n
    BY <1>1
  <2>2. n + 1 \in 0 .. Capacity
    BY <1>1, Sizes
  <2>3. QED  BY <1>1, <1>2, <2>1, <2>2 DEF Rooted, b
<1>9. ASSUME NEW d  PROVE (d # 0 /\ Has(m, n + 1, d)) <=> (d # 0 /\ Has(m, n, d))
  BY <1>4, <1>7 DEF Has
<1>10. Owned(m, n + 1)
  <2>1. \A f \in Inodes(m, n + 1), i \in Slots : PtrAt(m, f, i) # 0 => f \in Inodes(m, n)
    BY <1>4, <1>7
  <2>2. 0 \notin {Super, Bitmap}
    BY Sizes
  <2>3. QED  BY <1>1, <2>1, <2>2 DEF Owned
<1>11. Exact(m, n + 1, {})
  BY <1>1, <1>9, Sizes DEF Exact
<1>12. Indirects(m, n + 1)
  BY <1>4, <1>7 DEF Good, Indirects
<1>13. Kinds(m, n + 1)
  <2>1. \A k \in 0 .. n - 1 : k \in 0 .. (n + 1) - 1
    BY <1>1
  <2>2. QED  BY <2>1 DEF Good, Kinds
<1>14. Ends(m, n + 1)
  BY <1>4, <1>7 DEF Good, Ends
<1>15. Blank(m, n + 1)
  BY <1>4, <1>7 DEF Good, Blank
<1>16. Good(m, n + 1, {})
  BY <1>1, <1>8, <1>10, <1>11, <1>12, <1>13, <1>14, <1>15 DEF Good
<1>17. \A f \in Inodes(m, n + 1) \ Inodes(m, n) : f \in New
  BY <1>4
<1>18. \A j \in 0 .. BLKFILES - 1 : <<b, j>> \in Inodes(m, n + 1) \ Inodes(m, n)
  BY <1>4, <1>5
<1>19. \A f \in Inodes(m, n + 1) : f \in Inodes(m, n) \/ f[1] = b
  BY <1>4
<1>20. QED  BY <1>4, <1>7, <1>16, <1>17, <1>18, <1>19 DEF b

(* What a call on a file leaves of the directory: all of it.                *)
LEMMA ListedKept ==
    ASSUME NEW m, NEW w, NEW n, Good(m, n, {}), Listed(m, n), Good(w, n, {}), Inodes(w, n) = Inodes(m, n),
           \A g \in Inodes(m, n) : File(w, g).name = File(m, g).name
    PROVE  Listed(w, n)
<1>1. ASSUME NEW k \in 0 .. n - 1
      PROVE  \E j \in 0 .. BLKFILES - 1 : File(w, <<Ptr(w, Root, k), j>>).name \in Names
  <2>1. Ptr(w, Root, k) # Super
    <3>1. Root \in Inodes(w, n)
      BY DEF Inodes
    <3>2. QED  BY <3>1, Apart
  <2>2. \A j \in 0 .. BLKFILES - 1 : <<Ptr(w, Root, k), j>> \in Inodes(m, n)
    <3>1. \A j \in 0 .. BLKFILES - 1 : <<Ptr(w, Root, k), j>> \in Inodes(w, n)
      BY DEF Inodes
    <3>2. QED  BY <3>1
  <2>3. 0 \in 0 .. BLKFILES - 1
    BY Sizes
  <2>4. <<Ptr(w, Root, k), 0>> # Root
    BY <2>1 DEF Root
  <2>5. PICK l \in 0 .. n - 1 : Ptr(w, Root, k) = Ptr(m, Root, l)
    BY <2>2, <2>3, <2>4 DEF Inodes
  <2>6. PICK j \in 0 .. BLKFILES - 1 : File(m, <<Ptr(m, Root, l), j>>).name \in Names
    BY DEF Listed
  <2>7. QED  BY <2>2, <2>5, <2>6
<1>2. \A f, g \in Inodes(w, n) \ {Root} :
         File(w, f).name = File(w, g).name /\ File(w, f).name \in Names => f = g
  BY DEF Listed
<1>3. QED  BY <1>1, <1>2 DEF Listed

LEMMA WholeKept ==
    ASSUME NEW m, Whole(m), NEW r, Runs(r, NDir(m)), NEW f, f # Root, SameOthers(m, r.mem, NDir(m), f)
    PROVE  Whole(r.mem) /\ NDir(r.mem) = NDir(m)
<1> DEFINE w == r.mem
           n == NDir(m)
<1> HIDE DEF State
<1>1. Good(m, n, {}) /\ Listed(m, n) /\ Good(w, n, {}) /\ File(m, Root).size = n * BLKSIZE
  BY DEF Whole, Runs
<1>2. Listed(w, n)
  BY <1>1, ListedKept DEF SameOthers
<1>3. File(w, Root).size = n * BLKSIZE
  BY <1>1 DEF SameOthers, Inodes
<1>4. NDir(w) = n
  BY <1>1, <1>3 DEF NDir
<1>6. NDir(w) = NDir(m)
  BY <1>4
<1> HIDE DEF n
<1>5. QED  BY <1>1, <1>2, <1>3, <1>4, <1>6 DEF Whole

(* An entry f that file_create can take for the name c: nobody has the name, *)
(* f has no blocks, and the only block without a file is the one f is in.   *)
Ready(m, n, f, c) ==
    /\ Good(m, n, {}) /\ File(m, Root).size = n * BLKSIZE
    /\ f \in Inodes(m, n) \ {Root} /\ File(m, f).name \notin Names
    /\ \A i \in Slots : PtrAt(m, f, i) = 0
    /\ \A g \in Inodes(m, n) \ {Root} : File(m, g).name # c
    /\ \A g, h \in Inodes(m, n) \ {Root} :
          File(m, g).name = File(m, h).name /\ File(m, g).name \in Names => g = h
    /\ \A k \in 0 .. n - 1 :
          \/ \E j \in 0 .. BLKFILES - 1 : File(m, <<Ptr(m, Root, k), j>>).name \in Names
          \/ f[1] = Ptr(m, Root, k)

LEMMA NameLemma ==
    ASSUME NEW d \in State, NEW n, NEW c \in Names, NEW f, Ready(d.mem, n, f, c)
    PROVE  LET r == PutFile(d, f, [File(d.mem, f) EXCEPT !.name = c])
           IN  /\ r \in State /\ r.err = d.err /\ Whole(r.mem)
               /\ NDir(r.mem) = n /\ Safely(d, r, n, f)
               /\ Inodes(r.mem, n) = Inodes(d.mem, n) /\ Others(d.mem, r.mem, n, f)
               /\ File(r.mem, f).name = c /\ File(r.mem, f).size = File(d.mem, f).size
<1> DEFINE m == d.mem
           file == [File(m, f) EXCEPT !.name = c]
           r == PutFile(d, f, file)
           w == r.mem
<1> HIDE DEF State, Block, Content
<1>1. Good(m, n, {}) /\ f \in Inodes(m, n) /\ f # Root /\ File(m, Root).size = n * BLKSIZE
  BY DEF Ready
<1>2. Shaped(m) /\ Rooted(m, n) /\ f \in Places /\ m \in Memory /\ Root \in Inodes(m, n) /\ n \in Nat
  BY <1>1, InodePlaces DEF Good
<1>3. File(m, f) \in FileType
  BY <1>2, PtrTypes
<1>4. /\ file \in FileType /\ file.name = c /\ file.size = File(m, f).size
      /\ file.direct = File(m, f).direct /\ file.indirect = File(m, f).indirect
  BY <1>3 DEF FileType
<1>5. c # NoName /\ \A i \in 0 .. Capacity - 1 : Ptr(m, f, i) = 0
  <2>1. \A i \in 0 .. Capacity - 1 : i \in Slots /\ PtrAt(m, f, i) = Ptr(m, f, i)
    BY Sizes DEF Slots, PtrAt
  <2>2. QED  BY <2>1, NamesAssumption DEF Ready
<1> HIDE DEF FileType, file
<1>6. r \in State /\ w = WithFile(m, f, file) /\ r.err = d.err /\ r.disk = d.disk /\ r.log = d.log
  BY <1>2, <1>4, PutFileLemma
<1>7. /\ Good(w, n, {}) /\ SamePointers(m, w, n)
      /\ File(w, f) = file
      /\ \A g \in Inodes(m, n) : g # f => File(w, g) = File(m, g)
      /\ FreeIn(w) = FreeIn(m) /\ ChangesFile(m, w, n, f)
  BY <1>1, <1>4, <1>5, <1>6, RestateLemma
<1> HIDE DEF r
<1>8. Inodes(w, n) = Inodes(m, n) /\ \A k \in 0 .. n - 1 : Ptr(w, Root, k) = Ptr(m, Root, k)
  BY <1>1, <1>7, SamePointersLemma
<1>9. File(w, Root).size = n * BLKSIZE /\ NDir(w) = n
  <2>1. File(w, Root).size = n * BLKSIZE
    BY <1>1, <1>2, <1>7
  <2>2. QED  BY <1>2, <2>1, WholeBlocks DEF NDir
<1>10. ASSUME NEW k \in 0 .. n - 1
       PROVE  \E j \in 0 .. BLKFILES - 1 : File(w, <<Ptr(w, Root, k), j>>).name \in Names
  <2>1. CASE f[1] = Ptr(m, Root, k)
    <3>1. f[2] \in 0 .. BLKFILES - 1 /\ f = <<Ptr(w, Root, k), f[2]>>
      BY <1>2, <1>8, <2>1 DEF Places
    <3>2. QED  BY <1>4, <1>7, <3>1
  <2>2. CASE f[1] # Ptr(m, Root, k)
    <3>1. PICK j \in 0 .. BLKFILES - 1 : File(m, <<Ptr(m, Root, k), j>>).name \in Names
      BY <2>2 DEF Ready
    <3>2. <<Ptr(m, Root, k), j>> \in Inodes(m, n) /\ <<Ptr(m, Root, k), j>> # f
      BY <2>2 DEF Inodes
    <3>3. QED  BY <1>7, <1>8, <3>1, <3>2
  <2>3. QED  BY <2>1, <2>2
<1>11. ASSUME NEW g \in Inodes(w, n) \ {Root}, NEW h \in Inodes(w, n) \ {Root},
              File(w, g).name = File(w, h).name, File(w, g).name \in Names
       PROVE  g = h
  BY <1>4, <1>7, <1>8, <1>11 DEF Ready
<1>12. Listed(w, n)
  BY <1>10, <1>11 DEF Listed
<1>13. Whole(w)
  BY <1>7, <1>9, <1>12 DEF Whole
<1>15. NDir(m) = n
  BY <1>1, <1>2, WholeBlocks DEF NDir
<1>16. Safely(d, r, n, f)
  <2>1. Touches(m, w, n, f, {f[1]}) /\ {f[1]} \subseteq OfFile(m, f, {})
    BY <1>7 DEF ChangesFile, OfFile
  <2>2. NDir(m) <= NDir(w) /\ FreeIn(m) \subseteq FreeIn(w)
    BY <1>2, <1>7, <1>9, <1>15
  <2> HIDE DEF NDir
  <2>3. QED  BY <1>1, <1>6, <1>7, <2>1, <2>2, SafelySame
<1>17. Others(m, w, n, f)
  <2>1. Touches(m, w, n, f, {f[1]}) /\ {f[1]} \subseteq Meta(m, f, {})
    BY <1>7 DEF ChangesFile, Meta
  <2>2. QED  BY <1>1, <1>7, <2>1, AltersSame DEF Alters
<1>18. File(w, f).name = c /\ File(w, f).size = File(m, f).size
  BY <1>4, <1>7
<1>14. QED  BY <1>6, <1>8, <1>9, <1>13, <1>16, <1>17, <1>18 DEF r, file

(* The least entry that dir_alloc_file may return.                          *)
Vacant(m, w) == {j \in Entries(w) : j \notin Entries(m) \/ File(m, Entry(m, j)).name = NoName}
LEMMA LeastVacant ==
    ASSUME NEW m, NEW w, Entries(w) \subseteq Nat, Vacant(m, w) # {}
    PROVE  Min(Vacant(m, w)) \in Vacant(m, w)
<1>1. Vacant(m, w) \subseteq Nat
  BY DEF Vacant
<1>2. \E b \in Vacant(m, w) : \A c \in Vacant(m, w) : b <= c
  BY <1>1, LeastNumber
<1>3. QED  BY <1>2 DEF Min

LEMMA ReuseLemma ==
    ASSUME NEW m, Whole(m), NEW c \in Names, ~ Exists(m, c), Exists(m, NoName)
    PROVE  Ready(m, NDir(m), Entry(m, Min(Vacant(m, m))), c)
<1> DEFINE n == NDir(m)
           k == Min(Vacant(m, m))
           f == Entry(m, k)
<1>1. Good(m, n, {}) /\ Listed(m, n) /\ File(m, Root).size = n * BLKSIZE
  BY DEF Whole
<1> HIDE DEF n
<1>2. Directory(m) = Inodes(m, n) \ {Root} /\ n \in Nat
  BY <1>1, DirectoryLemma
<1>3. Entries(m) \subseteq Nat
  BY <1>2, EntriesLemma DEF n
<1>4. PICK g \in Directory(m) : File(m, g).name = NoName
  BY DEF Exists, Named
<1>5. PICK j \in Entries(m) : g = Entry(m, j)
  BY <1>4 DEF Directory
<1>6. j \in Vacant(m, m)
  BY <1>4, <1>5 DEF Vacant
<1>7. k \in Entries(m) /\ File(m, f).name = NoName
  <2>1. k \in Vacant(m, m)
    BY <1>3, <1>6, LeastVacant
  <2> HIDE DEF k
  <2>2. QED  BY <2>1 DEF Vacant
<1> HIDE DEF k
<1>8. f \in Inodes(m, n) \ {Root}
  BY <1>2, <1>7 DEF Directory
<1> HIDE DEF f
<1>9. \A i \in Slots : PtrAt(m, f, i) = 0
  BY <1>1, <1>7, <1>8 DEF Good, Blank
<1>10. \A h \in Inodes(m, n) \ {Root} : File(m, h).name # c
  BY <1>2 DEF Exists, Named
<1>11. Ready(m, n, f, c)
  BY <1>1, <1>7, <1>8, <1>9, <1>10, NamesAssumption DEF Ready, Listed
<1>12. QED  BY <1>11 DEF n, f, k

LEMMA SafeGrown ==
    ASSUME NEW s \in State, NEW n, Good(s.mem, n, {}), n < Capacity, Ptr(s.mem, Root, n) # 0,
           s.mem[Ptr(s.mem, Root, n)] = Zero, s.disk[Ptr(s.mem, Root, n)] = Zero, NEW z, Safe(s, n, z)
    PROVE  Safe(s, n + 1, z)
<1> HIDE DEF State
<1>1. s.disk \in Memory
  BY StateFields
<1>2. PICK st \in SUBSET StaleEntries :
         Trail(Fine(z), z.start, s.log, <<s.disk, st>>) /\ Behind(s.disk, s.mem, n, st)
  BY DEF Safe, Traced
<1>3. Behind(s.disk, s.mem, n + 1, st)
  BY <1>1, <1>2, BehindGrown
<1>4. Inodes(s.mem, n) \subseteq Inodes(s.mem, n + 1)
  BY GrowLemma
<1>5. Traced(s, n + 1, z)
  BY <1>2, <1>3, <1>4 DEF Safe, Traced
<1>6. QED  BY <1>5 DEF Safe

\* The files of the memory m are in w, and what is new is unused.
Extends(m, w, n, l) ==
    /\ \A g \in Inodes(m, n) \ {Root} : g \in Inodes(w, l) /\ Agrees(w, m, g)
    /\ \A g \in Inodes(w, l) \ Inodes(m, n) : File(w, g) = BlankFile

LEMMA GrownLemma ==
    ASSUME NEW s \in State, ~ Failed(s), Whole(s.mem), NEW c \in Names, ~ Exists(s.mem, c),
           ~ Exists(s.mem, NoName), Clean(s)
    PROVE  LET d == DirAllocFile(s)
               n == NDir(s.mem)
           IN  /\ d \in State
               /\ Safely(s, d, n, Root)
               /\ \/ d.err = "panic"
                  \/ /\ ~ Failed(d) /\ Ready(d.mem, n + 1, Entry(d.mem, Min(Vacant(s.mem, d.mem))), c)
                     /\ \A z : Safe(d, n, z) => Safe(d, n + 1, z)
                     /\ Extends(s.mem, d.mem, n, n + 1)
<1> DEFINE m == s.mem
           n == NDir(m)
           root == File(m, Root)
           file == [root EXCEPT !.size = @ + BLKSIZE]
           t == PutFile(s, Root, file)
           d == GetBlock(t, Root, n)
           w == d.mem
           k == Min(Vacant(m, w))
           f == Entry(w, k)
<1> HIDE DEF State, Block, Content
<1>1. Good(m, n, {}) /\ Listed(m, n) /\ File(m, Root).size = n * BLKSIZE
  BY DEF Whole
<1>2. DirAllocFile(s) = d
  BY DEF DirAllocFile, NDir
<1> HIDE DEF n
<1>3. /\ Shaped(m) /\ Rooted(m, n) /\ n \in Nat /\ m \in Memory /\ Root \in Inodes(m, n) /\ Root \in Places
      /\ Directory(m) = Inodes(m, n) \ {Root}
  <2>1. Shaped(m) /\ Rooted(m, n)
    BY <1>1 DEF Good
  <2>2. QED  BY <1>1, <2>1, InodePlaces, DirectoryLemma
<1>4. \A g \in Inodes(m, n) \ {Root} : File(m, g).name # c /\ File(m, g).name # NoName
  BY <1>3 DEF Exists, Named
<1>5. n < Capacity
  BY <1>1, <1>4, RoomLemma
<1>6. root \in FileType /\ root.size \in Nat
  BY <1>3, PtrTypes
<1>7. /\ file \in FileType /\ file.direct = root.direct /\ file.indirect = root.indirect
      /\ file.size = n * BLKSIZE + BLKSIZE /\ file.name = root.name
  <2>1. n * BLKSIZE \in Nat /\ root.size = n * BLKSIZE /\ root.size + BLKSIZE \in Nat
    BY <1>1, <1>3, <1>6, Sizes
  <2>2. root \in FileType /\ NBLOCKS > 3
    BY <1>6, Sizes
  <2> HIDE DEF root, n
  <2>3. /\ file \in FileType /\ file.direct = root.direct /\ file.indirect = root.indirect
        /\ file.size = root.size + BLKSIZE /\ file.name = root.name
    BY <2>1, <2>2 DEF FileType
  <2> HIDE DEF file
  <2>4. QED  BY <2>1, <2>3
<1> HIDE DEF file, FileType
<1>8. t \in State /\ t.mem = WithFile(m, Root, file) /\ t.err = s.err /\ t.disk = s.disk /\ t.log = s.log
  BY <1>3, <1>7, PutFileLemma
<1>9. /\ Good(t.mem, n, {}) /\ SamePointers(m, t.mem, n)
      /\ File(t.mem, Root) = file
      /\ \A g \in Inodes(m, n) : g # Root => File(t.mem, g) = File(m, g)
      /\ FreeIn(t.mem) = FreeIn(m) /\ ChangesFile(m, t.mem, n, Root)
  BY <1>1, <1>3, <1>7, <1>8, RestateLemma
<1> HIDE DEF t
<1>10. Inodes(t.mem, n) = Inodes(m, n)
  BY <1>1, <1>9, SamePointersLemma
<1>11. Runs(t, n) /\ ~ Failed(t) /\ Live(t.mem, n, Root)
  BY <1>3, <1>8, <1>9, <1>10 DEF Runs, Failed, Live
<1>12. /\ Keeps(t, d, n, Root) /\ Others(t.mem, w, n, Root)
       /\ ~ Failed(d) => Ptr(w, Root, n) # 0
       /\ Failed(d) => d.err = "panic" \/ n >= Capacity
  BY <1>3, <1>11, GetBlockLemma DEF Alters
<1>18. Safely(s, d, n, Root)
  <2> DEFINE B == {Super}
  <2>1. Touches(m, t.mem, n, Root, B) /\ B \subseteq OfFile(m, Root, {})
    BY <1>9 DEF ChangesFile, OfFile, Root
  <2>2. NDir(m) <= NDir(t.mem)
    <3>1. file.size = (n + 1) * BLKSIZE /\ n + 1 \in Nat
      BY <1>3, <1>7, Sizes
    <3>2. NDir(t.mem) = n + 1
      BY <1>9, <3>1, WholeBlocks DEF NDir
    <3>3. QED  BY <1>3, <3>2 DEF n
  <2>3. FreeIn(m) \subseteq FreeIn(t.mem)
    BY <1>9
  <2> HIDE DEF NDir, B
  <2>4. Safely(s, t, n, Root)
    BY <1>1, <1>3, <1>8, <1>9, <2>1, <2>2, <2>3, SafelySame
  <2>5. QED  BY <1>12, <2>4, SafelyTrans DEF Keeps
<1>20. \A g \in Inodes(m, n) \ {Root} : Agrees(w, m, g)
  <2>1. Touches(m, t.mem, n, Root, {Super}) /\ {Super} \subseteq Meta(m, Root, {})
    BY <1>9 DEF ChangesFile, Meta, Root
  <2>2. Others(m, t.mem, n, Root)
    BY <1>1, <1>3, <1>9, <2>1, AltersSame DEF Alters
  <2> HIDE DEF d
  <2>3. ASSUME NEW g \in Inodes(m, n) \ {Root}  PROVE Agrees(w, m, g)
    <3>1. Agrees(w, t.mem, g) /\ Agrees(t.mem, m, g)
      BY <1>10, <1>12, <2>2 DEF Others
    <3>2. QED  BY <3>1, AgreesVia
  <2>4. QED  BY <2>3
<1>22. ~ Failed(d) => w[Ptr(w, Root, n)] = Zero /\ d.disk[Ptr(w, Root, n)] = Zero
  BY <1>2 DEF Clean, n, NDir
<1> HIDE DEF d
<1>13. d \in State /\ Good(w, n, {}) /\ (Failed(d) => d.err = "panic")
  BY <1>3, <1>5, <1>12, Sizes DEF Keeps, Runs
<1>14. /\ Inodes(w, n) = Inodes(m, n)
       /\ \A g \in Inodes(m, n) : File(w, g).name = File(m, g).name
       /\ File(w, Root).size = n * BLKSIZE + BLKSIZE
  <2>1. \A g \in Inodes(m, n) : File(t.mem, g).name = File(m, g).name
    BY <1>7, <1>9
  <2>2. QED  BY <1>3, <1>7, <1>9, <1>10, <1>12, <2>1 DEF Keeps, SameNames
<1>15. ASSUME ~ Failed(d)  PROVE Ready(w, n + 1, f, c)
  <2>1. /\ Good(w, n + 1, {})
        /\ \A g \in Inodes(w, n + 1) \ Inodes(w, n) :
              /\ File(w, g) = BlankFile
              /\ \A i \in Slots : PtrAt(w, g, i) = 0
        /\ \A j \in 0 .. BLKFILES - 1 : <<Ptr(w, Root, n), j>> \in Inodes(w, n + 1) \ Inodes(w, n)
    BY <1>5, <1>12, <1>13, <1>15, <1>22, GrowLemma
  <2>2. File(w, Root).size = (n + 1) * BLKSIZE /\ n + 1 \in Nat
    BY <1>3, <1>14, Sizes
  <2>3. /\ \A j \in Entries(w) : /\ j \in Nat /\ j \div BLKFILES \in 0 .. (n + 1) - 1
                                 /\ j % BLKFILES \in 0 .. BLKFILES - 1
        /\ \A q \in 0 .. (n + 1) - 1, j \in 0 .. BLKFILES - 1 : q * BLKFILES + j \in Entries(w)
    <3>1. NDir(w) = n + 1
      BY <2>2, WholeBlocks DEF NDir
    <3>2. QED  BY <2>1, <2>2, <3>1, EntriesLemma DEF Good, Rooted
  <2>4. /\ \A j \in Entries(m) : /\ j \in Nat /\ j \div BLKFILES \in 0 .. n - 1
                                 /\ Entry(m, j) \in Directory(m)
        /\ \A q \in 0 .. n - 1, j \in 0 .. BLKFILES - 1 : q * BLKFILES + j \in Entries(m)
    BY <1>3, EntriesLemma DEF Directory, Rooted, n
  <2>5. n * BLKFILES + 0 \in Entries(w) /\ n * BLKFILES + 0 \notin Entries(m)
    <3>1. 0 \in 0 .. BLKFILES - 1 /\ n \in 0 .. (n + 1) - 1 /\ n \notin 0 .. n - 1
      BY <1>3, Sizes
    <3>2. (n * BLKFILES + 0) \div BLKFILES = n
      BY <1>3, <3>1, Numbering
    <3>3. QED  BY <2>3, <2>4, <3>1, <3>2
  <2>6. k \in Entries(w) /\ (k \notin Entries(m) \/ File(m, Entry(m, k)).name = NoName)
    <3>1. Vacant(m, w) # {} /\ Entries(w) \subseteq Nat
      BY <2>3, <2>5 DEF Vacant
    <3>2. k \in Vacant(m, w)
      BY <3>1, LeastVacant
    <3> HIDE DEF k
    <3>3. QED  BY <3>2 DEF Vacant
  <2> HIDE DEF k
  <2>7. k \notin Entries(m)
    BY <1>3, <1>4, <2>4, <2>6
  <2>8. k \div BLKFILES = n /\ k % BLKFILES \in 0 .. BLKFILES - 1
    <3>1. k \in Nat /\ k \div BLKFILES \in 0 .. (n + 1) - 1 /\ k % BLKFILES \in 0 .. BLKFILES - 1
      BY <2>3, <2>6
    <3>2. k = (k \div BLKFILES) * BLKFILES + (k % BLKFILES)
      BY <3>1, Numbering
    <3>3. k \div BLKFILES \notin 0 .. n - 1
      BY <2>4, <2>7, <3>1, <3>2
    <3>4. QED  BY ONLY <1>3, <3>1, <3>3
  <2>9. f \in Inodes(w, n + 1) \ Inodes(w, n) /\ f[1] = Ptr(w, Root, n)
    BY <2>1, <2>8 DEF Entry
  <2> HIDE DEF f
  <2>10. f # Root /\ File(w, f).name \notin Names /\ \A i \in Slots : PtrAt(w, f, i) = 0
    BY <1>3, <1>14, <2>1, <2>9, NamesAssumption, FileTypes
  <2>11. \A g \in Inodes(w, n + 1) \ {Root} :
            File(w, g).name \in Names => g \in Inodes(m, n) \ {Root} /\ File(w, g).name = File(m, g).name
    BY <1>14, <2>1, NamesAssumption, FileTypes
  <2>12. \A g \in Inodes(w, n + 1) \ {Root} : File(w, g).name # c
    BY <1>4, <2>11
  <2>13. \A g, h \in Inodes(w, n + 1) \ {Root} :
            File(w, g).name = File(w, h).name /\ File(w, g).name \in Names => g = h
    BY <1>1, <2>11 DEF Listed
  <2>14. ASSUME NEW l \in 0 .. (n + 1) - 1
         PROVE  \/ \E j \in 0 .. BLKFILES - 1 : File(w, <<Ptr(w, Root, l), j>>).name \in Names
                \/ f[1] = Ptr(w, Root, l)
    <3>1. Listed(w, n)
      BY <1>1, <1>13, <1>14, ListedKept
    <3>2. l \in 0 .. n - 1 \/ l = n
      BY <1>3
    <3>3. QED  BY <2>9, <3>1, <3>2 DEF Listed
  <2>15. QED  BY <2>1, <2>2, <2>9, <2>10, <2>12, <2>13, <2>14 DEF Ready
<1>19. ASSUME ~ Failed(d), NEW z, Safe(d, n, z)  PROVE Safe(d, n + 1, z)
  BY <1>5, <1>12, <1>13, <1>19, <1>22, SafeGrown
<1>21. ASSUME ~ Failed(d)  PROVE Extends(m, w, n, n + 1)
  <2>1. /\ Inodes(w, n) \subseteq Inodes(w, n + 1)
        /\ \A g \in Inodes(w, n + 1) \ Inodes(w, n) : File(w, g) = BlankFile
    BY <1>5, <1>12, <1>13, <1>21, <1>22, GrowLemma
  <2>2. QED  BY <1>14, <1>20, <2>1, FileTypes DEF Extends
<1> HIDE DEF f, w
<1>16. /\ d \in State /\ Safely(s, d, n, Root)
       /\ (d.err = "panic" \/ (/\ ~ Failed(d) /\ Ready(w, n + 1, f, c)
                               /\ (\A z : Safe(d, n, z) => Safe(d, n + 1, z)) /\ Extends(m, w, n, n + 1)))
  BY <1>13, <1>15, <1>18, <1>19, <1>21
<1>17. QED  BY <1>2, <1>16 DEF f, k, w, n

\* What file_create has to keep: files that have a name, and not the directory.
Bystanders(z) == \A g \in z.held : g # Root /\ File(z.mem, g).name \in Names

\* The unused entry f of d becomes the file c.
Made(d, w, l, f, c) ==
    /\ f \in Inodes(d, l) \ {Root} /\ File(d, f).name \notin Names
    /\ Inodes(w, l) = Inodes(d, l) /\ Others(d, w, l, f)
    /\ File(w, f).name = c /\ File(w, f).size = File(d, f).size

LEMMA FileCreateLemma ==
    ASSUME NEW s \in State, ~ Failed(s), Whole(s.mem), NEW c \in Names, ~ Exists(s.mem, c),
           Clean(s)
    PROVE  LET r == FileCreate(s, c)
               n == NDir(s.mem)
               w == DirAllocFile(s).mem
           IN  /\ r \in State
               /\ r.err = "panic" \/ (Whole(r.mem) /\ Agrees(r.disk, r.mem, Root))
               /\ r.err = "panic" \/ (/\ Extends(s.mem, w, n, NDir(r.mem))
                                      /\ \E f : Made(w, r.mem, NDir(r.mem), f, c))
               /\ \A z : Bystanders(z) /\ Safe(s, n, z) =>
                     Safe(r, IF r.err = "panic" THEN n ELSE NDir(r.mem), z)
<1> DEFINE m == s.mem
           d == DirAllocFile(s)
           f == Entry(d.mem, Min(Vacant(m, d.mem)))
           q == PutFile(d, f, [File(d.mem, f) EXCEPT !.name = c])
           r == FileCreate(s, c)
<1>1. r = IF Failed(d) THEN d ELSE FileFlush(q, Root)
  BY DEF FileCreate, Vacant
<1> HIDE DEF State
<1> DEFINE n == NDir(m)
<1> HIDE DEF n
<1>2. d \in State /\ Safely(s, d, n, Root)
  <2>1. CASE Exists(m, NoName)
    <3>1. d = s
      BY <2>1 DEF DirAllocFile
    <3>2. QED  BY <3>1 DEF Safely
  <2>2. CASE ~ Exists(m, NoName)
    BY <2>2, GrownLemma DEF n
  <2>3. QED  BY <2>1, <2>2
<1>3. ASSUME d.err # "panic"
      PROVE  ~ Failed(d) /\ \E l : /\ Ready(d.mem, l, f, c) /\ Extends(m, d.mem, n, l)
                                   /\ \A z : Safe(d, n, z) => Safe(d, l, z)
  <2>1. CASE Exists(m, NoName)
    <3>1. d = s
      BY <2>1 DEF DirAllocFile
    <3>2. Ready(m, n, Entry(m, Min(Vacant(m, m))), c)
      BY <2>1, ReuseLemma DEF n
    <3>3. Extends(m, m, n, n)
      BY AgreesSelf DEF Extends
    <3>4. QED  BY <3>1, <3>2, <3>3
  <2>2. CASE ~ Exists(m, NoName)
    BY <1>3, <2>2, GrownLemma DEF n
  <2>3. QED  BY <2>1, <2>2
<1> HIDE DEF d, f
<1>4. CASE d.err = "panic"
  <2>1. r = d
    BY <1>1, <1>4 DEF Failed
  <2> HIDE DEF r
  <2>2. ASSUME NEW z, Bystanders(z), Safe(s, n, z)  PROVE Safe(d, n, z)
    BY <1>2, <2>2 DEF Safely, Bystanders
  <2>3. QED  BY <1>2, <1>4, <2>1, <2>2 DEF r, n
<1>5. CASE d.err # "panic"
  <2>0. PICK l : /\ Ready(d.mem, l, f, c) /\ Extends(m, d.mem, n, l)
                 /\ \A z : Safe(d, n, z) => Safe(d, l, z)
    BY <1>3, <1>5
  <2>1. /\ ~ Failed(d) /\ q \in State /\ Whole(q.mem) /\ q.err = d.err
        /\ NDir(q.mem) = l /\ Safely(d, q, l, f)
        /\ Inodes(q.mem, l) = Inodes(d.mem, l) /\ Others(d.mem, q.mem, l, f)
        /\ File(q.mem, f).name = c /\ File(q.mem, f).size = File(d.mem, f).size
    BY <1>2, <1>3, <1>5, <2>0, NameLemma
  <2>9. Made(d.mem, q.mem, l, f, c)
    BY <2>0, <2>1 DEF Made, Ready
  <2> HIDE DEF q
  <2> DEFINE t == FileFlush(q, Root)
  <2>2. /\ Good(q.mem, l, {}) /\ Root \in Inodes(q.mem, l) /\ Root \in Places /\ NDir(q.mem) <= l
        /\ ~ Failed(q)
    <3>1. Good(q.mem, l, {}) /\ ~ Failed(q)
      BY <2>1 DEF Whole, Failed
    <3>2. l \in Nat
      BY <3>1, InodePlaces DEF Good
    <3> HIDE DEF NDir
    <3>3. QED  BY <2>1, <3>1, <3>2, InodePlaces DEF Good
  <2>3. /\ t \in State /\ t.mem = q.mem /\ t.err = q.err
        /\ \E D : Moved(q, t, D)
        /\ Agrees(t.disk, t.mem, Root)
    BY <2>1, <2>2, FileFlushLemma
  <2> HIDE DEF t
  <2>4. r = t
    BY <1>1, <2>1 DEF t
  <2> HIDE DEF r
  <2>5. ASSUME NEW z, Bystanders(z), Safe(s, n, z)  PROVE Safe(t, NDir(t.mem), z)
    <3>1. Safe(d, l, z)
      BY <1>2, <2>0, <2>5 DEF Safely, Bystanders
    <3>2. f \notin z.held
      <4>1. ASSUME f \in z.held  PROVE FALSE
        <5>1. File(d.mem, f) = File(z.mem, f)
          BY <3>1, <4>1 DEF Safe, Traced, Agrees
        <5>2. QED  BY <2>0, <2>5, <4>1, <5>1 DEF Ready, Bystanders
      <4>2. QED  BY <4>1
    <3>3. Safe(q, l, z)
      BY <2>1, <3>1, <3>2 DEF Safely
    <3> HIDE DEF NDir
    <3>4. Safe(t, l, z)
      BY <2>2, <2>3, <3>3 DEF Moved
    <3>5. QED  BY <2>1, <2>3, <3>4
  <2>6. t.err # "panic"
    BY <1>5, <2>1, <2>3
  <2> HIDE DEF NDir
  <2>7. r \in State /\ Whole(r.mem) /\ Agrees(r.disk, r.mem, Root) /\ r.err # "panic"
        /\ \A z : Bystanders(z) /\ Safe(s, n, z) => Safe(r, NDir(r.mem), z)
    BY <2>1, <2>3, <2>4, <2>5, <2>6
  <2>10. Extends(m, d.mem, n, NDir(r.mem)) /\ \E g : Made(d.mem, r.mem, NDir(r.mem), g, c)
    BY <2>0, <2>1, <2>3, <2>4, <2>9
  <2>8. QED  BY <2>7, <2>10 DEF r, n, d
<1>6. QED  BY <1>4, <1>5

(* A memory that is whole has an exact bitmap.                              *)
BitmapOf(m) ==
    /\ FreeIn(m) = Block \ ({Super, Bitmap} \cup {At(m, p) : p \in Used(m)})
    /\ \A p, q \in Used(m) : p # q => At(m, p) # At(m, q)
LEMMA WholeExact ==
    ASSUME NEW m, Whole(m)
    PROVE  BitmapOf(m)
<1> DEFINE n == NDir(m)
<1> HIDE DEF Block, Content
<1>1. Good(m, n, {}) /\ File(m, Root).size = n * BLKSIZE
  BY DEF Whole
<1> HIDE DEF n
<1>2. Shaped(m) /\ Owned(m, n) /\ Exact(m, n, {}) /\ Blank(m, n) /\ Root \in Inodes(m, n)
      /\ Directory(m) = Inodes(m, n) \ {Root}
  BY <1>1, DirectoryLemma DEF Good, Inodes
<1>3. FilesOf(m) = {f \in Inodes(m, n) : f = Root \/ File(m, f).name # NoName}
  BY <1>2 DEF FilesOf, Named
<1>4. FreeIn(m) \subseteq Block
  <2>1. m[Bitmap] \in Content /\ m[Bitmap].kind = "bitmap"
    BY <1>2, Sizes DEF Shaped
  <2>2. QED  BY <2>1, ContentKinds DEF FreeIn
<1>5. ASSUME NEW b \in Block
      PROVE  Has(m, n, b) <=> b \in {At(m, p) : p \in Used(m)}
  <2>1. ASSUME Has(m, n, b)  PROVE b \in {At(m, p) : p \in Used(m)}
    <3>1. PICK f \in Inodes(m, n), i \in Slots : PtrAt(m, f, i) = b
      BY <2>1 DEF Has
    <3>2. PtrAt(m, f, i) # 0
      BY <3>1, Sizes
    <3>3. f \in FilesOf(m)
      BY <1>2, <1>3, <3>2 DEF Blank
    <3>4. <<f, i>> \in Used(m) /\ At(m, <<f, i>>) = b
      BY <3>1, <3>2, <3>3 DEF Used, At
    <3>5. QED  BY <3>4
  <2>2. ASSUME b \in {At(m, p) : p \in Used(m)}  PROVE Has(m, n, b)
    <3>1. PICK p \in Used(m) : At(m, p) = b
      BY <2>2
    <3>2. p[1] \in Inodes(m, n) /\ p[2] \in Slots /\ PtrAt(m, p[1], p[2]) = b
      BY <1>3, <3>1 DEF Used, At
    <3>3. QED  BY <3>2 DEF Has
  <2>3. QED  BY <2>1, <2>2
<1>6. FreeIn(m) = Block \ ({Super, Bitmap} \cup {At(m, p) : p \in Used(m)})
  <2>1. \A b \in Block : b \in FreeIn(m) <=> ~ (b \in {Super, Bitmap} \/ Has(m, n, b))
    BY <1>2 DEF Exact
  <2>2. QED  BY <1>4, <1>5, <2>1
<1>7. ASSUME NEW p \in Used(m), NEW q \in Used(m), p # q
      PROVE  At(m, p) # At(m, q)
  <2>1. /\ p[1] \in Inodes(m, n) /\ p[2] \in Slots /\ At(m, p) = PtrAt(m, p[1], p[2]) /\ At(m, p) # 0
        /\ q[1] \in Inodes(m, n) /\ q[2] \in Slots /\ At(m, q) = PtrAt(m, q[1], q[2])
        /\ p = <<p[1], p[2]>> /\ q = <<q[1], q[2]>>
    BY <1>3 DEF Used, At
  <2>2. QED  BY <1>2, <1>7, <2>1 DEF Owned
<1>8. QED  BY <1>6, <1>7 DEF BitmapOf

(* What fsformat leaves is whole.                                           *)
LEMMA FormattedLemma ==
    /\ Formatted \in Memory /\ Whole(Formatted) /\ NDir(Formatted) = 0
    /\ \A b \in Block \ {Super, Bitmap} : Formatted[b] = Zero
<1> DEFINE m == Formatted
           fs == [j \in 0 .. BLKFILES - 1 |-> BlankFile]
<1>1. fs \in [0 .. BLKFILES - 1 -> FileType]
  BY FileTypes
<1>2. FilesBlock(fs) \in Content /\ FilesBlock(fs).kind = "files" /\ FilesIn(FilesBlock(fs)) = fs
  <2> HIDE DEF fs, FileType, Content
  <2>1. QED  BY <1>1, WrittenAs
<1>3. LET c == [kind |-> "bitmap", free |-> Block \ {Super, Bitmap}]
      IN  c \in Content /\ c.kind = "bitmap" /\ c.free = Block \ {Super, Bitmap}
  <2> HIDE DEF Block
  <2>1. QED  BY DEF Content
<1>4. Zero \in Content /\ Zero.kind = "zero"
  BY WrittenAs
<1>5. /\ m[Super] = FilesBlock(fs)
      /\ m[Bitmap] = [kind |-> "bitmap", free |-> Block \ {Super, Bitmap}]
      /\ \A b \in Block \ {Super, Bitmap} : m[b] = Zero
      /\ m = [b \in Block |-> m[b]]
  <2> HIDE DEF Block, fs
  <2>1. QED  BY Sizes DEF Formatted, BitmapBlock, fs
<1> HIDE DEF m, Content, Block, fs
<1>6. m \in Memory
  <2>1. \A b \in Block : m[b] \in Content
    BY <1>2, <1>3, <1>4, <1>5
  <2>2. QED  BY <1>5, <2>1 DEF Memory
<1>7. File(m, Root) = BlankFile
  <2>1. 0 \in 0 .. BLKFILES - 1
    BY Sizes
  <2>2. QED  BY <1>2, <1>5, <2>1 DEF File, Root, fs
<1>8. NDir(m) = 0 /\ File(m, Root).size = 0
  BY <1>7, FileTypes, Sizes DEF NDir
<1>9. Inodes(m, 0) = {Root}
  <2>1. 0 .. 0 - 1 = {}
    OBVIOUS
  <2>2. QED  BY <2>1 DEF Inodes
<1>10. \A i \in Slots : PtrAt(m, Root, i) = 0
  BY <1>7, FileTypes, Sizes DEF PtrAt, Ptr, Slots
<1>11. Shaped(m) /\ Rooted(m, 0)
  BY <1>2, <1>3, <1>5, <1>6, Sizes DEF Shaped, Rooted, Memory
<1>13. Owned(m, 0)
  BY <1>9, <1>10, Sizes DEF Owned
<1>14. Exact(m, 0, {})
  <2>1. FreeIn(m) = Block \ {Super, Bitmap}
    BY <1>3, <1>5 DEF FreeIn
  <2>2. \A b \in Block : ~ Has(m, 0, b)
    BY <1>9, <1>10, Sizes DEF Has
  <2>3. QED  BY <2>1, <2>2 DEF Exact
<1>15. Indirects(m, 0)
  BY <1>7, <1>9, FileTypes DEF Indirects
<1>16. Kinds(m, 0)
  BY <1>3, <1>4, <1>5 DEF Kinds
<1>17. Ends(m, 0) /\ Blank(m, 0)
  BY <1>9 DEF Ends, Blank
<1>18. Listed(m, 0)
  BY <1>9 DEF Listed
<1>19. 0 = 0 * BLKSIZE
  BY Sizes
<1>20. QED  BY <1>5, <1>6, <1>8, <1>11, <1>13, <1>14, <1>15, <1>16, <1>17, <1>18, <1>19 DEF Whole, Good, m

-----------------------------------------------------------------------------
(* Types, whatever the directory grows by: a call stays within the disk and *)
(* the Files even after the directory has grown into a block of a file.     *)
LEMMA FreeTyped ==
    ASSUME NEW m \in Memory
    PROVE  FreeIn(m) \in SUBSET Block
<1> HIDE DEF Content, Block
<1>1. m[Bitmap] \in Content
  BY Sizes DEF Memory
<1>2. QED  BY <1>1, ContentKinds DEF FreeIn

LEMMA BitmapTyped ==
    ASSUME NEW free \in SUBSET Block
    PROVE  BitmapBlock(free) \in Content
  BY DEF Content, BitmapBlock

LEMMA BlockTyped ==
    ASSUME NEW m \in Memory, NEW b, NEW c, b \in Block => c \in Content
    PROVE  [m EXCEPT ![b] = c] \in Memory
<1> HIDE DEF Block, Content
<1>1. QED  BY DEF Memory

LEMMA AllocTyped ==
    ASSUME NEW s \in State
    PROVE  LET r == AllocBlock(s)
           IN  r \in State /\ (Failed(r) \/ r.blk \in Block)
<1> DEFINE free == FreeIn(s.mem)
           b == Min(free)
           w == [s.mem EXCEPT ![Bitmap] = BitmapBlock(free \ {b})]
           t == Take(s, b)
<1> HIDE DEF State, Block, Content, Memory
<1>1. s.mem \in Memory /\ free \in SUBSET Block
  BY StateFields, FreeTyped
<1>2. CASE free = {}
  <2>1. AllocBlock(s) = [s EXCEPT !.err = "panic"]
    BY <1>2 DEF AllocBlock
  <2>2. QED  BY <2>1, SetErr
<1>3. CASE free # {}
  <2> HIDE DEF free
  <2>1. b \in Block
    BY <1>1, <1>3, LeastFree
  <2>2. free \ {b} \in SUBSET Block
    BY <1>1
  <2>3. AllocBlock(s) = FlushBlock(t, Bitmap) /\ t = [s EXCEPT !.mem = w, !.blk = b]
    BY <1>3 DEF AllocBlock, Take, free
  <2> HIDE DEF b, t
  <2>4. w \in Memory
    BY <1>1, <2>2, BitmapTyped, BlockTyped
  <2> HIDE DEF w
  <2>5. t \in State /\ t.blk = b
    BY <2>1, <2>3, <2>4 DEF State
  <2>6. LET r == FlushBlock(t, Bitmap) IN r \in State /\ r.blk = t.blk
    BY <2>5, FlushBlockLemma, Sizes
  <2>7. QED  BY <2>1, <2>3, <2>5, <2>6
<1>4. QED  BY <1>2, <1>3

LEMMA WalkTyped ==
    ASSUME NEW s \in State, NEW f \in Places, NEW i \in Nat
    PROVE  BlockWalk(s, f, i) \in State /\ (Failed(BlockWalk(s, f, i)) \/ i < Capacity)
<1> DEFINE a == AllocBlock(s)
           y == [a EXCEPT !.mem[a.blk] = Zero]
           z == FlushBlock(y, a.blk)
           file == [File(z.mem, f) EXCEPT !.indirect = a.blk]
           r == BlockWalk(s, f, i)
<1> HIDE DEF State, Block, Content, FileType
<1>1. CASE i >= Capacity
  <2>1. r = [s EXCEPT !.err = "inval"]
    BY <1>1 DEF BlockWalk
  <2>2. QED  BY <2>1, SetErr
<1>2. CASE i < Capacity /\ (i < NDIRECT \/ File(s.mem, f).indirect # 0)
  <2>1. r = s
    BY <1>2, Sizes DEF BlockWalk
  <2>2. QED  BY <1>2, <2>1
<1>3. CASE i < Capacity /\ ~ (i < NDIRECT \/ File(s.mem, f).indirect # 0)
  <2>1. r = IF Failed(a) THEN a ELSE PutFile(z, f, file)
    BY <1>3, Sizes DEF BlockWalk
  <2>2. a \in State /\ (Failed(a) \/ a.blk \in Block)
    BY AllocTyped
  <2>3. CASE ~ Failed(a)
    <3> HIDE DEF a
    <3>1. a.mem \in Memory /\ a.blk \in Block
      BY <2>2, <2>3, StateFields
    <3>2. [a.mem EXCEPT ![a.blk] = Zero] \in Memory
      BY <3>1, WrittenAs, BlockTyped
    <3>3. y \in State
      <4>1. y = [a EXCEPT !.mem = [a.mem EXCEPT ![a.blk] = Zero]]
        OBVIOUS
      <4>2. QED  BY <2>2, <3>2, <4>1, SetMem
    <3> HIDE DEF y
    <3>4. z \in State
      BY <3>1, <3>3, FlushBlockLemma
    <3> HIDE DEF z
    <3>5. file \in FileType
      <4>1. File(z.mem, f) \in FileType
        BY <3>4, StateFields, PtrTypes
      <4>2. QED  BY <3>1, <4>1 DEF FileType
    <3> HIDE DEF file
    <3>6. QED  BY <1>3, <2>1, <2>3, <3>4, <3>5, PutFileLemma
  <2>4. QED  BY <1>3, <2>1, <2>2, <2>3
<1>4. QED  BY <1>1, <1>2, <1>3, Sizes

LEMMA PutPtrTyped ==
    ASSUME NEW s \in State, NEW f \in Places, NEW i \in Nat, i < Capacity, NEW b \in Block
    PROVE  PutPtr(s, f, i, b) \in State
<1> DEFINE file == File(s.mem, f)
           d == file.indirect
           direct == [file EXCEPT !.direct[i] = b]
           ps == [PtrsIn(s.mem[d]) EXCEPT ![i - NDIRECT] = b]
           w == [s.mem EXCEPT ![d] = PtrsBlock(ps)]
<1> HIDE DEF State, Block, Content, FileType
<1>1. s.mem \in Memory
  BY StateFields
<1>2. file \in FileType /\ d \in {0} \cup Block
  BY <1>1, PtrTypes
<1>3. CASE i < NDIRECT
  <2>1. direct \in FileType
    <3> HIDE DEF file
    <3>1. QED  BY <1>2 DEF FileType
  <2>2. PutPtr(s, f, i, b) = PutFile(s, f, direct)
    BY <1>3 DEF PutPtr
  <2> HIDE DEF direct
  <2>3. QED  BY <2>1, <2>2, PutFileLemma
<1>4. CASE ~ (i < NDIRECT)
  <2>1. PutPtr(s, f, i, b) = [s EXCEPT !.mem = w]
    BY <1>4 DEF PutPtr
  <2> HIDE DEF file
  <2>2. ASSUME d \in Block  PROVE PtrsBlock(ps) \in Content
    <3>1. PtrsIn(s.mem[d]) \in [0 .. NINDIRECT - 1 -> {0} \cup Block]
      BY <1>1, <2>2, ReadAs DEF Memory
    <3>2. ps \in [0 .. NINDIRECT - 1 -> {0} \cup Block]
      BY <3>1
    <3> HIDE DEF ps
    <3>3. QED  BY <3>2, WrittenAs
  <2> HIDE DEF ps
  <2>3. w \in Memory
    BY <1>1, <2>2, BlockTyped
  <2> HIDE DEF w
  <2>4. QED  BY <2>1, <2>3, SetMem
<1>5. QED  BY <1>3, <1>4

LEMMA GetTyped ==
    ASSUME NEW s \in State, NEW f \in Places, NEW i \in Nat
    PROVE  GetBlock(s, f, i) \in State
<1> DEFINE w == BlockWalk(s, f, i)
           a == AllocBlock(w)
<1> HIDE DEF State, Block
<1>1. GetBlock(s, f, i) = IF Failed(w) \/ Ptr(w.mem, f, i) # 0 THEN w
                          ELSE IF Failed(a) THEN a ELSE PutPtr(a, f, i, a.blk)
  BY DEF GetBlock
<1>2. w \in State /\ (Failed(w) \/ i < Capacity)
  BY WalkTyped
<1> HIDE DEF w
<1>3. a \in State /\ (Failed(a) \/ a.blk \in Block)
  BY <1>2, AllocTyped
<1> HIDE DEF a
<1>4. ~ Failed(w) /\ ~ Failed(a) => PutPtr(a, f, i, a.blk) \in State
  BY <1>2, <1>3, PutPtrTyped
<1>5. QED  BY <1>1, <1>2, <1>3, <1>4

LEMMA ReleasedTyped ==
    ASSUME NEW m \in Memory, NEW f \in Places, NEW newsize \in Nat
    PROVE  Released(m, f, newsize) \in Memory
<1> DEFINE file == File(m, f)
           d == file.indirect
           free == FreeIn(m) \cup Freed(m, f, newsize)
           e == [m EXCEPT ![Bitmap] = BitmapBlock(free)]
           ps == CutFrom(file, newsize, PtrsIn(e[d]), NDIRECT)
<1> HIDE DEF Block, Content, Memory
<1>1. free \in SUBSET Block
  BY FreedLemma, FreeTyped
<1>2. Released(m, f, newsize) = IF d = 0 THEN e ELSE [e EXCEPT ![d] = PtrsBlock(ps)]
  BY DEF Released
<1> HIDE DEF free, file
<1>3. e \in Memory
  BY <1>1, BitmapTyped, BlockTyped
<1> HIDE DEF e
<1>4. ASSUME d \in Block  PROVE PtrsBlock(ps) \in Content
  <2>1. PtrsIn(e[d]) \in [0 .. NINDIRECT - 1 -> {0} \cup Block]
    BY <1>3, <1>4, ReadAs DEF Memory
  <2>2. ps \in [0 .. NINDIRECT - 1 -> {0} \cup Block]
    BY <2>1 DEF CutFrom
  <2> HIDE DEF ps
  <2>3. QED  BY <2>2, WrittenAs
<1> HIDE DEF ps
<1>5. [e EXCEPT ![d] = PtrsBlock(ps)] \in Memory
  BY <1>3, <1>4, BlockTyped
<1>6. QED  BY <1>2, <1>3, <1>5

LEMMA SetSizeTyped ==
    ASSUME NEW s \in State, NEW f \in Places, NEW newsize \in Nat
    PROVE  FileSetSize(s, f, newsize) \in State /\ FileSetSize(s, f, newsize).err = s.err
<1> DEFINE old == File(s.mem, f)
           rel == Released(s.mem, f, newsize)
           u == [s EXCEPT !.mem = rel]
           short == ShorterFile(old, newsize)
           t == IF old.size > newsize THEN TruncateBlocks(s, f, newsize) ELSE s
           file == [File(t.mem, f) EXCEPT !.size = newsize]
           q == PutFile(t, f, file)
<1> HIDE DEF State, Block, Content, FileType
<1>1. s.mem \in Memory /\ old \in FileType
  BY StateFields, PtrTypes
<1>2. t \in State /\ t.err = s.err
  <2>1. CASE old.size > newsize
    <3>1. t = PutFile(u, f, short)
      BY <2>1 DEF TruncateBlocks, Released, ShorterFile, CutFrom
    <3>2. rel \in Memory /\ short \in FileType
      BY <1>1, ReleasedTyped, ShorterLemma
    <3> HIDE DEF rel, short, t
    <3>3. u \in State /\ u.err = s.err
      BY <3>2, SetMem
    <3> HIDE DEF u
    <3>4. QED  BY <3>1, <3>2, <3>3, PutFileLemma
  <2>2. CASE ~ (old.size > newsize)
    BY <2>2
  <2>3. QED  BY <2>1, <2>2
<1>3. FileSetSize(s, f, newsize) = FlushBlock(q, f[1])
  BY DEF FileSetSize
<1> HIDE DEF t
<1>4. file \in FileType
  <2>1. File(t.mem, f) \in FileType
    BY <1>2, StateFields, PtrTypes
  <2>2. QED  BY <2>1 DEF FileType
<1> HIDE DEF file
<1>5. q \in State /\ q.err = s.err
  BY <1>2, <1>4, PutFileLemma
<1> HIDE DEF q
<1>6. f[1] \in Block
  BY DEF Places
<1>7. FlushBlock(q, f[1]) \in State /\ FlushBlock(q, f[1]).err = q.err
  BY <1>5, <1>6, FlushBlockLemma
<1>8. QED  BY <1>3, <1>5, <1>7

LEMMA PutBytesTyped ==
    ASSUME NEW s \in State, NEW f \in Places, NEW i \in Nat, NEW range, NEW c \in Byte
    PROVE  PutBytes(s, f, i, range, c) \in State
<1> DEFINE b == Ptr(s.mem, f, i)
           old == BytesIn(s.mem[b])
           bs == [p \in DOMAIN old |-> IF i * BLKSIZE + p \in range THEN c ELSE old[p]]
           w == [s.mem EXCEPT ![b] = BytesBlock(bs)]
<1> HIDE DEF State, Block, Content, Byte
<1>1. s.mem \in Memory
  BY StateFields
<1>2. PutBytes(s, f, i, range, c) = [s EXCEPT !.mem = w]
  BY DEF PutBytes
<1> HIDE DEF b
<1>3. ASSUME b \in Block  PROVE BytesBlock(bs) \in Content
  <2>1. old \in [0 .. BLKSIZE - 1 -> Byte]
    BY <1>1, <1>3, ReadAs DEF Memory
  <2> HIDE DEF old
  <2>2. bs \in [0 .. BLKSIZE - 1 -> Byte]
    BY <2>1
  <2> HIDE DEF bs
  <2>3. QED  BY <2>2, WrittenAs
<1> HIDE DEF bs
<1>4. w \in Memory
  BY <1>1, <1>3, BlockTyped
<1> HIDE DEF w
<1>5. QED  BY <1>2, <1>4, SetMem

LEMMA ReadTyped ==
    ASSUME NEW s \in State, NEW f \in Places, NEW offset \in Nat, NEW count \in Nat
    PROVE  FileRead(s, f, offset, count) \in State
<1> DEFINE size == File(s.mem, f).size
           end == Min({size, offset + count})
           first == offset \div BLKSIZE
           k == NBlocks(end) - first
           op(t, j) == IF Failed(t) THEN t ELSE GetBlock(t, f, first + j - 1)
           after[j \in 0 .. k] == IF j = 0 THEN s ELSE op(after[j - 1], j)
           F == [i \in 0 .. k - 1 |-> [x \in State |-> op(x, i + 1)]]
           r == FileRead(s, f, offset, count)
<1>1. r = IF offset >= end THEN s ELSE after[k]
  BY Zenon DEF FileRead, ForBlocks
<1> HIDE DEF State, Block, Content
<1>3. size \in Nat
  BY StateFields, PtrTypes
<1>4. end \in Nat
  <2>1. {size, offset + count} \subseteq Nat /\ {size, offset + count} # {}
    BY <1>3
  <2>2. \E b \in {size, offset + count} : \A c \in {size, offset + count} : b <= c
    BY <2>1, LeastNumber
  <2>3. end \in {size, offset + count}
    BY <2>2 DEF Min
  <2>4. QED  BY <2>1, <2>3
<1> HIDE DEF end
<1>5. CASE offset >= end
  BY <1>1, <1>5
<1>6. CASE ~ (offset >= end)
  <2>1. first \in Nat /\ k \in Nat
    BY <1>4, <1>6, Rounding, RoundingGrows
  <2> HIDE DEF first, size
  <2>2. ASSUME NEW i \in 0 .. k - 1, NEW x \in State  PROVE op(x, i + 1) \in State
    <3>1. first + (i + 1) - 1 \in Nat
      BY <2>1
    <3>2. QED  BY <3>1, GetTyped
  <2>3. \A i \in 0 .. k - 1 : \A x \in State : F[i][x] = op(x, i + 1)
    OBVIOUS
  <2>4. \A j \in 1 .. k : \A x \in State : F[j - 1][x] = op(x, j)
    <3>1. ASSUME NEW j \in 1 .. k  PROVE j - 1 \in 0 .. k - 1 /\ (j - 1) + 1 = j
      BY <2>1
    <3> HIDE DEF F, op
    <3>2. QED  BY <2>3, <3>1
  <2> HIDE DEF F, op, k
  <2>5. \A i \in 0 .. k - 1 : \A x \in State : F[i][x] \in State
    BY <2>2, <2>3
  <2>6. PICK g \in [0 .. k -> State] : g[0] = s /\ \A j \in 1 .. k : g[j] = F[j - 1][g[j - 1]]
    <3>1. Steps(k, State, s, F)
      BY <2>1, <2>5, StepsLemma
    <3>2. QED  BY <3>1 DEF Steps
  <2>7. \A j \in 0 .. k : g[j] = IF j = 0 THEN s ELSE op(g[j - 1], j)
    <3>1. ASSUME NEW j \in 0 .. k, j # 0  PROVE j \in 1 .. k /\ j - 1 \in 0 .. k
      BY <2>1, <3>1
    <3>2. ASSUME NEW j \in 0 .. k, j # 0  PROVE g[j] = op(g[j - 1], j)
      <4>1. j \in 1 .. k /\ g[j - 1] \in State
        BY <2>6, <3>1, <3>2
      <4>2. QED  BY <2>4, <2>6, <4>1
    <3>3. QED  BY <2>6, <3>2
  <2>8. g = [j \in 0 .. k |-> IF j = 0 THEN s ELSE op(g[j - 1], j)]
    BY <2>6, <2>7
  <2>9. after = [j \in 0 .. k |-> IF j = 0 THEN s ELSE op(after[j - 1], j)]
    BY <2>8
  <2> HIDE DEF after
  <2>10. Follows(k, State, s, F, after)
    <3>1. 0 \in 0 .. k /\ \A j \in 1 .. k : j \in 0 .. k /\ j # 0
      BY <2>1
    <3>2. QED  BY <2>4, <2>9, <3>1 DEF Follows
  <2>11. after[k] \in State
    BY <2>1, <2>5, <2>10, StaysLemma
  <2>12. QED  BY <1>1, <1>6, <2>11
<1>7. QED  BY <1>5, <1>6

LEMMA WriteTyped ==
    ASSUME NEW s \in State, NEW f \in Places, NEW offset \in Nat, NEW count \in Nat, NEW b \in Byte
    PROVE  FileWrite(s, f, offset, count, b) \in State
<1> DEFINE end == offset + count
           t == IF end > File(s.mem, f).size THEN FileSetSize(s, f, end) ELSE s
           first == offset \div BLKSIZE
           k == NBlocks(end) - first
           put(u, i) == LET g == GetBlock(u, f, i)
                        IN  IF Failed(g) THEN g ELSE PutBytes(g, f, i, offset .. end - 1, b)
           op(u, j) == IF Failed(u) THEN u ELSE put(u, first + j - 1)
           after[j \in 0 .. k] == IF j = 0 THEN t ELSE op(after[j - 1], j)
           F == [i \in 0 .. k - 1 |-> [x \in State |-> op(x, i + 1)]]
           r == FileWrite(s, f, offset, count, b)
<1>1. r = after[k]
  BY Zenon DEF FileWrite, ForBlocks
<1> HIDE DEF State, Block, Content, Byte
<1>2. end \in Nat /\ offset <= end
  OBVIOUS
<1> HIDE DEF end
<1>3. t \in State
  BY <1>2, SetSizeTyped
<1>4. first \in Nat /\ k \in Nat
  BY <1>2, Rounding, RoundingGrows
<1> HIDE DEF first, t
<1>5. ASSUME NEW i \in 0 .. k - 1, NEW x \in State  PROVE op(x, i + 1) \in State
  <2>1. first + (i + 1) - 1 \in Nat
    BY <1>4
  <2> HIDE DEF k
  <2>2. QED  BY <2>1, GetTyped, PutBytesTyped
<1>6. \A i \in 0 .. k - 1 : \A x \in State : F[i][x] = op(x, i + 1)
  OBVIOUS
<1>7. \A j \in 1 .. k : \A x \in State : F[j - 1][x] = op(x, j)
  <2>1. ASSUME NEW j \in 1 .. k  PROVE j - 1 \in 0 .. k - 1 /\ (j - 1) + 1 = j
    BY <1>4
  <2> HIDE DEF F, op
  <2>2. QED  BY <1>6, <2>1
<1> HIDE DEF F, op, k
<1>8. \A i \in 0 .. k - 1 : \A x \in State : F[i][x] \in State
  BY <1>5, <1>6
<1>9. PICK g \in [0 .. k -> State] : g[0] = t /\ \A j \in 1 .. k : g[j] = F[j - 1][g[j - 1]]
  <2>1. Steps(k, State, t, F)
    BY <1>3, <1>4, <1>8, StepsLemma
  <2>2. QED  BY <2>1 DEF Steps
<1>10. \A j \in 0 .. k : g[j] = IF j = 0 THEN t ELSE op(g[j - 1], j)
  <2>1. ASSUME NEW j \in 0 .. k, j # 0  PROVE j \in 1 .. k /\ j - 1 \in 0 .. k
    BY <1>4, <2>1
  <2>2. ASSUME NEW j \in 0 .. k, j # 0  PROVE g[j] = op(g[j - 1], j)
    <3>1. j \in 1 .. k /\ g[j - 1] \in State
      BY <1>9, <2>1, <2>2
    <3>2. QED  BY <1>7, <1>9, <3>1
  <2>3. QED  BY <1>9, <2>2
<1>11. g = [j \in 0 .. k |-> IF j = 0 THEN t ELSE op(g[j - 1], j)]
  BY <1>9, <1>10
<1>12. after = [j \in 0 .. k |-> IF j = 0 THEN t ELSE op(after[j - 1], j)]
  BY <1>11
<1> HIDE DEF after
<1>13. Follows(k, State, t, F, after)
  <2>1. 0 \in 0 .. k /\ \A j \in 1 .. k : j \in 0 .. k /\ j # 0
    BY <1>4
  <2>2. QED  BY <1>7, <1>12, <2>1 DEF Follows
<1>14. after[k] \in State
  BY <1>3, <1>4, <1>8, <1>13, StaysLemma
<1>15. QED  BY <1>1, <1>14

(* The directory entries are Files on the disk.                             *)
LEMMA NamedPlaces ==
    ASSUME NEW m \in Memory
    PROVE  Root \in Places /\ Directory(m) \subseteq Places
<1> HIDE DEF Block, Content
<1>1. Root \in Places
  BY Sizes DEF Root, Places
<1>2. NDir(m) \in Nat
  BY NDirType
<1>3. ASSUME NEW k \in Entries(m)  PROVE Entry(m, k) \in Places
  <2>1. k \in Nat /\ k % BLKFILES \in 0 .. BLKFILES - 1 /\ Ptr(m, Root, k \div BLKFILES) # 0
        /\ k \div BLKFILES \in 0 .. NDir(m) - 1
    BY <1>2, EntriesLemma
  <2>2. k \div BLKFILES \in Nat
    BY <1>2, <2>1
  <2>3. Ptr(m, Root, k \div BLKFILES) \in Block
    BY <1>1, <2>1, <2>2, PtrTypes
  <2>4. QED  BY <2>1, <2>3 DEF Entry, Places
<1>4. QED  BY <1>1, <1>3 DEF Directory

LEMMA DirAllocTyped ==
    ASSUME NEW s \in State
    PROVE  DirAllocFile(s) \in State
<1> DEFINE root == File(s.mem, Root)
           file == [root EXCEPT !.size = @ + BLKSIZE]
           t == PutFile(s, Root, file)
<1> HIDE DEF State, Block, FileType
<1>1. root \in FileType /\ root.size \in Nat /\ Root \in Places
  BY StateFields, NamedPlaces, PtrTypes
<1>2. file \in FileType /\ root.size \div BLKSIZE \in Nat
  <2>1. root.size + BLKSIZE \in Nat /\ root.size \div BLKSIZE \in Nat
    BY <1>1, Sizes, Rounding
  <2> HIDE DEF root
  <2>2. QED  BY <1>1, <2>1 DEF FileType
<1>3. DirAllocFile(s) = IF Exists(s.mem, NoName) THEN s ELSE GetBlock(t, Root, root.size \div BLKSIZE)
  BY DEF DirAllocFile
<1> HIDE DEF file, root
<1>4. t \in State
  BY <1>1, <1>2, PutFileLemma
<1>5. QED  BY <1>1, <1>2, <1>3, <1>4, GetTyped

\* A write to a File that there is not is none.
LEMMA PutNowhere ==
    ASSUME NEW s \in State, NEW b, NEW j, NEW file, <<b, j>> \in Places => file \in FileType
    PROVE  LET r == PutFile(s, <<b, j>>, file) IN r \in State /\ r.err = s.err
<1> DEFINE fs == [FilesIn(s.mem[b]) EXCEPT ![j] = file]
           w == [s.mem EXCEPT ![b] = FilesBlock(fs)]
<1> HIDE DEF State, Block, Content, FileType
<1>1. s.mem \in Memory
  BY StateFields
<1>2. ASSUME b \in Block  PROVE FilesBlock(fs) \in Content
  <2>1. FilesIn(s.mem[b]) \in [0 .. BLKFILES - 1 -> FileType]
    BY <1>1, <1>2, ReadAs DEF Memory
  <2>2. j \in 0 .. BLKFILES - 1 => file \in FileType
    BY <1>2 DEF Places
  <2>3. fs \in [0 .. BLKFILES - 1 -> FileType]
    BY <2>1, <2>2
  <2> HIDE DEF fs
  <2>4. QED  BY <2>3, WrittenAs
<1>3. PutFile(s, <<b, j>>, file) = [s EXCEPT !.mem = w]
  BY DEF PutFile
<1> HIDE DEF fs
<1>4. w \in Memory
  BY <1>1, <1>2, BlockTyped
<1> HIDE DEF w
<1>5. LET r == [s EXCEPT !.mem = w] IN r \in State /\ r.err = s.err
  BY <1>4, SetMem
<1>6. QED  BY <1>3, <1>5

LEMMA CreateTyped ==
    ASSUME NEW s \in State, NEW c \in Names
    PROVE  FileCreate(s, c) \in State
<1> DEFINE d == DirAllocFile(s)
           k == Min(Vacant(s.mem, d.mem))
           f == Entry(d.mem, k)
           file == [File(d.mem, f) EXCEPT !.name = c]
           q == PutFile(d, f, file)
<1> HIDE DEF State, Block, Content, FileType
<1>1. FileCreate(s, c) = IF Failed(d) THEN d ELSE FileFlush(q, Root)
  BY DEF FileCreate, Vacant
<1>2. d \in State
  BY DirAllocTyped
<1> HIDE DEF d, k
<1>3. f \in Places => file \in FileType
  <2>1. ASSUME f \in Places  PROVE File(d.mem, f) \in FileType
    BY <1>2, <2>1, StateFields, PtrTypes
  <2>2. QED  BY <2>1 DEF FileType
<1>4. f = <<Ptr(d.mem, Root, k \div BLKFILES), k % BLKFILES>>
  BY DEF Entry
<1> HIDE DEF f, file
<1>5. q \in State /\ q.err = d.err
  BY <1>2, <1>3, <1>4, PutNowhere
<1> HIDE DEF q
<1>6. ~ Failed(d) => FileFlush(q, Root) \in State
  BY <1>2, <1>5, StateFields, NamedPlaces, FileFlushLemma DEF Failed
<1>7. QED  BY <1>1, <1>2, <1>6

LEMMA CountLemma ==
    ASSUME NEW offset \in 0 .. MaxSize - 1, NEW count \in 1 .. Min({MaxCount, MaxSize - offset})
    PROVE  offset \in Nat /\ count \in Nat /\ count \in 1 .. MaxSize - offset
<1>1. MaxCount \in Nat /\ MaxSize - offset \in Nat
  BY Sizes
<1>2. Min({MaxCount, MaxSize - offset}) \in Nat /\ Min({MaxCount, MaxSize - offset}) <= MaxSize - offset
  <2>1. {MaxCount, MaxSize - offset} \subseteq Nat /\ {MaxCount, MaxSize - offset} # {}
    BY <1>1
  <2>2. \E b \in {MaxCount, MaxSize - offset} : \A c \in {MaxCount, MaxSize - offset} : b <= c
    BY <2>1, LeastNumber
  <2>3. QED  BY <2>1, <2>2 DEF Min
<1>3. QED  BY <1>1, <1>2

\* The type invariant, with the writes to do as a sequence.
Typed == TypeOK /\ pending \in Seq(Block \X Content)

LEMMA BeginTyped ==
    ASSUME Typed
    PROVE  /\ Begin \in State /\ ~ Failed(Begin)
           /\ \A c \in Names : \A f \in Named(mem, c) : f \in Places
<1> HIDE DEF Block, Content
<1>1. mem \in Memory /\ disk \in Memory
  BY DEF Typed, TypeOK, Memory
<1>2. Begin \in State /\ ~ Failed(Begin)
  <2> HIDE DEF Memory
  <2>1. <<>> \in Seq(Block \X Content)
    OBVIOUS
  <2>2. QED  BY <1>1, <2>1 DEF Begin, State, Failed
<1>3. QED  BY <1>1, <1>2, NamedPlaces DEF Named

LEMMA CallTyped ==
    ASSUME Typed, NEW s \in State, NEW changed, NEW flushed \in SUBSET Names, Call(s, changed, flushed),
           stale' \subseteq StaleEntries
    PROVE  Typed'
<1> HIDE DEF Block, Content
<1>1. s.mem \in Memory /\ s.log \in Seq(Block \X Content)
  BY StateFields
<1>2. /\ mem' \in Memory /\ pending' = s.log /\ disk' = disk /\ disk \in Memory /\ up' = (s.err # "panic")
      /\ synced' = (synced \ changed) \cup (IF s.log = <<>> THEN flushed ELSE {})
      /\ flushing' = IF s.log = <<>> THEN {} ELSE flushed
  BY <1>1 DEF Call, Typed, TypeOK, Memory
<1>3. synced' \subseteq Names /\ flushing' \subseteq Names /\ (flushing' # {} => pending' # <<>>)
  BY <1>2 DEF Typed, TypeOK
<1>4. \A i \in DOMAIN pending' : pending'[i] \in Block \X Content
  BY <1>1, <1>2
<1>5. QED  BY <1>1, <1>2, <1>3, <1>4 DEF Typed, TypeOK, Memory, StaleEntries

LEMMA WriteBackTyped ==
    ASSUME Typed, WriteBack
    PROVE  Typed'
<1> HIDE DEF Block, Content
<1>1. pending \in Seq(Block \X Content) /\ pending # <<>> /\ disk \in [Block -> Content]
  BY DEF Typed, TypeOK, WriteBack
<1>2. /\ Head(pending)[1] \in Block /\ Head(pending)[2] \in Content
      /\ Tail(pending) \in Seq(Block \X Content)
      /\ Len(pending) > 1 => Tail(pending) # <<>>
  <2>1. Head(pending) \in Block \X Content /\ Tail(pending) \in Seq(Block \X Content)
    BY <1>1
  <2>2. ASSUME Len(pending) > 1  PROVE Tail(pending) # <<>>
    <3>1. Len(Tail(pending)) = Len(pending) - 1 /\ Len(pending) \in Nat
      BY <1>1
    <3>2. Len(<<>>) = 0
      OBVIOUS
    <3>3. QED  BY <2>2, <3>1, <3>2
  <2>3. QED  BY <2>1, <2>2
<1>3. disk' \in [Block -> Content] /\ pending' \in Seq(Block \X Content)
  BY <1>1, <1>2 DEF WriteBack
<1>4. mem' = mem /\ up' = up
  BY DEF WriteBack
<1>5. synced' \subseteq Names /\ flushing' \subseteq Names /\ (flushing' # {} => pending' # <<>>)
  <2>1. CASE Len(pending) > 1
    BY <1>2, <2>1 DEF Typed, TypeOK, WriteBack
  <2>2. CASE ~ (Len(pending) > 1)
    BY <2>2 DEF Typed, TypeOK, WriteBack
  <2>3. QED  BY <2>1, <2>2
<1>6. \A i \in DOMAIN pending' : pending'[i] \in Block \X Content
  BY <1>3
<1>7. stale' \subseteq Block \X (0 .. NINDIRECT - 1)
  BY DEF Typed, TypeOK, WriteBack
<1>8. QED  BY <1>3, <1>4, <1>5, <1>6, <1>7 DEF Typed, TypeOK

LEMMA RequestTyped ==
    ASSUME Typed, NEW c \in Names, Requests(c)
    PROVE  Typed'
<1> HIDE DEF State, Block, Content, Byte
<1>1. /\ Begin \in State /\ ~ Failed(Begin) /\ stale \subseteq StaleEntries
      /\ \A f \in Named(mem, c) : f \in Places
  BY BeginTyped DEF Typed, TypeOK, StaleEntries
<1> HIDE DEF Begin
<1>2. {} \in SUBSET Names /\ {c} \in SUBSET Names
  OBVIOUS
<1>3. CASE Create(c)
  <2>1. Call(FileCreate(Begin, c), {c}, {}) /\ stale' = stale
    BY <1>3 DEF Create
  <2>2. QED  BY <1>1, <1>2, <2>1, CreateTyped, CallTyped
<1>4. ASSUME NEW size \in 0 .. MaxSize, SetSize(c, size)  PROVE Typed'
  <2>1. PICK f \in Named(mem, c) : /\ Call(FileSetSize(Begin, f, size), {c}, {})
                                   /\ stale' = stale \cup Uncleared(f, size)
    BY <1>4 DEF SetSize
  <2>2. f \in Places /\ mem \in Memory /\ size \in Nat
    BY <1>1, Sizes DEF Typed, TypeOK, Memory
  <2>3. Uncleared(f, size) \subseteq StaleEntries
    <3>1. File(mem, f).indirect \in {0} \cup Block
      BY <2>2, PtrTypes
    <3>2. QED  BY <3>1 DEF Uncleared, StaleEntries
  <2>4. stale' \subseteq StaleEntries
    BY <1>1, <2>1, <2>3
  <2>5. QED  BY <1>1, <1>2, <2>1, <2>2, <2>4, SetSizeTyped, CallTyped
<1>5. ASSUME NEW offset \in 0 .. MaxSize - 1, NEW count \in 1 .. Min({MaxCount, MaxSize - offset}),
             Read(c, offset, count) \/ \E b \in Written : Write(c, offset, count, b)
      PROVE  Typed'
  <2>1. offset \in Nat /\ count \in Nat
    BY CountLemma
  <2>2. CASE Read(c, offset, count)
    <3>1. PICK f \in Named(mem, c) : \E changed :
             Call(FileRead(Begin, f, offset, count), changed, {}) /\ stale' = stale
      BY <2>2 DEF Read
    <3>2. QED  BY <1>1, <1>2, <2>1, <3>1, ReadTyped, CallTyped
  <2>3. ASSUME NEW b \in Written, Write(c, offset, count, b)  PROVE Typed'
    <3>1. PICK f \in Named(mem, c) : Call(FileWrite(Begin, f, offset, count, b), {c}, {}) /\ stale' = stale
      BY <2>3 DEF Write
    <3>2. b \in Byte
      BY ByteAssumption DEF Byte
    <3>3. QED  BY <1>1, <1>2, <2>1, <3>1, <3>2, WriteTyped, CallTyped
  <2>4. QED  BY <1>5, <2>2, <2>3
<1>6. CASE Flush(c)
  <2>1. PICK f \in Named(mem, c) : Call(FileFlush(Begin, f), {}, {c}) /\ stale' = stale
    BY <1>6 DEF Flush
  <2>2. FileFlush(Begin, f) \in State
    BY <1>1, FileFlushLemma
  <2>3. QED  BY <1>1, <1>2, <2>1, <2>2, CallTyped
<1>7. QED  BY <1>3, <1>4, <1>5, <1>6 DEF Requests

LEMMA InitTyped == Init => Typed
<1> SUFFICES ASSUME Init  PROVE Typed
  OBVIOUS
<1>1. disk \in [Block -> Content] /\ mem \in [Block -> Content]
  BY FormattedLemma DEF Init, Memory
<1> HIDE DEF Block, Content
<1>2. QED  BY <1>1 DEF Init, Typed, TypeOK

LEMMA StepTyped == Typed /\ [Next]_vars => Typed'
<1> SUFFICES ASSUME Typed, [Next]_vars  PROVE Typed'
  OBVIOUS
<1> HIDE DEF State, Block, Content
<1>1. CASE Sync
  <2>1. Call(FsSync(Begin), {}, {n \in Names : Exists(mem, n)}) /\ stale' = stale
    BY <1>1 DEF Sync
  <2>2. FsSync(Begin) \in State /\ stale' \subseteq StaleEntries
    BY <2>1, BeginTyped, FsSyncLemma DEF Typed, TypeOK, StaleEntries
  <2>3. {n \in Names : Exists(mem, n)} \in SUBSET Names
    OBVIOUS
  <2>4. QED  BY <2>1, <2>2, <2>3, CallTyped
<1>2. CASE UNCHANGED vars
  BY <1>2 DEF vars, Typed, TypeOK
<1>3. QED  BY <1>1, <1>2, RequestTyped, WriteBackTyped DEF Next

(* Every block holds what some writer of it puts there, on the disk and in  *)
(* the cache, whatever the directory has grown by: the one theorem about    *)
(* fs/fs.c over fs/bc.c that needs no CleanGrowth.                          *)
THEOREM FileSysTypeOK == Spec => []TypeOK
<1>1. Typed => TypeOK
  BY DEF Typed
<1>2. QED  BY <1>1, InitTyped, StepTyped, PTL DEF Spec

-----------------------------------------------------------------------------
(* The invariant: the disk, now and after each write that is pending, has  *)
(* the files that are due, and in the end is as a call has to find it.     *)

Kept(d, m, S) == \A c \in S : \E g \in Named(m, c) \cap Named(d, c) : Agrees(d, m, g)
Due(m, S) == {x \in Disks : Clear(x[1], x[2]) /\ Kept(x[1], m, S)}
Settled(y, m) == Behind(y[1], m, NDir(m), y[2]) /\ Marked(y[1], m) /\ Agrees(y[1], m, Root)
Orderly(d, st, log, m, S, due, y) ==
    Trail(Due(m, S), <<d, st>>, log, y) /\ Kept(y[1], m, due)

Sound ==
    /\ Typed /\ Whole(mem)
    /\ \E y : Orderly(disk, stale, pending, mem, synced, flushing, y) /\ (up => Settled(y, mem))

\* The files that S names and that are on the disk: what a call keeps.
Keeping(m, d, S) == {g \in Directory(m) : \E c \in S : g \in Named(m, c) \cap Named(d, c) /\ Agrees(d, m, g)}
CallOf(H) == [mem |-> mem, held |-> H, start |-> <<disk, stale>>]

LEMMA BehindSelf ==
    ASSUME NEW m, NEW n, Good(m, n, {}), NDir(m) <= n
    PROVE  Behind(m, m, n, {}) /\ Marked(m, m)
<1>1. m \in Memory
  BY InodePlaces DEF Good
<1> HIDE DEF Block
<1>2. NDir(m) \in Nat
  BY <1>1, NDirType
<1>3. \A f : Shows(m, m, f, {})
  BY SlotsLemma DEF Shows
<1> HIDE DEF NDir
<1>4. QED  BY <1>2, <1>3 DEF Behind, Marked, Good, Kinds

\* What is held for the files of S keeps them, whatever the memory becomes.
LEMMA HeldKept ==
    ASSUME NEW w, Whole(w), NEW z, z.held \subseteq Inodes(w, NDir(w)),
           \A g \in z.held : Agrees(w, z.mem, g),
           NEW e, Holds(e, z), NEW d, NEW S, Keeping(z.mem, d, S) \subseteq z.held \ {Root},
           Kept(d, z.mem, S)
    PROVE  Kept(e, w, S)
<1>1. Directory(w) = Inodes(w, NDir(w)) \ {Root}
  BY DirectoryLemma DEF Whole
<1>2. ASSUME NEW c \in S  PROVE \E g \in Named(w, c) \cap Named(e, c) : Agrees(e, w, g)
  <2>1. PICK g \in Named(z.mem, c) \cap Named(d, c) : Agrees(d, z.mem, g)
    BY DEF Kept
  <2>2. g \in z.held \ {Root}
    BY <2>1 DEF Keeping, Named
  <2>3. Agrees(w, z.mem, g) /\ Agrees(e, z.mem, g) /\ g \in Directory(e)
    BY <2>2 DEF Holds
  <2>4. g \in Directory(w)
    BY <1>1, <2>2
  <2>5. File(z.mem, g).name = c /\ File(w, g).name = c /\ File(e, g).name = c
    BY <2>1, <2>3 DEF Named, Agrees
  <2>6. Agrees(e, w, g)
    BY <2>3, AgreesBoth
  <2>7. QED  BY <2>3, <2>4, <2>5, <2>6 DEF Named
<1>3. QED  BY <1>2 DEF Kept

LEMMA RootAgrees ==
    ASSUME NEW s \in State, NEW n, NEW z, Traced(s, n, z), Root \in z.held
    PROVE  Agrees(s.disk, s.mem, Root)
<1> HIDE DEF Block, Content, State
<1>1. s.log \in Seq(Block \X Content)
  BY StateFields
<1>2. PICK st : Trail(Fine(z), z.start, s.log, <<s.disk, st>>)
  BY DEF Traced
<1>3. <<s.disk, st>> \in Fine(z)
  BY <1>1, <1>2, TrailEnds
<1>4. Agrees(s.disk, z.mem, Root) /\ Agrees(s.mem, z.mem, Root)
  BY <1>3 DEF Fine, Holds, Traced
<1>5. QED  BY <1>4, AgreesBoth


-----------------------------------------------------------------------------
(* The steps.                                                              *)

LEMMA BeginLemma ==
    ASSUME Sound
    PROVE  /\ Begin \in State /\ Begin.mem = mem /\ ~ Failed(Begin) /\ Runs(Begin, NDir(mem))
           /\ Begin.disk = disk /\ Begin.log = <<>>
           /\ \A c \in Names : \A f \in Named(mem, c) : f # Root /\ Live(mem, NDir(mem), f)
           /\ Good(mem, NDir(mem), {}) /\ Directory(mem) = Inodes(mem, NDir(mem)) \ {Root}
           /\ NDir(mem) \in Nat
<1> HIDE DEF Block, Content
<1>1. mem \in Memory /\ disk \in Memory /\ Whole(mem)
  BY DEF Sound, Typed, TypeOK, Memory
<1>2. Begin \in State /\ Begin.mem = mem /\ ~ Failed(Begin) /\ Begin.disk = disk /\ Begin.log = <<>>
  <2> HIDE DEF Memory
  <2>1. <<>> \in Seq(Block \X Content)
    OBVIOUS
  <2>2. QED  BY <1>1, <2>1 DEF Begin, State, Failed
<1>3. Good(mem, NDir(mem), {}) /\ File(mem, Root).size = NDir(mem) * BLKSIZE
  BY <1>1 DEF Whole
<1>4. Directory(mem) = Inodes(mem, NDir(mem)) \ {Root} /\ NDir(mem) \in Nat
  BY <1>3, DirectoryLemma
<1>5. \A c \in Names : \A f \in Named(mem, c) : f # Root /\ Live(mem, NDir(mem), f)
  BY <1>4, NamesAssumption DEF Named, Live
<1>6. QED  BY <1>2, <1>3, <1>4, <1>5 DEF Runs

\* When no write is pending: the disk as a call finds it.
LEMMA RestLemma ==
    ASSUME Sound, pending = <<>>
    PROVE  /\ Clear(disk, stale) /\ Kept(disk, mem, synced) /\ flushing = {}
           /\ up => Settled(<<disk, stale>>, mem)
<1>1. PICK y : Orderly(disk, stale, <<>>, mem, synced, flushing, y) /\ (up => Settled(y, mem))
  BY DEF Sound
<1>2. y = <<disk, stale>> /\ <<disk, stale>> \in Due(mem, synced)
  BY <1>1, TrailNone DEF Orderly
<1>3. Clear(disk, stale) /\ Kept(disk, mem, synced)
  BY <1>2 DEF Due
<1>4. QED  BY <1>1, <1>2, <1>3 DEF Sound, Typed, TypeOK

LEMMA CallSafe ==
    ASSUME Sound, up, pending = <<>>, NEW S \in SUBSET synced, NEW R \in SUBSET {Root}
    PROVE  LET K == Keeping(mem, disk, S)
           IN  /\ Safe(Begin, NDir(mem), CallOf(K \cup R)) /\ Kept(disk, mem, S)
               /\ K \subseteq Directory(mem) /\ K \cup R \subseteq Inodes(mem, NDir(mem))
<1> DEFINE K == Keeping(mem, disk, S)
           H == K \cup R
           z == CallOf(H)
           x == <<disk, stale>>
<1> HIDE DEF Block, Content
<1>1. /\ Clear(disk, stale) /\ Kept(disk, mem, synced)
      /\ Behind(disk, mem, NDir(mem), stale) /\ Marked(disk, mem) /\ Agrees(disk, mem, Root)
  BY RestLemma DEF Settled
<1>2. z.mem = mem /\ z.held = H /\ z.start = x
  BY DEF CallOf
<1>3. disk \in Memory /\ mem \in Memory /\ stale \in SUBSET StaleEntries
  BY DEF Sound, Typed, TypeOK, Memory, StaleEntries
<1>4. K \subseteq Directory(mem) /\ K \subseteq Directory(disk) /\ \A g \in K : Agrees(disk, mem, g)
  BY DEF Keeping, Named
<1>5. Root \in Inodes(mem, NDir(mem)) /\ Directory(mem) \subseteq Inodes(mem, NDir(mem))
  BY BeginLemma DEF Inodes
<1>6. H \subseteq Inodes(mem, NDir(mem)) /\ \A g \in H : Agrees(disk, mem, g)
  BY <1>1, <1>4, <1>5
<1>7. \A g \in H : Agrees(mem, mem, g)
  BY AgreesSelf
<1>8. H \ {Root} \subseteq Directory(disk)
  BY <1>4
<1> HIDE DEF K, H, z
<1>9. Holds(disk, z)
  BY <1>2, <1>6, <1>8 DEF Holds
<1>10. x \in Fine(z)
  BY <1>1, <1>3, <1>9 DEF Fine, Disks
<1>11. Begin.mem = mem /\ Begin.disk = disk /\ Begin.log = <<>>
  BY BeginLemma
<1>12. Trail(Fine(z), z.start, Begin.log, <<Begin.disk, stale>>)
  BY <1>2, <1>10, <1>11, TrailNone
<1>13. Safe(Begin, NDir(mem), z)
  BY <1>1, <1>2, <1>3, <1>6, <1>7, <1>11, <1>12 DEF Safe, Traced
<1>14. Kept(disk, mem, S)
  BY <1>1 DEF Kept
<1>15. QED  BY <1>4, <1>6, <1>13, <1>14 DEF z, H, K

LEMMA CallLemma ==
    ASSUME Sound, NEW s \in State, s.err = "panic" \/ (Whole(s.mem) /\ Agrees(s.disk, s.mem, Root)),
           stale' \subseteq StaleEntries,
           NEW changed, NEW flushed \in SUBSET Names, Call(s, changed, flushed),
           NEW z, z.mem = mem, z.start = <<disk, stale'>>, z.held \subseteq Inodes(mem, NDir(mem)),
           Keeping(mem, disk, synced \ changed) \subseteq z.held \ {Root},
           Kept(disk, mem, synced \ changed),
           Safe(s, IF s.err = "panic" THEN NDir(mem) ELSE NDir(s.mem), z),
           IF s.err = "panic" THEN flushed = {} ELSE Kept(s.disk, s.mem, flushed)
    PROVE  Sound'
<1> HIDE DEF Block, Content
<1> DEFINE w == IF s.err = "panic" THEN mem ELSE s.mem
           S == synced \ changed
<1>1. s.mem \in Memory /\ s.log \in Seq(Block \X Content) /\ s.disk \in Memory
  BY StateFields
<1>2. w \in Memory /\ Whole(w)
  BY <1>1 DEF Sound, Typed, TypeOK, Memory
<1>3. /\ mem' = w /\ pending' = s.log /\ disk' = disk /\ up' = (s.err # "panic")
      /\ synced' = S \cup (IF s.log = <<>> THEN flushed ELSE {})
      /\ flushing' = IF s.log = <<>> THEN {} ELSE flushed
  BY DEF Call
<1>6. Typed'
  BY CallTyped DEF Sound
<1>7. /\ z.held \subseteq Inodes(w, NDir(w)) /\ \A g \in z.held : Agrees(w, mem, g)
      /\ \E st \in SUBSET StaleEntries : /\ Trail(Fine(z), z.start, s.log, <<s.disk, st>>)
                                         /\ s.err # "panic" => /\ Behind(s.disk, s.mem, NDir(s.mem), st)
                                                               /\ Marked(s.disk, s.mem)
  <2>1. CASE s.err = "panic"
    BY <2>1, AgreesSelf DEF Safe, Traced
  <2>2. CASE s.err # "panic"
    BY <2>2 DEF Safe, Traced
  <2>3. QED  BY <2>1, <2>2
<1>8. PICK st \in SUBSET StaleEntries :
         /\ Trail(Fine(z), z.start, s.log, <<s.disk, st>>)
         /\ s.err # "panic" => Behind(s.disk, s.mem, NDir(s.mem), st) /\ Marked(s.disk, s.mem)
  BY <1>7
<1> DEFINE y == <<s.disk, st>>
<1> HIDE DEF S, w
<1>9. ASSUME NEW e, Holds(e, z)  PROVE Kept(e, w, S)
  BY <1>2, <1>7, <1>9, HeldKept DEF S
<1>10. Kept(s.disk, w, flushed)
  BY DEF w, Kept
<1>11. Orderly(disk, stale', s.log, w, S, flushed, y)
  <2>1. Fine(z) \subseteq Due(w, S)
    BY <1>9 DEF Fine, Due
  <2>2. Trail(Due(w, S), <<disk, stale'>>, s.log, y)
    BY <1>8, <2>1, TrailWider
  <2>3. QED  BY <1>10, <2>2 DEF Orderly
<1>12. Orderly(disk', stale', pending', mem', synced', flushing', y)
  <2>1. CASE s.log # <<>>
    <3>1. S \cup {} = S
      OBVIOUS
    <3>2. QED  BY <1>3, <1>11, <2>1, <3>1
  <2>2. CASE s.log = <<>>
    <3>1. y = <<disk, stale'>> /\ y \in Due(w, S) /\ Kept(y[1], w, flushed)
      BY <1>11, <2>2, TrailNone DEF Orderly
    <3>2. y \in Due(w, S \cup flushed)
      BY <3>1 DEF Due, Kept
    <3>3. Trail(Due(w, S \cup flushed), <<disk, stale'>>, <<>>, y)
      BY <3>1, <3>2, TrailNone
    <3>4. Orderly(disk, stale', <<>>, w, S \cup flushed, {}, y)
      BY <3>3 DEF Orderly, Kept
    <3>5. QED  BY <1>3, <2>2, <3>4
  <2>3. QED  BY <2>1, <2>2
<1>13. up' => Settled(y, mem')
  <2>1. ASSUME s.err # "panic"  PROVE Settled(y, w)
    BY <1>8, <2>1 DEF Settled, w
  <2>2. QED  BY <1>3, <2>1
<1>14. Whole(mem')
  BY <1>2, <1>3
<1>15. QED  BY <1>6, <1>12, <1>13, <1>14 DEF Sound

\* A call that does not change which blocks the directory has.
LEMMA SameCallLemma ==
    ASSUME Sound, NEW s \in State, Whole(s.mem), NDir(s.mem) = NDir(mem), stale' = stale,
           NEW changed, NEW flushed \in SUBSET Names, Call(s, changed, flushed),
           Safe(s, NDir(mem), CallOf(Keeping(mem, disk, synced \ changed) \cup {Root})),
           s.err = "panic" => flushed = {},
           s.err # "panic" => Kept(s.disk, s.mem, flushed)
    PROVE  Sound'
<1> DEFINE K == Keeping(mem, disk, synced \ changed)
           R == {Root}
           z == CallOf(K \cup R)
<1> HIDE DEF State
<1>1. up /\ pending = <<>>
  BY DEF Call
<1>2. synced \ changed \in SUBSET synced /\ R \in SUBSET {Root}
  OBVIOUS
<1>3. /\ Kept(disk, mem, synced \ changed) /\ K \subseteq Directory(mem)
      /\ K \cup R \subseteq Inodes(mem, NDir(mem))
  BY <1>1, <1>2, CallSafe
<1>4. z.mem = mem /\ z.start = <<disk, stale'>> /\ z.held = K \cup R
  BY DEF CallOf
<1>5. K \subseteq z.held \ {Root}
  BY <1>3, <1>4, BeginLemma
<1>6. Safe(s, NDir(mem), z)
  OBVIOUS
<1> HIDE DEF z
<1>7. Agrees(s.disk, s.mem, Root)
  BY <1>4, <1>6, RootAgrees DEF Safe
<1>8. stale' \subseteq StaleEntries
  BY DEF Sound, Typed, TypeOK, StaleEntries
<1> HIDE DEF K, R
<1>9. QED  BY <1>3, <1>4, <1>5, <1>6, <1>7, <1>8, CallLemma DEF K

LEMMA NotHeld ==
    ASSUME Sound, NEW c \in Names, NEW f \in Named(mem, c), NEW S
    PROVE  f \notin Keeping(mem, disk, S \ {c}) \cup {Root}
<1>1. f # Root
  BY BeginLemma
<1>2. QED  BY <1>1 DEF Keeping, Named

LEMMA CreateKeeps ==
    ASSUME Sound, NEW c \in Names, Create(c), Clean(Begin)
    PROVE  Sound'
<1> DEFINE r == FileCreate(Begin, c)
           n == NDir(mem)
           S == synced \ {c}
           K == Keeping(mem, disk, S)
           z == CallOf(K)
<1> HIDE DEF State
<1>1. /\ Begin \in State /\ Begin.mem = mem /\ ~ Failed(Begin) /\ Whole(mem)
      /\ Directory(mem) = Inodes(mem, n) \ {Root}
  BY BeginLemma DEF Sound
<1>2. ~ Exists(mem, c) /\ Call(r, {c}, {}) /\ stale' = stale /\ up /\ pending = <<>>
  BY DEF Create, Call
<1>3. Kept(disk, mem, S) /\ K \subseteq Directory(mem) /\ Safe(Begin, n, z)
  <2>1. S \in SUBSET synced /\ {} \in SUBSET {Root} /\ K \cup {} = K
    OBVIOUS
  <2> HIDE DEF K, S
  <2>2. QED  BY <1>2, <2>1, CallSafe DEF K
<1>4. z.mem = mem /\ z.start = <<disk, stale'>> /\ z.held = K
  BY <1>2 DEF CallOf
<1>5. Bystanders(z)
  <2>1. \A g \in K : \E a \in Names : g \in Named(mem, a)
    BY DEF Keeping, Sound, Typed, TypeOK
  <2>2. QED  BY <1>1, <1>3, <1>4, <2>1 DEF Bystanders, Named
<1> HIDE DEF z, K, n, Begin
<1>6. /\ r \in State /\ (r.err = "panic" \/ (Whole(r.mem) /\ Agrees(r.disk, r.mem, Root)))
      /\ Safe(r, IF r.err = "panic" THEN n ELSE NDir(r.mem), z)
  BY <1>1, <1>2, <1>3, <1>5, FileCreateLemma DEF n
<1> HIDE DEF r
<1>7. stale' \subseteq StaleEntries
  BY <1>2 DEF Sound, Typed, TypeOK, StaleEntries
<1>8. K \subseteq z.held \ {Root} /\ z.held \subseteq Inodes(mem, n)
  BY <1>1, <1>3, <1>4
<1>9. Kept(r.disk, r.mem, {}) /\ {} \in SUBSET Names
  BY DEF Kept
<1> HIDE DEF NDir, S
<1>10. QED  BY <1>2, <1>3, <1>4, <1>6, <1>7, <1>8, <1>9, CallLemma DEF K, n, S

LEMMA SetSizeKeeps ==
    ASSUME Sound, NEW c \in Names, NEW size \in Nat, SetSize(c, size)
    PROVE  Sound'
<1> HIDE DEF State
<1>1. PICK f \in Named(mem, c) : /\ Call(FileSetSize(Begin, f, size), {c}, {})
                                 /\ stale' = stale \cup Uncleared(f, size)
  BY DEF SetSize
<1> DEFINE r == FileSetSize(Begin, f, size)
           n == NDir(mem)
           S == synced \ {c}
           K == Keeping(mem, disk, S)
           H == K \cup {Root}
           z == CallOf(H)
           un == Uncleared(f, size)
<1>2. /\ Begin.mem = mem /\ Begin.disk = disk /\ Begin.log = <<>> /\ Runs(Begin, n)
      /\ f # Root /\ Live(Begin.mem, n, f) /\ Whole(mem) /\ Directory(mem) = Inodes(mem, n) \ {Root}
  BY BeginLemma DEF Sound
<1>3. up /\ pending = <<>>
  BY <1>1 DEF Call
<1>4. Kept(disk, mem, S) /\ Safe(Begin, n, z) /\ K \subseteq Directory(mem) /\ H \subseteq Inodes(mem, n)
  <2>1. S \in SUBSET synced /\ {Root} \in SUBSET {Root}
    OBVIOUS
  <2> HIDE DEF K, S
  <2>2. QED  BY <1>3, <2>1, CallSafe DEF K
<1>5. f \notin H /\ Root \in H
  BY NotHeld
<1>6. z.mem = mem /\ z.start = <<disk, stale>> /\ z.held = H
  BY DEF CallOf
<1>7. un = UnclearedIn(mem, disk, f, size)
  BY DEF Uncleared, UnclearedIn
<1>8. un \subseteq StaleEntries /\ File(mem, f).size \in Nat
  <2>1. f \in Places /\ mem \in Memory
    BY <1>2, InodePlaces DEF Live, Runs, Good
  <2>2. File(mem, f).indirect \in {0} \cup Block /\ File(mem, f).size \in Nat
    BY <2>1, PtrTypes
  <2> HIDE DEF Block
  <2>3. QED  BY <2>2 DEF Uncleared, StaleEntries
<1> HIDE DEF Begin, n, un, z, H
<1>17. /\ Runs(r, n) /\ Resized(Begin.mem, r.mem, n, f, size)
       /\ size >= File(Begin.mem, f).size => Safely(Begin, r, n, f)
       /\ \A y : size < File(Begin.mem, f).size /\ Begin.log = <<>> /\ f \notin y.held /\ Safe(Begin, n, y)
                 => Safe(r, n, WithStale(y, UnclearedIn(Begin.mem, Begin.disk, f, size)))
  BY <1>2, FileSetSizeLemma
<1> HIDE DEF r, K
<1>9. /\ Runs(r, n) /\ Resized(mem, r.mem, n, f, size)
      /\ size >= File(mem, f).size => Safely(Begin, r, n, f)
      /\ size < File(mem, f).size => Safe(r, n, WithStale(z, un))
  BY <1>2, <1>4, <1>5, <1>6, <1>7, <1>17
<1>10. SameOthers(mem, r.mem, n, f)
  BY <1>9 DEF Resized, SameOthers
<1>11. r \in State /\ Whole(r.mem) /\ NDir(r.mem) = n
  BY <1>2, <1>9, <1>10, WholeKept DEF n, Runs
<1>12. stale' \subseteq StaleEntries /\ stale' = stale \cup un
  BY <1>1, <1>8 DEF Sound, Typed, TypeOK, StaleEntries, un
<1>13. Kept(r.disk, r.mem, {}) /\ {} \in SUBSET Names /\ Call(r, {c}, {})
  BY <1>1 DEF Kept, r
<1>14. CASE size >= File(mem, f).size
  <2>1. Safe(r, n, z)
    BY <1>4, <1>5, <1>6, <1>9, <1>14 DEF Safely
  <2>2. un = {}
    <3>1. NBlocks(File(mem, f).size) <= NBlocks(size) /\ NBlocks(File(mem, f).size) \in Nat /\ NBlocks(size) \in Nat
      BY <1>8, <1>14, RoundingGrows, Rounding
    <3>2. Gone(File(mem, f), size) = {}
      BY <3>1 DEF Gone
    <3>3. QED  BY <3>2 DEF un, Uncleared
  <2>3. stale' = stale
    BY <1>12, <2>2
  <2> HIDE DEF NDir
  <2>4. QED  BY <1>11, <1>13, <2>1, <2>3, SameCallLemma DEF z, H, K, n
<1>15. CASE size < File(mem, f).size
  <2> DEFINE y == WithStale(z, un)
  <2>1. y.mem = mem /\ y.start = <<disk, stale'>> /\ y.held = H /\ Safe(r, n, y)
    BY <1>6, <1>9, <1>12, <1>15 DEF WithStale
  <2> HIDE DEF y
  <2>2. Agrees(r.disk, r.mem, Root)
    BY <1>5, <1>11, <2>1, RootAgrees DEF Safe
  <2>3. K \subseteq y.held \ {Root} /\ y.held \subseteq Inodes(mem, n)
    BY <1>2, <1>4, <2>1 DEF H
  <2> HIDE DEF NDir, S
  <2>4. QED  BY <1>4, <1>11, <1>12, <1>13, <2>1, <2>2, <2>3, CallLemma DEF K, n, S
<1>16. QED  BY <1>8, <1>14, <1>15

LEMMA ReadKeeps ==
    ASSUME Sound, NEW c \in Names, NEW offset \in Nat, NEW count \in Nat, Read(c, offset, count)
    PROVE  Sound'
<1> HIDE DEF State
<1>1. PICK f \in Named(mem, c) : LET r == FileRead(Begin, f, offset, count)
                                 IN  /\ Call(r, IF r.mem = mem THEN {} ELSE {c}, {})
                                     /\ stale' = stale
  BY DEF Read
<1> DEFINE r == FileRead(Begin, f, offset, count)
           n == NDir(mem)
           C == IF r.mem = mem THEN {} ELSE {c}
           S == synced \ C
           K == Keeping(mem, disk, S)
           H == K \cup {Root}
           z == CallOf(H)
<1>2. /\ Begin.mem = mem /\ Begin.disk = disk /\ Begin.log = <<>> /\ Runs(Begin, n) /\ ~ Failed(Begin)
      /\ f # Root /\ Live(Begin.mem, n, f) /\ Whole(mem)
  BY BeginLemma DEF Sound
<1>3. Call(r, C, {}) /\ stale' = stale /\ up /\ pending = <<>>
  BY <1>1 DEF Call
<1>4. Safe(Begin, n, z)
  <2>1. S \in SUBSET synced /\ {Root} \in SUBSET {Root}
    OBVIOUS
  <2> HIDE DEF K, S
  <2>2. QED  BY <1>3, <2>1, CallSafe DEF K
<1>5. z.held = H
  BY DEF CallOf
<1>6. C # {} => f \notin H
  BY NotHeld
<1> HIDE DEF z, Begin, n, H
<1>7. Keeps(Begin, r, n, f)
  BY <1>2, FileReadLemma
<1> HIDE DEF r, K
<1>8. Safe(r, n, z)
  <2>1. CASE r.mem = mem
    <3>1. r.disk = Begin.disk /\ r.log = Begin.log
      BY <1>2, <1>7, <2>1 DEF Keeps, Takes
    <3>2. QED  BY <1>2, <1>4, <2>1, <3>1, SafeSame
  <2>2. CASE r.mem # mem
    BY <1>4, <1>5, <1>6, <1>7, <2>2 DEF Keeps, Safely
  <2>3. QED  BY <2>1, <2>2
<1>9. Runs(r, n) /\ SameOthers(mem, r.mem, n, f)
  BY <1>2, <1>7 DEF Keeps, SameNames, SameOthers
<1>10. r \in State /\ Whole(r.mem) /\ NDir(r.mem) = n
  BY <1>2, <1>9, WholeKept DEF n, Runs
<1>11. Kept(r.disk, r.mem, {}) /\ {} \in SUBSET Names
  BY DEF Kept
<1> HIDE DEF NDir, C
<1>12. QED  BY <1>3, <1>8, <1>10, <1>11, SameCallLemma DEF z, H, K, n

LEMMA WriteKeeps ==
    ASSUME Sound, NEW c \in Names, NEW offset \in Nat, NEW count \in Nat \ {0}, NEW b \in Byte,
           Write(c, offset, count, b)
    PROVE  Sound'
<1> HIDE DEF State, Byte
<1>1. PICK f \in Named(mem, c) : /\ Call(FileWrite(Begin, f, offset, count, b), {c}, {})
                                 /\ stale' = stale
  BY DEF Write
<1> DEFINE r == FileWrite(Begin, f, offset, count, b)
           n == NDir(mem)
           S == synced \ {c}
           K == Keeping(mem, disk, S)
           H == K \cup {Root}
           z == CallOf(H)
<1>2. /\ Begin.mem = mem /\ Runs(Begin, n) /\ ~ Failed(Begin)
      /\ f # Root /\ Live(Begin.mem, n, f) /\ Whole(mem)
  BY BeginLemma DEF Sound
<1>3. Call(r, {c}, {}) /\ stale' = stale /\ up /\ pending = <<>>
  BY <1>1 DEF Call
<1>4. Safe(Begin, n, z)
  <2>1. S \in SUBSET synced /\ {Root} \in SUBSET {Root}
    OBVIOUS
  <2> HIDE DEF K, S
  <2>2. QED  BY <1>3, <2>1, CallSafe DEF K
<1>5. f \notin z.held
  BY NotHeld DEF CallOf
<1> HIDE DEF z, Begin, n, H
<1>6. Runs(r, n) /\ SameOthers(Begin.mem, r.mem, n, f) /\ Safely(Begin, r, n, f)
  BY <1>2, FileWriteLemma
<1> HIDE DEF r, K
<1>7. Safe(r, n, z)
  BY <1>4, <1>5, <1>6 DEF Safely
<1>8. r \in State /\ Whole(r.mem) /\ NDir(r.mem) = n
  BY <1>2, <1>6, WholeKept DEF n, Runs
<1>9. Kept(r.disk, r.mem, {}) /\ {} \in SUBSET Names
  BY DEF Kept
<1> HIDE DEF NDir
<1>10. QED  BY <1>3, <1>7, <1>8, <1>9, SameCallLemma DEF z, H, K, n

LEMMA FlushKeeps ==
    ASSUME Sound, NEW c \in Names, Flush(c)
    PROVE  Sound'
<1> HIDE DEF State
<1>1. PICK f \in Named(mem, c) : Call(FileFlush(Begin, f), {}, {c}) /\ stale' = stale
  BY DEF Flush
<1> DEFINE r == FileFlush(Begin, f)
           n == NDir(mem)
           K == Keeping(mem, disk, synced)
           H == K \cup {Root}
           z == CallOf(H)
<1>2. /\ Begin \in State /\ Begin.mem = mem /\ Good(mem, n, {}) /\ ~ Failed(Begin) /\ n \in Nat
      /\ Live(mem, n, f) /\ Whole(mem)
  BY BeginLemma DEF Sound
<1>3. Call(r, {}, {c}) /\ stale' = stale /\ up /\ pending = <<>>
  BY <1>1 DEF Call
<1>4. Safe(Begin, n, z)
  <2>1. synced \in SUBSET synced /\ {Root} \in SUBSET {Root}
    OBVIOUS
  <2> HIDE DEF K
  <2>2. QED  BY <1>3, <2>1, CallSafe DEF K
<1>5. Root \in z.held
  BY DEF CallOf
<1>6. f \in Places /\ f \in Inodes(mem, n)
  BY <1>2, InodePlaces DEF Good, Live
<1> HIDE DEF z, Begin, H
<1>7. /\ r \in State /\ r.mem = Begin.mem /\ r.err = Begin.err /\ \E D : Moved(Begin, r, D)
      /\ Agrees(r.disk, mem, f)
  BY <1>2, <1>6, FileFlushLemma
<1> HIDE DEF r, K
<1>8. Safe(r, n, z)
  <2>1. NDir(Begin.mem) <= n
    BY <1>2
  <2> HIDE DEF n
  <2>2. QED  BY <1>2, <1>4, <1>7, <2>1 DEF Moved
<1>9. Agrees(r.disk, mem, Root)
  BY <1>2, <1>5, <1>7, <1>8, RootAgrees DEF Safe
<1>10. Directory(r.disk) = Directory(mem)
  <2>1. File(r.disk, Root) = File(mem, Root)
    BY <1>9 DEF Agrees
  <2>2. \A k : Ptr(r.disk, Root, k) = Ptr(mem, Root, k)
    BY <1>9, AgreesPtrs
  <2>3. QED  BY <2>1, <2>2, SameDirectory
<1>11. Kept(r.disk, mem, {c})
  <2>1. f \in Named(r.disk, c)
    BY <1>7, <1>10 DEF Named, Agrees
  <2>2. QED  BY <1>7, <2>1 DEF Kept
<1>12. Whole(r.mem) /\ NDir(r.mem) = n /\ r.err # "panic" /\ Kept(r.disk, r.mem, {c})
  BY <1>2, <1>7, <1>11 DEF Failed
<1>13. synced \ {} = synced /\ {c} \in SUBSET Names
  OBVIOUS
<1>14. Safe(r, n, CallOf(Keeping(mem, disk, synced \ {}) \cup {Root}))
  BY <1>8, <1>13 DEF z, H, K
<1> HIDE DEF NDir
<1>15. QED  BY <1>3, <1>7, <1>12, <1>13, <1>14, SameCallLemma DEF n

LEMMA SyncKeeps ==
    ASSUME Sound, Sync
    PROVE  Sound'
<1> HIDE DEF State
<1> DEFINE r == FsSync(Begin)
           n == NDir(mem)
           K == Keeping(mem, disk, synced)
           H == K \cup {Root}
           z == CallOf(H)
           all == {c \in Names : Exists(mem, c)}
<1>1. Begin \in State /\ Begin.mem = mem /\ Good(mem, n, {}) /\ ~ Failed(Begin) /\ Whole(mem) /\ n \in Nat
  BY BeginLemma DEF Sound
<1>2. Call(r, {}, all) /\ stale' = stale /\ up /\ pending = <<>>
  BY DEF Sync, Call
<1>3. Safe(Begin, n, z)
  <2>1. synced \in SUBSET synced /\ {Root} \in SUBSET {Root}
    OBVIOUS
  <2> HIDE DEF K
  <2>2. QED  BY <1>2, <2>1, CallSafe DEF K
<1> HIDE DEF z, Begin, H
<1>4. /\ r \in State /\ r.mem = Begin.mem /\ r.err = Begin.err /\ \E D : Moved(Begin, r, D)
      /\ r.disk = Begin.mem
  BY <1>1, FsSyncLemma
<1> HIDE DEF r, K
<1>5. Safe(r, n, z)
  <2>1. NDir(Begin.mem) <= n
    BY <1>1
  <2> HIDE DEF n
  <2>2. QED  BY <1>1, <1>3, <1>4, <2>1 DEF Moved
<1>6. Kept(mem, mem, all)
  BY AgreesSelf DEF Kept, Exists
<1>7. /\ Whole(r.mem) /\ NDir(r.mem) = n /\ r.err # "panic" /\ Kept(r.disk, r.mem, all)
      /\ all \in SUBSET Names
  BY <1>1, <1>4, <1>6 DEF Failed
<1>8. synced \ {} = synced
  OBVIOUS
<1>9. Safe(r, n, CallOf(Keeping(mem, disk, synced \ {}) \cup {Root}))
  BY <1>5, <1>8 DEF z, H, K
<1> HIDE DEF NDir, all
<1>10. QED  BY <1>2, <1>4, <1>7, <1>9, SameCallLemma DEF n

LEMMA LastOne ==
    ASSUME NEW S, NEW p \in Seq(S), p # <<>>, ~ (Len(p) > 1)
    PROVE  Tail(p) = <<>>
<1>1. Len(p) \in Nat /\ Len(p) # 0
  OBVIOUS
<1>2. Tail(p) \in Seq(S) /\ Len(Tail(p)) = Len(p) - 1
  BY <1>1
<1>3. Len(Tail(p)) = 0
  BY <1>1, <1>2
<1>4. QED  BY <1>2, <1>3
LEMMA WriteBackKeeps ==
    ASSUME Sound, WriteBack
    PROVE  Sound'
<1> HIDE DEF Block, Content
<1>1. pending \in Seq(Block \X Content) /\ pending # <<>> /\ disk \in [Block -> Content]
  BY DEF Sound, Typed, TypeOK, WriteBack
<1>4. mem' = mem /\ up' = up
  BY DEF WriteBack
<1>10. Typed'
  BY WriteBackTyped DEF Sound
<1>8. Whole(mem)'
  BY <1>4 DEF Sound
<1>11. PICK y : Orderly(disk, stale, pending, mem, synced, flushing, y) /\ (up => Settled(y, mem))
  BY DEF Sound
<1>12. Wrote(<<disk, stale>>, Head(pending)) = <<disk', stale'>>
  BY DEF Wrote, Left, WriteBack
<1>13. Trail(Due(mem, synced), <<disk', stale'>>, Tail(pending), y)
  <2>1. Trail(Due(mem, synced), Wrote(<<disk, stale>>, Head(pending)), Tail(pending), y)
    BY <1>1, <1>11, TrailTail DEF Orderly
  <2>2. QED  BY <1>12, <2>1
<1>14. Orderly(disk', stale', pending', mem', synced', flushing', y)
  <2>1. CASE Len(pending) > 1
    BY <1>4, <1>11, <1>13, <2>1 DEF Orderly, WriteBack
  <2>2. CASE ~ (Len(pending) > 1)
    <3>1. Tail(pending) = <<>> /\ pending' = <<>>
      <4>1. Tail(pending) = <<>>
        BY <1>1, <2>2, LastOne
      <4>2. QED  BY <4>1 DEF WriteBack
    <3>2. synced' = synced \cup flushing /\ flushing' = {}
      BY <2>2 DEF WriteBack
    <3>3. y = <<disk', stale'>> /\ y \in Due(mem, synced) /\ Kept(y[1], mem, flushing)
      <4> DEFINE x == <<disk', stale'>>
                 G == Due(mem, synced)
      <4>1. Trail(G, x, <<>>, y)
        BY <1>13, <3>1
      <4> HIDE DEF x, G
      <4>2. x = y /\ x \in G
        BY <4>1, TrailNone
      <4>3. QED  BY <1>11, <4>2 DEF Orderly, x, G
    <3>4. y \in Due(mem, synced \cup flushing)
      BY <3>3 DEF Due, Kept
    <3>5. Trail(Due(mem, synced \cup flushing), <<disk', stale'>>, <<>>, y)
      BY <3>3, <3>4, TrailNone
    <3>6. Kept(y[1], mem, {})
      BY DEF Kept
    <3>7. QED  BY <1>4, <3>1, <3>2, <3>5, <3>6 DEF Orderly
  <2>3. QED  BY <2>1, <2>2
<1>15. up' => Settled(y, mem')
  BY <1>4, <1>11
<1>9. QED  BY <1>4, <1>8, <1>10, <1>14, <1>15 DEF Sound

-----------------------------------------------------------------------------
(* The invariant.                                                          *)

LEMMA InitSound == Init => Sound
<1> SUFFICES ASSUME Init  PROVE Sound
  OBVIOUS
<1> HIDE DEF Block, Content
<1>1. disk \in [Block -> Content] /\ mem \in [Block -> Content] /\ Whole(mem)
  BY FormattedLemma DEF Init, Memory
<1>2. pending = <<>> /\ up = TRUE /\ flushing = {} /\ synced = {} /\ stale = {}
  BY DEF Init
<1>3. mem \in Memory /\ disk = mem /\ Good(mem, NDir(mem), {}) /\ NDir(mem) \in Nat
  <2>1. mem \in Memory /\ disk = mem /\ Good(mem, NDir(mem), {})
    BY <1>1 DEF Init, Whole, Memory
  <2>2. QED  BY <2>1, NDirType
<1> DEFINE y == <<mem, {}>>
<1>4. Settled(y, mem)
  <2>1. NDir(mem) <= NDir(mem)
    BY <1>3
  <2> HIDE DEF NDir
  <2>2. Behind(mem, mem, NDir(mem), {}) /\ Marked(mem, mem) /\ Agrees(mem, mem, Root)
    BY <1>3, <2>1, BehindSelf, AgreesSelf
  <2>3. QED  BY <2>2 DEF Settled
<1>5. y \in Due(mem, {})
  <2>1. Clear(mem, {})
    BY <1>3, <1>4, ClearLemma DEF Settled
  <2>2. QED  BY <1>3, <2>1 DEF Due, Disks, Kept
<1>6. Orderly(disk, stale, pending, mem, synced, flushing, y)
  BY <1>2, <1>3, <1>5, TrailNone DEF Orderly, Kept
<1>7. QED  BY <1>1, <1>4, <1>6, InitTyped DEF Sound

LEMMA UnchangedSound == Sound /\ UNCHANGED vars => Sound'
<1> SUFFICES ASSUME Sound, UNCHANGED vars  PROVE Sound'
  OBVIOUS
<1>1. Typed'
  BY DEF vars, Sound, Typed, TypeOK
<1>2. Whole(mem)'
  BY DEF vars, Sound
<1>3. PICK y : Orderly(disk, stale, pending, mem, synced, flushing, y) /\ (up => Settled(y, mem))
  BY DEF Sound
<1>4. Orderly(disk', stale', pending', mem', synced', flushing', y) /\ (up' => Settled(y, mem'))
  BY <1>3 DEF vars
<1>5. QED  BY <1>1, <1>2, <1>4 DEF Sound

LEMMA StepSound == Sound /\ [Next]_vars /\ [CreatesClean]_vars => Sound'
<1> SUFFICES ASSUME Sound, Next, CreatesClean  PROVE Sound'
  BY UnchangedSound
<1>1. ASSUME NEW n \in Names, Requests(n)  PROVE Sound'
  <2>1. CASE Create(n)
    BY <2>1, CreateKeeps DEF CreatesClean
  <2>2. CASE \E size \in 0 .. MaxSize : SetSize(n, size)
    BY <2>2, SetSizeKeeps
  <2>3. ASSUME NEW offset \in 0 .. MaxSize - 1, NEW count \in 1 .. Min({MaxCount, MaxSize - offset}),
               Read(n, offset, count) \/ \E b \in Written : Write(n, offset, count, b)
        PROVE  Sound'
    <3>1. offset \in Nat /\ count \in Nat \ {0}
      BY CountLemma
    <3>2. CASE Read(n, offset, count)
      BY <3>1, <3>2, ReadKeeps
    <3>3. CASE \E b \in Written : Write(n, offset, count, b)
      BY <3>1, <3>3, WriteKeeps, ByteAssumption DEF Byte
    <3>4. QED  BY <2>3, <3>2, <3>3
  <2>4. CASE Flush(n)
    BY <2>4, FlushKeeps
  <2>5. QED  BY <1>1, <2>1, <2>2, <2>3, <2>4 DEF Requests
<1>2. CASE Sync
  BY <1>2, SyncKeeps
<1>3. CASE WriteBack
  BY <1>3, WriteBackKeeps
<1>4. QED  BY <1>1, <1>2, <1>3 DEF Next

LEMMA AlwaysSound == Spec /\ CleanGrowth => []Sound
  BY InitSound, StepSound, PTL DEF Spec, CleanGrowth

(* alloc_block, free_block and the pointers agree in the cache after every  *)
(* call: a block is free exactly when no file points to it, and no two      *)
(* pointers name one block.                                                 *)
THEOREM BitmapExactTheorem == Spec /\ CleanGrowth => []BitmapExact
<1>1. Sound => BitmapExact
  BY WholeExact DEF Sound, BitmapOf, BitmapExact
<1>2. QED  BY <1>1, AlwaysSound, PTL

(* Between any two writes the disk shows no file a block that is free or    *)
(* another file's, but for the entries that file_truncate_blocks cleared in *)
(* the cache only: the order in which fs.c flushes bitmap, File and blocks. *)
THEOREM DiskSoundTheorem == Spec /\ CleanGrowth => []DiskSound
<1>1. Sound => DiskSound
  <2> SUFFICES ASSUME Sound  PROVE DiskSound
    OBVIOUS
  <2> HIDE DEF Block, Content
  <2>1. PICK y : Trail(Due(mem, synced), <<disk, stale>>, pending, y)
    BY DEF Sound, Orderly
  <2>2. <<disk, stale>> \in Due(mem, synced)
    BY <2>1, TrailEnds DEF Sound, Typed
  <2>3. Clear(disk, stale)
    BY <2>2 DEF Due
  <2>4. QED  BY <2>3 DEF Clear, ShownIn, DiskSound, Shown
<1>2. QED  BY <1>1, AlwaysSound, PTL

(* What file_flush and fs_sync wrote out, and no call has changed since, is *)
(* on the disk at every moment: a machine that stops there finds it again.  *)
THEOREM DurableTheorem == Spec /\ CleanGrowth => []Durable
<1>1. Sound => Durable
  <2> SUFFICES ASSUME Sound  PROVE Durable
    OBVIOUS
  <2>1. mem \in Memory /\ Whole(mem)
    BY DEF Sound, Typed, TypeOK, Memory
  <2>2. Directory(mem) \subseteq Places \ {Root}
    <3>1. Directory(mem) = Inodes(mem, NDir(mem)) \ {Root} /\ Good(mem, NDir(mem), {})
      BY BeginLemma
    <3>2. QED  BY <3>1, InodePlaces DEF Good
  <2>3. Kept(disk, mem, synced)
    <3> HIDE DEF Block, Content
    <3>1. PICK y : Trail(Due(mem, synced), <<disk, stale>>, pending, y)
      BY DEF Sound, Orderly
    <3>2. <<disk, stale>> \in Due(mem, synced)
      BY <3>1, TrailEnds DEF Sound, Typed
    <3>3. QED  BY <3>2 DEF Due
  <2>4. ASSUME NEW c \in synced
        PROVE  \E f \in Named(disk, c), g \in Named(mem, c) : Contents(disk, f) = Contents(mem, g)
    <3>1. PICK g \in Named(mem, c) \cap Named(disk, c) : Agrees(disk, mem, g)
      BY <2>3 DEF Kept
    <3>2. g \in Places \ {Root}
      BY <2>2 DEF Named
    <3>3. Contents(disk, g) = Contents(mem, g)
      BY <2>1, <3>1, <3>2, ContentsLemma
    <3>4. QED  BY <3>1, <3>3
  <2>5. QED  BY <2>4 DEF Durable
<1>2. QED  BY <1>1, AlwaysSound, PTL

-----------------------------------------------------------------------------
(* The files, as Files has them.                                           *)

LEMMA OneFile ==
    ASSUME NEW m, Whole(m), NEW c \in Names, NEW f \in Named(m, c)
    PROVE  /\ Exists(m, c) /\ Named(m, c) = {f} /\ FileContents(m, c) = Contents(m, f)
           /\ f \in Inodes(m, NDir(m)) \ {Root} /\ f \in Places /\ m \in Memory /\ File(m, f).size \in Nat
<1> DEFINE n == NDir(m)
<1>1. Good(m, n, {}) /\ Listed(m, n) /\ File(m, Root).size = n * BLKSIZE
  BY DEF Whole
<1> HIDE DEF n
<1>2. Directory(m) = Inodes(m, n) \ {Root}
  BY <1>1, DirectoryLemma
<1>3. Named(m, c) = {f}
  BY <1>1, <1>2 DEF Named, Listed
<1>4. {Contents(m, g) : g \in Named(m, c)} = {Contents(m, f)}
  BY <1>3
<1>5. FileContents(m, c) = Contents(m, f)
  BY <1>4 DEF FileContents
<1>6. f \in Inodes(m, n) \ {Root}
  BY <1>2 DEF Named
<1>7. f \in Places /\ m \in Memory
  BY <1>1, <1>6, InodePlaces DEF Good
<1>8. File(m, f).size \in Nat
  BY <1>7, PtrTypes
<1>9. QED  BY <1>3, <1>5, <1>6, <1>7, <1>8 DEF Exists, n

LEMMA AllFiles ==
    ASSUME NEW m
    PROVE  /\ DOMAIN AllContents(m) = {x \in Names : Exists(m, x)}
           /\ \A x \in DOMAIN AllContents(m) : AllContents(m)[x] = FileContents(m, x)
  BY DEF AllContents

(* A call on the file f changes no other.                                   *)
LEMMA OthersSame ==
    ASSUME NEW m, Whole(m), NEW w, Whole(w), NDir(w) = NDir(m), NEW c \in Names, NEW f \in Named(m, c),
           SameOthers(m, w, NDir(m), f), Others(m, w, NDir(m), f)
    PROVE  LET old == AllContents(m)
               new == AllContents(w)
           IN  /\ c \in DOMAIN old /\ DOMAIN new = DOMAIN old
               /\ old[c] = Contents(m, f) /\ new[c] = Contents(w, f)
               /\ \A x \in DOMAIN old \ {c} : new[x] = old[x]
               /\ File(m, f).size \in Nat /\ File(w, f).size \in Nat
<1> DEFINE n == NDir(m)
<1>1. Directory(m) = Inodes(m, n) \ {Root} /\ Directory(w) = Inodes(w, n) \ {Root}
  BY DirectoryLemma DEF Whole
<1> HIDE DEF n
<1>2. Inodes(w, n) = Inodes(m, n) /\ \A g \in Inodes(m, n) : File(w, g).name = File(m, g).name
  BY DEF SameOthers, n
<1>3. \A x : Named(w, x) = Named(m, x) /\ (Exists(w, x) <=> Exists(m, x))
  BY <1>1, <1>2 DEF Named, Exists
<1>4. DOMAIN AllContents(w) = DOMAIN AllContents(m)
  BY <1>3, AllFiles
<1>5. /\ Exists(m, c) /\ FileContents(m, c) = Contents(m, f) /\ FileContents(w, c) = Contents(w, f)
      /\ File(m, f).size \in Nat /\ File(w, f).size \in Nat
  <2>1. f \in Named(w, c)
    BY <1>3
  <2>2. QED  BY <2>1, OneFile
<1>6. c \in DOMAIN AllContents(m) /\ AllContents(m)[c] = Contents(m, f) /\ AllContents(w)[c] = Contents(w, f)
  BY <1>4, <1>5, AllFiles
<1>7. ASSUME NEW x \in DOMAIN AllContents(m) \ {c}  PROVE AllContents(w)[x] = AllContents(m)[x]
  <2>1. x \in Names /\ Exists(m, x)
    BY AllFiles
  <2>2. PICK g \in Named(m, x) : TRUE
    BY <2>1 DEF Exists
  <2>3. g # f /\ g \in Inodes(m, n) /\ g # Root /\ g \in Places /\ m \in Memory
    BY <1>7, <2>1, <2>2, OneFile DEF Named, n
  <2>4. Agrees(w, m, g)
    BY <2>3 DEF Others, n
  <2>5. Contents(w, g) = Contents(m, g)
    BY <2>3, <2>4, ContentsLemma
  <2>6. FileContents(m, x) = Contents(m, g) /\ FileContents(w, x) = Contents(w, g)
    BY <1>3, <2>1, <2>2, OneFile
  <2>7. QED  BY <1>4, <2>5, <2>6, AllFiles
<1>8. QED  BY <1>4, <1>5, <1>6, <1>7

LEMMA KeptLemma ==
    ASSUME NEW m, NEW w, NEW f, File(m, f).size \in Nat, File(w, f).size \in Nat, NEW W, KeepsBytes(m, w, f, W),
           NEW V, \A i \in 0 .. File(m, f).size - 1 : i \in 0 .. File(w, f).size - 1 /\ i \in W => i \in V
    PROVE  Promise!Kept(Contents(m, f), Contents(w, f), V)
  BY DEF Promise!Kept, Contents, KeepsBytes

\* A step of Files, or none.
Promised(m, w) == w = m \/ \E c \in Names :
    LET old == AllContents(m)
        new == AllContents(w)
    IN  /\ Promise!Create(old, new, c) \/ Promise!Call(old, new, c)
        /\ \A x \in DOMAIN old \ {c} : new[x] = old[x]

\* A call on a file there is, or none.
Called(m, w) == w = m \/ \E c \in Names : \E f \in Named(m, c) :
    Whole(w) /\ NDir(w) = NDir(m) /\ SameOthers(m, w, NDir(m), f)

\* What the call leaves in the cache.
LEMMA CallMem ==
    ASSUME NEW s, NEW changed, NEW flushed, Call(s, changed, flushed)
    PROVE  IF s.err = "panic" THEN mem' = mem ELSE mem' = s.mem
  BY DEF Call

LEMMA SetSizePromised ==
    ASSUME Sound, NEW c \in Names, NEW size \in 0 .. MaxSize, SetSize(c, size)
    PROVE  Promised(mem, mem') /\ Called(mem, mem')
<1> HIDE DEF State
<1>1. PICK f \in Named(mem, c) : Call(FileSetSize(Begin, f, size), {c}, {})
  BY DEF SetSize
<1> DEFINE r == FileSetSize(Begin, f, size)
           n == NDir(mem)
<1>2. /\ Begin.mem = mem /\ Runs(Begin, n) /\ size \in Nat
      /\ f # Root /\ Live(Begin.mem, n, f) /\ Whole(mem)
  BY BeginLemma DEF Sound
<1> HIDE DEF Begin, n
<1>3. Runs(r, n) /\ Resized(mem, r.mem, n, f, size) /\ Alters(mem, r.mem, n, f, From(size))
  BY <1>2, FileSetSizeLemma
<1>4. mem' = mem \/ mem' = r.mem
  BY <1>1, CallMem
<1> HIDE DEF r
<1>5. SameOthers(mem, r.mem, n, f) /\ f \in Inodes(mem, n)
  BY <1>2, <1>3 DEF Resized, SameOthers, Live
<1>6. Whole(r.mem) /\ NDir(r.mem) = n
  BY <1>2, <1>3, <1>5, WholeKept DEF n
<1> DEFINE old == AllContents(mem)
           new == AllContents(r.mem)
<1>7. /\ c \in DOMAIN old /\ DOMAIN new = DOMAIN old
      /\ old[c] = Contents(mem, f) /\ new[c] = Contents(r.mem, f)
      /\ \A x \in DOMAIN old \ {c} : new[x] = old[x]
      /\ File(mem, f).size \in Nat /\ File(r.mem, f).size \in Nat
  BY <1>2, <1>3, <1>5, <1>6, OthersSame DEF n, Alters
<1>8. File(r.mem, f).size = size
  BY <1>3, <1>5 DEF Resized
<1>9. Promise!SetSize(old[c], new[c], size)
  <2>1. DOMAIN Contents(r.mem, f) = 0 .. size - 1
    BY <1>8 DEF Contents
  <2>2. \A i \in 0 .. File(mem, f).size - 1 : i \in 0 .. File(r.mem, f).size - 1 /\ i \in From(size) => i \in {}
    BY <1>2, <1>7, <1>8 DEF From
  <2>3. Promise!Kept(Contents(mem, f), Contents(r.mem, f), {})
    BY <1>3, <1>7, <2>2, KeptLemma DEF Alters
  <2> HIDE DEF old, new
  <2>4. QED  BY <1>7, <2>1, <2>3 DEF Promise!SetSize
<1> HIDE DEF old, new
<1>10. Promise!Call(old, new, c)
  BY <1>7, <1>9 DEF Promise!Call
<1>11. Promised(mem, r.mem)
  BY <1>7, <1>10 DEF Promised, old, new
<1>12. Called(mem, r.mem)
  BY <1>3, <1>5, <1>6 DEF Called, n
<1>13. QED  BY <1>4, <1>11, <1>12 DEF Promised, Called

LEMMA ReadPromised ==
    ASSUME Sound, NEW c \in Names, NEW offset \in Nat, NEW count \in Nat, Read(c, offset, count)
    PROVE  Promised(mem, mem') /\ Called(mem, mem')
<1> HIDE DEF State
<1>1. PICK f \in Named(mem, c) : \E C : Call(FileRead(Begin, f, offset, count), C, {})
  BY DEF Read
<1> DEFINE r == FileRead(Begin, f, offset, count)
           n == NDir(mem)
<1>2. /\ Begin.mem = mem /\ Runs(Begin, n) /\ ~ Failed(Begin)
      /\ f # Root /\ Live(Begin.mem, n, f) /\ Whole(mem)
  BY BeginLemma DEF Sound
<1> HIDE DEF Begin, n
<1>3. Keeps(Begin, r, n, f) /\ Alters(mem, r.mem, n, f, {})
  BY <1>2, FileReadLemma
<1>4. mem' = mem \/ mem' = r.mem
  BY <1>1, CallMem
<1> HIDE DEF r
<1>5. SameOthers(mem, r.mem, n, f) /\ f \in Inodes(mem, n) /\ Runs(r, n)
  BY <1>2, <1>3 DEF Keeps, SameNames, SameOthers, Live
<1>6. Whole(r.mem) /\ NDir(r.mem) = n
  BY <1>2, <1>5, WholeKept DEF n
<1> DEFINE old == AllContents(mem)
           new == AllContents(r.mem)
<1>7. /\ c \in DOMAIN old /\ DOMAIN new = DOMAIN old
      /\ old[c] = Contents(mem, f) /\ new[c] = Contents(r.mem, f)
      /\ \A x \in DOMAIN old \ {c} : new[x] = old[x]
      /\ File(mem, f).size \in Nat /\ File(r.mem, f).size \in Nat
  BY <1>2, <1>3, <1>5, <1>6, OthersSame DEF n, Alters
<1>8. File(r.mem, f).size = File(mem, f).size
  BY <1>2, <1>3, <1>5 DEF Keeps, SameNames
<1>9. Promise!Read(old[c], new[c])
  <2>1. DOMAIN Contents(r.mem, f) = DOMAIN Contents(mem, f)
    BY <1>8 DEF Contents
  <2>2. Promise!Kept(Contents(mem, f), Contents(r.mem, f), {})
    BY <1>3, <1>7, KeptLemma DEF Alters
  <2> HIDE DEF old, new
  <2>3. QED  BY <1>7, <2>1, <2>2 DEF Promise!Read
<1> HIDE DEF old, new
<1>10. Promise!Call(old, new, c)
  BY <1>7, <1>9 DEF Promise!Call
<1>11. Promised(mem, r.mem)
  BY <1>7, <1>10 DEF Promised, old, new
<1>12. Called(mem, r.mem)
  BY <1>5, <1>6 DEF Called, n
<1>13. QED  BY <1>4, <1>11, <1>12 DEF Promised, Called

LEMMA WritePromised ==
    ASSUME Sound, NEW c \in Names, NEW offset \in 0 .. MaxSize - 1, NEW count \in 1 .. MaxSize - offset,
           NEW b \in Byte, Write(c, offset, count, b)
    PROVE  Promised(mem, mem') /\ Called(mem, mem')
<1> HIDE DEF State, Byte
<1>1. PICK f \in Named(mem, c) : Call(FileWrite(Begin, f, offset, count, b), {c}, {})
  BY DEF Write
<1> DEFINE r == FileWrite(Begin, f, offset, count, b)
           n == NDir(mem)
<1>0. /\ offset \in Nat /\ count \in Nat \ {0} /\ MaxSize \in Nat
      /\ offset + count - 1 \in offset .. MaxSize - 1
  <2>1. MaxSize \in Nat
    BY Sizes
  <2>2. QED  BY <2>1
<1>2. /\ Begin.mem = mem /\ Runs(Begin, n) /\ ~ Failed(Begin)
      /\ f # Root /\ Live(Begin.mem, n, f) /\ Whole(mem)
  BY BeginLemma DEF Sound
<1> HIDE DEF Begin, n
<1> DEFINE W == offset .. offset + count - 1
           size == File(mem, f).size
<1>3. /\ Runs(r, n) /\ SameOthers(mem, r.mem, n, f)
      /\ File(r.mem, f).size = (IF offset + count > size THEN offset + count ELSE size)
      /\ Alters(mem, r.mem, n, f, From(File(r.mem, f).size) \cup W)
      /\ r.err # "panic" => \A p \in W : p \div BLKSIZE < Capacity => ByteAt(r.mem, f, p) = b
  <2>1. Runs(r, n) /\ SameOthers(Begin.mem, r.mem, n, f) /\ Puts(Begin.mem, r, n, f, offset, count, b)
    BY <1>0, <1>2, FileWriteLemma
  <2> HIDE DEF r
  <2>2. QED  BY <1>2, <2>1 DEF Puts
<1>4. mem' = mem \/ (r.err # "panic" /\ mem' = r.mem)
  BY <1>1, CallMem
<1> HIDE DEF r
<1>5. f \in Inodes(mem, n)
  BY <1>2 DEF Live
<1>6. Whole(r.mem) /\ NDir(r.mem) = n
  BY <1>2, <1>3, WholeKept DEF n
<1> DEFINE old == AllContents(mem)
           new == AllContents(r.mem)
<1>7. /\ c \in DOMAIN old /\ DOMAIN new = DOMAIN old
      /\ old[c] = Contents(mem, f) /\ new[c] = Contents(r.mem, f)
      /\ \A x \in DOMAIN old \ {c} : new[x] = old[x]
      /\ size \in Nat /\ File(r.mem, f).size \in Nat
  BY <1>2, <1>3, <1>5, <1>6, OthersSame DEF n, Alters
<1>8. ASSUME r.err # "panic"
      PROVE  Promise!Write(old[c], new[c], W, b)
  <2>1. DOMAIN Contents(mem, f) = 0 .. size - 1 /\ DOMAIN Contents(r.mem, f) = 0 .. File(r.mem, f).size - 1
    BY DEF Contents
  <2>2. 0 .. File(r.mem, f).size - 1 = (0 .. size - 1) \cup UNION {0 .. i : i \in W}
    <3> HIDE DEF size
    <3>1. ASSUME NEW i \in 0 .. File(r.mem, f).size - 1, i \notin 0 .. size - 1
          PROVE  i \in 0 .. offset + count - 1 /\ offset + count - 1 \in W
      BY <1>0, <1>3, <1>7, <3>1
    <3>2. ASSUME NEW j \in W, NEW i \in 0 .. j  PROVE i \in 0 .. File(r.mem, f).size - 1
      BY <1>0, <1>3, <1>7
    <3>3. \A i \in 0 .. size - 1 : i \in 0 .. File(r.mem, f).size - 1
      BY <1>0, <1>3, <1>7
    <3> HIDE DEF W
    <3>4. QED  BY <3>1, <3>2, <3>3
  <2>3. Promise!Kept(Contents(mem, f), Contents(r.mem, f), W)
    <3>1. \A i \in 0 .. size - 1 :
             i \in 0 .. File(r.mem, f).size - 1 /\ i \in From(File(r.mem, f).size) \cup W => i \in W
      <4> HIDE DEF W, size
      <4>1. QED  BY <1>7 DEF From
    <3> HIDE DEF W
    <3>2. QED  BY <1>3, <1>7, <3>1, KeptLemma DEF Alters
  <2>4. ASSUME NEW i \in W, i < Capacity * BLKSIZE
        PROVE  Contents(r.mem, f)[i] = b
    <3>1. i \in Nat /\ i \in 0 .. File(r.mem, f).size - 1
      <4> HIDE DEF size
      <4>1. QED  BY <1>0, <1>3, <1>7
    <3>2. i \div BLKSIZE < Capacity
      <4>1. i \div BLKSIZE < NBlocks(Capacity * BLKSIZE) /\ NBlocks(Capacity * BLKSIZE) = Capacity
        <5>1. Capacity \in Nat /\ Capacity * BLKSIZE \in Nat
          BY Sizes
        <5>2. QED  BY <2>4, <3>1, <5>1, BlocksBelow, WholeBlocks
      <4>2. QED  BY <4>1
    <3>3. ByteAt(r.mem, f, i) = b
      BY <1>3, <1>8, <2>4, <3>2
    <3>4. QED  BY <3>1, <3>3 DEF Contents
  <2> HIDE DEF old, new, W, size
  <2>5. QED  BY <1>7, <2>1, <2>2, <2>3, <2>4 DEF Promise!Write
<1> HIDE DEF old, new
<1>9. ASSUME r.err # "panic"  PROVE Promise!Call(old, new, c)
  <2>1. offset \in 0 .. MaxSize - 1 /\ offset + count - 1 \in offset .. MaxSize - 1
    BY <1>0
  <2>2. QED  BY <1>7, <1>8, <1>9, <2>1 DEF Promise!Call
<1>10. r.err # "panic" => Promised(mem, r.mem)
  BY <1>7, <1>9 DEF Promised, old, new
<1>11. Called(mem, r.mem)
  BY <1>3, <1>6 DEF Called, n
<1>12. QED  BY <1>4, <1>10, <1>11 DEF Promised, Called

LEMMA MadeLemma ==
    ASSUME NEW m, Whole(m), NEW w, Whole(w), NEW d, NEW c \in Names, NEW f, ~ Exists(m, c),
           Extends(m, d, NDir(m), NDir(w)), Made(d, w, NDir(w), f, c)
    PROVE  /\ f \in Named(w, c)
           /\ \A x \in Names \ {c} : \A g : g \in Named(w, x) <=> g \in Named(m, x)
           /\ \A x \in Names : \A g \in Named(m, x) : Agrees(w, m, g)
<1> DEFINE n == NDir(m)
           l == NDir(w)
<1>1. Directory(m) = Inodes(m, n) \ {Root} /\ Directory(w) = Inodes(w, l) \ {Root}
  BY DirectoryLemma DEF Whole
<1> HIDE DEF n, l
<1>2. f \in Named(w, c)
  BY <1>1 DEF Named, Made, l
<1>3. ASSUME NEW g \in Directory(m), File(m, g).name \in Names
      PROVE  g \in Directory(w) /\ Agrees(w, m, g) /\ File(w, g) = File(m, g)
  <2>1. g \in Inodes(d, l) /\ Agrees(d, m, g)
    BY <1>1 DEF Extends, Made, n, l
  <2>2. g # f
    BY <1>3, <2>1 DEF Agrees, Made, l
  <2>3. Agrees(w, d, g) /\ g \in Inodes(w, l)
    BY <2>1, <2>2 DEF Made, Others, l
  <2>4. Agrees(w, m, g)
    BY <2>1, <2>3, AgreesVia
  <2>5. QED  BY <1>1, <2>3, <2>4 DEF Agrees
<1>4. ASSUME NEW g \in Directory(w), g # f, File(w, g).name \in Names
      PROVE  g \in Directory(m) /\ File(m, g).name = File(w, g).name
  <2>1. g \in Inodes(d, l) /\ Agrees(w, d, g) /\ g # Root
    BY <1>1, <1>4 DEF Made, Others, l
  <2>2. File(d, g).name \in Names
    BY <1>4, <2>1 DEF Agrees
  <2>3. g \in Inodes(m, n)
    BY <2>1, <2>2, FileTypes, NamesAssumption DEF Extends, n, l
  <2>4. Agrees(d, m, g)
    BY <2>1, <2>3 DEF Extends, n, l
  <2>5. QED  BY <1>1, <2>1, <2>3, <2>4 DEF Agrees
<1>5. ASSUME NEW x \in Names \ {c}, NEW g  PROVE g \in Named(w, x) <=> g \in Named(m, x)
  <2>1. ASSUME g \in Named(w, x)  PROVE g \in Named(m, x)
    <3>1. g \in Directory(w) /\ File(w, g).name = x
      BY <2>1 DEF Named
    <3>2. g # f
      BY <3>1 DEF Made
    <3>3. QED  BY <1>4, <3>1, <3>2 DEF Named
  <2>2. ASSUME g \in Named(m, x)  PROVE g \in Named(w, x)
    BY <1>3, <2>2 DEF Named
  <2>3. QED  BY <2>1, <2>2
<1>6. \A x \in Names : \A g \in Named(m, x) : Agrees(w, m, g)
  BY <1>3 DEF Named
<1>7. QED  BY <1>2, <1>5, <1>6

LEMMA MadeFiles ==
    ASSUME NEW m, Whole(m), NEW w, Whole(w), NEW d, NEW c \in Names, NEW f, ~ Exists(m, c),
           Extends(m, d, NDir(m), NDir(w)), Made(d, w, NDir(w), f, c), Contents(w, f) = <<>>
    PROVE  Promised(m, w)
<1> DEFINE old == AllContents(m)
           new == AllContents(w)
<1>1. /\ f \in Named(w, c)
      /\ \A x \in Names \ {c} : \A g : g \in Named(w, x) <=> g \in Named(m, x)
      /\ \A x \in Names : \A g \in Named(m, x) : Agrees(w, m, g)
  BY MadeLemma
<1>2. /\ DOMAIN old = {x \in Names : Exists(m, x)} /\ DOMAIN new = {x \in Names : Exists(w, x)}
      /\ \A x \in DOMAIN old : old[x] = FileContents(m, x)
      /\ \A x \in DOMAIN new : new[x] = FileContents(w, x)
  BY AllFiles
<1> HIDE DEF old, new
<1>3. c \notin DOMAIN old /\ DOMAIN new = DOMAIN old \cup {c}
  <2>1. \A x \in Names \ {c} : Exists(w, x) <=> Exists(m, x)
    BY <1>1 DEF Exists
  <2>2. Exists(w, c)
    BY <1>1 DEF Exists
  <2>3. QED  BY <1>2, <2>1, <2>2
<1>4. DOMAIN new[c] = {}
  <2>1. new[c] = <<>>
    BY <1>1, <1>2, <1>3, OneFile
  <2>2. QED  BY <2>1
<1>5. ASSUME NEW x \in DOMAIN old \ {c}  PROVE new[x] = old[x]
  <2>1. x \in Names \ {c} /\ Exists(m, x)
    BY <1>2
  <2>2. PICK g \in Named(m, x) : TRUE
    BY <2>1 DEF Exists
  <2>3. g \in Named(w, x) /\ Agrees(w, m, g)
    BY <1>1, <2>1
  <2>4. FileContents(m, x) = Contents(m, g) /\ g \in Places /\ g # Root /\ m \in Memory
    BY <2>1, OneFile
  <2>5. FileContents(w, x) = Contents(w, g)
    BY <2>1, <2>3, OneFile
  <2>6. Contents(w, g) = Contents(m, g)
    BY <2>3, <2>4, ContentsLemma
  <2>7. QED  BY <1>2, <1>3, <2>4, <2>5, <2>6
<1>6. Promise!Create(old, new, c)
  BY <1>3, <1>4 DEF Promise!Create
<1>7. QED  BY <1>5, <1>6 DEF Promised, old, new

LEMMA CreatePromised ==
    ASSUME Sound, NEW c \in Names, Create(c), Clean(Begin),
           Exists(mem', c) => \A f \in Named(mem', c) : Contents(mem', f) = <<>>
    PROVE  Promised(mem, mem')
<1> DEFINE r == FileCreate(Begin, c)
           n == NDir(mem)
           d == DirAllocFile(Begin).mem
<1> HIDE DEF State
<1>1. Begin \in State /\ Begin.mem = mem /\ ~ Failed(Begin) /\ Whole(mem)
  BY BeginLemma DEF Sound
<1>2. ~ Exists(mem, c) /\ Call(r, {c}, {})
  BY DEF Create
<1> HIDE DEF Begin, n
<1>3. \/ r.err = "panic"
      \/ Whole(r.mem) /\ Extends(mem, d, n, NDir(r.mem)) /\ \E f : Made(d, r.mem, NDir(r.mem), f, c)
  BY <1>1, <1>2, FileCreateLemma DEF n
<1>4. IF r.err = "panic" THEN mem' = mem ELSE mem' = r.mem
  BY <1>2, CallMem
<1> HIDE DEF r, d, NDir
<1>5. CASE r.err = "panic"
  BY <1>4, <1>5 DEF Promised
<1>6. CASE r.err # "panic"
  <2>1. PICK f : Made(d, r.mem, NDir(r.mem), f, c)
    BY <1>3, <1>6
  <2>2. f \in Named(r.mem, c)
    BY <1>1, <1>2, <1>3, <1>6, <2>1, MadeLemma DEF n
  <2>3. Contents(r.mem, f) = <<>>
    BY <1>4, <1>6, <2>2 DEF Exists
  <2>4. QED  BY <1>1, <1>2, <1>3, <1>4, <1>6, <2>1, <2>3, MadeFiles DEF n
<1>7. QED  BY <1>5, <1>6

\* What CreatedEmpty says of a step.
StartsEmpty == \A n \in Names :
    ~ Exists(mem, n) /\ Exists(mem', n) => \A f \in Named(mem', n) : Contents(mem', f) = <<>>

LEMMA FlushPromised ==
    ASSUME Sound, Sync \/ WriteBack \/ \E c \in Names : Flush(c)
    PROVE  mem' = mem
<1> HIDE DEF State
<1>1. /\ Begin \in State /\ Begin.mem = mem /\ ~ Failed(Begin)
      /\ \A c \in Names : \A f \in Named(mem, c) : f \in Places
  <2>1. /\ Begin \in State /\ Begin.mem = mem /\ ~ Failed(Begin) /\ Whole(mem)
    BY BeginLemma DEF Sound
  <2>2. QED  BY <2>1, OneFile
<1> HIDE DEF Begin
<1>2. CASE Sync
  <2>1. FsSync(Begin).mem = mem
    BY <1>1, FsSyncLemma
  <2>2. Call(FsSync(Begin), {}, {n \in Names : Exists(mem, n)})
    BY <1>2 DEF Sync
  <2>3. QED  BY <2>1, <2>2, CallMem
<1>3. CASE WriteBack
  BY <1>3 DEF WriteBack
<1>4. ASSUME NEW c \in Names, Flush(c)  PROVE mem' = mem
  <2>1. PICK f \in Named(mem, c) : Call(FileFlush(Begin, f), {}, {c})
    BY <1>4 DEF Flush
  <2>2. FileFlush(Begin, f).mem = mem
    BY <1>1, FileFlushLemma
  <2>3. QED  BY <2>1, <2>2, CallMem
<1>5. QED  BY <1>2, <1>3, <1>4

LEMMA StepPromised ==
    Sound /\ [Next]_vars /\ [CreatesClean]_vars /\ [StartsEmpty]_vars => Promised(mem, mem')
<1> SUFFICES ASSUME Sound, Next, CreatesClean, StartsEmpty  PROVE Promised(mem, mem')
  BY DEF vars, Promised
<1>1. ASSUME NEW n \in Names, Requests(n)  PROVE Promised(mem, mem')
  <2>1. CASE Create(n)
    <3>1. ~ Exists(mem, n) /\ Clean(Begin)
      BY <2>1 DEF Create, CreatesClean
    <3>2. Exists(mem', n) => \A f \in Named(mem', n) : Contents(mem', f) = <<>>
      BY <3>1 DEF StartsEmpty
    <3>3. QED  BY <2>1, <3>1, <3>2, CreatePromised
  <2>2. CASE \E size \in 0 .. MaxSize : SetSize(n, size)
    BY <2>2, SetSizePromised
  <2>3. ASSUME NEW offset \in 0 .. MaxSize - 1, NEW count \in 1 .. Min({MaxCount, MaxSize - offset}),
               Read(n, offset, count) \/ \E b \in Written : Write(n, offset, count, b)
        PROVE  Promised(mem, mem')
    <3>1. offset \in Nat /\ count \in Nat /\ count \in 1 .. MaxSize - offset
      BY CountLemma
    <3>2. CASE Read(n, offset, count)
      BY <3>1, <3>2, ReadPromised
    <3>3. CASE \E b \in Written : Write(n, offset, count, b)
      BY <3>1, <3>3, WritePromised, ByteAssumption DEF Byte
    <3>4. QED  BY <2>3, <3>2, <3>3
  <2>4. CASE Flush(n)
    BY <2>4, FlushPromised DEF Promised
  <2>5. QED  BY <1>1, <2>1, <2>2, <2>3, <2>4 DEF Requests
<1>2. CASE Sync \/ WriteBack
  BY <1>2, FlushPromised DEF Promised
<1>3. QED  BY <1>1, <1>2 DEF Next

LEMMA MapsStep == Promised(mem, mem') => [Promise!Next]_(AllContents(mem))
<1> SUFFICES ASSUME Promised(mem, mem')  PROVE Promise!Next \/ UNCHANGED AllContents(mem)
  OBVIOUS
<1>1. CASE mem' = mem
  BY <1>1
<1>2. ASSUME NEW c \in Names,
             Promise!Create(AllContents(mem), AllContents(mem'), c) \/ Promise!Call(AllContents(mem), AllContents(mem'), c),
             \A x \in DOMAIN AllContents(mem) \ {c} : AllContents(mem')[x] = AllContents(mem)[x]
      PROVE  Promise!Next
  BY <1>2 DEF Promise!Next
<1>3. QED  BY <1>1, <1>2 DEF Promised

LEMMA NoDirectory ==
    ASSUME NEW m, Whole(m), NDir(m) = 0
    PROVE  Directory(m) = {}
<1>1. Directory(m) = Inodes(m, NDir(m)) \ {Root}
  BY DirectoryLemma DEF Whole
<1>2. Inodes(m, 0) = {Root}
  BY DEF Inodes
<1>3. QED  BY <1>1, <1>2

LEMMA MapsInit == Init => Promise!Init
<1> SUFFICES ASSUME Init  PROVE AllContents(mem) = [n \in {} |-> 0]
  BY DEF Promise!Init
<1>1. mem = Formatted /\ Whole(mem)
  BY FormattedLemma DEF Init
<1>2. NDir(mem) = 0
  BY <1>1, FormattedLemma
<1>3. Directory(mem) = {}
  BY <1>1, <1>2, NoDirectory
<1>4. {x \in Names : Exists(mem, x)} = {}
  BY <1>3 DEF Exists, Named
<1>5. QED  BY <1>4 DEF AllContents

-----------------------------------------------------------------------------
(* The files that file_create makes.                                       *)

\* The entries of the directory that have no file are as fsformat left them,
\* as far as Contents goes.
Fresh(m) == \A g \in Directory(m) :
    File(m, g).name \in Names \/ (File(m, g).name = NoName /\ File(m, g).size = 0)

LEMMA CalledFresh ==
    ASSUME NEW m, Whole(m), Fresh(m), NEW w, Called(m, w)
    PROVE  Fresh(w) /\ \A c \in Names : Exists(w, c) => Exists(m, c)
<1>1. CASE w = m
  BY <1>1
<1>2. CASE w # m
  <2>1. PICK c \in Names : \E f \in Named(m, c) :
           Whole(w) /\ NDir(w) = NDir(m) /\ SameOthers(m, w, NDir(m), f)
    BY <1>2 DEF Called
  <2>2. PICK f \in Named(m, c) : Whole(w) /\ NDir(w) = NDir(m) /\ SameOthers(m, w, NDir(m), f)
    BY <2>1
  <2> DEFINE n == NDir(m)
  <2>3. /\ Directory(m) = Inodes(m, n) \ {Root} /\ Directory(w) = Inodes(w, n) \ {Root}
        /\ f \in Directory(m) /\ File(m, f).name = c /\ n \in Nat
    BY <2>2, DirectoryLemma DEF Whole, Named
  <2> HIDE DEF n
  <2>4. /\ Directory(w) = Directory(m) /\ \A g \in Directory(m) : File(w, g).name = File(m, g).name
        /\ \A g \in Directory(m) \ {f} : File(w, g).size = File(m, g).size
    BY <2>2, <2>3 DEF SameOthers, n
  <2>6. \A g \in Directory(w) : File(w, g).name \in Names \/ (File(w, g).name = NoName /\ File(w, g).size = 0)
    BY <2>3, <2>4 DEF Fresh
  <2>7. \A x \in Names : Exists(w, x) => Exists(m, x)
    BY <2>4 DEF Exists, Named
  <2>8. QED  BY <2>6, <2>7 DEF Fresh
<1>3. QED  BY <1>1, <1>2

LEMMA CreateFresh ==
    ASSUME Sound, Fresh(mem), NEW c \in Names, Create(c), Clean(Begin)
    PROVE  /\ Fresh(mem')
           /\ \A x \in Names : ~ Exists(mem, x) /\ Exists(mem', x) =>
                 \A f \in Named(mem', x) : Contents(mem', f) = <<>>
<1> DEFINE r == FileCreate(Begin, c)
           n == NDir(mem)
           d == DirAllocFile(Begin).mem
           l == NDir(r.mem)
<1> HIDE DEF State, Block, Content
<1>1. /\ Begin \in State /\ Begin.mem = mem /\ ~ Failed(Begin) /\ Whole(mem)
      /\ Good(mem, n, {}) /\ Listed(mem, n) /\ Directory(mem) = Inodes(mem, n) \ {Root} /\ n \in Nat
  BY BeginLemma DEF Sound, Whole
<1>2. ~ Exists(mem, c) /\ Call(r, {c}, {})
  BY DEF Create
<1> HIDE DEF Begin, n
<1>3. \/ r.err = "panic"
      \/ Whole(r.mem) /\ Extends(mem, d, n, l) /\ \E f : Made(d, r.mem, l, f, c)
  BY <1>1, <1>2, FileCreateLemma DEF n
<1>4. IF r.err = "panic" THEN mem' = mem ELSE mem' = r.mem
  BY <1>2, CallMem
<1> HIDE DEF d
<1>6. CASE r.err = "panic"
  BY <1>4, <1>6
<1>7. CASE r.err # "panic"
  <2> HIDE DEF r
  <2>1. PICK f : Made(d, r.mem, l, f, c)
    BY <1>3, <1>7
  <2>2. Directory(r.mem) = Inodes(d, l) \ {Root} /\ l \in Nat
    <3>1. Directory(r.mem) = Inodes(r.mem, l) \ {Root} /\ l \in Nat
      BY <1>3, <1>7, DirectoryLemma DEF Whole
    <3>2. QED  BY <2>1, <3>1 DEF Made
  <2> HIDE DEF l
  <2>4. ASSUME NEW g \in Inodes(d, l) \ {Root}
        PROVE  File(d, g).name \in Names \/ (File(d, g).name = NoName /\ File(d, g).size = 0)
    <3>1. CASE g \in Inodes(mem, n)
      <4>1. g \in Directory(mem) /\ File(d, g) = File(mem, g)
        BY <1>1, <1>3, <1>7, <3>1 DEF Extends, Agrees
      <4>2. QED  BY <4>1 DEF Fresh
    <3>2. CASE g \notin Inodes(mem, n)
      BY <1>3, <1>7, <3>2, FileTypes DEF Extends
    <3>3. QED  BY <3>1, <3>2
  <2>5. File(r.mem, f).size = 0 /\ File(r.mem, f).name = c
    BY <2>1, <2>4 DEF Made
  <2>7. Fresh(r.mem)
    <3>1. ASSUME NEW g \in Directory(r.mem), g # f
          PROVE  File(r.mem, g) = File(d, g) /\ g \in Inodes(d, l) \ {Root}
      BY <2>1, <2>2, <3>1 DEF Made, Others, Agrees
    <3>2. \A g \in Directory(r.mem) : \/ File(r.mem, g).name \in Names
                                      \/ File(r.mem, g).name = NoName /\ File(r.mem, g).size = 0
      BY <2>4, <2>5, <3>1
    <3>3. QED  BY <3>2 DEF Fresh
  <2>8. ASSUME NEW x \in Names, ~ Exists(mem, x), Exists(r.mem, x), NEW g \in Named(r.mem, x)
        PROVE  Contents(r.mem, g) = <<>>
    <3>1. /\ f \in Named(r.mem, c)
          /\ \A y \in Names \ {c} : \A h : h \in Named(r.mem, y) <=> h \in Named(mem, y)
      BY <1>1, <1>2, <1>3, <1>7, <2>1, MadeLemma DEF n, l
    <3>2. x = c
      BY <2>8, <3>1 DEF Exists
    <3>3. g = f
      BY <1>3, <1>7, <2>8, <3>1, <3>2, OneFile
    <3>4. File(r.mem, g).size = 0
      BY <2>5, <3>3
    <3>5. 0 .. File(r.mem, g).size - 1 = {}
      BY <3>4
    <3>6. QED  BY <3>5 DEF Contents
  <2>9. QED  BY <1>4, <1>7, <2>7, <2>8
<1>8. QED  BY <1>6, <1>7

LEMMA StepFresh ==
    Sound /\ Fresh(mem) /\ [Next]_vars /\ [CreatesClean]_vars => Fresh(mem') /\ [StartsEmpty]_vars
<1>0. Fresh(mem) /\ UNCHANGED vars => Fresh(mem')
  BY DEF vars
<1> SUFFICES ASSUME Sound, Fresh(mem), Next, CreatesClean  PROVE Fresh(mem') /\ StartsEmpty
  BY <1>0
<1>1. ASSUME Called(mem, mem')  PROVE Fresh(mem') /\ StartsEmpty
  BY <1>1, CalledFresh DEF Sound, StartsEmpty
<1>2. ASSUME NEW n \in Names, Requests(n)  PROVE Fresh(mem') /\ StartsEmpty
  <2>1. CASE Create(n)
    BY <2>1, CreateFresh DEF StartsEmpty, CreatesClean
  <2>2. CASE \E size \in 0 .. MaxSize : SetSize(n, size)
    BY <1>1, <2>2, SetSizePromised
  <2>3. ASSUME NEW offset \in 0 .. MaxSize - 1, NEW count \in 1 .. Min({MaxCount, MaxSize - offset}),
               Read(n, offset, count) \/ \E b \in Written : Write(n, offset, count, b)
        PROVE  Called(mem, mem')
    <3>1. offset \in Nat /\ count \in Nat /\ count \in 1 .. MaxSize - offset
      BY CountLemma
    <3>2. CASE Read(n, offset, count)
      BY <3>1, <3>2, ReadPromised
    <3>3. CASE \E b \in Written : Write(n, offset, count, b)
      BY <3>1, <3>3, WritePromised, ByteAssumption DEF Byte
    <3>4. QED  BY <2>3, <3>2, <3>3
  <2>4. CASE Flush(n)
    BY <1>1, <2>4, FlushPromised DEF Called
  <2>5. QED  BY <1>1, <1>2, <2>1, <2>2, <2>3, <2>4 DEF Requests
<1>3. CASE Sync \/ WriteBack
  BY <1>1, <1>3, FlushPromised DEF Called
<1>4. QED  BY <1>2, <1>3 DEF Next

LEMMA InitFresh == Init => Fresh(mem)
<1> SUFFICES ASSUME Init  PROVE Fresh(mem)
  OBVIOUS
<1>1. mem = Formatted /\ Whole(mem) /\ NDir(mem) = 0
  BY FormattedLemma DEF Init
<1>2. Directory(mem) = {}
  BY <1>1, NoDirectory
<1>3. QED  BY <1>1, <1>2 DEF Fresh

(* A file that file_create makes is empty (fs/fs.c:258-259), so long as the  *)
(* directory grows only by blocks that no file has had.                      *)
THEOREM CreatedEmptyTheorem == Spec /\ CleanGrowth => CreatedEmpty
<1>1. Sound /\ Fresh(mem) /\ [Next]_vars /\ [CreatesClean]_vars => Fresh(mem)' /\ [StartsEmpty]_vars
  BY StepFresh
<1>2. QED  BY <1>1, InitFresh, AlwaysSound, PTL DEF Spec, CleanGrowth, CreatedEmpty, StartsEmpty

(* No call of fs.c changes a byte of another file, or one that it was not   *)
(* asked to change: so long as the directory grows only by blocks that no   *)
(* file has had, fs.c implements Files.                                     *)
THEOREM ImplementsFiles == Spec /\ CleanGrowth => FilesSpec
<1>1. Sound /\ [Next]_vars /\ [CreatesClean]_vars /\ [StartsEmpty]_vars => [Promise!Next]_(AllContents(mem))
  BY StepPromised, MapsStep
<1>2. CreatedEmpty <=> [][StartsEmpty]_vars
  BY DEF CreatedEmpty, StartsEmpty
<1>3. QED  BY <1>1, <1>2, CreatedEmptyTheorem, MapsInit, AlwaysSound, PTL
           DEF Spec, CleanGrowth, FilesSpec, Promise!Spec
=============================================================================
