------------------------------ MODULE FileSys -------------------------------
(***************************************************************************)
(* The file system of fs/fs.c over the block cache of fs/bc.c.  The server *)
(* is one environment that serves one request at a time, so that a call is *)
(* one step on the cache; but flush_block writes to the disk in the middle *)
(* of a call, and what is on the disk between two such writes is what a    *)
(* machine that stops there finds again.  A call therefore computes the    *)
(* new cache and the list of its writes, and WriteBack takes these to the  *)
(* disk one by one before the next call.                                   *)
(*                                                                         *)
(* fsformat makes no directory but the root and no call makes one.  Blocks *)
(* hold what was last put there, and are read as what the reader takes     *)
(* them for: a block is not cleared when it changes hands.  A write of one *)
(* block is atomic; a block whose cached copy equals the disk's is not     *)
(* written, dirty or not.                                                  *)
(***************************************************************************)
EXTENDS Integers, Sequences, SequencesExt, FiniteSetsExt

CONSTANTS
    NBLOCKS,             \* s_nblocks; 32768 or less: the bitmap is one block
    BLKSIZE,             \* bytes of a block
    NDIRECT, NINDIRECT,  \* the pointers of a File and of an indirect block
    BLKFILES,            \* the Files of a directory block
    Names,
    NoName,              \* the empty name of an unused File
    JunkName,            \* a name no call uses
    JunkFiles,           \* what the bytes of a file read as where Files should be
    Unset,               \* a byte of a file that has no block there
    MaxSize,             \* bound: the largest size a call asks for
    MaxCount,            \* bound: the most bytes a call reads or writes
    Written              \* bound: the values of the bytes calls write

Byte     == {0, 1}
Block    == 1 .. NBLOCKS - 1
Super    == 1                       \* holds s_root
Bitmap   == 2
Capacity == NDIRECT + NINDIRECT     \* in blocks

FileType == [name : Names \cup {NoName, JunkName}, size : Nat,
             direct : [0 .. NDIRECT - 1 -> {0} \cup Block], indirect : {0} \cup Block]

ASSUME SizesAssumption ==
    /\ {NBLOCKS, BLKSIZE, NDIRECT, NINDIRECT, BLKFILES, MaxSize, MaxCount} \subseteq Nat \ {0}
    /\ NBLOCKS > 3
ASSUME NamesAssumption == NoName # JunkName /\ {NoName, JunkName} \cap Names = {}
\* The root directory has room: each block it grows by takes one more name.
ASSUME RoomAssumption == IsFiniteSet(Names) /\ Cardinality(Names) <= NDIRECT + NINDIRECT
ASSUME ByteAssumption == Written \subseteq {0, 1} /\ Unset \notin {0, 1}

\* Pointers past the disk, at which diskaddr panics, are left out.
ASSUME JunkAssumption == JunkFiles \in [0 .. BLKFILES - 1 -> FileType]

VARIABLES
    disk,      \* the contents of the blocks on the disk
    mem,       \* and as the cache shows them
    pending,   \* the writes the running call has still to do, in order
    up,        \* the server has not panicked
    flushing,  \* the files the running call writes out
    synced,    \* history: the files written out and not changed since
    stale      \* history: the entries of indirect blocks that are on the disk
               \* still, when truncation has cleared them in the cache

vars == <<disk, mem, pending, up, flushing, synced, stale>>

-----------------------------------------------------------------------------
(* Contents of blocks, and what they read as.                              *)

Zero == [kind |-> "zero"]
BlankFile == [name |-> NoName, size |-> 0,
              direct |-> [i \in 0 .. NDIRECT - 1 |-> 0], indirect |-> 0]

FilesIn(c) == IF c.kind = "files" THEN c.files
              ELSE IF c = Zero THEN [j \in 0 .. BLKFILES - 1 |-> BlankFile] ELSE JunkFiles
PtrsIn(c)  == IF c.kind = "ptrs" THEN c.ptrs
              ELSE [i \in 0 .. NINDIRECT - 1 |-> IF c = Zero THEN 0 ELSE Super]
FreeIn(m)  == IF m[Bitmap].kind = "bitmap" THEN m[Bitmap].free
              ELSE IF m[Bitmap] = Zero THEN {} ELSE Block
BytesIn(c) == IF c.kind = "bytes" THEN c.bytes
              ELSE [i \in 0 .. BLKSIZE - 1 |-> IF c = Zero THEN 0 ELSE 1]
FilesBlock(fs) == [kind |-> "files", files |-> fs]
PtrsBlock(ps)  == IF \A i \in DOMAIN ps : ps[i] = 0 THEN Zero ELSE [kind |-> "ptrs", ptrs |-> ps]
BytesBlock(bs) == IF \A i \in DOMAIN bs : bs[i] = 0 THEN Zero ELSE [kind |-> "bytes", bytes |-> bs]
BitmapBlock(free) == [kind |-> "bitmap", free |-> free]

\* A struct File is known by its address: the block it is in, and where.
Root == <<Super, 0>>
File(m, f) == FilesIn(m[f[1]])[f[2]]
NBlocks(size) == (size + BLKSIZE - 1) \div BLKSIZE

\* The number of the i-th block of a file; 0 where it has none, and where
\* file_block_walk without alloc fails.
Ptr(m, f, i) ==
    LET file == File(m, f)
    IN  IF i < NDIRECT THEN file.direct[i]
        ELSE IF i >= Capacity \/ file.indirect = 0 THEN 0
        ELSE PtrsIn(m[file.indirect])[i - NDIRECT]

-----------------------------------------------------------------------------
(* A call under way: the cache, the disk and the writes so far, and whether *)
(* it has failed.  Everything after a failure leaves it alone.              *)

Begin == [mem |-> mem, disk |-> disk, log |-> <<>>, blk |-> 0, err |-> "ok"]
Failed(s) == s.err # "ok"

FlushBlock(s, b) ==
    IF s.mem[b] = s.disk[b] THEN s
    ELSE [s EXCEPT !.disk[b] = s.mem[b], !.log = Append(@, <<b, s.mem[b]>>)]

PutFile(s, f, file) == [s EXCEPT !.mem[f[1]] = FilesBlock([FilesIn(@) EXCEPT ![f[2]] = file])]

Take(s, b) == [s EXCEPT !.mem[Bitmap] = BitmapBlock(FreeIn(s.mem) \ {b}), !.blk = b]

\* The bug "the bitmap is not flushed".
AllocBlockLazy(s) ==
    IF FreeIn(s.mem) = {} THEN [s EXCEPT !.err = "panic"]
    ELSE LET b == Min(FreeIn(s.mem)) IN Take(s, b)
\* The bug "the block is not marked".
AllocBlockUnmarked(s) ==
    IF FreeIn(s.mem) = {} THEN [s EXCEPT !.err = "panic"]
    ELSE [s EXCEPT !.blk = Min(FreeIn(s.mem))]
\* -E_NO_DISK is negative and its callers compare it unsigned: they take it
\* for a block number, at which diskaddr panics.
AllocBlock(s) ==
    IF FreeIn(s.mem) = {} THEN [s EXCEPT !.err = "panic"]
    ELSE LET b == Min(FreeIn(s.mem))
         IN  FlushBlock(Take(s, b), Bitmap)

\* file_block_walk with alloc.
BlockWalk(s, f, i) ==
    IF i >= Capacity THEN [s EXCEPT !.err = "inval"]
    ELSE IF i < NDIRECT \/ File(s.mem, f).indirect # 0 THEN s
    ELSE LET a == AllocBlock(s)
             z == FlushBlock([a EXCEPT !.mem[a.blk] = Zero], a.blk)
         IN  IF Failed(a) THEN a
             ELSE PutFile(z, f, [File(z.mem, f) EXCEPT !.indirect = a.blk])

PutPtr(s, f, i, b) ==
    LET file == File(s.mem, f)
    IN  IF i < NDIRECT THEN PutFile(s, f, [file EXCEPT !.direct[i] = b])
        ELSE [s EXCEPT !.mem[file.indirect] = PtrsBlock([PtrsIn(@) EXCEPT ![i - NDIRECT] = b])]

\* file_get_block does not clear the block it allocates.
GetBlock(s, f, i) ==
    LET w == BlockWalk(s, f, i)
        a == AllocBlock(w)
    IN  IF Failed(w) \/ Ptr(w.mem, f, i) # 0 THEN w
        ELSE IF Failed(a) THEN a ELSE PutPtr(a, f, i, a.blk)

\* The bug "the block the new size ends in is cut off as well".
GoneRoundedDown(file, newsize) == newsize \div BLKSIZE .. NBlocks(file.size) - 1
\* What a file loses when it gets newsize: blocks, and its indirect block.
Gone(file, newsize) == NBlocks(newsize) .. NBlocks(file.size) - 1
LosesIndirect(file, newsize) == NBlocks(newsize) <= NDIRECT /\ file.indirect # 0

\* The bug "holes are freed", and the bug "the indirect block is not".
FreedWithHoles(m, f, newsize) ==
    LET file == File(m, f)
    IN  {Ptr(m, f, i) : i \in Gone(file, newsize)}
        \cup {b \in {file.indirect} : LosesIndirect(file, newsize)}
FreedDataOnly(m, f, newsize) == {Ptr(m, f, i) : i \in Gone(File(m, f), newsize)} \ {0}
Freed(m, f, newsize) ==
    LET file == File(m, f)
    IN  ({Ptr(m, f, i) : i \in Gone(file, newsize)} \ {0})
        \cup {b \in {file.indirect} : LosesIndirect(file, newsize)}

\* file_truncate_blocks: the changed bitmap and indirect block stay in the cache.
TruncateBlocks(s, f, newsize) ==
    LET file == File(s.mem, f)
        cut(ps, first) == [i \in DOMAIN ps |-> IF i + first \in Gone(file, newsize) THEN 0 ELSE ps[i]]
        freed == [s.mem EXCEPT ![Bitmap] = BitmapBlock(FreeIn(s.mem) \cup Freed(s.mem, f, newsize))]
        m == IF file.indirect = 0 THEN freed
             ELSE [freed EXCEPT ![file.indirect] = PtrsBlock(cut(PtrsIn(@), NDIRECT))]
    IN  PutFile([s EXCEPT !.mem = m], f,
                [file EXCEPT !.direct = cut(@, 0),
                             !.indirect = IF LosesIndirect(file, newsize) THEN 0 ELSE @])

FileSetSize(s, f, newsize) ==
    LET t == IF File(s.mem, f).size > newsize THEN TruncateBlocks(s, f, newsize) ELSE s
    IN  FlushBlock(PutFile(t, f, [File(t.mem, f) EXCEPT !.size = newsize]), f[1])

\* op(s, i) for the blocks i of a file that bytes offset .. end-1 are in.
ForBlocks(op(_, _), s, offset, end) ==
    LET first == offset \div BLKSIZE
        after[k \in 0 .. NBlocks(end) - first] ==
            IF k = 0 THEN s
            ELSE LET t == after[k - 1] IN IF Failed(t) THEN t ELSE op(t, first + k - 1)
    IN  after[NBlocks(end) - first]

FileRead(s, f, offset, count) ==
    LET end == Min({File(s.mem, f).size, offset + count})
    IN  IF offset >= end THEN s ELSE ForBlocks(LAMBDA t, i : GetBlock(t, f, i), s, offset, end)

\* memmove into block i of the bytes that fall into it.
PutBytes(s, f, i, range, b) ==
    LET put(bs) == [p \in DOMAIN bs |-> IF i * BLKSIZE + p \in range THEN b ELSE bs[p]]
    IN  [s EXCEPT !.mem[Ptr(s.mem, f, i)] = BytesBlock(put(BytesIn(@)))]

FileWrite(s, f, offset, count, b) ==
    LET end == offset + count
        t == IF end > File(s.mem, f).size THEN FileSetSize(s, f, end) ELSE s
        put(u, i) == LET g == GetBlock(u, f, i)
                     IN  IF Failed(g) THEN g ELSE PutBytes(g, f, i, offset .. end - 1, b)
    IN  ForBlocks(put, t, offset, end)

\* The bug "the indirect block is not written out".
FileFlushDirect(s, f) ==
    LET out(t, i) == IF Ptr(t.mem, f, i) = 0 THEN t ELSE FlushBlock(t, Ptr(t.mem, f, i))
    IN  FlushBlock(ForBlocks(out, s, 0, File(s.mem, f).size), f[1])
FileFlush(s, f) ==
    LET out(t, i) == IF Ptr(t.mem, f, i) = 0 THEN t ELSE FlushBlock(t, Ptr(t.mem, f, i))
        d == FlushBlock(ForBlocks(out, s, 0, File(s.mem, f).size), f[1])
        indirect == File(d.mem, f).indirect
    IN  IF indirect = 0 THEN d ELSE FlushBlock(d, indirect)

FsSync(s) ==
    LET after[k \in 0 .. NBLOCKS - 1] == IF k = 0 THEN s ELSE FlushBlock(after[k - 1], k)
    IN  after[NBLOCKS - 1]

-----------------------------------------------------------------------------
(* The root directory: its entries are numbered 0, 1, ... through its       *)
(* blocks.  It has no holes, except on a disk between two writes.           *)

Entries(m) == {k \in 0 .. (File(m, Root).size \div BLKSIZE) * BLKFILES - 1 :
                 Ptr(m, Root, k \div BLKFILES) # 0}
Entry(m, k) == <<Ptr(m, Root, k \div BLKFILES), k % BLKFILES>>
Directory(m) == {Entry(m, k) : k \in Entries(m)}
Named(m, n) == {f \in Directory(m) : File(m, f).name = n}
Exists(m, n) == Named(m, n) # {}

\* dir_alloc_file: with no unused entry the directory grows by a block, which
\* is not cleared.
DirAllocFile(s) ==
    LET root == File(s.mem, Root)
    IN  IF Exists(s.mem, NoName) THEN s
        ELSE GetBlock(PutFile(s, Root, [root EXCEPT !.size = @ + BLKSIZE]),
                      Root, root.size \div BLKSIZE)

\* file_create fills in the name of the entry and nothing else.
FileCreate(s, n) ==
    LET d == DirAllocFile(s)
        k == Min({j \in Entries(d.mem) :
                    j \notin Entries(s.mem) \/ File(s.mem, Entry(s.mem, j)).name = NoName})
        f == Entry(d.mem, k)
    IN  IF Failed(d) THEN d
        ELSE FileFlush(PutFile(d, f, [File(d.mem, f) EXCEPT !.name = n]), Root)

-----------------------------------------------------------------------------
(* The calls.  serve.c takes the next request when the last is answered.    *)

\* The cache of a server that has panicked is lost with it.
Call(s, changed, flushed) ==
    /\ up /\ pending = <<>>
    /\ pending' = s.log
    /\ up' = (s.err # "panic")
    /\ mem' = IF s.err = "panic" THEN mem ELSE s.mem
    /\ synced' = (synced \ changed) \cup (IF s.log = <<>> THEN flushed ELSE {})
    /\ flushing' = IF s.log = <<>> THEN {} ELSE flushed
    /\ UNCHANGED disk

\* What file_truncate_blocks clears of an indirect block that the file keeps.
Uncleared(f, newsize) ==
    LET file == File(mem, f)
    IN  {p \in {file.indirect} \X (0 .. NINDIRECT - 1) :
            /\ file.indirect # 0 /\ ~ LosesIndirect(file, newsize)
            /\ p[2] + NDIRECT \in Gone(file, newsize)
            /\ PtrsIn(disk[p[1]])[p[2]] # 0}

Create(n) == ~ Exists(mem, n) /\ Call(FileCreate(Begin, n), {n}, {}) /\ UNCHANGED stale
SetSize(n, size) == \E f \in Named(mem, n) :
    /\ Call(FileSetSize(Begin, f, size), {n}, {})
    /\ stale' = stale \cup Uncleared(f, size)
\* A read gives blocks to the parts of a file that have none: a change as well.
Read(n, offset, count) == \E f \in Named(mem, n) :
    LET r == FileRead(Begin, f, offset, count)
    IN  Call(r, IF r.mem = mem THEN {} ELSE {n}, {}) /\ UNCHANGED stale
Write(n, offset, count, b) == \E f \in Named(mem, n) :
    Call(FileWrite(Begin, f, offset, count, b), {n}, {}) /\ UNCHANGED stale
Flush(n) == \E f \in Named(mem, n) : Call(FileFlush(Begin, f), {}, {n}) /\ UNCHANGED stale
Sync == Call(FsSync(Begin), {}, {n \in Names : Exists(mem, n)}) /\ UNCHANGED stale

\* The next write of the running call reaches the disk.
WriteBack ==
    /\ pending # <<>>
    /\ disk' = [disk EXCEPT ![Head(pending)[1]] = Head(pending)[2]]
    /\ pending' = Tail(pending)
    /\ stale' = {p \in stale : p[1] # Head(pending)[1]}
    /\ IF Len(pending) > 1 THEN UNCHANGED <<flushing, synced>>
       ELSE synced' = synced \cup flushing /\ flushing' = {}
    /\ UNCHANGED <<mem, up>>

Requests(n) ==
    \/ Create(n)
    \/ \E size \in 0 .. MaxSize : SetSize(n, size)
    \/ \E offset \in 0 .. MaxSize - 1 : \E count \in 1 .. Min({MaxCount, MaxSize - offset}) :
          \/ Read(n, offset, count)
          \/ \E b \in Written : Write(n, offset, count, b)
    \/ Flush(n)

Next == (\E n \in Names : Requests(n)) \/ Sync \/ WriteBack

\* What fsformat leaves: an empty root directory, the rest free and zero.
Formatted == [b \in Block |->
    CASE b = Super -> FilesBlock([j \in 0 .. BLKFILES - 1 |-> BlankFile])
      [] b = Bitmap -> BitmapBlock(Block \ {Super, Bitmap})
      [] OTHER -> Zero]

Init ==
    /\ disk = Formatted /\ mem = Formatted
    /\ pending = <<>>
    /\ up = TRUE
    /\ flushing = {} /\ synced = {} /\ stale = {}

Spec == Init /\ [][Next]_vars

-----------------------------------------------------------------------------
(* Properties.                                                             *)

Content ==
    {Zero} \cup [kind : {"bitmap"}, free : SUBSET Block]
           \cup [kind : {"files"}, files : [0 .. BLKFILES - 1 -> FileType]]
           \cup [kind : {"ptrs"}, ptrs : [0 .. NINDIRECT - 1 -> {0} \cup Block]]
           \cup [kind : {"bytes"}, bytes : [0 .. BLKSIZE - 1 -> Byte]]

\* Every block holds what some writer of it puts there, on the disk and in the
\* cache, and a file is being written out only while there are writes to do.
TypeOK ==
    /\ disk \in [Block -> Content] /\ mem \in [Block -> Content]
    /\ up \in BOOLEAN
    /\ \A i \in DOMAIN pending : pending[i] \in Block \X Content
    /\ flushing \subseteq Names /\ synced \subseteq Names
    /\ stale \subseteq Block \X (0 .. NINDIRECT - 1)
    /\ flushing # {} => pending # <<>>

\* The pointers of a file, Capacity standing for f_indirect, and all those of m.
Slots == 0 .. Capacity
PtrAt(m, f, i) == IF i = Capacity THEN File(m, f).indirect ELSE Ptr(m, f, i)
FilesOf(m) == {Root} \cup (Directory(m) \ Named(m, NoName))
Used(m) == {p \in FilesOf(m) \X Slots : PtrAt(m, p[1], p[2]) # 0}
At(m, p) == PtrAt(m, p[1], p[2])

\* alloc_block and free_block agree with the pointers: a block is free exactly
\* when no file has it, and no two pointers name the same block.  With that,
\* the check of bc_pgfault ("reading free block") cannot fail.
BitmapExact ==
    /\ FreeIn(mem) = Block \ ({Super, Bitmap} \cup {At(mem, p) : p \in Used(mem)})
    /\ \A p, q \in Used(mem) : p # q => At(mem, p) # At(mem, q)

\* Between any two writes the disk shows no file a block that is free or
\* another file's: alloc_block writes the bitmap before anyone writes a pointer
\* to the block, file_set_size writes the File before a block it gave up is
\* given away.  The entries that file_truncate_blocks has cleared in the cache
\* only are an exception, until their indirect block is written.
Shown(p) == p[2] \in NDIRECT .. Capacity - 1 =>
    <<File(disk, p[1]).indirect, p[2] - NDIRECT>> \notin stale
DiskSound ==
    LET shown == {p \in Used(disk) : Shown(p)}
    IN  /\ \A p \in shown : At(disk, p) \notin FreeIn(disk) \cup {Super, Bitmap}
        /\ \A p, q \in shown : p # q => At(disk, p) # At(disk, q)

ByteAt(m, f, i) ==
    LET b == Ptr(m, f, i \div BLKSIZE)
    IN  IF b = 0 THEN Unset ELSE BytesIn(m[b])[i % BLKSIZE]
Contents(m, f) == [i \in 0 .. File(m, f).size - 1 |-> ByteAt(m, f, i)]
FileContents(m, n) == CHOOSE c \in {Contents(m, f) : f \in Named(m, n)} : TRUE
AllContents(m) == [n \in {x \in Names : Exists(m, x)} |-> FileContents(m, n)]

\* file_flush and fs_sync: a file that was written out, and not changed since,
\* is on the disk, at every moment, whatever is done to others.
Durable == \A n \in synced :
    \E f \in Named(disk, n), g \in Named(mem, n) : Contents(disk, f) = Contents(mem, g)

\* The files as the cache shows them behave as Files promises: no call of
\* fs.c changes a byte of another file, or one it was not asked to change.
Promise == INSTANCE Files WITH files <- AllContents(mem), Capacity <- Capacity * BLKSIZE
FilesSpec == Promise!Spec

\* The block that dir_alloc_file appends to the directory is as its last owner
\* left it (fs/fs.c:283-284).  Clean(s): a creation appends none, or one that is
\* zero in the cache and on the disk, as one is that has had no owner.
Clean(s) ==
    LET d == DirAllocFile(s)
        b == Ptr(d.mem, Root, File(s.mem, Root).size \div BLKSIZE)
    IN  Exists(s.mem, NoName) \/ Failed(d) \/ (d.mem[b] = Zero /\ d.disk[b] = Zero)
CreatesClean == (\E n \in Names : Create(n)) => Clean(Begin)
CleanGrowth == [][CreatesClean]_vars

\* A file that file_create makes is empty (fs/fs.c:258-259: the caller of
\* dir_alloc_file fills in the File fields).
CreatedEmpty == [][\A n \in Names :
    ~ Exists(mem, n) /\ Exists(mem', n) => \A f \in Named(mem', n) : Contents(mem', f) = <<>>]_vars
=============================================================================
