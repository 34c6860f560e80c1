---------------------------- MODULE PhysMemProofs ----------------------------
(***************************************************************************)
(* Proofs about PhysMem for any number of pages, environments and entries: *)
(* reference counts and free list are exact and page tables private as     *)
(* long as no page has RefMod references at once, which is what pp_ref can *)
(* count to.  The operators of pmap.c are followed call by call inside a   *)
(* system call: what they keep is a property of any memory m and any page  *)
(* directories D, with the pages the caller has in hand.                   *)
(***************************************************************************)
EXTENDS PhysMem, Induction, FiniteSetTheorems

USE NPTAssumption, RefModAssumption, NoPageAssumption, FiniteAssumption

Memory == [free : Seq(Pages), ref : [Pages -> 0 .. RefMod - 1], mem : [Pages -> [Idx -> Entry]]]
Dirs   == [Envs -> Pages \cup {NoPage}]

Having(D)          == {e \in Envs : D[e] # NoPage}
Table(m, D, e, i)  == m.mem[D[e]][i][1]
At(m, D, e, va)    == EntryOf(m, D[e], va)

\* The references to page p, and their number.
DirsOf(D, p)      == {e \in Having(D) : D[e] = p}
TablesOf(m, D, p) == {x \in Having(D) \X Idx : Table(m, D, x[1], x[2]) = p}
DataOf(m, D, p)   == {x \in Having(D) \X VA : At(m, D, x[1], x[2])[1] = p}
Refs(m, D, p)     == Cardinality(DirsOf(D, p)) + Cardinality(TablesOf(m, D, p))
                       + Cardinality(DataOf(m, D, p))

Unheld(m, D, p) ==
    \A e \in Having(D) :
        /\ D[e] # p
        /\ \A i \in Idx : Table(m, D, e, i) # p
        /\ \A va \in VA : At(m, D, e, va)[1] # p

\* A page directory or a page table is nothing else.
Structure(m, D, p) == \E e \in Having(D) : D[e] = p \/ \E i \in Idx : Table(m, D, e, i) = p
Private(m, D) ==
    /\ \A e, f \in Having(D) : D[e] = D[f] => e = f
    /\ \A e, f \in Having(D) : \A i \in Idx : Table(m, D, e, i) # D[f]
    /\ \A e, f \in Having(D) : \A i, j \in Idx :
          Table(m, D, e, i) = Table(m, D, f, j) => Table(m, D, e, i) = NoPage \/ (e = f /\ i = j)
    /\ \A e \in Having(D) : \A va \in VA :
          LET p == At(m, D, e, va)[1] IN p = NoPage \/ ~ Structure(m, D, p)

FreeSet(m)  == {m.free[i] : i \in 1 .. Len(m.free)}
Distinct(m) == \A i, j \in 1 .. Len(m.free) : m.free[i] = m.free[j] => i = j

\* The caller has in hand the page a, allocated and not yet counted, and the
\* page k, counted once more than it is referred to; NoPage stands for none.
Counted(m, D, k) == \A p \in Pages :
    /\ Refs(m, D, p) < RefMod
    /\ m.ref[p] = (Refs(m, D, p) + (IF p = k THEN 1 ELSE 0)) % RefMod
Listed(m, D, a, k) == \A p \in Pages :
    p \in FreeSet(m) <=> Unheld(m, D, p) /\ p \notin {a, k}
Good(m, D, a, k) ==
    /\ m \in Memory /\ D \in Dirs
    /\ Private(m, D) /\ Distinct(m) /\ Counted(m, D, k) /\ Listed(m, D, a, k)
    /\ a \in Pages \cup {NoPage} /\ (a # NoPage => Unheld(m, D, a))
    /\ k \in Pages \cup {NoPage} /\ (k # NoPage => ~ Structure(m, D, k))

\* Between two calls there is no page in hand: the inductive invariant.  It
\* needs that pp_ref has room for what it counts.
Sound(m, D) == Good(m, D, NoPage, NoPage)
IInv   == Sound(phys, pgdir)
NoWrap == \A p \in Pages :
    Cardinality(DirRefs(p)) + Cardinality(TableRefs(p)) + Cardinality(DataRefs(p)) < RefMod

-----------------------------------------------------------------------------
(* Types and arithmetic.                                                    *)

(* pp_ref is exact below RefMod, and at RefMod it comes back from where it   *)
(* wrapped to.                                                              *)
LEMMA CountingLemma ==
    /\ \A n \in 0 .. RefMod - 1 : n % RefMod = n /\ ((n % RefMod) + 1) % RefMod = (n + 1) % RefMod
    /\ \A n \in 1 .. RefMod : ((n % RefMod) - 1) % RefMod = n - 1
<1>1. ASSUME NEW n \in 0 .. RefMod - 1  PROVE n % RefMod = n
  OBVIOUS
<1>2. RefMod % RefMod = 0 /\ (0 - 1) % RefMod = RefMod - 1
  OBVIOUS
<1>3. ASSUME NEW n \in 1 .. RefMod  PROVE ((n % RefMod) - 1) % RefMod = n - 1
  <2>1. CASE n = RefMod
    BY <2>1, <1>2
  <2>2. CASE n # RefMod
    <3>1. n % RefMod = n /\ n - 1 \in 0 .. RefMod - 1
      BY <2>2, <1>1
    <3>2. QED  BY <3>1, <1>1
  <2>3. QED  BY <2>1, <2>2
<1>4. QED  BY <1>1, <1>3

(* An entry is a page and a permission, or None; None alone has no page.    *)
LEMMA EntryLemma ==
    /\ NoPage \notin Pages /\ None \in Entry /\ None[1] = NoPage
    /\ Cleared \in [Idx -> Entry] /\ \A i \in Idx : Cleared[i] = None
    /\ \A x \in Entry : x[1] \in Pages \cup {NoPage} /\ (x[1] = NoPage <=> x = None)
    /\ \A p \in Pages, w \in BOOLEAN : <<p, w>> \in Entry /\ <<p, w>>[1] = p /\ <<p, w>> # None
    /\ \A x \in Entry : x # None => x[2] \in BOOLEAN /\ x = <<x[1], x[2]>>
    /\ 0 \in Idx
<1>1. None \in Entry /\ None[1] = NoPage
  BY DEF Entry, None
<1>2. Cleared \in [Idx -> Entry] /\ \A i \in Idx : Cleared[i] = None
  BY <1>1 DEF Cleared
<1>3. \A p \in Pages, w \in BOOLEAN : <<p, w>> \in Entry /\ <<p, w>>[1] = p /\ <<p, w>> # None
  BY DEF Entry, None
<1>4. ASSUME NEW x \in Entry
      PROVE  /\ x[1] \in Pages \cup {NoPage} /\ (x[1] = NoPage <=> x = None)
             /\ x # None => x[2] \in BOOLEAN /\ x = <<x[1], x[2]>>
  <2>1. CASE x = None
    BY <2>1, <1>1
  <2>2. CASE x # None
    <3>1. x \in Pages \X BOOLEAN
      BY <2>2 DEF Entry
    <3>2. QED  BY <3>1, <2>2
  <2>3. QED  BY <2>1, <2>2
<1>5. 0 \in Idx
  BY DEF Idx
<1>6. QED  BY <1>1, <1>2, <1>3, <1>4, <1>5

LEMMA VALemma ==
    /\ \A va \in VA : va[1] \in Idx /\ va[2] \in Idx /\ va = <<va[1], va[2]>>
    /\ \A i, j \in Idx : <<i, j>> \in VA
    /\ \A va, vb \in VA : va[1] = vb[1] /\ va[2] = vb[2] => va = vb
  BY DEF VA

LEMMA TypeLemma ==
    ASSUME NEW m \in Memory, NEW D \in Dirs, NEW e \in Having(D)
    PROVE  /\ e \in Envs /\ D[e] \in Pages
           /\ \A i \in Idx : Table(m, D, e, i) \in Pages \cup {NoPage} /\ m.mem[D[e]][i] \in Entry
           /\ \A va \in VA : /\ At(m, D, e, va) \in Entry
                             /\ At(m, D, e, va)[1] \in Pages \cup {NoPage}
           /\ \A va \in VA : At(m, D, e, va) = IF Table(m, D, e, va[1]) = NoPage THEN None
                                               ELSE m.mem[Table(m, D, e, va[1])][va[2]]
<1>1. e \in Envs /\ D[e] \in Pages
  BY DEF Having, Dirs
<1>2. \A p \in Pages, i \in Idx : m.mem[p][i] \in Entry
  BY DEF Memory
<1>3. \A i \in Idx : Table(m, D, e, i) \in Pages \cup {NoPage} /\ m.mem[D[e]][i] \in Entry
  BY <1>1, <1>2, EntryLemma DEF Table
<1>4. \A va \in VA : At(m, D, e, va) = IF Table(m, D, e, va[1]) = NoPage THEN None
                                       ELSE m.mem[Table(m, D, e, va[1])][va[2]]
  BY DEF At, EntryOf, TableOf, Table
<1>5. \A va \in VA : At(m, D, e, va) \in Entry
  BY <1>2, <1>3, <1>4, VALemma, EntryLemma
<1>6. QED  BY <1>1, <1>3, <1>4, <1>5, EntryLemma

(* There are finitely many references.                                      *)
LEMMA FiniteLemma ==
    ASSUME NEW D \in Dirs
    PROVE  /\ IsFiniteSet(Having(D)) /\ IsFiniteSet(Having(D) \X Idx) /\ IsFiniteSet(Having(D) \X VA)
           /\ \A p : IsFiniteSet(DirsOf(D, p))
           /\ \A m, p : IsFiniteSet(TablesOf(m, D, p)) /\ IsFiniteSet(DataOf(m, D, p))
<1>1. IsFiniteSet(Idx)
  BY FS_Interval DEF Idx
<1>2. IsFiniteSet(VA)
  BY <1>1, FS_Product DEF VA
<1>3. IsFiniteSet(Having(D))
  BY FS_Subset DEF Having
<1>4. IsFiniteSet(Having(D) \X Idx) /\ IsFiniteSet(Having(D) \X VA)
  BY <1>1, <1>2, <1>3, FS_Product
<1>5. \A p : IsFiniteSet(DirsOf(D, p))
  BY <1>3, FS_Subset DEF DirsOf
<1>6. \A m, p : IsFiniteSet(TablesOf(m, D, p))
  BY <1>4, FS_Subset DEF TablesOf
<1>7. \A m, p : IsFiniteSet(DataOf(m, D, p))
  BY <1>4, FS_Subset DEF DataOf
<1>8. QED  BY <1>3, <1>4, <1>5, <1>6, <1>7

(* No references is as much as a count of zero.                             *)
LEMMA RefsLemma ==
    ASSUME NEW m \in Memory, NEW D \in Dirs, NEW p \in Pages
    PROVE  /\ Refs(m, D, p) \in Nat
           /\ Cardinality(DirsOf(D, p)) \in Nat /\ Cardinality(TablesOf(m, D, p)) \in Nat
           /\ Cardinality(DataOf(m, D, p)) \in Nat
           /\ Refs(m, D, p) = 0 <=> Unheld(m, D, p)
           /\ Unheld(m, D, p) <=> DirsOf(D, p) = {} /\ TablesOf(m, D, p) = {} /\ DataOf(m, D, p) = {}
<1>1. /\ Cardinality(DirsOf(D, p)) \in Nat /\ Cardinality(TablesOf(m, D, p)) \in Nat
      /\ Cardinality(DataOf(m, D, p)) \in Nat
  BY FiniteLemma, FS_CardinalityType
<1>2. Refs(m, D, p) = 0 <=> DirsOf(D, p) = {} /\ TablesOf(m, D, p) = {} /\ DataOf(m, D, p) = {}
  <2>1. IsFiniteSet(DirsOf(D, p)) /\ IsFiniteSet(TablesOf(m, D, p)) /\ IsFiniteSet(DataOf(m, D, p))
    BY FiniteLemma
  <2>2. /\ Cardinality(DirsOf(D, p)) = 0 <=> DirsOf(D, p) = {}
        /\ Cardinality(TablesOf(m, D, p)) = 0 <=> TablesOf(m, D, p) = {}
        /\ Cardinality(DataOf(m, D, p)) = 0 <=> DataOf(m, D, p) = {}
    BY <2>1, FS_EmptySet
  <2>3. QED  BY <1>1, <2>2 DEF Refs
<1>3. Unheld(m, D, p) <=> DirsOf(D, p) = {} /\ TablesOf(m, D, p) = {} /\ DataOf(m, D, p) = {}
  <2>1. DirsOf(D, p) = {} <=> \A e \in Having(D) : D[e] # p
    BY DEF DirsOf
  <2>2. TablesOf(m, D, p) = {} <=> \A e \in Having(D), i \in Idx : Table(m, D, e, i) # p
    <3>1. ASSUME NEW e \in Having(D), NEW i \in Idx, Table(m, D, e, i) = p
          PROVE  <<e, i>> \in TablesOf(m, D, p)
      BY <3>1 DEF TablesOf
    <3>2. ASSUME NEW x \in TablesOf(m, D, p)
          PROVE  x[1] \in Having(D) /\ x[2] \in Idx /\ Table(m, D, x[1], x[2]) = p
      BY DEF TablesOf
    <3>3. QED  BY <3>1, <3>2
  <2>3. DataOf(m, D, p) = {} <=> \A e \in Having(D), va \in VA : At(m, D, e, va)[1] # p
    <3>1. ASSUME NEW e \in Having(D), NEW va \in VA, At(m, D, e, va)[1] = p
          PROVE  <<e, va>> \in DataOf(m, D, p)
      BY <3>1 DEF DataOf
    <3>2. ASSUME NEW x \in DataOf(m, D, p)
          PROVE  x[1] \in Having(D) /\ x[2] \in VA /\ At(m, D, x[1], x[2])[1] = p
      BY DEF DataOf
    <3>3. QED  BY <3>1, <3>2
  <2>4. QED  BY <2>1, <2>2, <2>3 DEF Unheld
<1>4. QED  BY <1>1, <1>2, <1>3 DEF Refs


-----------------------------------------------------------------------------
(* What a change of the memory does to the references.                      *)

\* From m to n: nothing, one mapping more, one page table more; and from D
\* to F one page directory more.
SameView(m, n, D) == \A e \in Having(D) :
    /\ \A i \in Idx : Table(n, D, e, i) = Table(m, D, e, i)
    /\ \A va \in VA : At(n, D, e, va) = At(m, D, e, va)
NewEntry(m, n, D, e, va, y) ==
    /\ e \in Having(D) /\ va \in VA
    /\ At(m, D, e, va) = None /\ At(n, D, e, va) = y /\ y \in Entry \ {None}
    /\ \A f \in Having(D) :
        /\ \A i \in Idx : Table(n, D, f, i) = Table(m, D, f, i)
        /\ \A vb \in VA : <<f, vb>> # <<e, va>> => At(n, D, f, vb) = At(m, D, f, vb)
NewTable(m, n, D, e, i, t) ==
    /\ e \in Having(D) /\ i \in Idx
    /\ Table(m, D, e, i) = NoPage /\ Table(n, D, e, i) = t /\ t \in Pages
    /\ \A f \in Having(D) :
        /\ \A j \in Idx : <<f, j>> # <<e, i>> => Table(n, D, f, j) = Table(m, D, f, j)
        /\ \A vb \in VA : At(n, D, f, vb) = At(m, D, f, vb)
NewDir(m, D, F, e, p) ==
    /\ e \in Envs /\ p \in Pages
    /\ D[e] = NoPage /\ F = [D EXCEPT ![e] = p]
    /\ \A i \in Idx : m.mem[p][i][1] = NoPage

(* A page that is no directory or table can hold anything.                  *)
LEMMA OutsideLemma ==
    ASSUME NEW m \in Memory, NEW n \in Memory, NEW D \in Dirs,
           \A q \in Pages : Structure(m, D, q) => n.mem[q] = m.mem[q]
    PROVE  SameView(m, n, D)
<1> SUFFICES ASSUME NEW e \in Having(D)
             PROVE  /\ \A i \in Idx : Table(n, D, e, i) = Table(m, D, e, i)
                    /\ \A va \in VA : At(n, D, e, va) = At(m, D, e, va)
  BY DEF SameView
<1>1. n.mem[D[e]] = m.mem[D[e]]
  BY TypeLemma DEF Structure
<1>2. \A i \in Idx : Table(n, D, e, i) = Table(m, D, e, i)
  BY <1>1 DEF Table
<1>3. ASSUME NEW va \in VA  PROVE At(n, D, e, va) = At(m, D, e, va)
  <2>1. Table(n, D, e, va[1]) = Table(m, D, e, va[1])
    BY <1>2, VALemma
  <2>2. Table(m, D, e, va[1]) \in Pages =>
            n.mem[Table(m, D, e, va[1])] = m.mem[Table(m, D, e, va[1])]
    BY VALemma DEF Structure
  <2>3. QED  BY <2>1, <2>2, TypeLemma, VALemma
<1>4. QED  BY <1>2, <1>3

LEMMA SameViewLemma ==
    ASSUME NEW m \in Memory, NEW n \in Memory, NEW D \in Dirs, SameView(m, n, D)
    PROVE  /\ \A p \in Pages : /\ Refs(n, D, p) = Refs(m, D, p)
                               /\ Unheld(n, D, p) <=> Unheld(m, D, p)
                               /\ Structure(n, D, p) <=> Structure(m, D, p)
           /\ Private(n, D) <=> Private(m, D)
<1>1. \A p \in Pages : Structure(n, D, p) <=> Structure(m, D, p)
  BY DEF Structure, SameView
<1>2. ASSUME NEW p \in Pages  PROVE Refs(n, D, p) = Refs(m, D, p)
  <2>1. TablesOf(n, D, p) = TablesOf(m, D, p)
    BY DEF TablesOf, SameView
  <2>2. DataOf(n, D, p) = DataOf(m, D, p)
    BY DEF DataOf, SameView
  <2>3. QED  BY <2>1, <2>2 DEF Refs
<1>3. \A p \in Pages : Unheld(n, D, p) <=> Unheld(m, D, p)
  BY DEF Unheld, SameView
<1>4. \A e \in Having(D), va \in VA : At(n, D, e, va)[1] \in Pages \cup {NoPage}
  BY TypeLemma
<1>5. Private(n, D) <=> Private(m, D)
  BY <1>1, <1>4, TypeLemma DEF Private, SameView
<1>6. QED  BY <1>1, <1>2, <1>3, <1>5

LEMMA NewEntryLemma ==
    ASSUME NEW m \in Memory, NEW n \in Memory, NEW D \in Dirs, NEW e, NEW va, NEW y,
           NewEntry(m, n, D, e, va, y)
    PROVE  /\ \A p \in Pages : /\ Refs(n, D, p) = Refs(m, D, p) + (IF p = y[1] THEN 1 ELSE 0)
                               /\ Structure(n, D, p) <=> Structure(m, D, p)
           /\ Private(n, D) <=> Private(m, D) /\ ~ Structure(m, D, y[1])
<1>1. \A p \in Pages : Structure(n, D, p) <=> Structure(m, D, p)
  BY DEF Structure, NewEntry
<1>2. y[1] \in Pages /\ y # None
  BY EntryLemma DEF NewEntry
<1>3. ASSUME NEW p \in Pages
      PROVE  Refs(n, D, p) = Refs(m, D, p) + (IF p = y[1] THEN 1 ELSE 0)
  <2>1. TablesOf(n, D, p) = TablesOf(m, D, p)
    BY DEF TablesOf, NewEntry
  <2>2. \A x \in Having(D) \X VA : x = <<x[1], x[2]>> /\ x[1] \in Having(D) /\ x[2] \in VA
    OBVIOUS
  <2>3. CASE p = y[1]
    <3>1. <<e, va>> \notin DataOf(m, D, p)
      BY EntryLemma DEF DataOf, NewEntry
    <3>2. DataOf(n, D, p) = DataOf(m, D, p) \cup {<<e, va>>}
      <4>1. ASSUME NEW x \in Having(D) \X VA
            PROVE  x \in DataOf(n, D, p) <=> x \in DataOf(m, D, p) \cup {<<e, va>>}
        <5>1. CASE x = <<e, va>>
          BY <5>1, <2>3 DEF DataOf, NewEntry
        <5>2. CASE x # <<e, va>>
          <6>1. <<x[1], x[2]>> # <<e, va>>
            BY <2>2, <5>2
          <6>2. At(n, D, x[1], x[2]) = At(m, D, x[1], x[2])
            BY <2>2, <6>1 DEF NewEntry
          <6>3. QED  BY <5>2, <6>2 DEF DataOf
        <5>3. QED  BY <5>1, <5>2
      <4>2. <<e, va>> \in Having(D) \X VA
        BY DEF NewEntry
      <4>3. QED  BY <4>1, <4>2 DEF DataOf
    <3>3. Cardinality(DataOf(n, D, p)) = Cardinality(DataOf(m, D, p)) + 1
      BY <3>1, <3>2, FiniteLemma, FS_AddElement
    <3>4. QED  BY <2>1, <2>3, <3>3, RefsLemma DEF Refs
  <2>4. CASE p # y[1]
    <3>1. ASSUME NEW x \in Having(D) \X VA
          PROVE  At(n, D, x[1], x[2])[1] = p <=> At(m, D, x[1], x[2])[1] = p
      <4>1. CASE x = <<e, va>>
        BY <4>1, <2>4, EntryLemma DEF NewEntry
      <4>2. CASE x # <<e, va>>
        <5>1. <<x[1], x[2]>> # <<e, va>>
          BY <2>2, <4>2
        <5>2. QED  BY <2>2, <5>1 DEF NewEntry
      <4>3. QED  BY <4>1, <4>2
    <3>2. DataOf(n, D, p) = DataOf(m, D, p)
      BY <3>1 DEF DataOf
    <3>3. QED  BY <2>1, <2>4, <3>2, RefsLemma DEF Refs
  <2>5. QED  BY <2>3, <2>4
<1>4. ASSUME NEW f \in Having(D), NEW vb \in VA
      PROVE  LET p == At(m, D, f, vb)[1]
                 q == At(n, D, f, vb)[1]
             IN  IF f = e /\ vb = va THEN p = NoPage /\ q = y[1] ELSE q = p
  BY EntryLemma DEF NewEntry
<1>5. Private(n, D) <=> Private(m, D) /\ ~ Structure(m, D, y[1])
  <2>1. e \in Having(D) /\ va \in VA
    BY DEF NewEntry
  <2>2. \A f \in Having(D), vb \in VA : At(m, D, f, vb)[1] \in Pages \cup {NoPage}
    BY TypeLemma
  <2>3. (\A f \in Having(D) : \A vb \in VA :
            LET p == At(n, D, f, vb)[1] IN p = NoPage \/ ~ Structure(n, D, p))
        <=> /\ \A f \in Having(D) : \A vb \in VA :
                LET p == At(m, D, f, vb)[1] IN p = NoPage \/ ~ Structure(m, D, p)
            /\ ~ Structure(m, D, y[1])
    BY <1>1, <1>2, <1>4, <2>1, <2>2
  <2>4. \A f \in Having(D), i \in Idx : Table(n, D, f, i) = Table(m, D, f, i)
    BY DEF NewEntry
  <2>5. QED  BY <2>3, <2>4 DEF Private
<1>6. QED  BY <1>1, <1>3, <1>5

LEMMA NewTableLemma ==
    ASSUME NEW m \in Memory, NEW n \in Memory, NEW D \in Dirs, NEW e, NEW i, NEW t,
           NewTable(m, n, D, e, i, t)
    PROVE  /\ \A p \in Pages : /\ Refs(n, D, p) = Refs(m, D, p) + (IF p = t THEN 1 ELSE 0)
                               /\ Structure(n, D, p) <=> Structure(m, D, p) \/ p = t
           /\ Private(m, D) /\ Unheld(m, D, t) => Private(n, D)
           /\ Private(n, D) => Private(m, D) /\ Unheld(m, D, t)
<1>1. e \in Having(D) /\ i \in Idx /\ t \in Pages /\ t # NoPage
  BY DEF NewTable
<1>2. ASSUME NEW f \in Having(D), NEW j \in Idx
      PROVE  IF f = e /\ j = i THEN Table(m, D, f, j) = NoPage /\ Table(n, D, f, j) = t
             ELSE Table(n, D, f, j) = Table(m, D, f, j)
  BY DEF NewTable
<1>3. \A f \in Having(D), vb \in VA : At(n, D, f, vb) = At(m, D, f, vb)
  BY DEF NewTable
<1>4. ASSUME NEW p \in Pages
      PROVE  Refs(n, D, p) = Refs(m, D, p) + (IF p = t THEN 1 ELSE 0)
  <2>1. DataOf(n, D, p) = DataOf(m, D, p)
    BY <1>3 DEF DataOf
  <2>2. CASE p = t
    <3>1. <<e, i>> \notin TablesOf(m, D, p)
      BY <1>1, <1>2, <2>2 DEF TablesOf
    <3>2. TablesOf(n, D, p) = TablesOf(m, D, p) \cup {<<e, i>>}
      BY <1>1, <1>2, <2>2 DEF TablesOf
    <3>3. Cardinality(TablesOf(n, D, p)) = Cardinality(TablesOf(m, D, p)) + 1
      BY <3>1, <3>2, FiniteLemma, FS_AddElement
    <3>4. QED  BY <2>1, <2>2, <3>3, RefsLemma DEF Refs
  <2>3. CASE p # t
    <3>1. TablesOf(n, D, p) = TablesOf(m, D, p)
      BY <1>1, <1>2, <2>3 DEF TablesOf
    <3>2. QED  BY <2>1, <2>3, <3>1, RefsLemma DEF Refs
  <2>4. QED  BY <2>2, <2>3
<1>5. \A p \in Pages : Structure(n, D, p) <=> Structure(m, D, p) \/ p = t
  BY <1>1, <1>2 DEF Structure
<1>6. \A f \in Having(D) : /\ D[f] \in Pages /\ \A j \in Idx : Table(m, D, f, j) \in Pages \cup {NoPage}
                           /\ \A vb \in VA : At(m, D, f, vb)[1] \in Pages \cup {NoPage}
  BY TypeLemma
<1>7. ASSUME Private(m, D), Unheld(m, D, t)  PROVE Private(n, D)
  <2>1. \A f, g \in Having(D), j \in Idx : Table(n, D, f, j) # D[g]
    BY <1>1, <1>2, <1>7 DEF Private, Unheld
  <2>2. \A f, g \in Having(D) : \A j, l \in Idx :
            Table(n, D, f, j) = Table(n, D, g, l) => Table(n, D, f, j) = NoPage \/ (f = g /\ j = l)
    BY <1>1, <1>2, <1>7 DEF Private, Unheld
  <2>3. \A f \in Having(D), vb \in VA :
            LET p == At(n, D, f, vb)[1] IN p = NoPage \/ ~ Structure(n, D, p)
    BY <1>1, <1>3, <1>5, <1>6, <1>7 DEF Private, Unheld
  <2>4. QED  BY <1>7, <2>1, <2>2, <2>3 DEF Private
<1>8. ASSUME Private(n, D)  PROVE Private(m, D) /\ Unheld(m, D, t)
  <2>1. \A f, g \in Having(D), j \in Idx : Table(m, D, f, j) # D[g]
    BY <1>1, <1>2, <1>6, <1>8 DEF Private
  <2>2. \A f, g \in Having(D) : \A j, l \in Idx :
            Table(m, D, f, j) = Table(m, D, g, l) => Table(m, D, f, j) = NoPage \/ (f = g /\ j = l)
    BY <1>1, <1>2, <1>8 DEF Private
  <2>3. \A f \in Having(D), vb \in VA :
            LET p == At(m, D, f, vb)[1] IN p = NoPage \/ (~ Structure(m, D, p) /\ p # t)
    BY <1>1, <1>3, <1>5, <1>6, <1>8 DEF Private
  <2>4. \A f \in Having(D) : D[f] # t
    BY <1>1, <1>2, <1>8 DEF Private
  <2>5. \A f \in Having(D), j \in Idx : Table(m, D, f, j) # t
    BY <1>1, <1>2, <1>8 DEF Private
  <2>6. \A f \in Having(D), vb \in VA : At(m, D, f, vb)[1] # t
    BY <1>1, <2>3
  <2>7. QED  BY <1>8, <2>1, <2>2, <2>3, <2>4, <2>5, <2>6 DEF Private, Unheld
<1>9. QED  BY <1>4, <1>5, <1>7, <1>8

LEMMA NewDirLemma ==
    ASSUME NEW m \in Memory, NEW D \in Dirs, NEW F \in Dirs, NEW e, NEW p,
           NewDir(m, D, F, e, p)
    PROVE  /\ Having(F) = Having(D) \cup {e} /\ e \notin Having(D) /\ p # NoPage
           /\ \A i \in Idx : Table(m, F, e, i) = NoPage
           /\ \A va \in VA : At(m, F, e, va) = None
           /\ \A f \in Having(D) : /\ F[f] = D[f]
                                   /\ \A i \in Idx : Table(m, F, f, i) = Table(m, D, f, i)
                                   /\ \A va \in VA : At(m, F, f, va) = At(m, D, f, va)
           /\ \A q \in Pages : /\ Refs(m, F, q) = Refs(m, D, q) + (IF q = p THEN 1 ELSE 0)
                               /\ Structure(m, F, q) <=> Structure(m, D, q) \/ q = p
           /\ Private(m, D) /\ Unheld(m, D, p) => Private(m, F)
           /\ Private(m, F) => Private(m, D) /\ Unheld(m, D, p)
<1>1. e \in Envs /\ p \in Pages /\ p # NoPage /\ D[e] = NoPage /\ F[e] = p
      /\ \A f \in Envs : f # e => F[f] = D[f]
  BY DEF NewDir, Dirs
<1>2. Having(F) = Having(D) \cup {e} /\ e \notin Having(D)
  BY <1>1 DEF Having
<1>3. \A i \in Idx : Table(m, F, e, i) = NoPage
  BY <1>1 DEF Table, NewDir
<1>4. \A va \in VA : At(m, F, e, va) = None
  BY <1>2, <1>3, TypeLemma, VALemma
<1>5. \A f \in Having(D) : /\ F[f] = D[f]
                           /\ \A i \in Idx : Table(m, F, f, i) = Table(m, D, f, i)
                           /\ \A va \in VA : At(m, F, f, va) = At(m, D, f, va)
  BY <1>1, <1>2 DEF Having, Table, At
<1>6. ASSUME NEW q \in Pages
      PROVE  Refs(m, F, q) = Refs(m, D, q) + (IF q = p THEN 1 ELSE 0)
  <2>1. TablesOf(m, F, q) = TablesOf(m, D, q)
    BY <1>2, <1>3, <1>5 DEF TablesOf
  <2>2. DataOf(m, F, q) = DataOf(m, D, q)
    BY <1>2, <1>4, <1>5, EntryLemma DEF DataOf
  <2>3. CASE q = p
    <3>1. e \notin DirsOf(D, q) /\ DirsOf(F, q) = DirsOf(D, q) \cup {e}
      BY <1>1, <1>2, <1>5, <2>3 DEF DirsOf
    <3>2. Cardinality(DirsOf(F, q)) = Cardinality(DirsOf(D, q)) + 1
      BY <3>1, FiniteLemma, FS_AddElement
    <3>3. QED  BY <2>1, <2>2, <2>3, <3>2, RefsLemma DEF Refs
  <2>4. CASE q # p
    <3>1. DirsOf(F, q) = DirsOf(D, q)
      BY <1>1, <1>2, <1>5, <2>4 DEF DirsOf
    <3>2. QED  BY <2>1, <2>2, <2>4, <3>1, RefsLemma DEF Refs
  <2>5. QED  BY <2>3, <2>4
<1>7. \A q \in Pages : Structure(m, F, q) <=> Structure(m, D, q) \/ q = p
  BY <1>1, <1>2, <1>3, <1>5 DEF Structure
<1>8. \A f \in Having(D) : /\ D[f] \in Pages /\ \A j \in Idx : Table(m, D, f, j) \in Pages \cup {NoPage}
                           /\ \A vb \in VA : At(m, D, f, vb)[1] \in Pages \cup {NoPage}
  BY TypeLemma
<1>9. ASSUME Private(m, D), Unheld(m, D, p)  PROVE Private(m, F)
  <2>1. \A f, g \in Having(F) : F[f] = F[g] => f = g
    BY <1>1, <1>2, <1>5, <1>9 DEF Private, Unheld
  <2>2. \A f, g \in Having(F) : \A j \in Idx : Table(m, F, f, j) # F[g]
    BY <1>1, <1>2, <1>3, <1>5, <1>8, <1>9 DEF Private, Unheld
  <2>3. \A f, g \in Having(F) : \A j, l \in Idx :
            Table(m, F, f, j) = Table(m, F, g, l) => Table(m, F, f, j) = NoPage \/ (f = g /\ j = l)
    BY <1>2, <1>3, <1>5, <1>9 DEF Private
  <2>4. \A f \in Having(F), vb \in VA :
            LET q == At(m, F, f, vb)[1] IN q = NoPage \/ ~ Structure(m, F, q)
    BY <1>2, <1>4, <1>5, <1>7, <1>8, <1>9, EntryLemma DEF Private, Unheld
  <2>5. QED  BY <2>1, <2>2, <2>3, <2>4 DEF Private
<1>10. ASSUME Private(m, F)  PROVE Private(m, D) /\ Unheld(m, D, p)
  <2>1. \A f, g \in Having(D) : D[f] = D[g] => f = g
    BY <1>2, <1>5, <1>10 DEF Private
  <2>2. \A f, g \in Having(D) : \A j \in Idx : Table(m, D, f, j) # D[g]
    BY <1>2, <1>5, <1>10 DEF Private
  <2>3. \A f, g \in Having(D) : \A j, l \in Idx :
            Table(m, D, f, j) = Table(m, D, g, l) => Table(m, D, f, j) = NoPage \/ (f = g /\ j = l)
    BY <1>2, <1>5, <1>10 DEF Private
  <2>4. \A f \in Having(D), vb \in VA :
            LET q == At(m, D, f, vb)[1] IN q = NoPage \/ (~ Structure(m, D, q) /\ q # p)
    BY <1>2, <1>5, <1>7, <1>8, <1>10 DEF Private
  <2>5. \A f \in Having(D) : D[f] # p
    BY <1>1, <1>2, <1>5, <1>10 DEF Private
  <2>6. \A f \in Having(D), j \in Idx : Table(m, D, f, j) # p
    BY <1>1, <1>2, <1>5, <1>10 DEF Private
  <2>7. \A f \in Having(D), vb \in VA : At(m, D, f, vb)[1] # p
    BY <1>1, <2>4
  <2>8. QED  BY <2>1, <2>2, <2>3, <2>4, <2>5, <2>6, <2>7 DEF Private, Unheld
<1>11. QED  BY <1>1, <1>2, <1>3, <1>4, <1>5, <1>6, <1>7, <1>9, <1>10

-----------------------------------------------------------------------------
(* The free list and the counts.                                            *)

\* A memory with one part replaced.
LEMMA PartsLemma ==
    ASSUME NEW m \in Memory
    PROVE  /\ \A x \in Seq(Pages) : LET n == [m EXCEPT !.free = x] IN
                n \in Memory /\ n.free = x /\ n.ref = m.ref /\ n.mem = m.mem
           /\ \A x \in [Pages -> 0 .. RefMod - 1] : LET n == [m EXCEPT !.ref = x] IN
                n \in Memory /\ n.free = m.free /\ n.ref = x /\ n.mem = m.mem
           /\ \A x \in [Pages -> [Idx -> Entry]] : LET n == [m EXCEPT !.mem = x] IN
                n \in Memory /\ n.free = m.free /\ n.ref = m.ref /\ n.mem = x
<1>1. ASSUME NEW x \in Seq(Pages)
      PROVE  LET n == [m EXCEPT !.free = x] IN
                n \in Memory /\ n.free = x /\ n.ref = m.ref /\ n.mem = m.mem
  BY DEF Memory
<1>2. ASSUME NEW x \in [Pages -> 0 .. RefMod - 1]
      PROVE  LET n == [m EXCEPT !.ref = x] IN
                n \in Memory /\ n.free = m.free /\ n.ref = x /\ n.mem = m.mem
  BY DEF Memory
<1>3. ASSUME NEW x \in [Pages -> [Idx -> Entry]]
      PROVE  LET n == [m EXCEPT !.mem = x] IN
                n \in Memory /\ n.free = m.free /\ n.ref = m.ref /\ n.mem = x
  BY DEF Memory
<1>4. QED  BY <1>1, <1>2, <1>3

Recounted(m, n, x) ==
    n = [m EXCEPT !.ref = x] /\ m \in Memory /\ x \in [Pages -> 0 .. RefMod - 1]
LEMMA RecountLemma ==
    ASSUME NEW m, NEW x, NEW n, Recounted(m, n, x)
    PROVE  n \in Memory /\ n.free = m.free /\ n.ref = x /\ n.mem = m.mem
<1> DEFINE w == [m EXCEPT !.ref = x]
<1>1. n = w /\ m \in Memory /\ x \in [Pages -> 0 .. RefMod - 1]
  BY DEF Recounted
<1>2. w \in Memory /\ w.free = m.free /\ w.ref = x /\ w.mem = m.mem
  BY <1>1 DEF Memory
<1> HIDE DEF w
<1>3. QED  BY <1>1, <1>2

LEMMA TakeLemma ==
    ASSUME NEW m \in Memory, m.free # <<>>, Distinct(m)
    PROVE  /\ NewPage(m) \in Pages /\ NewPage(m) # NoPage /\ NewPage(m) \in FreeSet(m)
           /\ PageAlloc(m) \in Memory /\ Distinct(PageAlloc(m))
           /\ FreeSet(PageAlloc(m)) = FreeSet(m) \ {NewPage(m)}
           /\ PageAlloc(m).ref = m.ref /\ PageAlloc(m).mem[NewPage(m)] = Cleared
           /\ \A p \in Pages \ {NewPage(m)} : PageAlloc(m).mem[p] = m.mem[p]
<1>1. m.free \in Seq(Pages) /\ m.ref \in [Pages -> 0 .. RefMod - 1] /\ m.mem \in [Pages -> [Idx -> Entry]]
  BY DEF Memory
<1>2. NewPage(m) = m.free[1] /\ NewPage(m) \in Pages /\ 1 \in 1 .. Len(m.free)
  BY <1>1 DEF NewPage
<1>3. /\ Tail(m.free) \in Seq(Pages) /\ Len(Tail(m.free)) = Len(m.free) - 1
      /\ \A i \in 1 .. Len(m.free) - 1 : Tail(m.free)[i] = m.free[i + 1]
  BY <1>1
<1>4. PageAlloc(m) \in Memory /\ PageAlloc(m).free = Tail(m.free) /\ PageAlloc(m).ref = m.ref
      /\ PageAlloc(m).mem = [m.mem EXCEPT ![NewPage(m)] = Cleared]
  <2> DEFINE n == [m EXCEPT !.free = Tail(m.free)]
             g == [n.mem EXCEPT ![NewPage(m)] = Cleared]
  <2>1. n \in Memory /\ n.free = Tail(m.free) /\ n.ref = m.ref /\ n.mem = m.mem
    BY <1>3, PartsLemma
  <2>2. g \in [Pages -> [Idx -> Entry]]
    BY <1>1, <1>2, <2>1, EntryLemma
  <2>3. PageAlloc(m) = [n EXCEPT !.mem = g]
    BY DEF PageAlloc
  <2> HIDE DEF n, g
  <2>4. PageAlloc(m) \in Memory /\ PageAlloc(m).free = n.free /\ PageAlloc(m).ref = n.ref
        /\ PageAlloc(m).mem = g
    BY <2>1, <2>2, <2>3, PartsLemma
  <2>5. QED  BY <2>1, <2>4 DEF g
<1>5. \A p \in Pages : PageAlloc(m).mem[p] = IF p = NewPage(m) THEN Cleared ELSE m.mem[p]
  BY <1>1, <1>2, <1>4
<1>6. \A i, j \in 1 .. Len(m.free) - 1 : Tail(m.free)[i] = Tail(m.free)[j] => i = j
  BY <1>1, <1>3 DEF Distinct
<1>7. FreeSet(PageAlloc(m)) = FreeSet(m) \ {NewPage(m)}
  <2>1. FreeSet(PageAlloc(m)) = {m.free[i + 1] : i \in 1 .. Len(m.free) - 1}
    BY <1>3, <1>4 DEF FreeSet
  <2>2. ASSUME NEW i \in 1 .. Len(m.free) - 1
        PROVE  m.free[i + 1] \in FreeSet(m) /\ m.free[i + 1] # m.free[1]
    <3>1. i + 1 \in 1 .. Len(m.free) /\ i + 1 # 1
      BY <1>1
    <3>2. QED  BY <3>1, <1>2 DEF FreeSet, Distinct
  <2>3. ASSUME NEW i \in 1 .. Len(m.free), m.free[i] # m.free[1]
        PROVE  \E j \in 1 .. Len(m.free) - 1 : m.free[i] = m.free[j + 1]
    <3>1. i - 1 \in 1 .. Len(m.free) - 1 /\ i = (i - 1) + 1
      BY <1>1, <2>3
    <3>2. m.free[i] = m.free[(i - 1) + 1]
      BY <3>1
    <3>3. QED  BY <3>1, <3>2
  <2>4. FreeSet(PageAlloc(m)) \subseteq FreeSet(m) \ {NewPage(m)}
    BY <1>2, <2>1, <2>2
  <2>5. FreeSet(m) \ {NewPage(m)} \subseteq FreeSet(PageAlloc(m))
    <3> SUFFICES ASSUME NEW p \in FreeSet(m), p # NewPage(m)  PROVE p \in FreeSet(PageAlloc(m))
      OBVIOUS
    <3>1. PICK i \in 1 .. Len(m.free) : m.free[i] = p
      BY DEF FreeSet
    <3>2. PICK j \in 1 .. Len(m.free) - 1 : p = m.free[j + 1]
      BY <1>2, <2>3, <3>1
    <3>3. QED  BY <2>1, <3>2
  <2>6. QED  BY <2>4, <2>5
<1>8. Distinct(PageAlloc(m))
  BY <1>3, <1>4, <1>6 DEF Distinct
<1>9. NewPage(m) \in FreeSet(m)
  BY <1>2 DEF FreeSet
<1>10. QED  BY <1>2, <1>4, <1>5, <1>7, <1>8, <1>9

LEMMA GiveLemma ==
    ASSUME NEW m \in Memory, NEW p \in Pages, p \notin FreeSet(m), Distinct(m)
    PROVE  /\ PageFree(m, p) \in Memory /\ Distinct(PageFree(m, p))
           /\ FreeSet(PageFree(m, p)) = FreeSet(m) \cup {p}
           /\ PageFree(m, p).ref = m.ref /\ PageFree(m, p).mem = m.mem
<1> DEFINE s == <<p>> \o m.free
<1>1. m.free \in Seq(Pages) /\ Len(m.free) \in Nat
  BY DEF Memory
<1>2. /\ s \in Seq(Pages) /\ Len(s) = Len(m.free) + 1 /\ s[1] = p
      /\ \A i \in 1 .. Len(m.free) : s[i + 1] = m.free[i]
  BY <1>1
<1>4. PageFree(m, p) \in Memory /\ PageFree(m, p).free = s /\ PageFree(m, p).ref = m.ref
      /\ PageFree(m, p).mem = m.mem
  BY <1>2, PartsLemma DEF PageFree
<1>5. \A i \in 2 .. Len(s) : i - 1 \in 1 .. Len(m.free) /\ s[i] = m.free[i - 1]
  <2>1. ASSUME NEW i \in 2 .. Len(s)
        PROVE  i - 1 \in 1 .. Len(m.free) /\ i = (i - 1) + 1
    BY <1>1, <1>2
  <2>2. QED  BY <1>2, <2>1
<1>6. \A i \in 2 .. Len(s) : s[i] # p
  BY <1>5 DEF FreeSet
<1>7. Distinct(PageFree(m, p))
  <2>1. ASSUME NEW i \in 1 .. Len(s), NEW j \in 1 .. Len(s), s[i] = s[j]  PROVE i = j
    <3>1. CASE i = 1 \/ j = 1
      BY <1>1, <1>2, <1>6, <2>1, <3>1
    <3>2. CASE i # 1 /\ j # 1
      <4>1. i \in 2 .. Len(s) /\ j \in 2 .. Len(s)
        BY <1>1, <1>2, <3>2
      <4>2. i - 1 = j - 1
        BY <1>5, <2>1, <4>1 DEF Distinct
      <4>3. QED  BY <4>1, <4>2
    <3>3. QED  BY <3>1, <3>2
  <2>2. QED  BY <1>4, <2>1 DEF Distinct
<1>8. FreeSet(PageFree(m, p)) = FreeSet(m) \cup {p}
  <2>1. FreeSet(PageFree(m, p)) = {s[i] : i \in 1 .. Len(s)}
    BY <1>4 DEF FreeSet
  <2>2. \A i \in 1 .. Len(s) : s[i] = p \/ s[i] \in FreeSet(m)
    BY <1>1, <1>2, <1>5 DEF FreeSet
  <2>3. \A i \in 1 .. Len(m.free) : i + 1 \in 1 .. Len(s) /\ m.free[i] = s[i + 1]
    BY <1>1, <1>2
  <2>4. 1 \in 1 .. Len(s) /\ s[1] = p
    BY <1>1, <1>2
  <2>5. FreeSet(PageFree(m, p)) \subseteq FreeSet(m) \cup {p}
    BY <2>1, <2>2
  <2>6. \A i \in 1 .. Len(m.free) : m.free[i] \in FreeSet(PageFree(m, p))
    BY <2>1, <2>3
  <2>7. p \in FreeSet(PageFree(m, p))
    BY <2>1, <2>4
  <2>8. QED  BY <2>5, <2>6, <2>7 DEF FreeSet
<1>9. QED  BY <1>4, <1>7, <1>8

LEMMA IncrefType ==
    ASSUME NEW m \in Memory, NEW p \in Pages
    PROVE  /\ Incref(m, p) \in Memory
           /\ Incref(m, p).free = m.free /\ Incref(m, p).mem = m.mem
           /\ Incref(m, p).ref = [m.ref EXCEPT ![p] = (@ + 1) % RefMod]
<1>1. (m.ref[p] + 1) % RefMod \in 0 .. RefMod - 1
  BY DEF Memory
<1> DEFINE x == [m.ref EXCEPT ![p] = (@ + 1) % RefMod]
<1>2. x \in [Pages -> 0 .. RefMod - 1]
  BY <1>1 DEF Memory
<1>3. Recounted(m, Incref(m, p), x)
  BY <1>2 DEF Incref, Recounted
<1> HIDE DEF x
<1>4. /\ Incref(m, p) \in Memory /\ Incref(m, p).free = m.free
      /\ Incref(m, p).mem = m.mem /\ Incref(m, p).ref = x
  BY <1>3, RecountLemma
<1>5. QED  BY <1>4 DEF x

LEMMA DecrefType ==
    ASSUME NEW m \in Memory, NEW p \in Pages
    PROVE  LET k == (m.ref[p] - 1) % RefMod
               n == [m EXCEPT !.ref[p] = k]
           IN  /\ k \in 0 .. RefMod - 1 /\ n \in Memory
               /\ n.free = m.free /\ n.mem = m.mem /\ n.ref = [m.ref EXCEPT ![p] = k]
               /\ PageDecref(m, p) = IF k = 0 THEN PageFree(n, p) ELSE n
<1> DEFINE k == (m.ref[p] - 1) % RefMod
           n == [m EXCEPT !.ref[p] = k]
<1>1. k \in 0 .. RefMod - 1
  BY DEF Memory
<1>2. [m.ref EXCEPT ![p] = k] \in [Pages -> 0 .. RefMod - 1]
  BY <1>1 DEF Memory
<1>3. n \in Memory /\ n.free = m.free /\ n.mem = m.mem /\ n.ref = [m.ref EXCEPT ![p] = k]
  <2> DEFINE x == [m.ref EXCEPT ![p] = k]
  <2>1. x \in [Pages -> 0 .. RefMod - 1] /\ Recounted(m, n, x)
    BY <1>2 DEF Recounted
  <2> HIDE DEF x, n
  <2>2. n \in Memory /\ n.free = m.free /\ n.mem = m.mem /\ n.ref = x
    BY <2>1, RecountLemma
  <2>3. QED  BY <2>2 DEF x
<1>4. QED  BY <1>1, <1>3 DEF PageDecref

-----------------------------------------------------------------------------
(* How a change of the references and the call that counts it keep Good.    *)

LEMMA UncountedLemma ==
    ASSUME NEW m, NEW n \in Memory, NEW D, NEW a, NEW k, Good(m, D, a, k),
           SameView(m, n, D), n.free = m.free, n.ref = m.ref
    PROVE  Good(n, D, a, k)
<1>1. m \in Memory /\ D \in Dirs
  BY DEF Good
<1>2. Counted(n, D, k) /\ Listed(n, D, a, k) /\ Distinct(n) /\ Private(n, D)
  BY <1>1, SameViewLemma DEF Good, Counted, Listed, Distinct, FreeSet
<1>3. (a # NoPage => Unheld(n, D, a)) /\ (k # NoPage => ~ Structure(n, D, k))
  BY <1>1, SameViewLemma DEF Good
<1>4. QED  BY <1>1, <1>2, <1>3 DEF Good

\* page_alloc leaves the caller with an uncounted page.
LEMMA AllocLemma ==
    ASSUME NEW m, NEW D, NEW a, Good(m, D, a, NoPage), m.free # <<>>
    PROVE  LET h == NewPage(m)
               n == PageAlloc(m)
               i == Incref(n, h)
           IN  /\ h \in Pages \ {a} /\ h # NoPage /\ Unheld(m, D, h)
               /\ SameView(m, n, D) /\ (a = NoPage => Good(n, D, h, NoPage))
               /\ SameView(m, i, D) /\ Good(i, D, a, h)
               /\ n.mem[h] = Cleared /\ \A p \in Pages \ {h} : n.mem[p] = m.mem[p]
<1> DEFINE h == NewPage(m)
           n == PageAlloc(m)
           i == Incref(n, h)
<1>1. m \in Memory /\ D \in Dirs /\ a \in Pages \cup {NoPage}
  BY DEF Good
<1>2. Distinct(m) /\ Counted(m, D, NoPage) /\ Listed(m, D, a, NoPage) /\ Private(m, D)
  BY DEF Good
<1>3. /\ h \in Pages /\ h # NoPage /\ h \in FreeSet(m)
      /\ n \in Memory /\ Distinct(n) /\ FreeSet(n) = FreeSet(m) \ {h}
      /\ n.ref = m.ref /\ n.mem[h] = Cleared /\ \A p \in Pages \ {h} : n.mem[p] = m.mem[p]
  BY <1>1, <1>2, TakeLemma
<1>4. /\ i \in Memory /\ i.free = n.free /\ i.mem = n.mem
      /\ i.ref = [n.ref EXCEPT ![h] = (@ + 1) % RefMod]
  BY <1>3, IncrefType
<1> HIDE DEF i, n, h
<1>5. h # a /\ Unheld(m, D, h)
  BY <1>2, <1>3 DEF Listed
<1>6. SameView(m, n, D) /\ SameView(m, i, D)
  <2>1. ~ Structure(m, D, h)
    BY <1>5 DEF Structure, Unheld
  <2>2. \A q \in Pages : Structure(m, D, q) => n.mem[q] = m.mem[q]
    BY <1>3, <2>1
  <2>3. QED  BY <1>1, <1>3, <1>4, <2>2, OutsideLemma
<1>7. Private(n, D) /\ Private(i, D)
  BY <1>1, <1>2, <1>3, <1>4, <1>6, SameViewLemma
<1>8. \A p \in Pages : /\ Refs(n, D, p) = Refs(m, D, p) /\ Refs(i, D, p) = Refs(m, D, p)
                       /\ Unheld(n, D, p) <=> Unheld(m, D, p)
                       /\ Unheld(i, D, p) <=> Unheld(m, D, p)
                       /\ Structure(i, D, p) <=> Structure(m, D, p)
  BY <1>1, <1>3, <1>4, <1>6, SameViewLemma
<1>9. ASSUME a = NoPage  PROVE Good(n, D, h, NoPage)
  <2>1. Counted(n, D, NoPage)
    BY <1>2, <1>3, <1>8 DEF Counted
  <2>2. Listed(n, D, h, NoPage)
    BY <1>2, <1>3, <1>8, <1>9 DEF Listed
  <2>3. QED  BY <1>1, <1>3, <1>5, <1>7, <1>8, <2>1, <2>2 DEF Good
<1>10. Good(i, D, a, h)
  <2>1. Counted(i, D, h)
    <3>1. ASSUME NEW p \in Pages
          PROVE  Refs(m, D, p) \in 0 .. RefMod - 1 /\ m.ref[p] = Refs(m, D, p) % RefMod
      <4>1. Refs(m, D, p) \in Nat
        BY <1>1, RefsLemma
      <4>2. QED  BY <1>2, <4>1 DEF Counted
    <3>2. \A p \in Pages : m.ref[p] = Refs(m, D, p)
      BY <3>1, CountingLemma
    <3>3. \A p \in Pages : i.ref[p] = IF p = h THEN (m.ref[p] + 1) % RefMod ELSE m.ref[p]
      BY <1>1, <1>3, <1>4 DEF Memory
    <3>4. QED  BY <1>8, <3>1, <3>2, <3>3 DEF Counted
  <2>2. FreeSet(i) = FreeSet(n) /\ Distinct(i)
    BY <1>3, <1>4 DEF FreeSet, Distinct
  <2>3. Listed(i, D, a, h)
    BY <1>2, <1>3, <1>8, <2>2 DEF Listed
  <2>4. a # NoPage => Unheld(i, D, a)
    BY <1>1, <1>8 DEF Good
  <2>5. ~ Structure(i, D, h)
    BY <1>3, <1>5, <1>8 DEF Structure, Unheld
  <2>6. QED  BY <1>1, <1>3, <1>4, <1>7, <2>1, <2>2, <2>3, <2>4, <2>5 DEF Good
<1>11. QED  BY <1>3, <1>5, <1>6, <1>9, <1>10 DEF h, n, i

\* page_free of a page that came to nothing.
LEMMA FreeLemma ==
    ASSUME NEW m, NEW D, NEW a \in Pages, Good(m, D, a, NoPage)
    PROVE  Good(PageFree(m, a), D, NoPage, NoPage) /\ PageFree(m, a).mem = m.mem
<1> DEFINE n == PageFree(m, a)
<1>1. m \in Memory /\ D \in Dirs /\ Distinct(m) /\ Counted(m, D, NoPage)
      /\ Listed(m, D, a, NoPage) /\ a # NoPage /\ Unheld(m, D, a)
  BY DEF Good
<1>2. a \notin FreeSet(m)
  BY <1>1 DEF Listed
<1>3. n \in Memory /\ Distinct(n) /\ FreeSet(n) = FreeSet(m) \cup {a}
      /\ n.ref = m.ref /\ n.mem = m.mem
  BY <1>1, <1>2, GiveLemma
<1> HIDE DEF n
<1>4. SameView(m, n, D)
  BY <1>1, <1>3, OutsideLemma
<1>5. Counted(n, D, NoPage) /\ Private(n, D)
  BY <1>1, <1>3, <1>4, SameViewLemma DEF Counted, Good
<1>6. Listed(n, D, NoPage, NoPage)
  <2>1. \A p \in Pages : Unheld(n, D, p) <=> Unheld(m, D, p)
    BY <1>1, <1>3, <1>4, SameViewLemma
  <2>2. QED  BY <1>1, <1>3, <2>1 DEF Listed
<1>7. QED  BY <1>1, <1>3, <1>5, <1>6 DEF Good, n

\* The reference count is raised before the page is entered anywhere.
LEMMA IncrefLemma ==
    ASSUME NEW m, NEW D, NEW a, NEW p \in Pages, Good(m, D, a, NoPage),
           p = a \/ (a = NoPage /\ ~ Unheld(m, D, p) /\ ~ Structure(m, D, p))
    PROVE  Good(Incref(m, p), D, NoPage, p) /\ SameView(m, Incref(m, p), D)
<1> DEFINE n == Incref(m, p)
<1>1. m \in Memory /\ D \in Dirs /\ Distinct(m) /\ Counted(m, D, NoPage) /\ Private(m, D)
      /\ Listed(m, D, a, NoPage) /\ (a # NoPage => Unheld(m, D, a)) /\ p # NoPage
  BY DEF Good
<1>2. n \in Memory /\ n.free = m.free /\ n.mem = m.mem
      /\ n.ref = [m.ref EXCEPT ![p] = (@ + 1) % RefMod]
  BY <1>1, IncrefType
<1> HIDE DEF n
<1>3. SameView(m, n, D)
  BY <1>1, <1>2, OutsideLemma
<1>4. \A q \in Pages : /\ Refs(n, D, q) = Refs(m, D, q)
                       /\ Unheld(n, D, q) <=> Unheld(m, D, q)
                       /\ Structure(n, D, q) <=> Structure(m, D, q)
  BY <1>1, <1>2, <1>3, SameViewLemma
<1>5. Counted(n, D, p)
  <2>1. \A q \in Pages : Refs(m, D, q) \in 0 .. RefMod - 1 /\ m.ref[q] = Refs(m, D, q) % RefMod
    BY <1>1, RefsLemma DEF Counted
  <2>2. \A q \in Pages : m.ref[q] = Refs(m, D, q)
    BY <2>1, CountingLemma
  <2>3. \A q \in Pages : n.ref[q] = IF q = p THEN (m.ref[q] + 1) % RefMod ELSE m.ref[q]
    BY <1>1, <1>2 DEF Memory
  <2>4. QED  BY <1>4, <2>1, <2>2, <2>3 DEF Counted
<1>6. Listed(n, D, NoPage, p)
  BY <1>1, <1>2, <1>4 DEF Listed, FreeSet
<1>7. ~ Structure(n, D, p)
  BY <1>1, <1>4 DEF Structure, Unheld
<1>8. Distinct(n) /\ Private(n, D)
  BY <1>1, <1>2, <1>3, SameViewLemma DEF Distinct
<1>9. QED  BY <1>1, <1>2, <1>3, <1>5, <1>6, <1>7, <1>8 DEF Good, n

\* The page counted in advance is entered.
LEMMA GainLemma ==
    ASSUME NEW m, NEW n \in Memory, NEW D, NEW F \in Dirs, NEW a, NEW k \in Pages,
           Good(m, D, a, k), n.free = m.free, n.ref = m.ref, Private(n, F),
           a # NoPage => a # k /\ Unheld(n, F, a),
           \A p \in Pages : Refs(n, F, p) = Refs(m, D, p) + (IF p = k THEN 1 ELSE 0),
           Refs(n, F, k) < RefMod
    PROVE  Good(n, F, a, NoPage)
<1>1. m \in Memory /\ D \in Dirs /\ Distinct(m) /\ Counted(m, D, k) /\ Listed(m, D, a, k)
      /\ a \in Pages \cup {NoPage}
  BY DEF Good
<1>2. \A p \in Pages : /\ Refs(m, D, p) \in Nat /\ Refs(n, F, p) \in Nat
                       /\ Refs(m, D, p) = 0 <=> Unheld(m, D, p)
                       /\ Refs(n, F, p) = 0 <=> Unheld(n, F, p)
  BY <1>1, RefsLemma
<1>3. Counted(n, F, NoPage)
  BY <1>1, <1>2 DEF Counted
<1>4. Listed(n, F, a, NoPage)
  <2>1. \A p \in Pages : Unheld(n, F, p) <=> Unheld(m, D, p) /\ p # k
    BY <1>2
  <2>2. QED  BY <1>1, <2>1 DEF Listed, FreeSet
<1>5. QED  BY <1>1, <1>3, <1>4 DEF Good, Distinct

\* A reference to p is taken away and then counted down, and with the last
\* one the page is freed.
LEMMA DropLemma ==
    ASSUME NEW m, NEW n \in Memory, NEW D, NEW F \in Dirs, NEW k, NEW p \in Pages,
           Good(m, D, NoPage, k), n.free = m.free, n.ref = m.ref, Private(n, F),
           k # NoPage => ~ Structure(n, F, k),
           \A q \in Pages : Refs(m, D, q) = Refs(n, F, q) + (IF q = p THEN 1 ELSE 0)
    PROVE  Good(PageDecref(n, p), F, NoPage, k) /\ PageDecref(n, p).mem = n.mem
<1> DEFINE c == (n.ref[p] - 1) % RefMod
           o == [n EXCEPT !.ref[p] = c]
           r == PageDecref(n, p)
<1>1. m \in Memory /\ D \in Dirs /\ Distinct(m) /\ Counted(m, D, k) /\ Listed(m, D, NoPage, k)
      /\ k \in Pages \cup {NoPage}
  BY DEF Good
<1>2. \A q \in Pages : /\ Refs(m, D, q) \in Nat /\ Refs(n, F, q) \in Nat
                       /\ Refs(m, D, q) = 0 <=> Unheld(m, D, q)
                       /\ Refs(n, F, q) = 0 <=> Unheld(n, F, q)
  BY <1>1, RefsLemma
<1>3. /\ c \in 0 .. RefMod - 1 /\ o \in Memory
      /\ o.free = n.free /\ o.mem = n.mem /\ o.ref = [n.ref EXCEPT ![p] = c]
      /\ r = IF c = 0 THEN PageFree(o, p) ELSE o
  BY DecrefType
<1>4. c = Refs(n, F, p) + (IF p = k THEN 1 ELSE 0)
  <2> DEFINE x == Refs(m, D, p) + (IF p = k THEN 1 ELSE 0)
  <2>1. x \in 1 .. RefMod /\ n.ref[p] = x % RefMod
    BY <1>1, <1>2 DEF Counted
  <2>2. ((x % RefMod) - 1) % RefMod = x - 1
    BY <2>1, CountingLemma
  <2>3. QED  BY <1>2, <2>1, <2>2
<1> HIDE DEF c, o, r
<1>5. \A q \in Pages : o.ref[q] = IF q = p THEN c ELSE m.ref[q]
  BY <1>1, <1>3 DEF Memory
<1>6. p \notin FreeSet(o) /\ Distinct(o) /\ FreeSet(o) = FreeSet(m)
  <2>1. ~ Unheld(m, D, p)
    BY <1>2
  <2>2. QED  BY <1>1, <1>3, <2>1 DEF Listed, FreeSet, Distinct
<1>7. /\ r \in Memory /\ r.mem = n.mem /\ r.ref = o.ref /\ Distinct(r)
      /\ FreeSet(r) = IF c = 0 THEN FreeSet(o) \cup {p} ELSE FreeSet(o)
  BY <1>3, <1>6, GiveLemma
<1>8. SameView(n, r, F)
  BY <1>7, OutsideLemma
<1>9. \A q \in Pages : /\ Refs(r, F, q) = Refs(n, F, q)
                       /\ Unheld(r, F, q) <=> Unheld(n, F, q)
                       /\ Structure(r, F, q) <=> Structure(n, F, q)
  BY <1>7, <1>8, SameViewLemma
<1>10. Counted(r, F, k)
  <2>1. ASSUME NEW q \in Pages
        PROVE  /\ Refs(n, F, q) < RefMod
               /\ r.ref[q] = (Refs(n, F, q) + (IF q = k THEN 1 ELSE 0)) % RefMod
    <3>1. CASE q = p
      <4>1. c % RefMod = c
        BY <1>3, CountingLemma
      <4>2. Refs(n, F, q) < RefMod
        BY <1>1, <1>2, <3>1 DEF Counted
      <4>3. r.ref[q] = c
        BY <1>5, <1>7, <3>1
      <4>4. QED  BY <1>4, <3>1, <4>1, <4>2, <4>3
    <3>2. CASE q # p
      BY <1>1, <1>2, <1>5, <1>7, <3>2 DEF Counted
    <3>3. QED  BY <3>1, <3>2
  <2>2. QED  BY <1>9, <2>1 DEF Counted
<1>11. Listed(r, F, NoPage, k)
  <2>1. c = 0 <=> Unheld(n, F, p) /\ p # k
    BY <1>2, <1>4
  <2>2. \A q \in Pages : q # p => (Unheld(n, F, q) <=> Unheld(m, D, q))
    BY <1>2
  <2>3. QED  BY <1>1, <1>6, <1>7, <1>9, <2>1, <2>2 DEF Listed
<1>12. Private(r, F)
  BY <1>7, <1>8, SameViewLemma
<1>13. k # NoPage => ~ Structure(r, F, k)
  BY <1>1, <1>9
<1>14. QED  BY <1>1, <1>7, <1>10, <1>11, <1>12, <1>13 DEF Good, r

-----------------------------------------------------------------------------
(* Entries of page tables and directories.                                  *)

SetTable(m, pd, i, x)   == [m EXCEPT !.mem[pd][i] = x]

SameTables(m, n, D)     == \A f \in Having(D), i \in Idx : Table(n, D, f, i) = Table(m, D, f, i)
Maps(m, n, D, e, va, y) == \A f \in Having(D), vb \in VA :
    At(n, D, f, vb) = IF f = e /\ vb = va THEN y ELSE At(m, D, f, vb)
SameMaps(m, n, D)       == \A f \in Having(D), vb \in VA : At(n, D, f, vb) = At(m, D, f, vb)
Mapped(m, D, p)         == \E f \in Having(D), vb \in VA : At(m, D, f, vb)[1] = p
KeepsData(m, n, D, a)   == \A p \in Pages : p = a \/ Mapped(m, D, p) => n.mem[p] = m.mem[p]

LEMMA SetEntryLemma ==
    ASSUME NEW m \in Memory, NEW D \in Dirs, Private(m, D), NEW e \in Having(D), NEW va \in VA,
           Table(m, D, e, va[1]) # NoPage, NEW y \in Entry
    PROVE  LET n == SetEntry(m, D[e], va, y)
           IN  /\ n \in Memory /\ n.free = m.free /\ n.ref = m.ref
               /\ SameTables(m, n, D) /\ Maps(m, n, D, e, va, y)
               /\ \A p \in Pages : ~ Structure(m, D, p) => n.mem[p] = m.mem[p]
<1> DEFINE t == Table(m, D, e, va[1])
           n == SetEntry(m, D[e], va, y)
           g == [m.mem EXCEPT ![t][va[2]] = y]
<1>1. t \in Pages /\ va[1] \in Idx /\ va[2] \in Idx /\ D[e] \in Pages
  BY TypeLemma, VALemma
<1>2. m.mem \in [Pages -> [Idx -> Entry]]
  BY DEF Memory
<1>3. g \in [Pages -> [Idx -> Entry]]
  BY <1>1, <1>2
<1>4. n = [m EXCEPT !.mem = g]
  BY DEF SetEntry, TableOf, Table
<1>5. /\ \A p \in Pages : p # t => g[p] = m.mem[p]
      /\ \A i \in Idx : g[t][i] = IF i = va[2] THEN y ELSE m.mem[t][i]
  BY <1>1, <1>2
<1> HIDE DEF n, g, t
<1>6. n \in Memory /\ n.free = m.free /\ n.ref = m.ref /\ n.mem = g
  BY <1>3, <1>4, PartsLemma
<1>7. \A f \in Having(D) : D[f] # t
  BY <1>1 DEF Private, t
<1>8. \A f \in Having(D), i \in Idx : t = Table(m, D, f, i) => f = e /\ i = va[1]
  BY <1>1 DEF Private, t
<1>9. SameTables(m, n, D)
  BY <1>5, <1>6, <1>7, TypeLemma DEF Table, SameTables
<1>10. Maps(m, n, D, e, va, y)
  <2> SUFFICES ASSUME NEW f \in Having(D), NEW vb \in VA
               PROVE  At(n, D, f, vb) = IF f = e /\ vb = va THEN y ELSE At(m, D, f, vb)
    BY DEF Maps
  <2> DEFINE u == Table(m, D, f, vb[1])
  <2>1. vb[1] \in Idx /\ vb[2] \in Idx /\ u \in Pages \cup {NoPage} /\ Table(n, D, f, vb[1]) = u
    BY <1>9, VALemma, TypeLemma DEF SameTables
  <2>2. /\ At(n, D, f, vb) = IF u = NoPage THEN None ELSE n.mem[u][vb[2]]
        /\ At(m, D, f, vb) = IF u = NoPage THEN None ELSE m.mem[u][vb[2]]
    BY <1>6, <2>1, TypeLemma
  <2>3. u = t <=> f = e /\ vb[1] = va[1]
    BY <1>8, <2>1 DEF t
  <2> HIDE DEF u
  <2>4. CASE u = t
    <3>1. t # NoPage
      BY <1>1
    <3>2. vb = va <=> vb[2] = va[2]
      BY <2>3, <2>4, VALemma
    <3>3. QED  BY <1>5, <1>6, <2>1, <2>2, <2>3, <2>4, <3>1, <3>2
  <2>5. CASE u # t
    BY <1>5, <1>6, <2>1, <2>2, <2>3, <2>5
  <2>6. QED  BY <2>4, <2>5
<1>11. Structure(m, D, t)
  BY <1>1 DEF Structure, t
<1>12. \A p \in Pages : ~ Structure(m, D, p) => n.mem[p] = m.mem[p]
  BY <1>5, <1>6, <1>11
<1>13. QED  BY <1>6, <1>9, <1>10, <1>12 DEF n

LEMMA SetTableLemma ==
    ASSUME NEW m \in Memory, NEW D \in Dirs, Private(m, D), NEW e \in Having(D), NEW i \in Idx,
           NEW x \in Entry, x[1] \in Pages => ~ \E f \in Having(D) : D[f] = x[1]
    PROVE  LET n == SetTable(m, D[e], i, x)
           IN  /\ n \in Memory /\ n.free = m.free /\ n.ref = m.ref
               /\ \A f \in Having(D), j \in Idx :
                    Table(n, D, f, j) = IF f = e /\ j = i THEN x[1] ELSE Table(m, D, f, j)
               /\ \A f \in Having(D), vb \in VA :
                    At(n, D, f, vb) = IF f = e /\ vb[1] = i
                                      THEN IF x[1] = NoPage THEN None ELSE m.mem[x[1]][vb[2]]
                                      ELSE At(m, D, f, vb)
               /\ \A p \in Pages : p # D[e] => n.mem[p] = m.mem[p]
<1> DEFINE n == SetTable(m, D[e], i, x)
           g == [m.mem EXCEPT ![D[e]][i] = x]
<1>1. D[e] \in Pages /\ m.mem \in [Pages -> [Idx -> Entry]]
  BY TypeLemma DEF Memory
<1>2. g \in [Pages -> [Idx -> Entry]]
  BY <1>1
<1>3. /\ \A p \in Pages : p # D[e] => g[p] = m.mem[p]
      /\ \A j \in Idx : g[D[e]][j] = IF j = i THEN x ELSE m.mem[D[e]][j]
  BY <1>1
<1>4. n = [m EXCEPT !.mem = g]
  BY DEF SetTable
<1> HIDE DEF n, g
<1>5. n \in Memory /\ n.free = m.free /\ n.ref = m.ref /\ n.mem = g
  BY <1>2, <1>4, PartsLemma
<1>6. \A f \in Having(D) : D[f] \in Pages /\ (D[f] = D[e] => f = e)
  BY TypeLemma DEF Private
<1>7. ASSUME NEW f \in Having(D), NEW j \in Idx
      PROVE  Table(n, D, f, j) = IF f = e /\ j = i THEN x[1] ELSE Table(m, D, f, j)
  BY <1>3, <1>5, <1>6 DEF Table
<1>8. ASSUME NEW f \in Having(D), NEW vb \in VA
      PROVE  At(n, D, f, vb) = IF f = e /\ vb[1] = i
                               THEN IF x[1] = NoPage THEN None ELSE m.mem[x[1]][vb[2]]
                               ELSE At(m, D, f, vb)
  <2> DEFINE u == Table(n, D, f, vb[1])
  <2>1. vb[1] \in Idx /\ vb[2] \in Idx /\ u \in Pages \cup {NoPage}
    BY <1>5, VALemma, TypeLemma
  <2>2. At(n, D, f, vb) = IF u = NoPage THEN None ELSE n.mem[u][vb[2]]
    BY <1>5, TypeLemma
  <2>3. u = IF f = e /\ vb[1] = i THEN x[1] ELSE Table(m, D, f, vb[1])
    BY <1>7, <2>1
  <2> HIDE DEF u
  <2>4. u \in Pages => u # D[e]
    BY <2>1, <2>3, <1>1 DEF Private
  <2>5. u \in Pages => n.mem[u][vb[2]] = m.mem[u][vb[2]]
    BY <1>3, <1>5, <2>4
  <2>6. At(m, D, f, vb) = IF Table(m, D, f, vb[1]) = NoPage THEN None
                          ELSE m.mem[Table(m, D, f, vb[1])][vb[2]]
    BY TypeLemma
  <2>7. QED  BY <2>1, <2>2, <2>3, <2>5, <2>6
<1>9. QED  BY <1>3, <1>5, <1>7, <1>8 DEF n

-----------------------------------------------------------------------------
(* The operations of pmap.c.                                                *)

\* pgdir_walk maps nothing, and it makes a table unless memory ran out.
LEMMA WalkLemma ==
    ASSUME NEW m, NEW D, NEW a, Good(m, D, a, NoPage), NEW e \in Having(D), NEW va \in VA
    PROVE  LET n == Walk(m, D[e], va)
           IN  /\ Good(n, D, a, NoPage) /\ SameMaps(m, n, D) /\ KeepsData(m, n, D, a)
               /\ WalkFails(m, D[e], va) <=> Table(n, D, e, va[1]) = NoPage
               /\ WalkFails(m, D[e], va) => n = m
<1> DEFINE h == NewPage(m)
           c == Incref(PageAlloc(m), h)
           n == Walk(m, D[e], va)
           i == va[1]
<1>1. m \in Memory /\ D \in Dirs /\ Private(m, D) /\ a \in Pages \cup {NoPage}
  BY DEF Good
<1>2. i \in Idx /\ TableOf(m, D[e], va) = Table(m, D, e, i) /\ TableOf(n, D[e], va) = Table(n, D, e, i)
  BY VALemma DEF TableOf, Table
<1>3. CASE Table(m, D, e, i) # NoPage \/ m.free = <<>>
  <2>1. n = m
    BY <1>2, <1>3 DEF Walk
  <2>2. QED  BY <1>2, <2>1 DEF WalkFails, SameMaps, KeepsData
<1>4. CASE Table(m, D, e, i) = NoPage /\ m.free # <<>>
  <2> DEFINE x == <<h, TRUE>>
  <2>1. n = SetTable(c, D[e], i, x)
    BY <1>2, <1>4 DEF Walk, SetTable
  <2>2. /\ h \in Pages \ {a} /\ h # NoPage /\ Unheld(m, D, h) /\ SameView(m, c, D) /\ Good(c, D, a, h)
        /\ PageAlloc(m).mem[h] = Cleared /\ \A p \in Pages \ {h} : PageAlloc(m).mem[p] = m.mem[p]
    BY <1>4, AllocLemma
  <2>3. c \in Memory /\ Private(c, D) /\ (a # NoPage => Unheld(c, D, a))
    BY <2>2 DEF Good
  <2>4. c.mem = PageAlloc(m).mem
    <3>1. PageAlloc(m) \in Memory
      BY <1>1, <1>4, TakeLemma DEF Good
    <3>2. QED  BY <2>2, <3>1, IncrefType
  <2> HIDE DEF c, h
  <2>5. x \in Entry /\ x[1] = h /\ x[1] # NoPage
    BY <2>2, EntryLemma
  <2>6. \A f \in Having(D) : D[f] # h /\ D[f] # a
    <3>1. \A f \in Having(D) : D[f] # NoPage
      BY <1>1, TypeLemma
    <3>2. QED  BY <2>2, <2>3, <3>1 DEF Unheld
  <2>7. D[e] \in Pages
    BY <1>1, TypeLemma
  <2> HIDE DEF x, n, i
  <2>8. /\ n \in Memory /\ n.free = c.free /\ n.ref = c.ref
        /\ \A f \in Having(D), j \in Idx :
                Table(n, D, f, j) = IF f = e /\ j = i THEN x[1] ELSE Table(c, D, f, j)
        /\ \A f \in Having(D), vb \in VA :
                At(n, D, f, vb) = IF f = e /\ vb[1] = i
                                  THEN IF x[1] = NoPage THEN None ELSE c.mem[x[1]][vb[2]]
                                  ELSE At(c, D, f, vb)
        /\ \A p \in Pages : p # D[e] => n.mem[p] = c.mem[p]
    <3>1. ~ \E f \in Having(D) : D[f] = x[1]
      BY <2>5, <2>6
    <3>2. QED  BY <1>1, <1>2, <2>1, <2>3, <2>5, <3>1, SetTableLemma
  <2>9. ASSUME NEW f \in Having(D), NEW vb \in VA  PROVE At(n, D, f, vb) = At(m, D, f, vb)
    <3>1. At(c, D, f, vb) = At(m, D, f, vb)
      BY <2>2 DEF SameView
    <3>2. CASE f = e /\ vb[1] = i
      <4>1. At(m, D, f, vb) = None
        BY <1>1, <1>4, <3>2, TypeLemma
      <4>2. c.mem[h][vb[2]] = None
        BY <2>2, <2>4, VALemma, EntryLemma
      <4>3. QED  BY <2>5, <2>8, <3>2, <4>1, <4>2
    <3>3. CASE ~ (f = e /\ vb[1] = i)
      BY <2>8, <3>1, <3>3
    <3>4. QED  BY <3>2, <3>3
  <2>10. NewTable(c, n, D, e, i, h)
    <3>1. Table(c, D, e, i) = NoPage
      BY <1>2, <1>4, <2>2 DEF SameView
    <3>2. \A f \in Having(D), vb \in VA : At(c, D, f, vb) = At(m, D, f, vb)
      BY <2>2 DEF SameView
    <3>3. QED  BY <1>2, <2>2, <2>5, <2>8, <2>9, <3>1, <3>2 DEF NewTable
  <2>11. Unheld(c, D, h)
    BY <1>1, <2>2, <2>3, SameViewLemma
  <2>12. Private(n, D) /\ \A p \in Pages : Refs(n, D, p) = Refs(c, D, p) + (IF p = h THEN 1 ELSE 0)
    BY <1>1, <2>3, <2>8, <2>10, <2>11, NewTableLemma
  <2>13. a # NoPage => a # h /\ Unheld(n, D, a)
    <3>1. ASSUME a # NoPage  PROVE Unheld(n, D, a)
      <4>1. a \in Pages /\ a # h /\ Unheld(c, D, a)
        BY <1>1, <2>2, <2>3, <3>1
      <4>2. Refs(n, D, a) = Refs(c, D, a) + 0
        BY <2>12, <4>1
      <4>3. QED  BY <1>1, <2>3, <2>8, <4>1, <4>2, RefsLemma
    <3>2. QED  BY <2>2, <3>1
  <2>14. Refs(n, D, h) < RefMod
    <3>1. Refs(c, D, h) = 0
      BY <1>1, <2>2, <2>3, <2>11, RefsLemma
    <3>2. Refs(n, D, h) = 1
      BY <2>2, <2>12, <3>1
    <3>3. QED  BY <3>2
  <2>15. Good(n, D, a, NoPage)
    BY <1>1, <2>2, <2>8, <2>12, <2>13, <2>14, GainLemma
  <2>16. KeepsData(m, n, D, a)
    <3>1. ASSUME NEW p \in Pages, p = a \/ Mapped(m, D, p)  PROVE n.mem[p] = m.mem[p]
      <4>1. p # h
        BY <2>2, <3>1 DEF Mapped, Unheld
      <4>2. CASE p = a
        BY <2>2, <2>4, <2>6, <2>7, <2>8, <4>1, <4>2
      <4>3. CASE Mapped(m, D, p)
        <5>1. p # D[e]
          BY <1>1, <2>7, <4>3 DEF Private, Mapped, Structure
        <5>2. QED  BY <2>2, <2>4, <2>8, <4>1, <5>1
      <4>4. QED  BY <3>1, <4>2, <4>3
    <3>2. QED  BY <3>1 DEF KeepsData
  <2>17. Table(n, D, e, i) # NoPage
    BY <1>2, <2>5, <2>8
  <2>18. ~ WalkFails(m, D[e], va)
    BY <1>2, <2>17 DEF WalkFails, n
  <2>19. QED  BY <2>9, <2>15, <2>16, <2>17, <2>18 DEF n, i, SameMaps
<1>5. QED  BY <1>3, <1>4

\* A mapping is taken out of a table that is there.
LEMMA UnmapLemma ==
    ASSUME NEW m, NEW D, NEW k, Good(m, D, NoPage, k), NEW e \in Having(D), NEW va \in VA,
           At(m, D, e, va) # None
    PROVE  LET n == PageDecref(SetEntry(m, D[e], va, None), At(m, D, e, va)[1])
           IN  /\ Good(n, D, NoPage, k) /\ SameTables(m, n, D) /\ Maps(m, n, D, e, va, None)
               /\ KeepsData(m, n, D, k)
<1> DEFINE y == At(m, D, e, va)
           s == SetEntry(m, D[e], va, None)
           n == PageDecref(s, y[1])
<1>1. m \in Memory /\ D \in Dirs /\ Private(m, D) /\ k \in Pages \cup {NoPage}
      /\ (k # NoPage => ~ Structure(m, D, k))
  BY DEF Good
<1>2. y \in Entry \ {None} /\ y[1] \in Pages /\ Table(m, D, e, va[1]) # NoPage
  BY <1>1, TypeLemma, EntryLemma
<1>3. /\ s \in Memory /\ s.free = m.free /\ s.ref = m.ref
      /\ SameTables(m, s, D) /\ Maps(m, s, D, e, va, None)
      /\ \A p \in Pages : ~ Structure(m, D, p) => s.mem[p] = m.mem[p]
  BY <1>1, <1>2, EntryLemma, SetEntryLemma
<1> HIDE DEF s
<1>4. NewEntry(s, m, D, e, va, y)
  BY <1>2, <1>3 DEF NewEntry, SameTables, Maps
<1>5. /\ \A p \in Pages : /\ Refs(m, D, p) = Refs(s, D, p) + (IF p = y[1] THEN 1 ELSE 0)
                          /\ Structure(m, D, p) <=> Structure(s, D, p)
      /\ Private(s, D)
  BY <1>1, <1>3, <1>4, NewEntryLemma
<1>6. Good(n, D, NoPage, k) /\ n.mem = s.mem
  BY <1>1, <1>2, <1>3, <1>5, DropLemma
<1>7. n \in Memory
  BY <1>6 DEF Good
<1>8. SameView(s, n, D)
  BY <1>1, <1>3, <1>6, <1>7, OutsideLemma
<1>9. SameTables(m, n, D) /\ Maps(m, n, D, e, va, None)
  BY <1>3, <1>8 DEF SameView, SameTables, Maps
<1>10. KeepsData(m, n, D, k)
  BY <1>1, <1>3, <1>6 DEF KeepsData, Mapped, Private
<1>11. QED  BY <1>6, <1>9, <1>10 DEF s

\* page_remove; the walk before it makes no table when one is there.
LEMMA RemoveLemma ==
    ASSUME NEW m, NEW D, NEW k, Good(m, D, NoPage, k), NEW e \in Having(D), NEW va \in VA,
           k = NoPage \/ Table(m, D, e, va[1]) # NoPage
    PROVE  LET n == PageRemove(m, D[e], va)
           IN  /\ Good(n, D, NoPage, k) /\ Maps(m, n, D, e, va, None) /\ KeepsData(m, n, D, k)
               /\ Table(m, D, e, va[1]) # NoPage => SameTables(m, n, D)
<1> DEFINE m1 == Walk(m, D[e], va)
           y == EntryOf(m1, D[e], va)
           n == PageRemove(m, D[e], va)
<1>1. /\ Good(m1, D, NoPage, k) /\ SameMaps(m, m1, D) /\ KeepsData(m, m1, D, k)
      /\ Table(m, D, e, va[1]) # NoPage => m1 = m
  <2>1. CASE Table(m, D, e, va[1]) # NoPage
    <3>1. m1 = m
      BY <2>1 DEF Walk, TableOf, Table
    <3>2. QED  BY <3>1 DEF SameMaps, KeepsData
  <2>2. CASE Table(m, D, e, va[1]) = NoPage
    BY <2>2, WalkLemma
  <2>3. QED  BY <2>1, <2>2
<1>2. n = IF y = None THEN m1 ELSE PageDecref(SetEntry(m1, D[e], va, None), y[1])
  BY DEF PageRemove
<1>3. y = At(m1, D, e, va)
  BY DEF At
<1> HIDE DEF m1, y, n
<1>4. CASE y = None
  <2>1. n = m1
    BY <1>2, <1>4
  <2>2. Maps(m, n, D, e, va, None)
    BY <1>1, <1>3, <1>4, <2>1 DEF Maps, SameMaps
  <2>3. QED  BY <1>1, <2>1, <2>2 DEF n, SameTables
<1>5. CASE y # None
  <2>1. /\ Good(n, D, NoPage, k) /\ SameTables(m1, n, D) /\ Maps(m1, n, D, e, va, None)
        /\ KeepsData(m1, n, D, k)
    BY <1>1, <1>2, <1>3, <1>5, UnmapLemma
  <2>2. Maps(m, n, D, e, va, None)
    BY <1>1, <2>1 DEF Maps, SameMaps
  <2>3. KeepsData(m, n, D, k)
    BY <1>1, <2>1 DEF KeepsData, Mapped, SameMaps
  <2>4. QED  BY <1>1, <2>1, <2>2, <2>3 DEF n
<1>6. QED  BY <1>4, <1>5

\* page_insert of a page the caller has just allocated, or of one that is
\* mapped already; pp_ref must have room for the result.
LEMMA InsertLemma ==
    ASSUME NEW m, NEW D, NEW a, Good(m, D, a, NoPage), NEW e \in Having(D), NEW va \in VA,
           NEW p \in Pages, p = a \/ (a = NoPage /\ Mapped(m, D, p)), NEW w \in BOOLEAN,
           ~ WalkFails(m, D[e], va)
    PROVE  LET n == PageInsert(m, D[e], p, va, w)
           IN  /\ Refs(n, D, p) < RefMod => Good(n, D, NoPage, NoPage)
               /\ Maps(m, n, D, e, va, <<p, w>>) /\ KeepsData(m, n, D, a)
               /\ n \in Memory
<1> DEFINE m0 == Walk(m, D[e], va)
           m1 == Incref(m0, p)
           m2 == IF EntryOf(m1, D[e], va) = None THEN m1 ELSE PageRemove(m1, D[e], va)
           x == <<p, w>>
           n == PageInsert(m, D[e], p, va, w)
<1>1. n = SetEntry(m2, D[e], va, x)
  BY DEF PageInsert
<1>2. Good(m0, D, a, NoPage) /\ SameMaps(m, m0, D) /\ KeepsData(m, m0, D, a)
      /\ Table(m0, D, e, va[1]) # NoPage
  BY WalkLemma
<1> HIDE DEF m0
<1>3. D \in Dirs /\ p # NoPage /\ m0 \in Memory /\ va[1] \in Idx
  BY <1>2, VALemma DEF Good
<1>4. a = NoPage => Mapped(m0, D, p)
  BY <1>2, <1>3 DEF SameMaps, Mapped
<1>5. a = NoPage => ~ Unheld(m0, D, p) /\ ~ Structure(m0, D, p)
  BY <1>2, <1>3, <1>4 DEF Mapped, Good, Private, Unheld
<1>6. Good(m1, D, NoPage, p) /\ SameView(m0, m1, D) /\ m1.mem = m0.mem
  <2>1. Good(m1, D, NoPage, p) /\ SameView(m0, m1, D)
    BY <1>2, <1>5, IncrefLemma
  <2>2. QED  BY <1>3, <2>1, IncrefType
<1> HIDE DEF m1
<1>7. Table(m1, D, e, va[1]) # NoPage /\ EntryOf(m1, D[e], va) = At(m1, D, e, va)
  BY <1>2, <1>3, <1>6 DEF SameView, At
<1>8. /\ Good(m2, D, NoPage, p) /\ Maps(m1, m2, D, e, va, None) /\ KeepsData(m1, m2, D, p)
      /\ SameTables(m1, m2, D)
  <2>1. CASE EntryOf(m1, D[e], va) = None
    BY <1>6, <1>7, <2>1 DEF Maps, KeepsData, SameTables
  <2>2. CASE EntryOf(m1, D[e], va) # None
    BY <1>6, <1>7, <2>2, RemoveLemma
  <2>3. QED  BY <2>1, <2>2
<1> HIDE DEF m2
<1>9. m1 \in Memory /\ m2 \in Memory /\ Private(m1, D) /\ Private(m2, D) /\ ~ Structure(m2, D, p)
  BY <1>3, <1>6, <1>8 DEF Good
<1>10. x \in Entry \ {None} /\ x[1] = p
  BY EntryLemma
<1> HIDE DEF x
<1>11. Table(m2, D, e, va[1]) # NoPage
  BY <1>3, <1>7, <1>8 DEF SameTables
<1>12. /\ n \in Memory /\ n.free = m2.free /\ n.ref = m2.ref
       /\ SameTables(m2, n, D) /\ Maps(m2, n, D, e, va, x)
       /\ \A q \in Pages : ~ Structure(m2, D, q) => n.mem[q] = m2.mem[q]
  BY <1>1, <1>3, <1>9, <1>10, <1>11, SetEntryLemma
<1> HIDE DEF n
<1>13. NewEntry(m2, n, D, e, va, x)
  BY <1>8, <1>10, <1>12 DEF NewEntry, Maps, SameTables
<1>14. /\ \A q \in Pages : Refs(n, D, q) = Refs(m2, D, q) + (IF q = p THEN 1 ELSE 0)
       /\ Private(n, D)
  BY <1>3, <1>9, <1>10, <1>12, <1>13, NewEntryLemma
<1>15. Refs(n, D, p) < RefMod => Good(n, D, NoPage, NoPage)
  BY <1>3, <1>8, <1>12, <1>14, GainLemma
<1>16. Maps(m, n, D, e, va, x)
  BY <1>2, <1>6, <1>8, <1>12 DEF Maps, SameMaps, SameView
<1>17. KeepsData(m, n, D, a)
  <2> SUFFICES ASSUME NEW q \in Pages, q = a \/ Mapped(m, D, q)  PROVE n.mem[q] = m.mem[q]
    BY DEF KeepsData
  <2>1. m1.mem[q] = m.mem[q]
    BY <1>2, <1>6 DEF KeepsData
  <2>2. q = p \/ Mapped(m1, D, q)
    <3>1. CASE q = a
      BY <3>1
    <3>2. CASE Mapped(m, D, q)
      BY <1>2, <1>6, <3>2 DEF Mapped, SameMaps, SameView
    <3>3. QED  BY <3>1, <3>2
  <2>3. m2.mem[q] = m1.mem[q]
    BY <1>8, <2>2 DEF KeepsData
  <2>4. ~ Structure(m2, D, q)
    <3>1. Mapped(m1, D, q) => ~ Structure(m1, D, q)
      BY <1>9 DEF Mapped, Private
    <3>2. Structure(m2, D, q) => Structure(m1, D, q)
      BY <1>8 DEF Structure, SameTables
    <3>3. QED  BY <1>9, <2>2, <3>1, <3>2
  <2>5. QED  BY <1>12, <2>1, <2>3, <2>4
<1>18. QED  BY <1>12, <1>15, <1>16, <1>17 DEF n, x

-----------------------------------------------------------------------------
(* env_free: its two loops, by induction over the entries.                  *)

KeepsMapped(m, n, D)         == \A p \in Pages : Mapped(n, D, p) => n.mem[p] = m.mem[p]
\* The entries of table d of e are gone up to the j-th; the tables of e are.
Emptied(m, n, D, e, d, j)    == \A f \in Having(D), vb \in VA :
    At(n, D, f, vb) = IF f = e /\ vb[1] = d /\ vb[2] < j THEN None ELSE At(m, D, f, vb)
Freed(m, n, D, e, j)         == \A f \in Having(D) :
    /\ \A i \in Idx : Table(n, D, f, i) = IF f = e /\ i < j THEN NoPage ELSE Table(m, D, f, i)
    /\ \A vb \in VA : At(n, D, f, vb) = IF f = e /\ vb[1] < j THEN None ELSE At(m, D, f, vb)

LEMMA UnmapPresentLemma ==
    ASSUME NEW m, NEW D, Sound(m, D), NEW e \in Having(D), NEW va \in VA,
           Table(m, D, e, va[1]) # NoPage
    PROVE  LET n == UnmapPresent(m, D[e], va)
           IN  /\ Sound(n, D) /\ SameTables(m, n, D) /\ Maps(m, n, D, e, va, None)
               /\ KeepsMapped(m, n, D)
<1> DEFINE n == UnmapPresent(m, D[e], va)
<1>1. EntryOf(m, D[e], va) = At(m, D, e, va)
  BY DEF At
<1>2. CASE At(m, D, e, va) = None
  BY <1>1, <1>2 DEF UnmapPresent, SameTables, Maps, KeepsMapped
<1>3. CASE At(m, D, e, va) # None
  <2>1. n = PageRemove(m, D[e], va)
    BY <1>1, <1>3 DEF UnmapPresent
  <2> HIDE DEF n
  <2>2. /\ Good(n, D, NoPage, NoPage) /\ Maps(m, n, D, e, va, None) /\ KeepsData(m, n, D, NoPage)
        /\ SameTables(m, n, D)
    BY <2>1, RemoveLemma DEF Sound
  <2>3. ASSUME NEW p \in Pages, Mapped(n, D, p)  PROVE Mapped(m, D, p)
    <3>1. PICK f \in Having(D), vb \in VA : At(n, D, f, vb)[1] = p
      BY <2>3 DEF Mapped
    <3>2. At(m, D, f, vb)[1] = p
      BY <2>2, <3>1, EntryLemma DEF Maps
    <3>3. QED  BY <3>2 DEF Mapped
  <2>4. QED  BY <2>2, <2>3 DEF n, KeepsData, KeepsMapped, Sound
<1>4. QED  BY <1>2, <1>3

LEMMA EmptyTableLemma ==
    ASSUME NEW m, NEW D, Sound(m, D), NEW e \in Having(D), NEW d \in Idx,
           Table(m, D, e, d) # NoPage
    PROVE  LET n == EmptyTable(m, D[e], d)
           IN  /\ Sound(n, D) /\ SameTables(m, n, D) /\ Emptied(m, n, D, e, d, NPT)
               /\ KeepsMapped(m, n, D)
<1> DEFINE after[n \in 0 .. NPT] ==
               IF n = 0 THEN m ELSE UnmapPresent(after[n - 1], D[e], <<d, n - 1>>)
           M == {x \in Memory : Sound(x, D) /\ SameTables(m, x, D)}
           F == [i \in 0 .. NPT - 1 |-> [x \in M |-> UnmapPresent(x, D[e], <<d, i>>)]]
           J == {n \in 0 .. NPT : /\ after[n] \in M /\ Emptied(m, after[n], D, e, d, n)
                                  /\ KeepsMapped(m, after[n], D)}
<1>1. EmptyTable(m, D[e], d) = after[NPT]
  BY Zenon DEF EmptyTable
<1>2. m \in M /\ NPT \in Nat
  BY DEF Sound, Good, SameTables
<1>3. ASSUME NEW x \in M, NEW i \in 0 .. NPT - 1
      PROVE  LET y == UnmapPresent(x, D[e], <<d, i>>)
             IN  y \in M /\ Maps(x, y, D, e, <<d, i>>, None) /\ KeepsMapped(x, y, D)
  <2> DEFINE y == UnmapPresent(x, D[e], <<d, i>>)
  <2>1. <<d, i>> \in VA /\ <<d, i>>[1] = d /\ Table(x, D, e, d) # NoPage
    BY VALemma DEF Idx, SameTables
  <2>2. Sound(y, D) /\ SameTables(x, y, D) /\ Maps(x, y, D, e, <<d, i>>, None) /\ KeepsMapped(x, y, D)
    BY <2>1, UnmapPresentLemma
  <2>3. y \in M
    BY <2>2 DEF Sound, Good, SameTables
  <2>4. QED  BY <2>2, <2>3
<1>4. after = [n \in 0 .. NPT |->
                  IF n = 0 THEN m ELSE UnmapPresent(after[n - 1], D[e], <<d, n - 1>>)]
  <2> DEFINE G(g) == [n \in 0 .. NPT |->
                         IF n = 0 THEN m ELSE UnmapPresent(g[n - 1], D[e], <<d, n - 1>>)]
  <2> HIDE DEF M
  <2>1. \A i \in 0 .. NPT - 1 : \A x \in M : F[i][x] = UnmapPresent(x, D[e], <<d, i>>)
    OBVIOUS
  <2> HIDE DEF F
  <2>2. PICK g \in [0 .. NPT -> M] : g[0] = m /\ \A n \in 0 .. NPT - 1 : g[n + 1] = F[n][g[n]]
    <3>1. \A i \in 0 .. NPT - 1 : \A x \in M : F[i][x] \in M
      BY <1>3, <2>1
    <3>2. Stepwise(NPT, M, m, F)
      BY <1>2, <3>1, StepwiseFunction
    <3>3. QED  BY <3>2 DEF Stepwise
  <2>3. ASSUME NEW n \in 0 .. NPT - 1  PROVE g[n + 1] = UnmapPresent(g[n], D[e], <<d, n>>)
    <3>1. g[n] \in M
      BY <1>2, <2>2
    <3>2. QED  BY <2>1, <2>2, <3>1
  <2>4. \A n \in 0 .. NPT : g[n] = IF n = 0 THEN m ELSE UnmapPresent(g[n - 1], D[e], <<d, n - 1>>)
    <3>1. ASSUME NEW n \in 0 .. NPT, n # 0  PROVE n - 1 \in 0 .. NPT - 1 /\ (n - 1) + 1 = n
      BY <3>1
    <3>2. \A n \in 0 .. NPT : n # 0 => g[(n - 1) + 1] = UnmapPresent(g[n - 1], D[e], <<d, n - 1>>)
      BY <2>3, <3>1
    <3>3. QED  BY <2>2, <3>1, <3>2
  <2>5. g = G(g)
    BY <2>2, <2>4
  <2>6. QED  BY <2>5
<1> HIDE DEF after
<1>5. after[0] = m /\ \A n \in 0 .. NPT - 1 : after[n + 1] = UnmapPresent(after[n], D[e], <<d, n>>)
  <2>1. 0 \in 0 .. NPT /\ \A n \in 0 .. NPT - 1 : n + 1 \in 0 .. NPT /\ n + 1 # 0 /\ (n + 1) - 1 = n
    BY <1>2
  <2>2. QED  BY <1>4, <2>1
<1>6. 0 \in J
  <2>1. ~ \E vb \in VA : vb[2] < 0
    BY VALemma DEF Idx
  <2>2. QED  BY <1>2, <1>5, <2>1 DEF Emptied, KeepsMapped
<1>7. ASSUME NEW n \in 0 .. NPT - 1, n \in J  PROVE n + 1 \in J
  <2> DEFINE x == after[n]
             y == after[n + 1]
  <2>1. x \in M /\ Emptied(m, x, D, e, d, n) /\ KeepsMapped(m, x, D)
    BY <1>7
  <2>2. y = UnmapPresent(x, D[e], <<d, n>>)
    BY <1>5
  <2> HIDE DEF M, x, y
  <2>3. y \in M /\ Maps(x, y, D, e, <<d, n>>, None) /\ KeepsMapped(x, y, D)
    BY <1>3, <2>1, <2>2
  <2>4. Emptied(m, y, D, e, d, n + 1)
    <3> SUFFICES ASSUME NEW f \in Having(D), NEW vb \in VA
                 PROVE  At(y, D, f, vb) = IF f = e /\ vb[1] = d /\ vb[2] < n + 1 THEN None
                                          ELSE At(m, D, f, vb)
      BY DEF Emptied
    <3>1. At(y, D, f, vb) = IF f = e /\ vb = <<d, n>> THEN None ELSE At(x, D, f, vb)
      BY <2>3 DEF Maps
    <3>2. At(x, D, f, vb) = IF f = e /\ vb[1] = d /\ vb[2] < n THEN None ELSE At(m, D, f, vb)
      BY <2>1 DEF Emptied
    <3>3. vb = <<d, n>> <=> vb[1] = d /\ vb[2] = n
      BY VALemma
    <3>4. vb[2] < n + 1 <=> vb[2] < n \/ vb[2] = n
      BY VALemma DEF Idx
    <3>5. QED  BY <3>1, <3>2, <3>3, <3>4
  <2>5. KeepsMapped(m, y, D)
    <3>1. ASSUME NEW p \in Pages, Mapped(y, D, p)  PROVE Mapped(x, D, p)
      <4>1. PICK f \in Having(D), vb \in VA : At(y, D, f, vb)[1] = p
        BY <3>1 DEF Mapped
      <4>2. At(x, D, f, vb)[1] = p
        BY <2>3, <4>1, EntryLemma DEF Maps
      <4>3. QED  BY <4>2 DEF Mapped
    <3>2. QED  BY <2>1, <2>3, <3>1 DEF KeepsMapped
  <2>6. n + 1 \in 0 .. NPT
    BY <1>2
  <2>7. QED  BY <2>3, <2>4, <2>5, <2>6 DEF M, y
<1>8. NPT \in J
  <2> HIDE DEF J
  <2>1. 0 .. NPT \subseteq J
    BY <1>2, <1>6, <1>7, InductiveTo
  <2>2. QED  BY <1>2, <2>1
<1>9. QED  BY <1>1, <1>8

\* A page table is counted down when all its entries are gone.
LEMMA FreeTableLemma ==
    ASSUME NEW m, NEW D, Sound(m, D), NEW e \in Having(D), NEW d \in Idx
    PROVE  LET n == FreeTable(m, D[e], d)
           IN  /\ Sound(n, D) /\ KeepsMapped(m, n, D)
               /\ \A f \in Having(D) :
                    /\ \A i \in Idx : Table(n, D, f, i) = IF f = e /\ i = d THEN NoPage
                                                          ELSE Table(m, D, f, i)
                    /\ \A vb \in VA : At(n, D, f, vb) = IF f = e /\ vb[1] = d THEN None
                                                        ELSE At(m, D, f, vb)
<1> DEFINE t == Table(m, D, e, d)
           q == EmptyTable(m, D[e], d)
           s == SetTable(q, D[e], d, None)
           n == FreeTable(m, D[e], d)
<1>1. m \in Memory /\ D \in Dirs /\ D[e] \in Pages
  BY TypeLemma DEF Sound, Good
<1>2. m.mem[D[e]][d] \in Entry /\ t = m.mem[D[e]][d][1] /\ (t = NoPage <=> m.mem[D[e]][d] = None)
  BY <1>1, TypeLemma, EntryLemma DEF Table
<1>3. CASE t = NoPage
  <2>1. n = m
    BY <1>2, <1>3 DEF FreeTable
  <2>2. \A vb \in VA : vb[1] = d => At(m, D, e, vb) = None
    BY <1>1, <1>3, TypeLemma
  <2>3. QED  BY <1>3, <2>1, <2>2 DEF KeepsMapped
<1>4. CASE t # NoPage
  <2>1. n = PageDecref(s, t)
    BY <1>2, <1>4 DEF FreeTable, SetTable
  <2>2. /\ Sound(q, D) /\ SameTables(m, q, D) /\ Emptied(m, q, D, e, d, NPT)
        /\ KeepsMapped(m, q, D)
    BY <1>4, EmptyTableLemma
  <2>3. t \in Pages
    BY <1>1, <1>4, TypeLemma
  <2> HIDE DEF q, n, t
  <2>4. q \in Memory /\ Private(q, D) /\ Good(q, D, NoPage, NoPage)
    BY <2>2 DEF Sound, Good
  <2>5. None \in Entry /\ None[1] = NoPage /\ NoPage \notin Pages
    BY EntryLemma
  <2>6. /\ s \in Memory /\ s.free = q.free /\ s.ref = q.ref
        /\ \A f \in Having(D), j \in Idx :
                Table(s, D, f, j) = IF f = e /\ j = d THEN NoPage ELSE Table(q, D, f, j)
        /\ \A f \in Having(D), vb \in VA :
                At(s, D, f, vb) = IF f = e /\ vb[1] = d THEN None ELSE At(q, D, f, vb)
        /\ \A p \in Pages : p # D[e] => s.mem[p] = q.mem[p]
    BY <1>1, <2>4, <2>5, SetTableLemma
  <2> HIDE DEF s
  <2>7. ASSUME NEW f \in Having(D), NEW vb \in VA
        PROVE  At(q, D, f, vb) = IF f = e /\ vb[1] = d THEN None ELSE At(m, D, f, vb)
    <3>1. vb[2] < NPT
      BY VALemma DEF Idx
    <3>2. QED  BY <2>2, <3>1 DEF Emptied
  <2>8. Table(q, D, e, d) = t
    BY <2>2 DEF SameTables, t
  <2>9. NewTable(s, q, D, e, d, t)
    BY <2>3, <2>6, <2>7, <2>8 DEF NewTable
  <2>10. /\ Private(s, D)
         /\ \A p \in Pages : Refs(q, D, p) = Refs(s, D, p) + (IF p = t THEN 1 ELSE 0)
    BY <1>1, <2>4, <2>6, <2>9, NewTableLemma
  <2>11. Good(n, D, NoPage, NoPage) /\ n.mem = s.mem
    BY <1>1, <2>1, <2>3, <2>4, <2>6, <2>10, DropLemma
  <2>12. n \in Memory /\ SameView(s, n, D)
    BY <1>1, <2>6, <2>11, OutsideLemma DEF Good
  <2>13. ASSUME NEW f \in Having(D)
         PROVE  /\ \A i \in Idx : Table(n, D, f, i) = IF f = e /\ i = d THEN NoPage
                                                      ELSE Table(m, D, f, i)
                /\ \A vb \in VA : At(n, D, f, vb) = IF f = e /\ vb[1] = d THEN None
                                                    ELSE At(m, D, f, vb)
    BY <2>2, <2>6, <2>7, <2>12 DEF SameView, SameTables
  <2>14. KeepsMapped(m, n, D)
    <3>1. ASSUME NEW p \in Pages, Mapped(n, D, p)  PROVE n.mem[p] = m.mem[p]
      <4>1. PICK f \in Having(D), vb \in VA : At(n, D, f, vb)[1] = p
        BY <3>1 DEF Mapped
      <4>2. At(q, D, f, vb)[1] = p
        BY <2>5, <2>7, <2>13, <4>1
      <4>3. p # D[e]
        BY <2>4, <2>5, <4>2 DEF Private, Structure
      <4>4. Mapped(q, D, p)
        BY <4>2 DEF Mapped
      <4>5. QED  BY <2>2, <2>6, <2>11, <4>3, <4>4 DEF KeepsMapped
    <3>2. QED  BY <3>1 DEF KeepsMapped
  <2>15. QED  BY <2>11, <2>13, <2>14 DEF Sound, n
<1>5. QED  BY <1>3, <1>4

LEMMA FreeTablesLemma ==
    ASSUME NEW m, NEW D, Sound(m, D), NEW e \in Having(D)
    PROVE  LET n == FreeTables(m, D[e])
           IN  Sound(n, D) /\ Freed(m, n, D, e, NPT) /\ KeepsMapped(m, n, D)
<1> DEFINE after[n \in 0 .. NPT] == IF n = 0 THEN m ELSE FreeTable(after[n - 1], D[e], n - 1)
           M == {x \in Memory : Sound(x, D)}
           F == [i \in 0 .. NPT - 1 |-> [x \in M |-> FreeTable(x, D[e], i)]]
           J == {n \in 0 .. NPT : /\ after[n] \in M /\ Freed(m, after[n], D, e, n)
                                  /\ KeepsMapped(m, after[n], D)}
<1>1. FreeTables(m, D[e]) = after[NPT]
  BY Zenon DEF FreeTables
<1>2. m \in M /\ NPT \in Nat
  BY DEF Sound, Good
<1>3. ASSUME NEW x \in M, NEW i \in 0 .. NPT - 1
      PROVE  LET y == FreeTable(x, D[e], i)
             IN  /\ y \in M /\ KeepsMapped(x, y, D)
                 /\ \A f \in Having(D) :
                      /\ \A j \in Idx : Table(y, D, f, j) = IF f = e /\ j = i THEN NoPage
                                                            ELSE Table(x, D, f, j)
                      /\ \A vb \in VA : At(y, D, f, vb) = IF f = e /\ vb[1] = i THEN None
                                                          ELSE At(x, D, f, vb)
  <2> DEFINE y == FreeTable(x, D[e], i)
  <2>1. i \in Idx
    BY DEF Idx
  <2>2. /\ Sound(y, D) /\ KeepsMapped(x, y, D)
        /\ \A f \in Having(D) :
             /\ \A j \in Idx : Table(y, D, f, j) = IF f = e /\ j = i THEN NoPage
                                                   ELSE Table(x, D, f, j)
             /\ \A vb \in VA : At(y, D, f, vb) = IF f = e /\ vb[1] = i THEN None
                                                 ELSE At(x, D, f, vb)
    BY <2>1, FreeTableLemma
  <2>3. y \in M
    BY <2>2 DEF Sound, Good
  <2>4. QED  BY <2>2, <2>3
<1>4. after = [n \in 0 .. NPT |-> IF n = 0 THEN m ELSE FreeTable(after[n - 1], D[e], n - 1)]
  <2> DEFINE G(g) == [n \in 0 .. NPT |-> IF n = 0 THEN m ELSE FreeTable(g[n - 1], D[e], n - 1)]
  <2> HIDE DEF M
  <2>1. \A i \in 0 .. NPT - 1 : \A x \in M : F[i][x] = FreeTable(x, D[e], i)
    OBVIOUS
  <2> HIDE DEF F
  <2>2. PICK g \in [0 .. NPT -> M] : g[0] = m /\ \A n \in 0 .. NPT - 1 : g[n + 1] = F[n][g[n]]
    <3>1. \A i \in 0 .. NPT - 1 : \A x \in M : F[i][x] \in M
      BY <1>3, <2>1
    <3>2. Stepwise(NPT, M, m, F)
      BY <1>2, <3>1, StepwiseFunction
    <3>3. QED  BY <3>2 DEF Stepwise
  <2>3. ASSUME NEW n \in 0 .. NPT - 1  PROVE g[n + 1] = FreeTable(g[n], D[e], n)
    <3>1. g[n] \in M
      BY <1>2, <2>2
    <3>2. QED  BY <2>1, <2>2, <3>1
  <2>4. \A n \in 0 .. NPT : g[n] = IF n = 0 THEN m ELSE FreeTable(g[n - 1], D[e], n - 1)
    <3>1. ASSUME NEW n \in 0 .. NPT, n # 0  PROVE n - 1 \in 0 .. NPT - 1 /\ (n - 1) + 1 = n
      BY <3>1
    <3>2. \A n \in 0 .. NPT : n # 0 => g[(n - 1) + 1] = FreeTable(g[n - 1], D[e], n - 1)
      BY <2>3, <3>1
    <3>3. QED  BY <2>2, <3>1, <3>2
  <2>5. g = G(g)
    BY <2>2, <2>4
  <2>6. QED  BY <2>5
<1> HIDE DEF after
<1>5. after[0] = m /\ \A n \in 0 .. NPT - 1 : after[n + 1] = FreeTable(after[n], D[e], n)
  <2>1. 0 \in 0 .. NPT /\ \A n \in 0 .. NPT - 1 : n + 1 \in 0 .. NPT /\ n + 1 # 0 /\ (n + 1) - 1 = n
    BY <1>2
  <2>2. QED  BY <1>4, <2>1
<1>6. 0 \in J
  <2>1. (\A i \in Idx : ~ (i < 0)) /\ \A vb \in VA : ~ (vb[1] < 0)
    BY VALemma DEF Idx
  <2>2. QED  BY <1>2, <1>5, <2>1 DEF Freed, KeepsMapped
<1>7. ASSUME NEW n \in 0 .. NPT - 1, n \in J  PROVE n + 1 \in J
  <2> DEFINE x == after[n]
             y == after[n + 1]
  <2>1. x \in M /\ Freed(m, x, D, e, n) /\ KeepsMapped(m, x, D)
    BY <1>7
  <2>2. y = FreeTable(x, D[e], n)
    BY <1>5
  <2> HIDE DEF M, x, y
  <2>3. /\ y \in M /\ KeepsMapped(x, y, D)
        /\ \A f \in Having(D) :
             /\ \A j \in Idx : Table(y, D, f, j) = IF f = e /\ j = n THEN NoPage
                                                   ELSE Table(x, D, f, j)
             /\ \A vb \in VA : At(y, D, f, vb) = IF f = e /\ vb[1] = n THEN None
                                                 ELSE At(x, D, f, vb)
    BY <1>3, <2>1, <2>2
  <2>4. /\ \A i \in Idx : i < n + 1 <=> i < n \/ i = n
        /\ \A vb \in VA : vb[1] < n + 1 <=> vb[1] < n \/ vb[1] = n
    BY VALemma DEF Idx
  <2>5. Freed(m, y, D, e, n + 1)
    BY <2>1, <2>3, <2>4 DEF Freed
  <2>6. KeepsMapped(m, y, D)
    <3>1. ASSUME NEW p \in Pages, Mapped(y, D, p)  PROVE Mapped(x, D, p)
      <4>1. PICK f \in Having(D), vb \in VA : At(y, D, f, vb)[1] = p
        BY <3>1 DEF Mapped
      <4>2. At(x, D, f, vb)[1] = p
        BY <2>3, <4>1, EntryLemma
      <4>3. QED  BY <4>2 DEF Mapped
    <3>2. QED  BY <2>1, <2>3, <3>1 DEF KeepsMapped
  <2>7. n + 1 \in 0 .. NPT
    BY <1>2
  <2>8. QED  BY <2>3, <2>5, <2>6, <2>7 DEF M, y
<1>8. NPT \in J
  <2> HIDE DEF J
  <2>1. 0 .. NPT \subseteq J
    BY <1>2, <1>6, <1>7, InductiveTo
  <2>2. QED  BY <1>2, <2>1
<1>9. QED  BY <1>1, <1>8

\* The directory goes last.
LEMMA EnvFreeLemma ==
    ASSUME NEW m, NEW D, Sound(m, D), NEW e \in Having(D)
    PROVE  LET n == PageDecref(FreeTables(m, D[e]), D[e])
               E == [D EXCEPT ![e] = NoPage]
           IN  /\ Sound(n, E) /\ Having(E) = Having(D) \ {e} /\ KeepsMapped(m, n, E)
               /\ \A f \in Having(E) : \A vb \in VA : At(n, E, f, vb) = At(m, D, f, vb)
<1> DEFINE q == FreeTables(m, D[e])
           n == PageDecref(q, D[e])
           E == [D EXCEPT ![e] = NoPage]
<1>1. D \in Dirs /\ e \in Envs /\ D[e] \in Pages
  BY TypeLemma DEF Sound, Good
<1>2. Sound(q, D) /\ Freed(m, q, D, e, NPT) /\ KeepsMapped(m, q, D)
  BY FreeTablesLemma
<1> HIDE DEF q
<1>3. q \in Memory /\ Private(q, D) /\ Good(q, D, NoPage, NoPage)
  BY <1>2 DEF Sound, Good
<1>4. /\ \A i \in Idx : q.mem[D[e]][i][1] = NoPage
      /\ \A f \in Envs, vb \in VA : f \in Having(D) /\ f # e => At(q, D, f, vb) = At(m, D, f, vb)
  <2>1. \A i \in Idx : i < NPT
    BY DEF Idx
  <2>2. QED  BY <1>2, <2>1 DEF Freed, Table
<1>5. E \in Dirs /\ E[e] = NoPage /\ D = [E EXCEPT ![e] = D[e]]
  BY <1>1 DEF Dirs
<1> HIDE DEF E
<1>6. NewDir(q, E, D, e, D[e])
  BY <1>1, <1>4, <1>5 DEF NewDir
<1>7. /\ Having(D) = Having(E) \cup {e} /\ e \notin Having(E)
      /\ \A f \in Having(E) : \A va \in VA : At(q, D, f, va) = At(q, E, f, va)
      /\ \A p \in Pages : Refs(q, D, p) = Refs(q, E, p) + (IF p = D[e] THEN 1 ELSE 0)
      /\ Private(q, E)
  BY <1>1, <1>3, <1>5, <1>6, NewDirLemma
<1>8. Good(n, E, NoPage, NoPage) /\ n.mem = q.mem
  BY <1>1, <1>3, <1>5, <1>7, DropLemma
<1>9. n \in Memory /\ SameView(q, n, E)
  BY <1>3, <1>5, <1>8, OutsideLemma DEF Good
<1>10. \A f \in Having(E) : \A vb \in VA : /\ At(n, E, f, vb) = At(m, D, f, vb)
                                           /\ At(n, E, f, vb) = At(q, D, f, vb)
  BY <1>4, <1>7, <1>9 DEF SameView, Having
<1>11. KeepsMapped(m, n, E)
  BY <1>2, <1>7, <1>8, <1>10 DEF KeepsMapped, Mapped
<1>12. Sound(n, E) /\ Having(E) = Having(D) \ {e}
  BY <1>7, <1>8 DEF Sound
<1>13. QED  BY <1>10, <1>11, <1>12 DEF E, q

-----------------------------------------------------------------------------
(* The system calls.  Each lemma says what the call does to the mappings,   *)
(* to the contents of mapped pages, and to the bookkeeping.                 *)

LEMMA InitLemma == Init => IInv
<1> SUFFICES ASSUME Init  PROVE IInv
  OBVIOUS
<1> DEFINE n == Cardinality(Pages)
<1>1. PICK order \in SetToSeqs(Pages) :
          phys = [free |-> order, ref |-> [p \in Pages |-> 0], mem |-> [p \in Pages |-> Cleared]]
  BY DEF Init
<1>2. order \in [1 .. n -> Pages] /\ \A i, j \in 1 .. n : i # j => order[i] # order[j]
  BY <1>1 DEF SetToSeqs
<1>3. n \in Nat /\ IsFiniteSet(1 .. n) /\ Cardinality(1 .. n) = n
  BY FS_CardinalityType, FS_Interval
<1>4. order \in Seq(Pages) /\ Len(order) = n
  BY <1>2, <1>3
<1>5. \A p \in Pages : \E i \in 1 .. n : order[i] = p
  <2>1. order \in Injection(1 .. n, Pages)
    BY <1>2 DEF Injection, IsInjective
  <2>2. order \in Surjection(1 .. n, Pages)
    BY <1>3, <2>1, FS_Injection
  <2>3. QED  BY <2>2 DEF Surjection
<1>6. phys \in Memory /\ phys.free = order /\ \A p \in Pages : phys.ref[p] = 0
  BY <1>1, <1>4, EntryLemma DEF Memory
<1>7. pgdir \in Dirs /\ Having(pgdir) = {}
  BY DEF Init, Dirs, Having
<1>8. \A p \in Pages : Unheld(phys, pgdir, p) /\ Refs(phys, pgdir, p) = 0
  BY <1>6, <1>7, RefsLemma DEF Unheld
<1>9. FreeSet(phys) = Pages /\ Distinct(phys)
  BY <1>2, <1>4, <1>5, <1>6 DEF FreeSet, Distinct
<1>10. Counted(phys, pgdir, NoPage)
  <2>1. 0 % RefMod = 0
    BY CountingLemma
  <2>2. QED  BY <1>6, <1>8, <2>1 DEF Counted
<1>11. Private(phys, pgdir)
  BY <1>7 DEF Private
<1>12. Listed(phys, pgdir, NoPage, NoPage)
  BY <1>8, <1>9 DEF Listed
<1>13. QED  BY <1>6, <1>7, <1>9, <1>10, <1>11, <1>12 DEF IInv, Sound, Good

LEMMA EnvSetupVmLemma ==
    ASSUME IInv, NEW e \in Envs, EnvSetupVm(e)
    PROVE  /\ IInv' /\ Live' = Live \cup {e} /\ e \notin Live
           /\ \A va \in VA : At(phys', pgdir', e, va) = None
           /\ \A f \in Live, va \in VA : At(phys', pgdir', f, va) = At(phys, pgdir, f, va)
           /\ KeepsData(phys, phys', pgdir, NoPage)
<1> DEFINE m == phys
           D == pgdir
           h == NewPage(m)
           c == Incref(PageAlloc(m), h)
           F == [D EXCEPT ![e] = h]
<1>1. Good(m, D, NoPage, NoPage) /\ m.free # <<>> /\ D[e] = NoPage /\ phys' = c /\ pgdir' = F
  BY DEF IInv, Sound, EnvSetupVm, Live
<1>2. /\ h \in Pages /\ h # NoPage /\ Unheld(m, D, h) /\ SameView(m, c, D) /\ Good(c, D, NoPage, h)
      /\ PageAlloc(m).mem[h] = Cleared /\ \A p \in Pages \ {h} : PageAlloc(m).mem[p] = m.mem[p]
  BY <1>1, AllocLemma
<1>3. m \in Memory /\ D \in Dirs /\ Distinct(m) /\ c \in Memory /\ Private(c, D)
  BY <1>1, <1>2 DEF Good
<1>4. c.mem = PageAlloc(m).mem
  <2>1. PageAlloc(m) \in Memory
    BY <1>1, <1>3, TakeLemma
  <2>2. QED  BY <1>2, <2>1, IncrefType
<1> HIDE DEF c, h
<1>5. F \in Dirs
  BY <1>2, <1>3 DEF Dirs
<1>6. NewDir(c, D, F, e, h)
  BY <1>1, <1>2, <1>4, EntryLemma DEF NewDir
<1> HIDE DEF F
<1>7. Unheld(c, D, h)
  BY <1>2, <1>3, SameViewLemma
<1>8. /\ Having(F) = Having(D) \cup {e} /\ e \notin Having(D)
      /\ \A va \in VA : At(c, F, e, va) = None
      /\ \A f \in Having(D) : \A va \in VA : At(c, F, f, va) = At(c, D, f, va)
      /\ \A p \in Pages : Refs(c, F, p) = Refs(c, D, p) + (IF p = h THEN 1 ELSE 0)
      /\ Private(c, F)
  BY <1>3, <1>5, <1>6, <1>7, NewDirLemma
<1>9. Refs(c, F, h) < RefMod
  <2>1. Refs(c, D, h) = 0
    BY <1>2, <1>3, <1>7, RefsLemma
  <2>2. Refs(c, F, h) = 1
    BY <1>2, <1>8, <2>1
  <2>3. QED  BY <2>2
<1>10. Good(c, F, NoPage, NoPage)
  BY <1>2, <1>3, <1>5, <1>8, <1>9, GainLemma
<1>11. KeepsData(m, c, D, NoPage)
  <2>1. \A p \in Pages : Mapped(m, D, p) => p # h
    BY <1>2 DEF Mapped, Unheld
  <2>2. QED  BY <1>2, <1>4, <2>1 DEF KeepsData
<1>12. Live' = Having(F) /\ Live = Having(D)
  BY <1>1 DEF Live, Having
<1>13. \A f \in Live, va \in VA : At(c, F, f, va) = At(m, D, f, va)
  BY <1>2, <1>8, <1>12 DEF SameView
<1>14. IInv'
  BY <1>1, <1>10 DEF IInv, Sound
<1>15. QED  BY <1>1, <1>8, <1>11, <1>12, <1>13, <1>14

LEMMA EnvFreeStep ==
    ASSUME IInv, NEW e \in Envs, EnvFree(e)
    PROVE  /\ IInv' /\ Live' = Live \ {e} /\ e \in Live /\ KeepsMapped(phys, phys', pgdir')
           /\ \A f \in Live', va \in VA : At(phys', pgdir', f, va) = At(phys, pgdir, f, va)
<1> DEFINE n == PageDecref(FreeTables(phys, pgdir[e]), pgdir[e])
           E == [pgdir EXCEPT ![e] = NoPage]
<1>1. Sound(phys, pgdir) /\ e \in Having(pgdir) /\ e \in Live /\ phys' = n /\ pgdir' = E
  BY DEF IInv, EnvFree, Live, Having
<1>2. /\ Sound(n, E) /\ Having(E) = Having(pgdir) \ {e} /\ KeepsMapped(phys, n, E)
      /\ \A f \in Having(E) : \A vb \in VA : At(n, E, f, vb) = At(phys, pgdir, f, vb)
  BY <1>1, EnvFreeLemma
<1> HIDE DEF n, E
<1>3. Live' = Having(E) /\ Live = Having(pgdir)
  BY <1>1 DEF Live, Having
<1>4. QED  BY <1>1, <1>2, <1>3 DEF IInv

LEMMA SysPageAllocLemma ==
    ASSUME IInv, NEW e \in Envs, NEW va \in VA, NEW w \in BOOLEAN, SysPageAlloc(e, va, w)
    PROVE  /\ e \in Live /\ pgdir' = pgdir /\ (NoWrap' => IInv')
           /\ KeepsData(phys, phys', pgdir, NoPage)
           /\ \/ SameMaps(phys, phys', pgdir)
              \/ \E p \in Pages : /\ ~ Mapped(phys, pgdir, p) /\ phys'.mem[p] = Cleared
                                  /\ Maps(phys, phys', pgdir, e, va, <<p, w>>)
<1> DEFINE m == PageAlloc(phys)
           D == pgdir
           p == NewPage(phys)
<1>1. /\ Good(phys, D, NoPage, NoPage) /\ phys.free # <<>> /\ e \in Having(D) /\ e \in Live /\ D' = D
      /\ phys' = IF WalkFails(m, D[e], va) THEN PageFree(m, p) ELSE PageInsert(m, D[e], p, va, w)
  BY DEF IInv, Sound, SysPageAlloc, Live, Having
<1>2. /\ p \in Pages /\ Unheld(phys, D, p) /\ SameView(phys, m, D) /\ Good(m, D, p, NoPage)
      /\ m.mem[p] = Cleared /\ \A q \in Pages \ {p} : m.mem[q] = phys.mem[q]
  BY <1>1, AllocLemma
<1> HIDE DEF m, p
<1>3. ~ Mapped(phys, D, p) /\ SameMaps(phys, m, D) /\ KeepsData(phys, m, D, NoPage)
  <2>1. ~ Mapped(phys, D, p)
    BY <1>2 DEF Mapped, Unheld
  <2>2. QED  BY <1>2, <2>1 DEF SameMaps, SameView, KeepsData
<1>4. CASE WalkFails(m, D[e], va)
  <2>1. phys' = PageFree(m, p) /\ Good(phys', D, NoPage, NoPage) /\ phys'.mem = m.mem
    BY <1>1, <1>2, <1>4, FreeLemma
  <2>2. SameView(m, phys', D)
    BY <1>2, <2>1, OutsideLemma DEF Good
  <2>3. IInv' /\ SameMaps(phys, phys', D) /\ KeepsData(phys, phys', D, NoPage)
    BY <1>1, <1>3, <2>1, <2>2 DEF IInv, Sound, SameMaps, SameView, KeepsData
  <2>4. QED  BY <1>1, <2>3
<1>5. CASE ~ WalkFails(m, D[e], va)
  <2>1. phys' = PageInsert(m, D[e], p, va, w)
    BY <1>1, <1>5
  <2>2. /\ Refs(phys', D, p) < RefMod => Good(phys', D, NoPage, NoPage)
        /\ Maps(m, phys', D, e, va, <<p, w>>) /\ KeepsData(m, phys', D, p)
    BY <1>1, <1>2, <1>5, <2>1, InsertLemma
  <2>3. Maps(phys, phys', D, e, va, <<p, w>>)
    BY <1>3, <2>2 DEF Maps, SameMaps
  <2>4. KeepsData(phys, phys', D, NoPage)
    BY <1>3, <2>2 DEF KeepsData, SameMaps, Mapped
  <2>5. phys'.mem[p] = Cleared
    BY <1>2, <2>2 DEF KeepsData
  <2>6. NoWrap' => Refs(phys', D', p) < RefMod
    BY <1>2 DEF NoWrap, Refs, DirsOf, TablesOf, DataOf, Having, Table, At,
                DirRefs, TableRefs, DataRefs, Live
  <2>7. NoWrap' => IInv'
    BY <1>1, <2>2, <2>6 DEF IInv, Sound
  <2>8. QED  BY <1>1, <1>2, <1>3, <2>3, <2>4, <2>5, <2>7
<1>6. QED  BY <1>4, <1>5

\* What sys_page_map and a page sent along do: nothing, or the page at the
\* source address becomes mapped at the destination.
LEMMA MapPageLemma ==
    ASSUME IInv, NEW src \in Live, NEW dst \in Live, NEW sva \in VA, NEW dva \in VA,
           NEW w \in BOOLEAN, MapPage(src, sva, dst, dva, w), pgdir' = pgdir
    PROVE  /\ NoWrap' => IInv'
           /\ KeepsData(phys, phys', pgdir, NoPage)
           /\ \/ SameMaps(phys, phys', pgdir)
              \/ LET x == At(phys, pgdir, src, sva)
                 IN  /\ x # None /\ (w => x[2])
                     /\ Maps(phys, phys', pgdir, dst, dva, <<x[1], w>>)
<1> DEFINE D == pgdir
           m == Walk(phys, D[src], sva)
           x == EntryOf(m, D[src], sva)
<1>1. Good(phys, D, NoPage, NoPage) /\ src \in Having(D) /\ dst \in Having(D) /\ D' = D
      /\ phys' = IF x = None \/ (w /\ ~ x[2]) \/ WalkFails(m, D[dst], dva) THEN m
                 ELSE PageInsert(m, D[dst], x[1], dva, w)
  BY DEF IInv, Sound, MapPage, Live, Having
<1>2. /\ Good(m, D, NoPage, NoPage) /\ SameMaps(phys, m, D) /\ KeepsData(phys, m, D, NoPage)
  BY <1>1, WalkLemma
<1>3. x = At(m, D, src, sva) /\ x = At(phys, D, src, sva) /\ x \in Entry
  <2>1. x = At(m, D, src, sva)
    BY DEF At
  <2>2. m \in Memory /\ D \in Dirs
    BY <1>2 DEF Good
  <2>3. QED  BY <1>1, <1>2, <2>1, <2>2, TypeLemma DEF SameMaps
<1> HIDE DEF m, x
<1>4. CASE x = None \/ (w /\ ~ x[2]) \/ WalkFails(m, D[dst], dva)
  <2>1. phys' = m
    BY <1>1, <1>4
  <2>2. QED  BY <1>1, <1>2, <2>1 DEF IInv, Sound
<1>5. CASE ~ (x = None \/ (w /\ ~ x[2]) \/ WalkFails(m, D[dst], dva))
  <2>1. phys' = PageInsert(m, D[dst], x[1], dva, w) /\ x # None /\ (w => x[2])
    BY <1>1, <1>5
  <2>2. x[1] \in Pages
    BY <1>3, <2>1, EntryLemma
  <2>3. Mapped(m, D, x[1])
    BY <1>1, <1>3 DEF Mapped
  <2>4. /\ Refs(phys', D, x[1]) < RefMod => Good(phys', D, NoPage, NoPage)
        /\ Maps(m, phys', D, dst, dva, <<x[1], w>>) /\ KeepsData(m, phys', D, NoPage)
    BY <1>1, <1>2, <1>5, <2>1, <2>2, <2>3, InsertLemma
  <2>5. Maps(phys, phys', D, dst, dva, <<x[1], w>>)
    BY <1>2, <2>4 DEF Maps, SameMaps
  <2>6. KeepsData(phys, phys', D, NoPage)
    BY <1>2, <2>4 DEF KeepsData, SameMaps, Mapped
  <2>7. NoWrap' => Refs(phys', D', x[1]) < RefMod
    BY <2>2 DEF NoWrap, Refs, DirsOf, TablesOf, DataOf, Having, Table, At,
                DirRefs, TableRefs, DataRefs, Live
  <2>8. NoWrap' => IInv'
    BY <1>1, <2>4, <2>7 DEF IInv, Sound
  <2>9. QED  BY <1>1, <1>3, <2>1, <2>5, <2>6, <2>8
<1>6. QED  BY <1>4, <1>5

LEMMA SysPageUnmapLemma ==
    ASSUME IInv, NEW e \in Envs, NEW va \in VA, SysPageUnmap(e, va)
    PROVE  /\ e \in Live /\ pgdir' = pgdir /\ IInv'
           /\ KeepsData(phys, phys', pgdir, NoPage)
           /\ Maps(phys, phys', pgdir, e, va, None)
<1> DEFINE n == PageRemove(phys, pgdir[e], va)
<1>1. /\ Good(phys, pgdir, NoPage, NoPage) /\ e \in Having(pgdir) /\ e \in Live
      /\ pgdir' = pgdir /\ phys' = n
  BY DEF IInv, Sound, SysPageUnmap, Live, Having
<1>2. /\ Good(n, pgdir, NoPage, NoPage) /\ Maps(phys, n, pgdir, e, va, None)
      /\ KeepsData(phys, n, pgdir, NoPage)
  BY <1>1, RemoveLemma
<1> HIDE DEF n
<1>3. QED  BY <1>1, <1>2 DEF IInv, Sound

LEMMA UserWriteLemma ==
    ASSUME IInv, NEW e \in Envs, NEW va \in VA, UserWrite(e, va)
    PROVE  LET x == At(phys, pgdir, e, va)
           IN  /\ e \in Live /\ pgdir' = pgdir /\ IInv' /\ SameMaps(phys, phys', pgdir)
               /\ x # None /\ x[2] /\ x[1] \in Pages /\ phys'.mem[x[1]] = Garbage(x[1])
               /\ \A p \in Pages \ {x[1]} : phys'.mem[p] = phys.mem[p]
<1> DEFINE x == At(phys, pgdir, e, va)
           g == [phys.mem EXCEPT ![x[1]] = Garbage(x[1])]
           n == [phys EXCEPT !.mem = g]
<1>1. /\ Good(phys, pgdir, NoPage, NoPage) /\ e \in Having(pgdir) /\ e \in Live
      /\ pgdir' = pgdir /\ phys' = n /\ x # None /\ x[2]
  BY DEF IInv, Sound, UserWrite, Live, Having, At
<1>2. phys \in Memory /\ pgdir \in Dirs /\ Private(phys, pgdir)
  BY <1>1 DEF Good
<1>3. x[1] \in Pages /\ x[1] # NoPage
  BY <1>1, <1>2, TypeLemma, EntryLemma
<1>4. Garbage(x[1]) \in [Idx -> Entry]
  BY <1>3, EntryLemma DEF Garbage
<1>5. g \in [Pages -> [Idx -> Entry]] /\ g[x[1]] = Garbage(x[1])
      /\ \A p \in Pages \ {x[1]} : g[p] = phys.mem[p]
  BY <1>2, <1>3, <1>4 DEF Memory
<1>6. ~ Structure(phys, pgdir, x[1])
  BY <1>1, <1>2, <1>3 DEF Private
<1> HIDE DEF g, x
<1>7. n \in Memory /\ n.free = phys.free /\ n.ref = phys.ref /\ n.mem = g
  BY <1>2, <1>5, PartsLemma
<1> HIDE DEF n
<1>8. SameView(phys, n, pgdir)
  BY <1>2, <1>5, <1>6, <1>7, OutsideLemma
<1>9. Good(n, pgdir, NoPage, NoPage)
  BY <1>1, <1>7, <1>8, UncountedLemma
<1>10. IInv' /\ SameMaps(phys, phys', pgdir)
  BY <1>1, <1>8, <1>9 DEF IInv, Sound, SameMaps, SameView
<1>11. QED  BY <1>1, <1>3, <1>5, <1>7, <1>10 DEF x

-----------------------------------------------------------------------------
LEMMA StepLemma == IInv /\ [Next]_vars /\ NoWrap' => IInv'
<1> SUFFICES ASSUME IInv, [Next]_vars, NoWrap'  PROVE IInv'
  OBVIOUS
<1>1. CASE UNCHANGED vars
  BY <1>1 DEF IInv, vars
<1>2. ASSUME NEW e \in Envs, EnvSetupVm(e)  PROVE IInv'
  BY <1>2, EnvSetupVmLemma
<1>3. ASSUME NEW e \in Envs, EnvFree(e)  PROVE IInv'
  BY <1>3, EnvFreeStep
<1>4. ASSUME NEW e \in Envs, NEW va \in VA, SysPageUnmap(e, va)  PROVE IInv'
  BY <1>4, SysPageUnmapLemma
<1>5. ASSUME NEW e \in Envs, NEW va \in VA, UserWrite(e, va)  PROVE IInv'
  BY <1>5, UserWriteLemma
<1>6. ASSUME NEW e \in Envs, NEW va \in VA, NEW w \in BOOLEAN, SysPageAlloc(e, va, w)  PROVE IInv'
  BY <1>6, SysPageAllocLemma
<1>7. ASSUME NEW e \in Envs, NEW va \in VA, NEW d \in Envs, NEW dva \in VA, NEW w \in BOOLEAN,
             SysPageMap(e, va, d, dva, w)
      PROVE  IInv'
  <2>1. e \in Live /\ d \in Live /\ MapPage(e, va, d, dva, w) /\ pgdir' = pgdir
    BY <1>7 DEF SysPageMap
  <2>2. QED  BY <2>1, MapPageLemma
<1>8. ASSUME NEW e \in Envs, NEW va \in VA, NEW d \in Envs, NEW dva \in VA, NEW w \in BOOLEAN,
             SysIpcTrySendPage(e, va, d, dva, w)
      PROVE  IInv'
  <2>1. e \in Live /\ d \in Live /\ pgdir' = pgdir
    BY <1>8 DEF SysIpcTrySendPage
  <2>2. CASE MapPage(e, va, d, dva, w)
    BY <2>1, <2>2, MapPageLemma
  <2>3. CASE phys' = Walk(phys, pgdir[e], va)
    <3>1. e \in Having(pgdir) /\ Good(phys, pgdir, NoPage, NoPage)
      BY <2>1 DEF IInv, Sound, Live, Having
    <3>2. Good(Walk(phys, pgdir[e], va), pgdir, NoPage, NoPage)
      BY <3>1, WalkLemma
    <3>3. QED  BY <2>1, <2>3, <3>2 DEF IInv, Sound
  <2>4. QED  BY <1>8, <2>2, <2>3 DEF SysIpcTrySendPage
<1>9. QED  BY <1>1, <1>2, <1>3, <1>4, <1>5, <1>6, <1>7, <1>8 DEF Next

LEMMA Invariance == Spec /\ []NoWrap => []IInv
<1>1. QED  BY InitLemma, StepLemma, PTL DEF Spec

-----------------------------------------------------------------------------
(* The theorems: what the runs check, under NoWrap.                         *)

LEMMA SameSets ==
    /\ Live = Having(pgdir)
    /\ \A p \in Pages : /\ DirRefs(p) = DirsOf(pgdir, p) /\ TableRefs(p) = TablesOf(phys, pgdir, p)
                        /\ DataRefs(p) = DataOf(phys, pgdir, p)
  BY DEF DirRefs, TableRefs, DataRefs, DirsOf, TablesOf, DataOf, Live, Having, Table, At

(* Everything keeps its type.                                               *)
THEOREM TypeCorrect == Spec /\ []NoWrap => []TypeOK
<1>1. IInv => TypeOK
  <2> SUFFICES ASSUME IInv  PROVE TypeOK
    OBVIOUS
  <2>1. phys \in Memory /\ pgdir \in Dirs
    BY DEF IInv, Sound, Good
  <2>2. QED  BY <2>1 DEF TypeOK, Memory, Dirs
<1>2. QED  BY <1>1, Invariance, PTL

(* pp_ref is exact after every call.                                        *)
THEOREM CountsExact == Spec /\ []NoWrap => []RefExact
<1>1. IInv => RefExact
  <2> SUFFICES ASSUME IInv, NEW p \in Pages
               PROVE  phys.ref[p] = Cardinality(DirRefs(p)) + Cardinality(TableRefs(p))
                                      + Cardinality(DataRefs(p))
    BY DEF RefExact
  <2>1. phys \in Memory /\ pgdir \in Dirs /\ Counted(phys, pgdir, NoPage) /\ p # NoPage
    BY DEF IInv, Sound, Good
  <2>2. Refs(phys, pgdir, p) \in 0 .. RefMod - 1
    <3>1. Refs(phys, pgdir, p) \in Nat
      BY <2>1, RefsLemma
    <3>2. QED  BY <2>1, <3>1 DEF Counted
  <2>3. phys.ref[p] = Refs(phys, pgdir, p) % RefMod
    BY <2>1, <2>2 DEF Counted
  <2>4. phys.ref[p] = Refs(phys, pgdir, p)
    BY <2>2, <2>3, CountingLemma
  <2>5. QED  BY <2>4, SameSets DEF Refs
<1>2. QED  BY <1>1, Invariance, PTL

(* The free list holds every page nothing refers to, once, and no other.    *)
THEOREM FreeExact == Spec /\ []NoWrap => []FreeListExact
<1>1. IInv => FreeListExact
  <2> SUFFICES ASSUME IInv  PROVE FreeListExact
    OBVIOUS
  <2>1. /\ phys \in Memory /\ pgdir \in Dirs /\ Distinct(phys)
        /\ Listed(phys, pgdir, NoPage, NoPage)
    BY DEF IInv, Sound, Good
  <2>2. ASSUME NEW p \in Pages
        PROVE  (\E i \in 1 .. Len(phys.free) : phys.free[i] = p)
                  <=> DirRefs(p) = {} /\ TableRefs(p) = {} /\ DataRefs(p) = {}
    <3>1. (\E i \in 1 .. Len(phys.free) : phys.free[i] = p) <=> p \in FreeSet(phys)
      BY DEF FreeSet
    <3>2. p \in FreeSet(phys) <=> Unheld(phys, pgdir, p)
      BY <2>1 DEF Listed
    <3>3. QED  BY <2>1, <3>1, <3>2, RefsLemma, SameSets
  <2>3. QED  BY <2>1, <2>2 DEF FreeListExact, Distinct
<1>2. QED  BY <1>1, Invariance, PTL

(* A page directory or page table has one owner and is in nobody's memory.  *)
THEOREM PageTablesPrivate == Spec /\ []NoWrap => []TablesPrivate
<1>1. IInv => TablesPrivate
  <2> SUFFICES ASSUME IInv, NEW p \in Pages, DirRefs(p) # {} \/ TableRefs(p) # {}
               PROVE  /\ Cardinality(DirRefs(p)) + Cardinality(TableRefs(p)) = 1
                      /\ DataRefs(p) = {}
    BY DEF TablesPrivate
  <2> DEFINE X == DirsOf(pgdir, p)
             Y == TablesOf(phys, pgdir, p)
  <2>1. phys \in Memory /\ pgdir \in Dirs /\ Private(phys, pgdir) /\ p # NoPage
    BY DEF IInv, Sound, Good
  <2>2. X # {} \/ Y # {}
    BY SameSets
  <2>3. Structure(phys, pgdir, p)
    BY <2>2 DEF Structure, DirsOf, TablesOf
  <2>4. DataOf(phys, pgdir, p) = {}
    BY <2>1, <2>3 DEF DataOf, Private
  <2>5. CASE X # {}
    <3>1. PICK e \in Having(pgdir) : pgdir[e] = p
      BY <2>5 DEF DirsOf
    <3>2. X = {e}
      BY <2>1, <3>1 DEF DirsOf, Private
    <3>3. Y = {}
      BY <2>1, <3>1 DEF TablesOf, Private
    <3> HIDE DEF X, Y
    <3>4. Cardinality(X) = 1 /\ Cardinality(Y) = 0
      BY <3>2, <3>3, FS_Singleton, FS_EmptySet
    <3>5. QED  BY <2>4, <3>4, SameSets DEF X, Y
  <2>6. CASE X = {} /\ Y # {}
    <3>1. PICK y \in Having(pgdir) \X Idx : Table(phys, pgdir, y[1], y[2]) = p
      BY <2>6 DEF TablesOf
    <3>2. ASSUME NEW z \in Having(pgdir) \X Idx, Table(phys, pgdir, z[1], z[2]) = p
          PROVE  z = y
      <4>1. z[1] = y[1] /\ z[2] = y[2]
        BY <2>1, <3>1, <3>2 DEF Private
      <4>2. QED  BY <4>1
    <3>3. Y = {y}
      BY <3>1, <3>2 DEF TablesOf
    <3> HIDE DEF X, Y
    <3>4. Cardinality(X) = 0 /\ Cardinality(Y) = 1
      BY <2>6, <3>3, FS_Singleton, FS_EmptySet
    <3>5. QED  BY <2>4, <3>4, SameSets DEF X, Y
  <2>7. QED  BY <2>2, <2>5, <2>6
<1>2. QED  BY <1>1, Invariance, PTL

-----------------------------------------------------------------------------
(* PhysMem implements AddrSpaces: every call is one step of the address     *)
(* spaces, or none.                                                         *)

SpaceIn(m, D) == [e \in Envs |-> IF e \in Having(D) THEN [va \in VA |-> At(m, D, e, va)] ELSE Unborn]
Reads(m, p)     == IF m.mem[p] = Cleared THEN "zero" ELSE "data"
ContentIn(m, D) == [p \in Pages |-> IF Mapped(m, D, p) THEN Reads(m, p) ELSE "none"]

Space   == [e \in Envs |-> SpaceOf(e)]
Content == [p \in Pages |-> ContentOf(p)]

LEMMA BornLemma == \A f : [va \in VA |-> f[va]] # Unborn
<1>1. <<0, 0>> \in VA
  BY EntryLemma, VALemma
<1>2. ASSUME NEW f, [va \in VA |-> f[va]] = Unborn  PROVE FALSE
  <2>1. DOMAIN [va \in VA |-> f[va]] = VA /\ DOMAIN Unborn = {}
    BY DEF Unborn
  <2>2. QED  BY <1>1, <1>2, <2>1
<1>3. QED  BY <1>2

Abstracted == Space = SpaceIn(phys, pgdir) /\ Content = ContentIn(phys, pgdir)

LEMMA AbstractedLemma == Abstracted
<1>1. Live = Having(pgdir) /\ \A p \in Pages : DataRefs(p) = DataOf(phys, pgdir, p)
  BY SameSets
<1>2. Space = SpaceIn(phys, pgdir)
  BY <1>1 DEF Space, SpaceIn, SpaceOf, At
<1>3. ASSUME NEW p \in Pages  PROVE DataOf(phys, pgdir, p) = {} <=> ~ Mapped(phys, pgdir, p)
  <2>1. ASSUME NEW f \in Having(pgdir), NEW vb \in VA, At(phys, pgdir, f, vb)[1] = p
        PROVE  <<f, vb>> \in DataOf(phys, pgdir, p)
    BY <2>1 DEF DataOf
  <2>2. ASSUME NEW x \in DataOf(phys, pgdir, p)  PROVE Mapped(phys, pgdir, p)
    BY DEF DataOf, Mapped
  <2>3. QED  BY <2>1, <2>2 DEF Mapped
<1>4. \A p \in Pages : ContentOf(p) = IF Mapped(phys, pgdir, p) THEN Reads(phys, p) ELSE "none"
  BY <1>1, <1>3 DEF ContentOf, Reads
<1>5. QED  BY <1>2, <1>4 DEF Abstracted, Content, ContentIn

LEMMA AbstractionLemma ==
    /\ Space = SpaceIn(phys, pgdir) /\ Content = ContentIn(phys, pgdir)
    /\ Space' = SpaceIn(phys', pgdir') /\ Content' = ContentIn(phys', pgdir')
<1>1. Abstracted /\ Abstracted'
  BY AbstractedLemma, PTL
<1>2. QED  BY <1>1 DEF Abstracted

(* What the abstract operators see.                                         *)
LEMMA SeenLemma ==
    ASSUME NEW m \in Memory, NEW D \in Dirs
    PROVE  LET S == SpaceIn(m, D)
           IN  /\ \A e \in Envs : S[e] # Unborn <=> e \in Having(D)
               /\ \A e \in Having(D), va \in VA : S[e][va] = At(m, D, e, va)
               /\ \A p \in Pages :
                    Mapped(m, D, p) <=> \E e \in Envs : /\ S[e] # Unborn
                                                        /\ \E va \in VA : S[e][va] # None /\ S[e][va][1] = p
<1> DEFINE S == SpaceIn(m, D)
<1>1. ASSUME NEW e \in Envs  PROVE S[e] # Unborn <=> e \in Having(D)
  <2>1. e \in Having(D) => S[e] = [va \in VA |-> At(m, D, e, va)] /\ S[e] = [va \in VA |-> S[e][va]]
    BY DEF SpaceIn
  <2>2. e \notin Having(D) => S[e] = Unborn
    BY DEF SpaceIn
  <2>3. QED  BY <2>1, <2>2, BornLemma
<1>2. \A e \in Having(D), va \in VA : S[e][va] = At(m, D, e, va)
  BY DEF SpaceIn, Having
<1> HIDE DEF S
<1>3. ASSUME NEW p \in Pages
      PROVE  Mapped(m, D, p) <=> \E e \in Envs : /\ S[e] # Unborn
                                                 /\ \E va \in VA : S[e][va] # None /\ S[e][va][1] = p
  <2>1. \A e \in Having(D) : e \in Envs
    BY DEF Having
  <2>2. QED  BY <1>1, <1>2, <2>1, EntryLemma DEF Mapped
<1>4. QED  BY <1>1, <1>2, <1>3 DEF S

LEMMA ReadingLemma ==
    ASSUME NEW n \in Memory, NEW E \in Dirs, NEW c,
           \A p \in Pages : Mapped(n, E, p) => c[p] = Reads(n, p)
    PROVE  ContentIn(n, E) = AS!Reading(SpaceIn(n, E), c)
  BY SeenLemma DEF ContentIn, AS!Reading

LEMMA MapsLemma ==
    ASSUME NEW m \in Memory, NEW n \in Memory, NEW D \in Dirs, NEW e \in Having(D), NEW va \in VA,
           NEW y, Maps(m, n, D, e, va, y)
    PROVE  SpaceIn(n, D) = [SpaceIn(m, D) EXCEPT ![e][va] = y]
<1> DEFINE S == SpaceIn(m, D)
           T == SpaceIn(n, D)
<1>1. e \in Envs /\ \A f \in Having(D) : f \in Envs
  BY DEF Having
<1>2. S[e] = [vb \in VA |-> At(m, D, e, vb)] /\ T[e] = [vb \in VA |-> At(n, D, e, vb)]
  BY <1>1 DEF SpaceIn
<1>3. T[e] = [S[e] EXCEPT ![va] = y]
  BY <1>2 DEF Maps
<1>4. ASSUME NEW f \in Envs, f # e  PROVE T[f] = S[f]
  BY <1>4 DEF SpaceIn, Maps
<1>5. S = [f \in Envs |-> S[f]] /\ T = [f \in Envs |-> T[f]]
  BY DEF SpaceIn
<1> HIDE DEF S, T
<1>6. T = [S EXCEPT ![e] = [S[e] EXCEPT ![va] = y]]
  BY <1>1, <1>3, <1>4, <1>5
<1>7. QED  BY <1>6 DEF S, T

(* A call that maps nothing and changes no mapped page shows nothing.       *)
LEMMA StutterLemma ==
    ASSUME NEW m \in Memory, NEW n \in Memory, NEW D \in Dirs,
           SameMaps(m, n, D), KeepsData(m, n, D, NoPage)
    PROVE  SpaceIn(n, D) = SpaceIn(m, D) /\ ContentIn(n, D) = ContentIn(m, D)
<1>1. \A p \in Pages : Mapped(n, D, p) <=> Mapped(m, D, p)
  BY DEF Mapped, SameMaps
<1>2. \A p \in Pages : Mapped(m, D, p) => Reads(n, p) = Reads(m, p)
  BY DEF KeepsData, Reads
<1>3. QED  BY <1>1, <1>2 DEF SpaceIn, ContentIn, SameMaps

-----------------------------------------------------------------------------
LEMMA CreateLemma ==
    ASSUME IInv, NEW e \in Envs, EnvSetupVm(e)  PROVE AS!Create(e)
<1> DEFINE S == SpaceIn(phys, pgdir)
           T == SpaceIn(phys', pgdir')
           C == ContentIn(phys, pgdir)
<1>1. /\ IInv' /\ Live' = Live \cup {e} /\ e \notin Live
      /\ \A va \in VA : At(phys', pgdir', e, va) = None
      /\ \A f \in Live, va \in VA : At(phys', pgdir', f, va) = At(phys, pgdir, f, va)
      /\ KeepsData(phys, phys', pgdir, NoPage)
  BY EnvSetupVmLemma
<1>2. phys \in Memory /\ pgdir \in Dirs /\ phys' \in Memory /\ pgdir' \in Dirs
  BY <1>1 DEF IInv, Sound, Good
<1>3. Live = Having(pgdir) /\ Live' = Having(pgdir')
  BY DEF Live, Having
<1>4. Space = S /\ Content = C /\ Space' = T /\ Content' = ContentIn(phys', pgdir')
  BY AbstractionLemma
<1>5. S[e] = Unborn
  BY <1>1, <1>3 DEF SpaceIn
<1>6. T = [S EXCEPT ![e] = [va \in VA |-> None]]
  <2>1. T[e] = [va \in VA |-> None]
    BY <1>1, <1>3 DEF SpaceIn
  <2>2. \A f \in Envs : f # e => T[f] = S[f]
    BY <1>1, <1>3 DEF SpaceIn
  <2>3. S = [f \in Envs |-> S[f]] /\ T = [f \in Envs |-> T[f]]
    BY DEF SpaceIn
  <2> HIDE DEF S, T
  <2>4. QED  BY <2>1, <2>2, <2>3
<1>7. ASSUME NEW p \in Pages, Mapped(phys', pgdir', p)  PROVE C[p] = Reads(phys', p)
  <2>1. PICK f \in Having(pgdir'), vb \in VA : At(phys', pgdir', f, vb)[1] = p
    BY <1>7 DEF Mapped
  <2>2. f # e
    BY <1>1, <2>1, EntryLemma
  <2>3. Mapped(phys, pgdir, p)
    BY <1>1, <1>3, <2>1, <2>2 DEF Mapped
  <2>4. QED  BY <1>1, <2>3 DEF KeepsData, ContentIn, Reads
<1> HIDE DEF C
<1>8. ContentIn(phys', pgdir') = AS!Reading(T, C)
  BY <1>2, <1>7, ReadingLemma
<1> HIDE DEF S, T
<1>9. QED  BY <1>4, <1>5, <1>6, <1>8 DEF AS!Create, AS!Become, Space, Content

LEMMA DestroyLemma ==
    ASSUME IInv, NEW e \in Envs, EnvFree(e)  PROVE AS!Destroy(e)
<1> DEFINE S == SpaceIn(phys, pgdir)
           T == SpaceIn(phys', pgdir')
           C == ContentIn(phys, pgdir)
<1>1. /\ IInv' /\ Live' = Live \ {e} /\ e \in Live /\ KeepsMapped(phys, phys', pgdir')
      /\ \A f \in Live', va \in VA : At(phys', pgdir', f, va) = At(phys, pgdir, f, va)
  BY EnvFreeStep
<1>2. phys \in Memory /\ pgdir \in Dirs /\ phys' \in Memory /\ pgdir' \in Dirs
  BY <1>1 DEF IInv, Sound, Good
<1>3. Live = Having(pgdir) /\ Live' = Having(pgdir')
  BY DEF Live, Having
<1>4. Space = S /\ Content = C /\ Space' = T /\ Content' = ContentIn(phys', pgdir')
  BY AbstractionLemma
<1>5. S[e] # Unborn
  BY <1>1, <1>2, <1>3, SeenLemma
<1>6. T = [S EXCEPT ![e] = Unborn]
  <2>1. T[e] = Unborn
    BY <1>1, <1>3 DEF SpaceIn
  <2>2. \A f \in Envs : f # e => T[f] = S[f]
    BY <1>1, <1>3 DEF SpaceIn
  <2>3. S = [f \in Envs |-> S[f]] /\ T = [f \in Envs |-> T[f]]
    BY DEF SpaceIn
  <2> HIDE DEF S, T
  <2>4. QED  BY <2>1, <2>2, <2>3
<1>7. ASSUME NEW p \in Pages, Mapped(phys', pgdir', p)  PROVE C[p] = Reads(phys', p)
  <2>1. PICK f \in Having(pgdir'), vb \in VA : At(phys', pgdir', f, vb)[1] = p
    BY <1>7 DEF Mapped
  <2>2. Mapped(phys, pgdir, p)
    BY <1>1, <1>3, <2>1 DEF Mapped
  <2>3. QED  BY <1>1, <1>7, <2>2 DEF KeepsMapped, ContentIn, Reads
<1> HIDE DEF C
<1>8. ContentIn(phys', pgdir') = AS!Reading(T, C)
  BY <1>2, <1>7, ReadingLemma
<1> HIDE DEF S, T
<1>9. QED  BY <1>4, <1>5, <1>6, <1>8 DEF AS!Destroy, AS!Live, AS!Become, Space, Content

\* A call that changes one entry of one address space to y, and the contents
\* that can be read to those of c.
Shows(e, va, y, c) ==
    /\ e \in Live /\ va \in VA /\ Maps(phys, phys', pgdir, e, va, y)
    /\ \A p \in Pages : Mapped(phys', pgdir, p) => c[p] = Reads(phys', p)

LEMMA BecomeLemma ==
    ASSUME IInv, phys' \in Memory, pgdir' = pgdir, NEW e, NEW va, NEW y, NEW c, Shows(e, va, y, c)
    PROVE  AS!Become([Space EXCEPT ![e][va] = y], c)
<1>1. phys \in Memory /\ pgdir \in Dirs
  BY DEF IInv, Sound, Good
<1>2. e \in Having(pgdir) /\ va \in VA /\ Maps(phys, phys', pgdir, e, va, y)
      /\ \A p \in Pages : Mapped(phys', pgdir, p) => c[p] = Reads(phys', p)
  BY DEF Shows, Live, Having
<1>3. SpaceIn(phys', pgdir) = [SpaceIn(phys, pgdir) EXCEPT ![e][va] = y]
  BY <1>1, <1>2, MapsLemma
<1>4. ContentIn(phys', pgdir) = AS!Reading(SpaceIn(phys', pgdir), c)
  BY <1>1, <1>2, ReadingLemma
<1>5. /\ Space = SpaceIn(phys, pgdir) /\ Space' = SpaceIn(phys', pgdir)
      /\ Content' = ContentIn(phys', pgdir)
  BY AbstractionLemma
<1>6. QED  BY <1>3, <1>4, <1>5 DEF AS!Become, Space, Content

LEMMA NothingLemma ==
    ASSUME IInv, phys' \in Memory, pgdir' = pgdir,
           SameMaps(phys, phys', pgdir), KeepsData(phys, phys', pgdir, NoPage)
    PROVE  UNCHANGED AS!avars
<1>1. phys \in Memory /\ pgdir \in Dirs
  BY DEF IInv, Sound, Good
<1>2. SpaceIn(phys', pgdir) = SpaceIn(phys, pgdir) /\ ContentIn(phys', pgdir) = ContentIn(phys, pgdir)
  BY <1>1, StutterLemma
<1>3. /\ Space = SpaceIn(phys, pgdir) /\ Space' = SpaceIn(phys', pgdir)
      /\ Content = ContentIn(phys, pgdir) /\ Content' = ContentIn(phys', pgdir)
  BY AbstractionLemma
<1>4. QED  BY <1>2, <1>3 DEF AS!avars, Space, Content

\* The content function c of BecomeLemma when the contents stay.
LEMMA StayLemma ==
    ASSUME KeepsData(phys, phys', pgdir, NoPage), NEW p \in Pages, Mapped(phys, pgdir, p)
    PROVE  Content[p] = Reads(phys', p)
  BY AbstractionLemma DEF ContentIn, KeepsData, Reads

LEMMA AllocStep ==
    ASSUME IInv, IInv', NEW e \in Envs, NEW va \in VA, NEW w \in BOOLEAN, SysPageAlloc(e, va, w)
    PROVE  AS!Alloc(e, va, w) \/ UNCHANGED AS!avars
<1>1. /\ e \in Live /\ pgdir' = pgdir /\ KeepsData(phys, phys', pgdir, NoPage)
      /\ \/ SameMaps(phys, phys', pgdir)
         \/ \E p \in Pages : /\ ~ Mapped(phys, pgdir, p) /\ phys'.mem[p] = Cleared
                             /\ Maps(phys, phys', pgdir, e, va, <<p, w>>)
  BY SysPageAllocLemma
<1>2. phys \in Memory /\ pgdir \in Dirs /\ phys' \in Memory
  BY DEF IInv, Sound, Good
<1>3. ASSUME NEW p \in Pages, ~ Mapped(phys, pgdir, p), phys'.mem[p] = Cleared,
             Maps(phys, phys', pgdir, e, va, <<p, w>>)
      PROVE  AS!Alloc(e, va, w)
  <2> DEFINE c == [Content EXCEPT ![p] = "zero"]
  <2>1. ASSUME NEW q \in Pages, Mapped(phys', pgdir, q)  PROVE c[q] = Reads(phys', q)
    <3>1. CASE q = p
      BY <1>3, <3>1 DEF Content, Reads
    <3>2. CASE q # p
      <4>1. PICK f \in Having(pgdir), vb \in VA : At(phys', pgdir, f, vb)[1] = q
        BY <2>1 DEF Mapped
      <4>2. At(phys, pgdir, f, vb)[1] = q
        BY <1>3, <3>2, <4>1, EntryLemma DEF Maps
      <4>3. Mapped(phys, pgdir, q)
        BY <4>2 DEF Mapped
      <4>4. QED  BY <1>1, <3>2, <4>3, StayLemma DEF Content
    <3>3. QED  BY <3>1, <3>2
  <2>2. AS!Become([Space EXCEPT ![e][va] = <<p, w>>], c)
    <3> HIDE DEF c
    <3>1. Shows(e, va, <<p, w>>, c)
      BY <1>1, <1>3, <2>1 DEF Shows
    <3>2. QED  BY <1>1, <1>2, <3>1, BecomeLemma
  <2>3. Live = Having(pgdir) /\ Space = SpaceIn(phys, pgdir)
    BY SameSets, AbstractionLemma
  <2>4. Space[e] # Unborn
    BY <1>1, <1>2, <2>3, SeenLemma
  <2>5. p \notin AS!Mapped
    BY <1>2, <1>3, <2>3, SeenLemma DEF AS!Mapped, AS!Live, Space
  <2>6. QED  BY <1>1, <2>2, <2>4, <2>5 DEF AS!Alloc, AS!Live, Space, Content
<1>4. QED  BY <1>1, <1>2, <1>3, NothingLemma

LEMMA ShareStep ==
    ASSUME IInv, IInv', NEW src \in Live, NEW dst \in Live, NEW sva \in VA, NEW dva \in VA,
           NEW w \in BOOLEAN, MapPage(src, sva, dst, dva, w), pgdir' = pgdir
    PROVE  AS!Share(src, sva, dst, dva, w) \/ UNCHANGED AS!avars
<1> DEFINE x == At(phys, pgdir, src, sva)
<1>1. /\ KeepsData(phys, phys', pgdir, NoPage)
      /\ \/ SameMaps(phys, phys', pgdir)
         \/ x # None /\ (w => x[2]) /\ Maps(phys, phys', pgdir, dst, dva, <<x[1], w>>)
  BY MapPageLemma
<1>2. phys \in Memory /\ pgdir \in Dirs /\ phys' \in Memory
  BY DEF IInv, Sound, Good
<1>3. ASSUME x # None, w => x[2], Maps(phys, phys', pgdir, dst, dva, <<x[1], w>>)
      PROVE  AS!Share(src, sva, dst, dva, w)
  <2>1. Live = Having(pgdir) /\ Space = SpaceIn(phys, pgdir) /\ src \in Envs /\ dst \in Envs
    BY SameSets, AbstractionLemma DEF Live
  <2>2. Space[src] # Unborn /\ Space[dst] # Unborn /\ Space[src][sva] = x
    BY <1>2, <2>1, SeenLemma
  <2>3. ASSUME NEW q \in Pages, Mapped(phys', pgdir, q)  PROVE Content[q] = Reads(phys', q)
    <3>1. PICK f \in Having(pgdir), vb \in VA : At(phys', pgdir, f, vb)[1] = q
      BY <2>3 DEF Mapped
    <3>2. q = x[1] \/ At(phys, pgdir, f, vb)[1] = q
      BY <1>3, <3>1 DEF Maps
    <3>3. Mapped(phys, pgdir, q)
      BY <2>1, <3>2 DEF Mapped
    <3>4. QED  BY <1>1, <3>3, StayLemma
  <2> HIDE DEF x
  <2>4. AS!Become([Space EXCEPT ![dst][dva] = <<x[1], w>>], Content)
    <3> DEFINE y == <<x[1], w>>
               c == Content
    <3> HIDE DEF y, c
    <3>1. Maps(phys, phys', pgdir, dst, dva, y)
      BY <1>3 DEF y
    <3>2. \A q \in Pages : Mapped(phys', pgdir, q) => c[q] = Reads(phys', q)
      BY <2>3 DEF c
    <3>3. Shows(dst, dva, y, c)
      BY <3>1, <3>2 DEF Shows
    <3>4. AS!Become([Space EXCEPT ![dst][dva] = y], c)
      BY <1>2, <3>3, BecomeLemma
    <3>5. QED  BY <3>4 DEF y, c
  <2>5. QED  BY <1>3, <2>1, <2>2, <2>4 DEF AS!Share, AS!Live, Space, Content
<1>4. QED  BY <1>1, <1>2, <1>3, NothingLemma

LEMMA UnmapStep ==
    ASSUME IInv, NEW e \in Envs, NEW va \in VA, SysPageUnmap(e, va)
    PROVE  AS!Unmap(e, va)
<1>1. /\ e \in Live /\ pgdir' = pgdir /\ IInv' /\ KeepsData(phys, phys', pgdir, NoPage)
      /\ Maps(phys, phys', pgdir, e, va, None)
  BY SysPageUnmapLemma
<1>2. phys \in Memory /\ pgdir \in Dirs /\ phys' \in Memory
  BY <1>1 DEF IInv, Sound, Good
<1>3. Live = Having(pgdir) /\ Space = SpaceIn(phys, pgdir)
  BY SameSets, AbstractionLemma
<1>4. Space[e] # Unborn
  BY <1>1, <1>2, <1>3, SeenLemma
<1>5. ASSUME NEW q \in Pages, Mapped(phys', pgdir, q)  PROVE Content[q] = Reads(phys', q)
  <2>1. PICK f \in Having(pgdir), vb \in VA : At(phys', pgdir, f, vb)[1] = q
    BY <1>5 DEF Mapped
  <2>2. At(phys, pgdir, f, vb)[1] = q
    BY <1>1, <2>1, EntryLemma DEF Maps
  <2>3. Mapped(phys, pgdir, q)
    BY <2>2 DEF Mapped
  <2>4. QED  BY <1>1, <2>3, StayLemma
<1>6. AS!Become([Space EXCEPT ![e][va] = None], Content)
  <2>1. Shows(e, va, None, Content)
    BY <1>1, <1>5 DEF Shows
  <2>2. QED  BY <1>1, <1>2, <2>1, BecomeLemma
<1>7. QED  BY <1>4, <1>6 DEF AS!Unmap, AS!Live, Space, Content

LEMMA WriteStep ==
    ASSUME IInv, NEW e \in Envs, NEW va \in VA, UserWrite(e, va)
    PROVE  AS!Write(e, va)
<1> DEFINE x == At(phys, pgdir, e, va)
           c == [Content EXCEPT ![x[1]] = "data"]
<1>1. /\ e \in Live /\ pgdir' = pgdir /\ IInv' /\ SameMaps(phys, phys', pgdir)
      /\ x # None /\ x[2] /\ x[1] \in Pages /\ phys'.mem[x[1]] = Garbage(x[1])
      /\ \A p \in Pages \ {x[1]} : phys'.mem[p] = phys.mem[p]
  BY UserWriteLemma
<1>2. phys \in Memory /\ pgdir \in Dirs /\ phys' \in Memory
  BY <1>1 DEF IInv, Sound, Good
<1>3. Live = Having(pgdir) /\ Space = SpaceIn(phys, pgdir) /\ Content = ContentIn(phys, pgdir)
      /\ Space' = SpaceIn(phys', pgdir') /\ Content' = ContentIn(phys', pgdir')
  BY SameSets, AbstractionLemma
<1>4. Space[e] # Unborn /\ Space[e][va] = x
  BY <1>1, <1>2, <1>3, SeenLemma
<1> HIDE DEF x
<1>5. Garbage(x[1]) # Cleared
  <2>1. Garbage(x[1])[0] = <<x[1], TRUE>> /\ Cleared[0] = None /\ <<x[1], TRUE>> # None
    BY <1>1, EntryLemma DEF Garbage
  <2>2. QED  BY <2>1
<1>6. ASSUME NEW q \in Pages, Mapped(phys', pgdir, q)  PROVE c[q] = Reads(phys', q)
  <2>1. Mapped(phys, pgdir, q)
    BY <1>1, <1>6 DEF Mapped, SameMaps
  <2>2. CASE q = x[1]
    BY <1>1, <1>5, <2>2 DEF Reads, Content
  <2>3. CASE q # x[1]
    <3>1. c[q] = ContentIn(phys, pgdir)[q]
      BY <1>3, <2>3 DEF Content
    <3>2. phys'.mem[q] = phys.mem[q]
      BY <1>1, <2>3
    <3>3. QED  BY <2>1, <3>1, <3>2 DEF ContentIn, Reads
  <2>4. QED  BY <2>2, <2>3
<1>7. Space' = Space
  BY <1>1, <1>3 DEF SpaceIn, SameMaps
<1> HIDE DEF c
<1>8. Content' = AS!Reading(Space, c)
  <2>1. ContentIn(phys', pgdir) = AS!Reading(SpaceIn(phys', pgdir), c)
    BY <1>2, <1>6, ReadingLemma
  <2>2. QED  BY <1>1, <1>3, <1>7, <2>1
<1>9. QED  BY <1>1, <1>4, <1>7, <1>8 DEF AS!Write, AS!Live, AS!Become, Space, Content, c

LEMMA InitMaps == Init => AS!Init
<1> SUFFICES ASSUME Init  PROVE AS!Init
  OBVIOUS
<1>1. Having(pgdir) = {}
  BY DEF Init, Having
<1>2. SpaceIn(phys, pgdir) = [e \in Envs |-> Unborn]
  BY <1>1 DEF SpaceIn
<1>3. ContentIn(phys, pgdir) = [p \in Pages |-> "none"]
  BY <1>1 DEF ContentIn, Mapped
<1>4. QED  BY <1>2, <1>3, AbstractionLemma DEF AS!Init, Space, Content

LEMMA StepMaps == IInv /\ IInv' /\ [Next]_vars => [AS!Next]_AS!avars
<1> SUFFICES ASSUME IInv, IInv', [Next]_vars  PROVE AS!Next \/ UNCHANGED AS!avars
  OBVIOUS
<1>1. CASE UNCHANGED vars
  BY <1>1, AbstractionLemma DEF vars, AS!avars, Space, Content
<1>2. ASSUME NEW e \in Envs, EnvSetupVm(e)  PROVE AS!Next
  BY <1>2, CreateLemma DEF AS!Next
<1>3. ASSUME NEW e \in Envs, EnvFree(e)  PROVE AS!Next
  BY <1>3, DestroyLemma DEF AS!Next
<1>4. ASSUME NEW e \in Envs, NEW va \in VA, SysPageUnmap(e, va)  PROVE AS!Next
  BY <1>4, UnmapStep DEF AS!Next
<1>5. ASSUME NEW e \in Envs, NEW va \in VA, UserWrite(e, va)  PROVE AS!Next
  BY <1>5, WriteStep DEF AS!Next
<1>6. ASSUME NEW e \in Envs, NEW va \in VA, NEW w \in BOOLEAN, SysPageAlloc(e, va, w)
      PROVE  AS!Next \/ UNCHANGED AS!avars
  BY <1>6, AllocStep DEF AS!Next
<1>7. ASSUME NEW e \in Envs, NEW va \in VA, NEW d \in Envs, NEW dva \in VA, NEW w \in BOOLEAN,
             SysPageMap(e, va, d, dva, w)
      PROVE  AS!Next \/ UNCHANGED AS!avars
  <2>1. e \in Live /\ d \in Live /\ MapPage(e, va, d, dva, w) /\ pgdir' = pgdir
    BY <1>7 DEF SysPageMap
  <2>2. AS!Share(e, va, d, dva, w) \/ UNCHANGED AS!avars
    BY <2>1, ShareStep
  <2>3. QED  BY <2>2 DEF AS!Next
<1>8. ASSUME NEW e \in Envs, NEW va \in VA, NEW d \in Envs, NEW dva \in VA, NEW w \in BOOLEAN,
             SysIpcTrySendPage(e, va, d, dva, w)
      PROVE  AS!Next \/ UNCHANGED AS!avars
  <2>1. e \in Live /\ d \in Live /\ pgdir' = pgdir
    BY <1>8 DEF SysIpcTrySendPage
  <2>2. CASE MapPage(e, va, d, dva, w)
    <3>1. AS!Share(e, va, d, dva, w) \/ UNCHANGED AS!avars
      BY <2>1, <2>2, ShareStep
    <3>2. QED  BY <3>1 DEF AS!Next
  <2>3. CASE phys' = Walk(phys, pgdir[e], va)
    <3>1. e \in Having(pgdir) /\ Good(phys, pgdir, NoPage, NoPage) /\ phys' \in Memory
      BY <2>1 DEF IInv, Sound, Good, Live, Having
    <3> DEFINE n == Walk(phys, pgdir[e], va)
    <3>2. SameMaps(phys, n, pgdir) /\ KeepsData(phys, n, pgdir, NoPage)
      BY <3>1, WalkLemma
    <3> HIDE DEF n
    <3>3. SameMaps(phys, phys', pgdir) /\ KeepsData(phys, phys', pgdir, NoPage)
      BY <2>3, <3>2 DEF n
    <3>4. QED  BY <2>1, <3>1, <3>3, NothingLemma
  <2>4. QED  BY <1>8, <2>2, <2>3 DEF SysIpcTrySendPage
<1>9. QED  BY <1>1, <1>2, <1>3, <1>4, <1>5, <1>6, <1>7, <1>8 DEF Next

(* Programs see address spaces: what is mapped where changes only by their   *)
(* calls, what a page reads only by a write through a writable mapping, and  *)
(* a new page reads as zeroes.                                              *)
THEOREM ImplementsAddrSpaces == Spec /\ []NoWrap => AddrSpacesSpec
<1>1. QED  BY InitMaps, StepMaps, Invariance, PTL DEF Spec, AddrSpacesSpec, AS!Spec
=============================================================================
