--------------------------- MODULE EnvTableProofs ---------------------------
(***************************************************************************)
(* Lemmas about the environment table: what env_alloc and env_free do to   *)
(* the free list of kern/env.c, for any number of slots.                   *)
(***************************************************************************)
EXTENDS EnvTable, TLAPS

(* env_alloc takes a slot that was FREE, and leaves the free list exact.    *)
LEMMA EnvAllocLemma ==
    ASSUME EnvTypeOK, FreeListExact,
           NEW p \in EnvId, NEW st \in Status \ {"FREE"}, EnvAlloc(p, st)
    PROVE  /\ EnvTypeOK' /\ FreeListExact'
           /\ \E e \in Slots :
                /\ status[e] = "FREE"
                /\ status' = [status EXCEPT ![e] = st]
                /\ recving' = [recving EXCEPT ![e] = FALSE]
                /\ ran' = [ran EXCEPT ![e] = FALSE]
<1> USE NENVAssumption, MaxGenAssumption DEF EnvTypeOK
<1> DEFINE e == Head(freeList)
<1>1. /\ Len(freeList) \in Nat \ {0}
      /\ e = freeList[1]
      /\ e \in Slots
  BY DEF EnvAlloc
<1>2. /\ Len(freeList') = Len(freeList) - 1
      /\ \A i \in 1 .. Len(freeList') : freeList'[i] = freeList[i + 1]
      /\ freeList' \in Seq(Slots)
  BY <1>1 DEF EnvAlloc
<1>3. status[e] = "FREE"
  BY <1>1 DEF FreeListExact
<1>4. EnvTypeOK'
  <2>1. NextGen(gen[e]) \in 0 .. MaxGen
    BY <1>1 DEF NextGen
  <2>2. QED
    BY <1>1, <1>2, <2>1 DEF EnvAlloc, Status
<1>5. FreeListExact'
  <2>1. \A i, j \in 1 .. Len(freeList') : freeList'[i] = freeList'[j] => i = j
    <3> SUFFICES ASSUME NEW i \in 1 .. Len(freeList'), NEW j \in 1 .. Len(freeList'),
                        freeList'[i] = freeList'[j]
                 PROVE  i = j
      OBVIOUS
    <3>1. freeList[i + 1] = freeList[j + 1]
      BY <1>2
    <3>2. i + 1 \in 1 .. Len(freeList) /\ j + 1 \in 1 .. Len(freeList)
      BY <1>1, <1>2
    <3>3. i + 1 = j + 1
      BY <3>1, <3>2 DEF FreeListExact
    <3>4. QED  BY <3>3
  <2>2. ASSUME NEW s \in Slots
        PROVE  status'[s] = "FREE" <=> \E i \in 1 .. Len(freeList') : freeList'[i] = s
    <3>1. CASE s = e
      BY <3>1, <1>1, <1>2 DEF FreeListExact, EnvAlloc
    <3>2. CASE s # e
      <4>1. status'[s] = status[s]
        BY <3>2, <1>1 DEF EnvAlloc
      <4>2. ASSUME NEW i \in 1 .. Len(freeList), freeList[i] = s
            PROVE  i - 1 \in 1 .. Len(freeList') /\ freeList'[i - 1] = s
        BY <4>2, <3>2, <1>1, <1>2, SMTT(30)
      <4>3. ASSUME NEW i \in 1 .. Len(freeList'), freeList'[i] = s
            PROVE  i + 1 \in 1 .. Len(freeList) /\ freeList[i + 1] = s
        BY <4>3, <1>1, <1>2, SMTT(30)
      <4>4. QED  BY <4>1, <4>2, <4>3 DEF FreeListExact
    <3>3. QED  BY <3>1, <3>2
  <2>3. QED  BY <2>1, <2>2 DEF FreeListExact
<1>6. QED
  BY <1>1, <1>3, <1>4, <1>5 DEF EnvAlloc

(* env_free of an allocated slot leaves the free list exact.                *)
LEMMA EnvFreeLemma ==
    ASSUME EnvTypeOK, FreeListExact, NEW e \in Slots, status[e] # "FREE", EnvFree(e)
    PROVE  EnvTypeOK' /\ FreeListExact'
<1> USE DEF EnvTypeOK
<1>1. /\ Len(freeList') = Len(freeList) + 1
      /\ freeList'[1] = e
      /\ \A i \in 1 .. Len(freeList) : freeList'[i + 1] = freeList[i]
      /\ freeList' \in Seq(Slots)
      /\ Len(freeList) \in Nat
  BY DEF EnvFree
<1>2. EnvTypeOK'
  BY <1>1 DEF EnvFree, Status
<1>3. \A i \in 1 .. Len(freeList) : freeList[i] # e
  BY DEF FreeListExact
<1>4. \A i, j \in 1 .. Len(freeList') : freeList'[i] = freeList'[j] => i = j
  <2> SUFFICES ASSUME NEW i \in 1 .. Len(freeList'), NEW j \in 1 .. Len(freeList'),
                      freeList'[i] = freeList'[j]
               PROVE  i = j
    OBVIOUS
  <2>1. ASSUME NEW k \in 1 .. Len(freeList'), k # 1
        PROVE  \E m \in 1 .. Len(freeList) : k = m + 1 /\ freeList'[k] = freeList[m]
    <3>1. k - 1 \in 1 .. Len(freeList) /\ (k - 1) + 1 = k
      BY <2>1, <1>1
    <3>2. QED  BY <3>1, <1>1
  <2>2. CASE i = 1 \/ j = 1
    BY <2>1, <2>2, <1>1, <1>3, ZenonT(60)
  <2>3. CASE i # 1 /\ j # 1
    <3>1. PICK m \in 1 .. Len(freeList) : i = m + 1 /\ freeList'[i] = freeList[m]
      BY <2>1, <2>3
    <3>2. PICK n \in 1 .. Len(freeList) : j = n + 1 /\ freeList'[j] = freeList[n]
      BY <2>1, <2>3
    <3>3. m = n
      BY <3>1, <3>2 DEF FreeListExact
    <3>4. QED  BY <3>1, <3>2, <3>3
  <2>4. QED  BY <2>2, <2>3
<1>5. ASSUME NEW s \in Slots
      PROVE  status'[s] = "FREE" <=> \E i \in 1 .. Len(freeList') : freeList'[i] = s
  <2>1. CASE s = e
    <3>1. 1 \in 1 .. Len(freeList') /\ status'[e] = "FREE"
      BY <1>1 DEF EnvFree
    <3>2. QED  BY <3>1, <2>1, <1>1
  <2>2. CASE s # e
    <3>1. status'[s] = status[s]
      BY <2>2 DEF EnvFree
    <3>2. ASSUME NEW i \in 1 .. Len(freeList'), freeList'[i] = s
          PROVE  i - 1 \in 1 .. Len(freeList) /\ freeList[i - 1] = s
      BY <3>2, <2>2, <1>1, SMTT(30)
    <3>3. ASSUME NEW i \in 1 .. Len(freeList), freeList[i] = s
          PROVE  i + 1 \in 1 .. Len(freeList') /\ freeList'[i + 1] = s
      BY <3>3, <1>1
    <3>4. QED  BY <3>1, <3>2, <3>3 DEF FreeListExact
  <2>3. QED  BY <2>1, <2>2
<1>6. QED
  BY <1>2, <1>4, <1>5 DEF FreeListExact
=============================================================================
