-------------------------- MODULE FileServerProofs ---------------------------
(***************************************************************************)
(* Proofs about FileServer for any number of programs, entries and files:  *)
(* a file stays with the programs that have it open, the server works for  *)
(* the program that waits, and the programs see the open files of          *)
(* OpenFiles.                                                              *)
(***************************************************************************)
EXTENDS FileServer, FiniteSetTheorems, TLAPS

Filled(i) ==
    /\ page[i] # None /\ page[i].id = opentab[i].fileid
    /\ opentab[i].file # None /\ size[opentab[i].file] # Absent
Unheld(i) == \A c \in Clients, k \in Slots : fd[c][k] # i

\* What the server knows at each place: an entry it has claimed is nobody's,
\* one it is about to hand out has a file.
ServerInv ==
    /\ srv.pc = "recv" => srv.whom = None
    /\ srv.pc # "recv" => fsreq \in Request
    /\ srv.pc \in {"scan", "claim"} => fsreq.op = "open" /\ fsreq.file \in Files
    /\ srv.pc \in {"work", "move"} => fsreq.op # "open"
    /\ srv.pc = "claim" => srv.i \in Entries /\ page[srv.i] # None /\ Unheld(srv.i)
    /\ srv.pc = "reply" /\ fsreq.op = "open" /\ srv.r = 0 => srv.i \in Entries /\ Filled(srv.i)
    /\ srv.pc = "move" =>
          page[At] # None /\ page[At].offset <= Capacity /\ srv.r \in 1 .. Capacity

\* The inductive invariant.
IInv == TypeOK /\ Attended /\ EntryHeld /\ ServerInv

-----------------------------------------------------------------------------
(* Arithmetic of the numbers of entries.                                    *)
LEMMA ModLemma ==
    ASSUME NEW m \in Nat \ {0}, NEW q \in Int, NEW i \in 0 .. m - 1
    PROVE  (m * q + i) % m = i
  BY Z3

LEMMA DivLemma ==
    ASSUME NEW m \in Nat \ {0}, NEW x \in Int
    PROVE  \E q \in Int : \E i \in 0 .. m - 1 : x = m * q + i /\ x % m = i
  BY Z3

LEMMA SmallMod ==
    ASSUME NEW m \in Nat \ {0}, NEW x \in 0 .. 2 * m - 1
    PROVE  x % m = IF x < m THEN x ELSE x - m
  BY Z3

LEMMA CountsLemma ==
    /\ MAXOPEN \in Nat \ {0} /\ MAXFD \in Nat \ {0} /\ Generations \in Nat \ {0}
    /\ Capacity \in Nat \ {0}
    /\ MAXOPEN * Generations \in Nat \ {0} /\ MAXOPEN * Generations >= MAXOPEN
    /\ (MAXOPEN * Generations) % MAXOPEN = 0
<1>1. /\ MAXOPEN \in Nat \ {0} /\ MAXFD \in Nat \ {0} /\ Generations \in Nat \ {0}
      /\ Capacity \in Nat \ {0}
  BY CountsAssumption
<1>2. ASSUME NEW m \in Nat \ {0}, NEW g \in Nat \ {0}
      PROVE  m * g \in Nat \ {0} /\ m * g >= m /\ (m * g) % m = 0
  BY Z3
<1>3. QED  BY <1>1, <1>2

(* The next number, after the last again the first, leads to the same entry.*)
LEMMA NextIdLemma ==
    ASSUME NEW id \in Ids
    PROVE  NextId(id) \in Ids /\ NextId(id) % MAXOPEN = id % MAXOPEN
<1>1. PICK m \in Nat \ {0}, g \in Nat \ {0}, t \in Nat \ {0} :
        m = MAXOPEN /\ g = Generations /\ t = m * g /\ t >= m
  BY CountsLemma
<1>2. PICK x \in Int, y \in Int :
        x \in 0 .. t - 1 /\ x = id /\ y = NextId(id) /\ y = (x + m) % t
  <2>1. id \in 0 .. t - 1 /\ NextId(id) = (id + m) % t
    BY <1>1 DEF NextId, Ids
  <2>2. (id + m) % t \in Int
    BY <2>1
  <2>3. QED  BY <2>1, <2>2
<1>3. y = IF x + m < t THEN x + m ELSE x + m - t
  <2>1. PICK z \in 0 .. 2 * t - 1 : z = x + m
    BY <1>1, <1>2
  <2>2. z % t = IF z < t THEN z ELSE z - t
    BY SmallMod
  <2>3. QED  BY <1>2, <2>1, <2>2
<1>4. y \in 0 .. t - 1
  BY <1>1, <1>2, <1>3
<1>5. PICK q \in Int, i \in 0 .. m - 1 : x = m * q + i /\ x % m = i
  BY DivLemma
<1>6. PICK n \in Int : n = IF x + m < t THEN q + 1 ELSE q + 1 - g
  <2>1. CASE x + m < t
    BY <2>1
  <2>2. CASE ~ (x + m < t)
    BY <2>2
  <2>3. QED  BY <2>1, <2>2
<1>7. y = m * n + i
  <2>1. CASE x + m < t
    BY <1>3, <1>5, <1>6, <2>1, Z3
  <2>2. CASE ~ (x + m < t)
    BY <1>1, <1>3, <1>5, <1>6, <2>2, Z3
  <2>3. QED  BY <2>1, <2>2
<1>8. (m * n + i) % m = i
  BY ModLemma
<1>9. y % m = x % m
  BY <1>5, <1>7, <1>8
<1>10. QED
  <2>1. Ids = 0 .. t - 1
    BY <1>1 DEF Ids
  <2>2. QED  BY <1>1, <1>2, <1>4, <1>9, <2>1

LEMMA AtLemma ==
    ASSUME fsreq \in Request
    PROVE  At \in Entries
<1>1. fsreq.id \in Int
  BY CountsLemma DEF Request, Ids
<1>2. QED  BY <1>1, CountsLemma, DivLemma DEF At, Entries

-----------------------------------------------------------------------------
(* What the reference counts tell.                                          *)
LEMMA HoldersFinite ==
    ASSUME NEW i
    PROVE  IsFiniteSet(Holders(i)) /\ Cardinality(Holders(i)) \in Nat
<1>1. IsFiniteSet(Slots)
  BY CountsLemma, FS_Interval DEF Slots
<1>2. IsFiniteSet(Clients \X Slots)
  BY <1>1, ClientsAssumption, FS_Product
<1>3. QED  BY <1>2, FS_Subset, FS_CardinalityType DEF Holders

(* A count of more than one means that a program has the file open.         *)
LEMMA LookupLemma ==
    ASSUME NEW i, Refs(i) > 1
    PROVE  \E c \in Clients, k \in Slots : fd[c][k] = i
<1>1. Cardinality(Holders(i)) # 0
  BY HoldersFinite DEF Refs
<1>2. Holders(i) # {}
  BY <1>1, FS_EmptySet
<1>3. QED  BY <1>2 DEF Holders

(* A count of one or less, that nobody has.                                 *)
LEMMA FreeLemma ==
    ASSUME EntryHeld, NEW i, i # None, Free(i)
    PROVE  Unheld(i)
<1>1. CASE page[i] = None
  BY <1>1 DEF EntryHeld, Unheld
<1>2. CASE page[i] # None
  <2>1. Cardinality(Holders(i)) = 0
    BY <1>2, HoldersFinite DEF Free, Refs
  <2>2. Holders(i) = {}
    BY <2>1, HoldersFinite, FS_EmptySet
  <2>3. QED
    <3>1. SUFFICES ASSUME NEW c \in Clients, NEW k \in Slots, fd[c][k] = i  PROVE FALSE
      BY DEF Unheld
    <3>2. <<c, k>> \in Holders(i)
      BY <3>1 DEF Holders
    <3>3. QED  BY <2>2, <3>2
<1>3. QED  BY <1>1, <1>2

-----------------------------------------------------------------------------
ServerType == [up : BOOLEAN, pc : {"recv", "scan", "claim", "work", "move", "reply"},
               whom : Clients \cup {None}, i : 0 .. MAXOPEN, r : Values]

\* The server as it begins to work for w, or waits.
Beginning == {"recv", "scan", "work"}
LEMMA BeginLemma ==
    ASSUME NEW l \in Beginning, NEW w \in Clients \cup {None}
    PROVE  [up |-> TRUE, pc |-> l, whom |-> w, i |-> 0, r |-> 0] \in ServerType
<1>1. 0 \in Values /\ 0 \in 0 .. MAXOPEN
  BY CountsLemma DEF Values, Inval
<1>2. QED  BY <1>1 DEF Beginning, ServerType

(* At first no file is open.                                                *)
LEMMA InitLemma == Init => IInv
<1> SUFFICES ASSUME Init  PROVE IInv
  OBVIOUS
<1> USE DEF Init, Closed, NoCall, Receiving
<1>1. \A i \in Entries : i \in Ids /\ i % MAXOPEN = i
  <2>1. ASSUME NEW i \in Entries  PROVE i \in Ids /\ i % MAXOPEN = i
    <3>1. i \in 0 .. MAXOPEN - 1 /\ i \in 0 .. 2 * MAXOPEN - 1
      BY CountsLemma DEF Entries
    <3>2. i % MAXOPEN = i
      BY <3>1, CountsLemma, SmallMod
    <3>3. i \in Ids
      BY <3>1, CountsLemma DEF Ids
    <3>4. QED  BY <3>2, <3>3
  <2>2. QED  BY <2>1
<1>2. TypeOK
  <2>1. \A i \in Entries : [fileid |-> i, file |-> None] \in [fileid : Ids, file : Files \cup {None}]
    BY <1>1
  <2>2. srv \in ServerType
    BY BeginLemma DEF Beginning
  <2>3. QED  BY <1>1, <2>1, <2>2, CountsLemma DEF TypeOK, ServerType
<1>3. Attended /\ EntryHeld /\ ServerInv
  BY DEF Attended, EntryHeld, ServerInv
<1>4. QED  BY <1>2, <1>3 DEF IInv

-----------------------------------------------------------------------------
(* The programs.                                                            *)
LEMMA CallLemma ==
    ASSUME IInv, NEW c \in Clients, NEW request \in Request, Call(c, request),
           request.op = "open" => request.file \in Files
    PROVE  IInv'
<1> USE DEF IInv, Call, Runs
<1>1. srv' = [up |-> TRUE, pc |-> IF request.op = "open" THEN "scan" ELSE "work", whom |-> c,
              i |-> 0, r |-> 0]
  BY DEF Receiving
<1>2. TypeOK'
  <2>1. srv' \in ServerType
    <3>1. PICK l \in Beginning : l = IF request.op = "open" THEN "scan" ELSE "work"
      BY DEF Beginning
    <3>2. srv' = [up |-> TRUE, pc |-> l, whom |-> c, i |-> 0, r |-> 0]
      BY <1>1, <3>1
    <3>3. [up |-> TRUE, pc |-> l, whom |-> c, i |-> 0, r |-> 0] \in ServerType
      BY BeginLemma
    <3>4. QED  BY ONLY <3>2, <3>3
  <2>2. QED  BY <2>1 DEF TypeOK, ServerType
<1>3. Attended'
  BY <1>1, NoneAssumption DEF Attended, ServerInv, TypeOK
<1>4. EntryHeld'
  BY DEF EntryHeld
<1>5. ServerInv'
  BY <1>1 DEF ServerInv
<1>6. QED  BY <1>2, <1>3, <1>4, <1>5

(* open and the calls of struct Dev make requests; close and fcntl go through them.*)
LEMMA OpenLemma ==
    ASSUME IInv, NEW c \in Clients, Open(c)
    PROVE  IInv'
<1>1. PICK k \in Slots, f \in Files, m \in Modes :
        Call(c, [op |-> "open", num |-> k, id |-> 0, file |-> f, mode |-> m, n |-> 0])
  BY DEF Open
<1>2. 0 \in Ids /\ 0 \in 0 .. Capacity
  BY CountsLemma DEF Ids
<1>3. [op |-> "open", num |-> k, id |-> 0, file |-> f, mode |-> m, n |-> 0] \in Request
  BY <1>2 DEF Request, Ops
<1>4. QED  BY <1>1, <1>3, CallLemma

LEMMA DevfileLemma ==
    ASSUME IInv, NEW c \in Clients, Devfile(c)
    PROVE  IInv'
<1>1. PICK k \in Slots, op \in Ops \ {"open"}, n \in 0 .. Capacity :
        /\ fd[c][k] # None
        /\ Call(c, [op |-> op, num |-> k, id |-> page[fd[c][k]].id, file |-> None,
                    mode |-> {}, n |-> n])
  BY DEF Devfile
<1>2. page[fd[c][k]].id \in Ids
  BY <1>1 DEF IInv, TypeOK, EntryHeld, FdPage
<1>3. [op |-> op, num |-> k, id |-> page[fd[c][k]].id, file |-> None, mode |-> {}, n |-> n] \in Request
  BY <1>2 DEF Request
<1>4. QED  BY <1>1, <1>3, CallLemma

(* A step that leaves the server alone and gives nobody an entry that       *)
(* nobody had.                                                              *)
LEMMA ClientStepLemma ==
    ASSUME IInv, UNCHANGED serverVars,
           fd' \in [Clients -> [Slots -> Entries \cup {None}]],
           pc' \in [Clients -> {"dead", "idle", "sent", "wait", "unmap"}],
           call' \in [Clients -> Request \cup {NoCall}],
           \A c \in Clients : pc'[c] \in {"sent", "wait"} =>
              pc[c] \in {"sent", "wait"} /\ call'[c] = call[c],
           \A c \in Clients, k \in Slots : fd'[c][k] # None =>
              \E d \in Clients, j \in Slots : fd[d][j] = fd'[c][k]
    PROVE  IInv'
<1> USE DEF IInv, serverVars
<1>1. TypeOK'
  BY DEF TypeOK
<1>2. Attended'
  BY DEF Attended
<1>3. EntryHeld'
  BY DEF EntryHeld
<1>4. ServerInv'
  <2>1. srv.pc = "claim" => srv.i # None
    BY NoneAssumption DEF ServerInv
  <2>2. srv.pc = "claim" => Unheld(srv.i)'
    BY <2>1 DEF ServerInv, Unheld
  <2>3. \A i : Filled(i)' = Filled(i)
    BY DEF Filled
  <2>4. At' = At
    BY DEF At
  <2>5. QED  BY <2>2, <2>3, <2>4 DEF ServerInv
<1>5. QED  BY <1>1, <1>2, <1>3, <1>4

LEMMA SeekLemma ==
    ASSUME IInv, NEW c \in Clients, Seek(c)
    PROVE  IInv'
<1>1. PICK k \in Slots, o \in Seeks :
        /\ fd[c][k] # None
        /\ page' = [page EXCEPT ![fd[c][k]].offset = o]
  BY DEF Seek
<1>2. PICK i \in Entries : i = fd[c][k] /\ page[i] # None
  BY <1>1 DEF IInv, TypeOK, EntryHeld
<1>3. page[i] \in FdPage /\ page' = [page EXCEPT ![i] = [page[i] EXCEPT !.offset = o]]
  BY <1>1, <1>2 DEF IInv, TypeOK
<1>4. [page[i] EXCEPT !.offset = o] \in FdPage /\ o \in 0 .. Capacity
  BY <1>3, CountsLemma, SeeksAssumption DEF FdPage
<1>5. UNCHANGED <<fd, pc, call, opentab, size, srv, fsreq>>
  BY DEF Seek, clientVars
<1> USE <1>5
<1>6. /\ page' \in [Entries -> {None} \cup FdPage]
      /\ \A j \in Entries : (page'[j] = None) = (page[j] = None)
      /\ \A j \in Entries : page[j] # None => page'[j].id = page[j].id
      /\ \A j \in Entries : j # i => page'[j] = page[j]
      /\ page'[i].offset = o
  BY <1>3, <1>4, NoneAssumption DEF IInv, TypeOK, FdPage
<1> HIDE <1>5
<1>7. TypeOK'
  BY <1>5, <1>6 DEF IInv, TypeOK
<1>8. Attended'
  BY <1>5 DEF IInv, Attended
<1>9. EntryHeld'
  BY <1>5, <1>6 DEF IInv, EntryHeld, TypeOK
<1>10. ServerInv'
  <2>1. \A j \in Entries : Filled(j) => Filled(j)'
    BY <1>5, <1>6 DEF Filled
  <2>2. \A j : Unheld(j)' = Unheld(j)
    BY <1>5 DEF Unheld
  <2>3. srv.pc = "move" => At' = At /\ At \in Entries
    BY <1>5, AtLemma DEF At, IInv, ServerInv
  <2>4. srv.pc = "move" => page'[At] # None /\ page'[At].offset <= Capacity
    BY <1>4, <1>6, <2>3, CountsLemma DEF IInv, ServerInv
  <2>5. QED  BY <1>5, <1>6, <2>1, <2>2, <2>3, <2>4 DEF IInv, ServerInv
<1>11. QED  BY <1>7, <1>8, <1>9, <1>10 DEF IInv

LEMMA IpcRecvLemma ==
    ASSUME IInv, NEW c \in Clients, IpcRecv(c)
    PROVE  IInv'
  BY ClientStepLemma DEF IpcRecv, Runs, IInv, TypeOK

LEMMA CloseUnmapLemma ==
    ASSUME IInv, NEW c \in Clients, CloseUnmap(c)
    PROVE  IInv'
<1>1. fd' \in [Clients -> [Slots -> Entries \cup {None}]]
  BY DEF CloseUnmap, IInv, TypeOK
<1>2. \A d \in Clients, k \in Slots : fd'[d][k] # None => fd[d][k] = fd'[d][k]
  BY DEF CloseUnmap, IInv, TypeOK
<1>3. /\ pc' \in [Clients -> {"dead", "idle", "sent", "wait", "unmap"}]
      /\ call' \in [Clients -> Request \cup {NoCall}]
      /\ \A d \in Clients : pc'[d] \in {"sent", "wait"} => pc[d] \in {"sent", "wait"} /\ call'[d] = call[d]
  BY DEF CloseUnmap, IInv, TypeOK
<1>4. UNCHANGED serverVars
  BY DEF CloseUnmap
<1>5. QED  BY <1>1, <1>2, <1>3, <1>4, ClientStepLemma

LEMMA ForkLemma ==
    ASSUME IInv, NEW c \in Clients, NEW d \in Clients, Fork(c, d)
    PROVE  IInv'
<1>1. fd' \in [Clients -> [Slots -> Entries \cup {None}]]
  BY DEF Fork, IInv, TypeOK
<1>2. \A x \in Clients, k \in Slots : \E y \in Clients : fd[y][k] = fd'[x][k]
  BY DEF Fork, IInv, TypeOK
<1>3. /\ pc' \in [Clients -> {"dead", "idle", "sent", "wait", "unmap"}]
      /\ call' = call
      /\ \A x \in Clients : pc'[x] \in {"sent", "wait"} => pc[x] \in {"sent", "wait"}
  BY DEF Fork, IInv, TypeOK
<1>4. UNCHANGED serverVars /\ call \in [Clients -> Request \cup {NoCall}]
  BY DEF Fork, IInv, TypeOK
<1>5. QED  BY <1>1, <1>2, <1>3, <1>4, ClientStepLemma

(* A program that dies is no longer the one the server works for.           *)
LEMMA DestroyLemma ==
    ASSUME IInv, NEW c \in Clients, Destroy(c)
    PROVE  IInv'
<1>1. /\ fd' \in [Clients -> [Slots -> Entries \cup {None}]]
      /\ pc' \in [Clients -> {"dead", "idle", "sent", "wait", "unmap"}]
      /\ call' \in [Clients -> Request \cup {NoCall}]
  BY DEF Destroy, Closed, NoCall, IInv, TypeOK
<1>2. \A d \in Clients, k \in Slots : fd'[d][k] # None => fd[d][k] = fd'[d][k]
  BY DEF Destroy, Closed, IInv, TypeOK
<1>3. /\ srv' \in ServerType
      /\ srv'.pc = srv.pc /\ srv'.i = srv.i /\ srv'.r = srv.r
      /\ srv'.whom = IF srv.whom = c THEN None ELSE srv.whom
  BY DEF Destroy, IInv, TypeOK, ServerType
<1>4. UNCHANGED <<opentab, page, size, fsreq>>
  BY DEF Destroy
<1>5. TypeOK'
  BY <1>1, <1>3, <1>4 DEF IInv, TypeOK, ServerType
<1>6. Attended'
  BY <1>3, <1>4 DEF Destroy, IInv, Attended, TypeOK
<1>7. EntryHeld'
  BY <1>2, <1>4 DEF IInv, EntryHeld
<1>8. ServerInv'
  <2>1. srv.pc = "claim" => Unheld(srv.i)'
    BY <1>2, <1>3, NoneAssumption DEF IInv, ServerInv, Unheld
  <2>2. \A i : Filled(i)' = Filled(i)
    BY <1>4 DEF Filled
  <2>3. At' = At
    BY <1>4 DEF At
  <2>4. QED  BY <1>3, <1>4, <2>1, <2>2, <2>3 DEF IInv, ServerInv
<1>9. QED  BY <1>5, <1>6, <1>7, <1>8 DEF IInv

-----------------------------------------------------------------------------
(* The server.  A step of its own leaves the programs alone, and works on   *)
(* one request.                                                             *)
LEMMA AttendedLemma ==
    ASSUME Attended, UNCHANGED <<pc, call, fsreq>>, srv'.whom = srv.whom
    PROVE  Attended'
  BY DEF Attended

(* The lines the server can move along.                                     *)
LEMMA GotoLemma ==
    ASSUME IInv, NEW l \in {"recv", "scan", "claim", "work", "move", "reply"}, Goto(l)
    PROVE  srv' \in ServerType /\ srv'.pc = l /\ srv'.up = srv.up
           /\ srv'.whom = srv.whom /\ srv'.i = srv.i /\ srv'.r = srv.r
  BY DEF Goto, IInv, TypeOK, ServerType

LEMMA AnswerLemma ==
    ASSUME IInv, NEW r \in Values, Answer(r)
    PROVE  srv' \in ServerType /\ srv'.pc = "reply" /\ srv'.up = srv.up
           /\ srv'.whom = srv.whom /\ srv'.i = srv.i /\ srv'.r = r
<1>1. srv = [up |-> srv.up, pc |-> srv.pc, whom |-> srv.whom, i |-> srv.i, r |-> srv.r]
      /\ srv.up \in BOOLEAN /\ srv.whom \in Clients \cup {None} /\ srv.i \in 0 .. MAXOPEN
  BY DEF IInv, TypeOK
<1>2. srv' = [up |-> srv.up, pc |-> "reply", whom |-> srv.whom, i |-> srv.i, r |-> r]
  BY <1>1 DEF Answer
<1>3. QED  BY <1>1, <1>2 DEF ServerType

LEMMA ValuesLemma ==
    /\ Error \in Values /\ Inval \in Values /\ 0 \in Values
    /\ \A x \in 0 .. 3 * Capacity : x \in Values
  BY CountsLemma DEF Values, Error, Inval

LEMMA PanicLemma ==
    ASSUME IInv, Panic, UNCHANGED <<clientVars, opentab, page, size, fsreq>>
    PROVE  IInv'
<1>1. srv' \in ServerType /\ srv'.pc = srv.pc /\ srv'.whom = srv.whom
      /\ srv'.i = srv.i /\ srv'.r = srv.r
  BY DEF Panic, IInv, TypeOK, ServerType
<1>2. TypeOK'
  BY <1>1 DEF IInv, TypeOK, clientVars, ServerType
<1>3. Attended' /\ EntryHeld'
  BY <1>1, AttendedLemma DEF IInv, EntryHeld, clientVars
<1>4. ServerInv'
  <2>1. \A i : Filled(i)' = Filled(i) /\ Unheld(i)' = Unheld(i)
    BY DEF Filled, Unheld, clientVars
  <2>2. At' = At
    BY DEF At
  <2>3. QED  BY <1>1, <2>1, <2>2 DEF IInv, ServerInv
<1>5. QED  BY <1>2, <1>3, <1>4 DEF IInv

(* An answer that opens nothing needs no more than the types.               *)
LEMMA RefusalLemma ==
    ASSUME IInv, NEW r \in Values, Answer(r), srv.pc # "recv", r # 0 \/ fsreq.op # "open",
           UNCHANGED <<clientVars, opentab, page, size, fsreq>>
    PROVE  IInv'
<1>1. srv' \in ServerType /\ srv'.pc = "reply" /\ srv'.whom = srv.whom
      /\ srv'.i = srv.i /\ srv'.r = r
  BY AnswerLemma
<1>2. TypeOK'
  BY <1>1 DEF IInv, TypeOK, clientVars, ServerType
<1>3. Attended' /\ EntryHeld'
  BY <1>1, AttendedLemma DEF IInv, EntryHeld, clientVars
<1>4. ServerInv'
  BY <1>1 DEF IInv, ServerInv
<1>5. QED  BY <1>2, <1>3, <1>4 DEF IInv

LEMMA ServeInvalidLemma ==
    ASSUME IInv, ServeInvalid
    PROVE  IInv'
  BY RefusalLemma, ValuesLemma DEF ServeInvalid, IInv, ServerInv

(* openfile_alloc finds an entry that nobody has, or goes on.               *)
LEMMA ScanLemma ==
    ASSUME IInv, Scan
    PROVE  IInv'
<1>1. UNCHANGED <<clientVars, opentab, size, fsreq>> /\ srv.pc = "scan"
  BY DEF Scan
<1>2. ASSUME Answer(Error), UNCHANGED page  PROVE IInv'
  <2>1. Error # 0
    BY DEF Error
  <2>2. QED  BY <1>1, <1>2, <2>1, RefusalLemma, ValuesLemma
<1>3. ASSUME srv.i < MAXOPEN, srv' = [srv EXCEPT !.i = @ + 1], UNCHANGED page  PROVE IInv'
  <2>1. srv' \in ServerType /\ srv'.pc = srv.pc /\ srv'.whom = srv.whom
    <3>1. srv.i + 1 \in 0 .. MAXOPEN
      BY <1>3, CountsLemma DEF IInv, TypeOK
    <3>2. QED  BY <1>3, <3>1 DEF IInv, TypeOK, ServerType
  <2>2. TypeOK'
    BY <1>1, <1>3, <2>1 DEF IInv, TypeOK, clientVars, ServerType
  <2>3. Attended' /\ EntryHeld'
    BY <1>1, <1>3, <2>1, AttendedLemma DEF IInv, EntryHeld, clientVars
  <2>4. ServerInv'
    BY <1>1, <1>3, <2>1 DEF IInv, ServerInv
  <2>5. QED  BY <2>2, <2>3, <2>4 DEF IInv
<1>4. ASSUME srv.i < MAXOPEN, Free(srv.i), Goto("claim"), Clear(srv.i)  PROVE IInv'
  <2>1. srv' \in ServerType /\ srv'.pc = "claim" /\ srv'.whom = srv.whom /\ srv'.i = srv.i
    BY <1>4, GotoLemma
  <2>2. srv.i \in Entries /\ srv.i # None
    BY <1>4, CountsLemma, NoneAssumption DEF IInv, TypeOK, Entries
  <2>3. Unheld(srv.i)
    BY <1>4, <2>2, FreeLemma DEF IInv
  <2>4. Blank \in FdPage /\ Blank # None
    BY CountsLemma, NoneAssumption DEF FdPage, Blank, Ids
  <2>5. /\ page' \in [Entries -> {None} \cup FdPage] /\ page'[srv.i] # None
        /\ \A j \in Entries : j # srv.i => page'[j] = page[j]
    BY <1>4, <2>2, <2>4 DEF Clear, IInv, TypeOK
  <2>6. TypeOK'
    BY <1>1, <2>1, <2>5 DEF IInv, TypeOK, clientVars, ServerType
  <2>7. Attended'
    BY <1>1, <2>1, AttendedLemma DEF IInv, clientVars
  <2>8. EntryHeld'
    BY <1>1, <2>3, <2>5 DEF IInv, EntryHeld, TypeOK, Unheld, clientVars
  <2>9. ServerInv'
    BY <1>1, <2>1, <2>2, <2>3, <2>5 DEF IInv, ServerInv, Unheld, clientVars
  <2>10. QED  BY <2>6, <2>7, <2>8, <2>9 DEF IInv
<1>5. QED  BY <1>2, <1>3, <1>4 DEF Scan

(* What opening a file makes of its size.                                   *)
LEMMA OpenedLemma ==
    ASSUME IInv, srv.pc = "claim", NEW z \in Opened(fsreq)
    PROVE  z = Error \/ z \in 0 .. 3 * Capacity
<1>1. fsreq.file \in Files
  BY DEF IInv, ServerInv
<1>2. size[fsreq.file] \in {Absent} \cup 0 .. 3 * Capacity
  BY <1>1 DEF IInv, TypeOK
<1>3. 0 \in 0 .. 3 * Capacity /\ \A x \in 0 .. Capacity : x \in 0 .. 3 * Capacity
  BY CountsLemma
<1>4. QED  BY <1>1, <1>2, <1>3 DEF Opened, Exists

LEMMA ServeOpenLemma ==
    ASSUME IInv, ServeOpen
    PROVE  IInv'
<1>1. PICK i \in {srv.i}, id \in {NextId(opentab[srv.i].fileid)}, z \in Opened(fsreq) :
        /\ opentab' = [opentab EXCEPT ![i] =
               [fileid |-> id, file |-> IF z = Error THEN @.file ELSE fsreq.file]]
        /\ size' = IF z = Error THEN size ELSE [size EXCEPT ![fsreq.file] = z]
        /\ page' = IF z = Error THEN page ELSE [page EXCEPT ![i].id = id]
        /\ Answer(IF z = Error THEN Error ELSE 0)
  BY DEF ServeOpen
<1>2. /\ srv.pc = "claim" /\ srv.i = i /\ i \in Entries /\ page[i] # None /\ Unheld(i)
      /\ fsreq \in Request /\ fsreq.op = "open" /\ fsreq.file \in Files /\ fsreq.file # None
  BY <1>1, NoneAssumption DEF ServeOpen, IInv, ServerInv
<1>3. UNCHANGED <<clientVars, fsreq>>
  BY DEF ServeOpen
<1>4. id \in Ids /\ id % MAXOPEN = i
  <2>1. opentab[i].fileid \in Ids /\ opentab[i].fileid % MAXOPEN = i
    BY <1>2 DEF IInv, TypeOK
  <2>2. QED  BY <1>1, <1>2, <2>1, NextIdLemma
<1>5. PICK r \in Values : /\ r = IF z = Error THEN Error ELSE 0
                          /\ srv' \in ServerType /\ srv'.pc = "reply" /\ srv'.whom = srv.whom
                          /\ srv'.i = i /\ srv'.r = r
  <2>1. PICK r \in Values : r = IF z = Error THEN Error ELSE 0
    BY ValuesLemma
  <2>2. Answer(r)
    BY <1>1, <2>1
  <2>3. QED  BY <1>2, <2>1, <2>2, AnswerLemma
<1>6. /\ opentab' \in [Entries -> [fileid : Ids, file : Files \cup {None}]]
      /\ \A j \in Entries : j # i => opentab'[j] = opentab[j]
      /\ opentab'[i].fileid = id
      /\ z # Error => opentab'[i].file = fsreq.file
  <2>1. opentab[i].file \in Files \cup {None}
    BY <1>2 DEF IInv, TypeOK
  <2>2. PICK f \in Files \cup {None} : f = IF z = Error THEN opentab[i].file ELSE fsreq.file
    BY <1>2, <2>1
  <2>3. opentab' = [opentab EXCEPT ![i] = [fileid |-> id, file |-> f]]
    BY <1>1, <2>2
  <2>4. QED  BY <1>2, <1>4, <2>2, <2>3 DEF IInv, TypeOK
<1>7. /\ size' \in [Files -> {Absent} \cup 0 .. 3 * Capacity]
      /\ \A f \in Files : size[f] # Absent => size'[f] # Absent
      /\ z # Error => size'[fsreq.file] # Absent
  <2>1. z # Error => z \in 0 .. 3 * Capacity /\ z # Absent
    BY <1>2, OpenedLemma, NoneAssumption
  <2>2. QED  BY <1>1, <1>2, <2>1 DEF IInv, TypeOK
<1>8. /\ page' \in [Entries -> {None} \cup FdPage] /\ page'[i] # None
      /\ \A j \in Entries : j # i => page'[j] = page[j]
      /\ z # Error => page'[i].id = id
  <2>1. page[i] \in FdPage /\ [page[i] EXCEPT !.id = id] \in FdPage
    BY <1>2, <1>4 DEF IInv, TypeOK, FdPage
  <2>2. CASE z = Error
    BY <1>1, <1>2, <2>2 DEF IInv, TypeOK
  <2>3. CASE z # Error
    <3>1. page' = [page EXCEPT ![i] = [page[i] EXCEPT !.id = id]]
      BY <1>1, <2>3
    <3>2. [page[i] EXCEPT !.id = id].id = id
      BY <2>1 DEF FdPage
    <3>3. QED  BY <1>2, <2>1, <3>1, <3>2, NoneAssumption DEF IInv, TypeOK
  <2>4. QED  BY <2>2, <2>3
<1>9. TypeOK'
  BY <1>3, <1>4, <1>5, <1>6, <1>7, <1>8 DEF IInv, TypeOK, clientVars, ServerType
<1>10. Attended'
  BY <1>3, <1>5, AttendedLemma DEF IInv, clientVars
<1>11. EntryHeld'
  <2>1. SUFFICES ASSUME NEW c \in Clients, NEW k \in Slots, fd[c][k] # None
                 PROVE  LET j == fd[c][k] IN
                        /\ page'[j] # None /\ page'[j].id = opentab'[j].fileid
                        /\ opentab'[j].file # None /\ size'[opentab'[j].file] # Absent
    BY <1>3 DEF EntryHeld, clientVars
  <2>2. PICK j \in Entries : j = fd[c][k] /\ Filled(j)
    BY <2>1 DEF IInv, TypeOK, EntryHeld, Filled
  <2>3. j # i /\ opentab[j].file \in Files
    BY <1>2, <2>1, <2>2 DEF Unheld, IInv, TypeOK, Filled
  <2>4. QED  BY <1>6, <1>7, <1>8, <2>2, <2>3 DEF Filled
<1>12. ServerInv'
  <2>1. srv'.r = 0 => z # Error
    BY <1>5 DEF Error
  <2>2. z # Error => Filled(i)'
    BY <1>2, <1>6, <1>7, <1>8 DEF Filled
  <2>3. QED  BY <1>2, <1>3, <1>5, <2>1, <2>2 DEF ServerInv
<1>13. QED  BY <1>9, <1>10, <1>11, <1>12 DEF IInv

(* A handler changes a size, of a file that exists; a read or write that    *)
(* answers more than nothing ends within the blocks of the file.            *)
LEMMA HandledLemma ==
    ASSUME IInv, srv.pc = "work", Lookup(fsreq.id), NEW x, x = Handled(fsreq)
    PROVE  /\ At \in Entries /\ page[At] # None /\ File \in Files
           /\ x.r \in Values /\ x.size \in 0 .. 3 * Capacity
           /\ fsreq.op \in {"read", "write"} /\ x.r > 0 =>
                 x.r \in 1 .. Capacity /\ Offset <= Capacity
<1>1. PICK i \in Entries : i = At /\ \E c \in Clients, k \in Slots : fd[c][k] = i
  BY AtLemma, LookupLemma DEF Lookup, IInv, ServerInv
<1>2. page[i] # None /\ opentab[i].file # None /\ size[opentab[i].file] # Absent
  BY <1>1, NoneAssumption DEF IInv, EntryHeld
<1>3. At \in Entries /\ page[At] # None /\ File \in Files /\ size[File] # Absent
  BY <1>1, <1>2 DEF File, IInv, TypeOK
<1>4. PICK s \in 0 .. 3 * Capacity, o \in 0 .. 2 * Capacity : s = size[File] /\ o = Offset
  BY <1>3 DEF IInv, TypeOK, FdPage, Offset
<1>5. PICK n \in 0 .. Capacity : n = fsreq.n
  BY DEF IInv, ServerInv, Request
<1>6. fsreq.op \in {"read", "write", "stat", "set_size", "flush"}
  BY DEF IInv, ServerInv, Request, Ops
<1>7. Count(n) \in 0 .. n
  BY <1>4, CountsLemma DEF Count, Least
<1>8. \A m \in 0 .. Capacity : /\ Fits(m) \in {Error} \cup 0 .. Capacity
                               /\ Fits(m) > 0 => o <= Capacity
  BY <1>4, CountsLemma DEF Fits, Error
<1>9. CASE fsreq.op = "read"
  <2>1. x.r = Fits(Count(n)) /\ x.size = s
    BY <1>4, <1>5, <1>9 DEF Handled
  <2>2. Count(n) \in 0 .. Capacity
    BY <1>7, CountsLemma
  <2>3. QED  BY <1>3, <1>4, <1>8, <2>1, <2>2, CountsLemma DEF Values, Error, Inval
<1>10. CASE fsreq.op = "write"
  <2>1. x.r = Fits(n) /\ x.size = Larger(s, o + n)
    BY <1>4, <1>5, <1>10 DEF Handled
  <2>2. Larger(s, o + n) \in 0 .. 3 * Capacity
    BY CountsLemma DEF Larger
  <2>3. QED  BY <1>3, <1>4, <1>8, <2>1, <2>2, CountsLemma DEF Values, Error, Inval
<1>11. CASE fsreq.op \in {"stat", "set_size", "flush"}
  <2>1. x.r \in {0, s} /\ x.size \in {s, n}
    BY <1>4, <1>5, <1>11 DEF Handled
  <2>2. QED  BY <1>3, <1>4, <1>5, <1>11, <2>1, CountsLemma, ValuesLemma
<1>12. QED  BY <1>6, <1>9, <1>10, <1>11

LEMMA ServeLemma ==
    ASSUME IInv, Serve
    PROVE  IInv'
<1>1. PICK x : /\ x = Handled(fsreq)
               /\ size' = [size EXCEPT ![File] = x.size]
               /\ srv' = [srv EXCEPT !.r = x.r,
                        !.pc = IF fsreq.op \in {"read", "write"} /\ x.r > 0 THEN "move" ELSE "reply"]
  BY DEF Serve
<1>2. srv.pc = "work" /\ Lookup(fsreq.id) /\ UNCHANGED <<clientVars, opentab, page, fsreq>>
  BY DEF Serve
<1>3. /\ At \in Entries /\ page[At] # None /\ File \in Files
      /\ x.r \in Values /\ x.size \in 0 .. 3 * Capacity
      /\ fsreq.op \in {"read", "write"} /\ x.r > 0 => x.r \in 1 .. Capacity /\ Offset <= Capacity
  BY <1>1, <1>2, HandledLemma
<1>4. PICK l \in {"move", "reply"} :
        l = IF fsreq.op \in {"read", "write"} /\ x.r > 0 THEN "move" ELSE "reply"
  OBVIOUS
<1>5. /\ srv' \in ServerType /\ srv'.pc = l /\ srv'.whom = srv.whom
      /\ srv'.i = srv.i /\ srv'.r = x.r
  <2>1. /\ srv = [up |-> srv.up, pc |-> srv.pc, whom |-> srv.whom, i |-> srv.i, r |-> srv.r]
        /\ srv.up \in BOOLEAN /\ srv.whom \in Clients \cup {None} /\ srv.i \in 0 .. MAXOPEN
    BY DEF IInv, TypeOK
  <2>2. srv' = [up |-> srv.up, pc |-> l, whom |-> srv.whom, i |-> srv.i, r |-> x.r]
    BY <1>1, <1>4, <2>1
  <2>3. QED  BY <1>3, <2>1, <2>2 DEF ServerType
<1>6. /\ size' \in [Files -> {Absent} \cup 0 .. 3 * Capacity]
      /\ \A f \in Files : size[f] # Absent => size'[f] # Absent
  BY <1>1, <1>3, NoneAssumption DEF IInv, TypeOK
<1>7. TypeOK'
  BY <1>2, <1>5, <1>6 DEF IInv, TypeOK, clientVars, ServerType
<1>8. Attended'
  BY <1>2, <1>5, AttendedLemma DEF IInv, clientVars
<1>9. EntryHeld'
  BY <1>2, <1>6 DEF IInv, EntryHeld, TypeOK, clientVars
<1>10. ServerInv'
  <2>1. At' = At
    BY <1>2 DEF At
  <2>2. fsreq.op # "open" /\ fsreq \in Request
    BY <1>2 DEF IInv, ServerInv
  <2>3. l = "move" => page[At].offset <= Capacity /\ x.r \in 1 .. Capacity
    BY <1>3, <1>4 DEF Offset
  <2>4. QED  BY <1>2, <1>3, <1>5, <2>1, <2>2, <2>3 DEF ServerInv
<1>11. QED  BY <1>7, <1>8, <1>9, <1>10 DEF IInv

LEMMA MoveLemma ==
    ASSUME IInv, Move
    PROVE  IInv'
<1>1. /\ srv.pc = "move" /\ page' = [page EXCEPT ![At].offset = @ + srv.r]
      /\ Goto("reply") /\ UNCHANGED <<clientVars, opentab, size, fsreq>>
  BY DEF Move
<1>2. srv' \in ServerType /\ srv'.pc = "reply" /\ srv'.whom = srv.whom
  BY <1>1, GotoLemma
<1>3. PICK i \in Entries : i = At /\ page[i] # None
  BY <1>1, AtLemma DEF IInv, ServerInv
<1>4. PICK o \in 0 .. 2 * Capacity : o = page[i].offset + srv.r
  BY <1>1, <1>3, CountsLemma DEF IInv, ServerInv, TypeOK, FdPage
<1>5. /\ page' \in [Entries -> {None} \cup FdPage]
      /\ \A j \in Entries : page[j] # None => page'[j] # None /\ page'[j].id = page[j].id
  <2>1. page[i] \in FdPage /\ page' = [page EXCEPT ![i] = [page[i] EXCEPT !.offset = o]]
    BY <1>1, <1>3, <1>4 DEF IInv, TypeOK
  <2>2. [page[i] EXCEPT !.offset = o] \in FdPage /\ [page[i] EXCEPT !.offset = o].id = page[i].id
    BY <2>1 DEF FdPage
  <2>3. QED  BY <1>3, <2>1, <2>2, NoneAssumption DEF IInv, TypeOK
<1>6. TypeOK'
  BY <1>1, <1>2, <1>5 DEF IInv, TypeOK, clientVars, ServerType
<1>7. Attended'
  BY <1>1, <1>2, AttendedLemma DEF IInv, clientVars
<1>8. EntryHeld'
  BY <1>1, <1>5 DEF IInv, EntryHeld, TypeOK, clientVars
<1>9. ServerInv'
  BY <1>1, <1>2 DEF IInv, ServerInv
<1>10. QED  BY <1>6, <1>7, <1>8, <1>9 DEF IInv

(* The answer ends the call of the program that waits, and hands out the    *)
(* entry of an open.                                                        *)
LEMMA ReplyLemma ==
    ASSUME IInv, Reply
    PROVE  IInv'
<1>1. PICK c \in Clients : /\ srv.pc = "reply" /\ srv.whom = c
                          /\ Deliver(c) /\ Replied /\ UNCHANGED <<opentab, page, size>>
  BY DEF Reply
<1>2. srv' \in ServerType /\ srv'.pc = "recv" /\ srv'.whom = None /\ fsreq' = NoCall
  BY <1>1, BeginLemma DEF Replied, Receiving, Beginning, ServerType
<1>3. fsreq.op = "open" /\ srv.r = 0 => srv.i \in Entries /\ Filled(srv.i)
  BY <1>1 DEF IInv, ServerInv
<1>4. /\ fd' \in [Clients -> [Slots -> Entries \cup {None}]]
      /\ \A d \in Clients, k \in Slots : fd'[d][k] = fd[d][k] \/ Filled(fd'[d][k])
  <2>1. CASE fsreq.op = "open" /\ srv.r = 0
    BY <1>1, <1>3, <2>1 DEF Deliver, IInv, TypeOK
  <2>2. CASE ~ (fsreq.op = "open" /\ srv.r = 0)
    BY <1>1, <2>2 DEF Deliver, IInv, TypeOK
  <2>3. QED  BY <2>1, <2>2
<1>5. /\ pc' \in [Clients -> {"dead", "idle", "sent", "wait", "unmap"}]
      /\ call' \in [Clients -> Request \cup {NoCall}]
      /\ \A d \in Clients : pc'[d] \notin {"sent", "wait"}
  BY <1>1, NoneAssumption DEF Deliver, IInv, TypeOK, Attended
<1>6. TypeOK'
  BY <1>1, <1>2, <1>4, <1>5 DEF IInv, TypeOK, ServerType
<1>7. Attended'
  BY <1>5 DEF Attended
<1>8. EntryHeld'
  BY <1>1, <1>4 DEF IInv, EntryHeld, Filled
<1>9. ServerInv'
  BY <1>2 DEF ServerInv
<1>10. QED  BY <1>6, <1>7, <1>8, <1>9 DEF IInv

-----------------------------------------------------------------------------
LEMMA NextLemma == IInv /\ [Next]_vars => IInv'
<1> SUFFICES ASSUME IInv, [Next]_vars  PROVE IInv'
  OBVIOUS
<1>1. CASE UNCHANGED vars
  <2>1. UNCHANGED <<opentab, page, size, fd, pc, call, srv, fsreq>>
    BY <1>1 DEF vars, clientVars, serverVars
  <2>2. QED  BY <2>1 DEF IInv, TypeOK, Attended, EntryHeld, ServerInv, Filled, Unheld, At
<1>2. CASE Server
  <2>1. CASE DiskFull
    BY <2>1, PanicLemma DEF DiskFull
  <2>2. CASE ReplyFails
    BY <2>2, PanicLemma DEF ReplyFails
  <2>3. QED
    BY <1>2, <2>1, <2>2, ScanLemma, ServeOpenLemma, ServeInvalidLemma, ServeLemma, MoveLemma,
       ReplyLemma DEF Server
<1>3. ASSUME NEW c \in Clients, Client(c)  PROVE IInv'
  BY <1>3, OpenLemma, DevfileLemma, SeekLemma, IpcRecvLemma, CloseUnmapLemma, ForkLemma,
     DestroyLemma DEF Client
<1>4. QED  BY <1>1, <1>2, <1>3 DEF Next

(* The invariant holds in every state of every execution.                   *)
THEOREM IInvTheorem == Spec => []IInv
  BY InitLemma, NextLemma, PTL DEF Spec

(* Types, and: however often an entry has got a new number, o_fileid %       *)
(* MAXOPEN leads to that entry.                                             *)
THEOREM TypeTheorem == Spec => []TypeOK
<1>1. IInv => TypeOK
  BY DEF IInv
<1>2. QED  BY <1>1, IInvTheorem, PTL

(* openfile_alloc gives no entry away that a program has: whoever has a     *)
(* struct Fd finds his file under its number.                               *)
THEOREM EntryHeldTheorem == Spec => []EntryHeld
<1>1. IInv => EntryHeld
  BY DEF IInv
<1>2. QED  BY <1>1, IInvTheorem, PTL

(* A program that waits for an answer is the one the server works for.      *)
THEOREM AttendedTheorem == Spec => []Attended
<1>1. IInv => Attended
  BY DEF IInv
<1>2. QED  BY <1>1, IInvTheorem, PTL

-----------------------------------------------------------------------------
(* FileServer implements OpenFiles.  What the refinement needs beyond IInv: *)
(* a dead program has no descriptor; while the server works for a program,  *)
(* the descriptor of the call stays as it was at the call; an entry that is *)
(* claimed is cleared; a flush of a program that lives succeeds.            *)
ClientInv(c) ==
    /\ pc[c] = "dead" => fd[c] = Closed
    /\ pc[c] = "unmap" => call[c] \in Request /\ call[c].op = "flush"
    /\ srv.whom = c => pc[c] \in {"sent", "wait"}
    /\ srv.whom = c /\ fsreq.op = "open" => fd[c][fsreq.num] = None
    /\ srv.whom = c /\ fsreq.op # "open" =>
          fd[c][fsreq.num] # None /\ opentab[fd[c][fsreq.num]].fileid = fsreq.id
WorkInv ==
    /\ srv.pc = "claim" => page[srv.i].offset = 0
    /\ srv.pc = "move" => fsreq.op \in {"read", "write"}
    /\ srv.pc = "reply" /\ srv.whom # None /\ fsreq.op = "flush" => srv.r = 0
ViewInv == (\A c \in Clients : ClientInv(c)) /\ WorkInv

LEMMA ViewInitLemma == Init => ViewInv
  BY NoneAssumption DEF Init, Closed, Receiving, ViewInv, ClientInv, WorkInv

LEMMA ViewCallLemma ==
    ASSUME IInv, ViewInv, NEW c \in Clients, NEW request \in Request, Call(c, request),
           IF request.op = "open" THEN fd[c][request.num] = None
           ELSE fd[c][request.num] # None /\ opentab[fd[c][request.num]].fileid = request.id
    PROVE  ViewInv'
<1>1. /\ srv'.whom = c /\ srv'.pc \in {"scan", "work"} /\ fsreq' = request
      /\ pc' = [pc EXCEPT ![c] = "sent"] /\ call' = [call EXCEPT ![c] = request]
      /\ fd' = fd /\ opentab' = opentab /\ page' = page
  BY DEF Call, Receiving
<1>2. SUFFICES ASSUME NEW d \in Clients  PROVE ClientInv(d)'
  BY <1>1 DEF ViewInv, WorkInv
<1>3. CASE d = c
  BY <1>1, <1>3 DEF ClientInv, IInv, TypeOK
<1>4. CASE d # c
  BY <1>1, <1>4 DEF ViewInv, ClientInv, IInv, TypeOK
<1>5. QED  BY <1>3, <1>4

(* open takes a free descriptor, and the others use one that is open, with  *)
(* the number on its page.                                                  *)
LEMMA ViewOpenLemma ==
    ASSUME IInv, ViewInv, NEW c \in Clients, Open(c)
    PROVE  ViewInv'
<1>1. PICK k \in Slots, f \in Files, m \in Modes :
        /\ FdAlloc(c, k)
        /\ Call(c, [op |-> "open", num |-> k, id |-> 0, file |-> f, mode |-> m, n |-> 0])
  BY DEF Open
<1>2. 0 \in Ids /\ 0 \in 0 .. Capacity
  BY CountsLemma DEF Ids
<1>3. [op |-> "open", num |-> k, id |-> 0, file |-> f, mode |-> m, n |-> 0] \in Request
  BY <1>2 DEF Request, Ops
<1>4. QED  BY <1>1, <1>3, ViewCallLemma DEF FdAlloc

LEMMA ViewDevfileLemma ==
    ASSUME IInv, ViewInv, NEW c \in Clients, Devfile(c)
    PROVE  ViewInv'
<1>1. PICK k \in Slots, op \in Ops \ {"open"}, n \in 0 .. Capacity :
        /\ fd[c][k] # None
        /\ Call(c, [op |-> op, num |-> k, id |-> page[fd[c][k]].id, file |-> None,
                    mode |-> {}, n |-> n])
  BY DEF Devfile
<1>2. page[fd[c][k]].id \in Ids /\ page[fd[c][k]].id = opentab[fd[c][k]].fileid
  BY <1>1 DEF IInv, TypeOK, EntryHeld, FdPage
<1>3. [op |-> op, num |-> k, id |-> page[fd[c][k]].id, file |-> None, mode |-> {}, n |-> n] \in Request
  BY <1>2 DEF Request
<1>4. QED  BY <1>1, <1>2, <1>3, ViewCallLemma

LEMMA ViewClientLemma ==
    ASSUME IInv, ViewInv, NEW c \in Clients,
           Seek(c) \/ IpcRecv(c) \/ CloseUnmap(c) \/ Destroy(c) \/ \E d \in Clients : Fork(c, d)
    PROVE  ViewInv'
<1>1. ASSUME Seek(c)  PROVE ViewInv'
  <2>1. PICK k \in Slots, o \in Seeks :
          /\ fd[c][k] # None /\ page' = [page EXCEPT ![fd[c][k]].offset = o]
    BY <1>1 DEF Seek
  <2>2. UNCHANGED <<fd, pc, call, opentab, srv, fsreq>>
    BY <1>1 DEF Seek, clientVars
  <2>3. srv.pc = "claim" => srv.i \in Entries /\ srv.i # fd[c][k]
    BY DEF IInv, ServerInv, Unheld
  <2>4. WorkInv'
    BY <2>1, <2>2, <2>3 DEF ViewInv, WorkInv, IInv, TypeOK
  <2>5. QED  BY <2>2, <2>4 DEF ViewInv, ClientInv
<1>2. ASSUME IpcRecv(c)  PROVE ViewInv'
  <2>1. /\ pc[c] = "sent" /\ pc' = [pc EXCEPT ![c] = "wait"]
        /\ UNCHANGED <<fd, call, opentab, page, srv, fsreq>>
    BY <1>2 DEF IpcRecv, Runs, serverVars
  <2>2. QED  BY <2>1 DEF ViewInv, ClientInv, WorkInv, IInv, TypeOK
<1>3. ASSUME CloseUnmap(c)  PROVE ViewInv'
  <2>1. /\ pc[c] = "unmap" /\ pc' = [pc EXCEPT ![c] = "idle"]
        /\ call' = [call EXCEPT ![c] = NoCall]
        /\ fd' = [fd EXCEPT ![c][call[c].num] = None]
        /\ UNCHANGED <<opentab, page, srv, fsreq>>
    BY <1>3 DEF CloseUnmap, Runs, serverVars
  <2>2. srv.whom # c
    BY <2>1 DEF ViewInv, ClientInv
  <2>3. SUFFICES ASSUME NEW d \in Clients  PROVE ClientInv(d)'
    BY <2>1 DEF ViewInv, WorkInv
  <2>4. CASE d = c
    BY <2>1, <2>2, <2>4 DEF ViewInv, ClientInv, IInv, TypeOK
  <2>5. CASE d # c
    BY <2>1, <2>5 DEF ViewInv, ClientInv, IInv, TypeOK
  <2>6. QED  BY <2>4, <2>5
<1>4. ASSUME Destroy(c)  PROVE ViewInv'
  <2>1. /\ pc' = [pc EXCEPT ![c] = "dead"] /\ fd' = [fd EXCEPT ![c] = Closed]
        /\ call' = [call EXCEPT ![c] = NoCall]
        /\ UNCHANGED <<opentab, page, fsreq>>
    BY <1>4 DEF Destroy
  <2>2. /\ srv'.pc = srv.pc /\ srv'.i = srv.i /\ srv'.r = srv.r
        /\ srv'.whom = IF srv.whom = c THEN None ELSE srv.whom
    BY <1>4 DEF Destroy, IInv, TypeOK
  <2>3. c # None
    BY NoneAssumption
  <2>4. SUFFICES ASSUME NEW d \in Clients  PROVE ClientInv(d)'
    BY <2>1, <2>2 DEF ViewInv, WorkInv
  <2>5. CASE d = c
    BY <2>1, <2>2, <2>3, <2>5 DEF ClientInv, IInv, TypeOK
  <2>6. CASE d # c
    BY <2>1, <2>2, <2>6, NoneAssumption DEF ViewInv, ClientInv, IInv, TypeOK
  <2>7. QED  BY <2>5, <2>6
<1>5. ASSUME NEW e \in Clients, Fork(c, e)  PROVE ViewInv'
  <2>1. /\ pc[e] = "dead" /\ pc' = [pc EXCEPT ![e] = "idle"]
        /\ fd' = [fd EXCEPT ![e] = fd[c]]
        /\ UNCHANGED <<call, opentab, page, srv, fsreq>>
    BY <1>5 DEF Fork, serverVars
  <2>2. srv.whom # e
    BY <2>1 DEF ViewInv, ClientInv
  <2>3. SUFFICES ASSUME NEW d \in Clients  PROVE ClientInv(d)'
    BY <2>1 DEF ViewInv, WorkInv
  <2>4. CASE d = e
    BY <2>1, <2>2, <2>4 DEF ViewInv, ClientInv, IInv, TypeOK
  <2>5. CASE d # e
    BY <2>1, <2>5 DEF ViewInv, ClientInv, IInv, TypeOK
  <2>6. QED  BY <2>4, <2>5
<1>6. QED  BY <1>1, <1>2, <1>3, <1>4, <1>5

(* While the server works for a program on its call, the descriptor names   *)
(* the entry that the number leads to, and openfile_lookup finds it.        *)
LEMMA WorkingLemma ==
    ASSUME IInv, ViewInv, srv.whom # None, srv.pc # "recv", fsreq.op # "open"
    PROVE  /\ srv.whom \in Clients /\ fsreq.num \in Slots
           /\ fd[srv.whom][fsreq.num] = At /\ At \in Entries /\ Lookup(fsreq.id)
<1>1. PICK c \in Clients : c = srv.whom /\ ClientInv(c)
  BY DEF IInv, TypeOK, ViewInv
<1>2. fsreq \in Request
  BY DEF IInv, ServerInv
<1>3. PICK k \in Slots : k = fsreq.num
  BY <1>2 DEF Request
<1>4. PICK i \in Entries : i = fd[c][k] /\ opentab[i].fileid = fsreq.id
  BY <1>1, <1>3 DEF ClientInv, IInv, TypeOK
<1>5. At = i
  BY <1>4 DEF At, IInv, TypeOK
<1>6. page[i] # None
  BY <1>4, NoneAssumption DEF IInv, EntryHeld
<1>7. <<c, k>> \in Holders(i)
  BY <1>4 DEF Holders
<1>8. Cardinality(Holders(i)) # 0 /\ Cardinality(Holders(i)) \in Nat
  BY <1>7, HoldersFinite, FS_EmptySet
<1>9. Refs(i) > 1
  BY <1>6, <1>8 DEF Refs
<1>10. QED  BY <1>1, <1>3, <1>4, <1>5, <1>9 DEF Lookup

LEMMA ViewServerLemma ==
    ASSUME IInv, ViewInv, Server
    PROVE  ViewInv'
<1>1. ASSUME srv'.whom = srv.whom, UNCHANGED <<opentab, fsreq>>, UNCHANGED clientVars, WorkInv'
      PROVE  ViewInv'
  BY <1>1 DEF ViewInv, ClientInv, clientVars
<1>2. ASSUME NEW r \in Values, Answer(r), r = 0 \/ fsreq.op # "flush",
             UNCHANGED <<opentab, fsreq>>, UNCHANGED clientVars
      PROVE  ViewInv'
  BY <1>1, <1>2, AnswerLemma DEF WorkInv
<1>3. ASSUME Panic, UNCHANGED <<clientVars, opentab, page, size, fsreq>>  PROVE ViewInv'
  <2>1. srv'.pc = srv.pc /\ srv'.whom = srv.whom /\ srv'.i = srv.i /\ srv'.r = srv.r
    BY <1>3 DEF Panic, IInv, TypeOK
  <2>2. WorkInv'
    BY <1>3, <2>1 DEF ViewInv, WorkInv
  <2>3. QED  BY <1>1, <1>3, <2>1, <2>2
<1>4. ASSUME Scan  PROVE ViewInv'
  <2>1. UNCHANGED <<clientVars, opentab, size, fsreq>> /\ srv.pc = "scan" /\ fsreq.op = "open"
    BY <1>4 DEF Scan, IInv, ServerInv
  <2>2. ASSUME Answer(Error)  PROVE ViewInv'
    BY <1>2, <2>1, <2>2, ValuesLemma
  <2>3. ASSUME srv' = [srv EXCEPT !.i = @ + 1]  PROVE ViewInv'
    <3>1. srv'.pc = srv.pc /\ srv'.whom = srv.whom
      BY <2>3 DEF IInv, TypeOK
    <3>2. QED  BY <1>1, <2>1, <3>1 DEF WorkInv
  <2>4. ASSUME srv.i < MAXOPEN, Goto("claim"), Clear(srv.i)  PROVE ViewInv'
    <3>1. srv'.pc = "claim" /\ srv'.whom = srv.whom /\ srv'.i = srv.i
      BY <2>4, GotoLemma
    <3>2. srv.i \in Entries
      BY <2>4, CountsLemma DEF IInv, TypeOK, Entries
    <3>3. page'[srv.i] = Blank
      BY <2>4, <3>2 DEF Clear, IInv, TypeOK
    <3>4. WorkInv'
      BY <3>1, <3>3 DEF WorkInv, Blank
    <3>5. QED  BY <1>1, <2>1, <3>1, <3>4
  <2>5. QED  BY <1>4, <2>2, <2>3, <2>4 DEF Scan
<1>5. ASSUME ServeOpen  PROVE ViewInv'
  <2>1. PICK z \in Opened(fsreq) : Answer(IF z = Error THEN Error ELSE 0)
    BY <1>5 DEF ServeOpen
  <2>2. PICK r \in Values : r = IF z = Error THEN Error ELSE 0
    BY ValuesLemma
  <2>3. srv'.pc = "reply" /\ srv'.whom = srv.whom
    BY <2>1, <2>2, AnswerLemma
  <2>4. fsreq.op = "open" /\ UNCHANGED <<clientVars, fsreq>>
    BY <1>5 DEF ServeOpen, IInv, ServerInv
  <2>5. QED  BY <2>3, <2>4 DEF ViewInv, ClientInv, WorkInv, clientVars
<1>6. ASSUME ServeInvalid  PROVE ViewInv'
  <2>1. srv.pc = "work" /\ ~ Lookup(fsreq.id) /\ Answer(Inval)
        /\ UNCHANGED <<clientVars, opentab, page, size, fsreq>> /\ fsreq.op # "open"
    BY <1>6 DEF ServeInvalid, IInv, ServerInv
  <2>2. srv.whom = None
    BY <2>1, WorkingLemma
  <2>3. srv'.pc = "reply" /\ srv'.whom = None
    BY <2>1, <2>2, AnswerLemma, ValuesLemma
  <2>4. QED  BY <1>1, <2>1, <2>2, <2>3 DEF WorkInv
<1>7. ASSUME Serve  PROVE ViewInv'
  <2>1. PICK x : /\ x = Handled(fsreq)
                 /\ srv' = [srv EXCEPT !.r = x.r,
                        !.pc = IF fsreq.op \in {"read", "write"} /\ x.r > 0 THEN "move" ELSE "reply"]
    BY <1>7 DEF Serve
  <2>2. /\ srv'.whom = srv.whom /\ srv'.r = x.r /\ srv'.pc \in {"move", "reply"}
        /\ srv'.pc = "move" => fsreq.op \in {"read", "write"}
    BY <2>1 DEF IInv, TypeOK
  <2>3. fsreq.op = "flush" => x.r = 0
    BY <2>1 DEF Handled
  <2>4. UNCHANGED <<clientVars, opentab, fsreq>>
    BY <1>7 DEF Serve
  <2>5. QED  BY <1>1, <2>2, <2>3, <2>4 DEF WorkInv
<1>8. ASSUME Move  PROVE ViewInv'
  <2>1. srv.pc = "move" /\ srv'.pc = "reply" /\ srv'.whom = srv.whom /\ srv'.r = srv.r
        /\ UNCHANGED <<clientVars, opentab, fsreq>>
    BY <1>8, GotoLemma DEF Move
  <2>2. fsreq.op # "flush"
    BY <2>1 DEF ViewInv, WorkInv
  <2>3. QED  BY <1>1, <2>1, <2>2 DEF WorkInv
<1>9. ASSUME Reply  PROVE ViewInv'
  <2>1. PICK c \in Clients : /\ srv.pc = "reply" /\ srv.whom = c /\ pc[c] = "wait"
                            /\ Deliver(c) /\ Replied /\ UNCHANGED <<opentab, page, size>>
    BY <1>9 DEF Reply
  <2>2. srv'.whom = None /\ srv'.pc = "recv" /\ call[c] = fsreq /\ fsreq \in Request
    BY <2>1 DEF Replied, Receiving, IInv, Attended, ServerInv
  <2>3. SUFFICES ASSUME NEW d \in Clients  PROVE ClientInv(d)'
    BY <2>2 DEF ViewInv, WorkInv
  <2>4. /\ pc' = [pc EXCEPT ![c] = IF fsreq.op = "flush" THEN "unmap" ELSE "idle"]
        /\ call' = [call EXCEPT ![c] = IF fsreq.op = "flush" THEN @ ELSE NoCall]
    BY <2>1 DEF Deliver
  <2>5. d # c => fd'[d] = fd[d]
    BY <2>1 DEF Deliver, IInv, TypeOK
  <2>6. CASE d = c
    BY <2>2, <2>4, <2>6, NoneAssumption DEF ClientInv, IInv, TypeOK
  <2>7. CASE d # c
    BY <2>2, <2>4, <2>5, <2>7, NoneAssumption DEF ViewInv, ClientInv, IInv, TypeOK
  <2>8. QED  BY <2>6, <2>7
<1>10. QED
  <2>1. DiskFull \/ ReplyFails => Panic /\ UNCHANGED <<clientVars, opentab, page, size, fsreq>>
    BY DEF DiskFull, ReplyFails
  <2>2. QED  BY <1>3, <1>4, <1>5, <1>6, <1>7, <1>8, <1>9, <2>1 DEF Server

LEMMA ViewNextLemma == IInv /\ ViewInv /\ [Next]_vars => ViewInv'
<1> SUFFICES ASSUME IInv, ViewInv, [Next]_vars  PROVE ViewInv'
  OBVIOUS
<1>1. CASE UNCHANGED vars
  <2>1. UNCHANGED <<opentab, page, size, fd, pc, call, srv, fsreq>>
    BY <1>1 DEF vars, clientVars, serverVars
  <2>2. QED  BY <2>1 DEF ViewInv, ClientInv, WorkInv
<1>2. ASSUME NEW c \in Clients, Client(c)  PROVE ViewInv'
  BY <1>2, ViewOpenLemma, ViewDevfileLemma, ViewClientLemma DEF Client
<1>3. QED  BY <1>1, <1>2, ViewServerLemma DEF Next

-----------------------------------------------------------------------------
(* The open files as programs see them, point by point.                     *)
LEMMA SameFunction ==
    ASSUME NEW S, NEW f, NEW g, f = [x \in S |-> f[x]], g = [x \in S |-> g[x]],
           \A x \in S : g[x] = f[x]
    PROVE  g = f
  OBVIOUS

LEMMA ChangedFunction ==
    ASSUME NEW S, NEW f, NEW g, f = [x \in S |-> f[x]], g = [x \in S |-> g[x]],
           NEW c \in S, \A x \in S : x # c => g[x] = f[x]
    PROVE  g = [f EXCEPT ![c] = g[c]]
  OBVIOUS

Used(i)  == \E c \in Clients, k \in Slots : HeldBy[c][k] = i
Shown(i) == [file |-> opentab[i].file, offset |-> page[i].offset]
HeldView ==
    /\ HeldBy \in [Clients -> [Slots -> Entries \cup {None}]]
    /\ ~ Delivering => HeldBy = fd
    /\ Delivering =>
          /\ srv.whom \in Clients /\ fsreq.num \in Slots /\ srv.i \in Entries
          /\ HeldBy = [fd EXCEPT ![srv.whom][fsreq.num] = srv.i]
ObjectView ==
    /\ Object = [i \in Entries |-> Object[i]]
    /\ \A i \in Entries : Object[i] = IF Used(i) THEN Shown(i) ELSE None
    /\ \A i \in Entries : Used(i) =>
          page[i] # None /\ page[i] \in FdPage /\ opentab[i].file \in Files /\ Shown(i) # None
AskedView ==
    /\ Asked = [c \in Clients |-> Asked[c]]
    /\ \A c \in Clients :
          /\ pc[c] \in {"dead", "idle"} => Asked[c] = None
          /\ pc[c] = "unmap" => Asked[c] = AsCall(call[c], "done", 0) /\ Asked[c] # None
          /\ pc[c] \in {"sent", "wait"} =>
                srv.whom = c /\ srv.pc # "recv" /\ call[c] = fsreq
                /\ Asked[c] = ServedCall(fsreq) /\ Asked[c] # None
View == HeldView /\ ObjectView /\ AskedView

LEMMA HeldLemma == IInv /\ ViewInv => HeldView
<1> SUFFICES ASSUME IInv, ViewInv  PROVE HeldView
  OBVIOUS
<1>1. CASE Delivering
  <2>1. /\ srv.whom \in Clients /\ fsreq.num \in Slots /\ srv.i \in Entries
    BY <1>1 DEF Delivering, IInv, TypeOK, ServerInv, Request
  <2>2. HeldBy = [fd EXCEPT ![srv.whom][fsreq.num] = srv.i]
    BY <1>1 DEF HeldBy
  <2>3. [fd EXCEPT ![srv.whom][fsreq.num] = srv.i] \in [Clients -> [Slots -> Entries \cup {None}]]
    BY <2>1 DEF IInv, TypeOK
  <2>4. QED  BY <1>1, <2>1, <2>2, <2>3 DEF HeldView
<1>2. CASE ~ Delivering
  BY <1>2 DEF HeldView, HeldBy, IInv, TypeOK
<1>3. QED  BY <1>1, <1>2

(* An entry is in use when a program has it, or is about to get it.         *)
LEMMA UsedLemma ==
    ASSUME IInv, ViewInv, NEW i \in Entries
    PROVE  Used(i) <=> (Delivering /\ srv.i = i) \/ \E c \in Clients : \E k \in Slots : fd[c][k] = i
<1>1. HeldView
  BY HeldLemma
<1>2. CASE ~ Delivering
  BY <1>1, <1>2 DEF HeldView, Used
<1>3. CASE Delivering
  <2>1. PICK w \in Clients, n \in Slots, j \in Entries :
          /\ w = srv.whom /\ n = fsreq.num /\ j = srv.i
          /\ HeldBy = [fd EXCEPT ![w][n] = j]
    BY <1>1, <1>3 DEF HeldView
  <2>2. fd[w][n] = None
    BY <1>3, <2>1 DEF ViewInv, ClientInv, Delivering
  <2>3. i # None
    BY NoneAssumption
  <2>4. HeldBy[w][n] = j /\ \A c \in Clients, k \in Slots : c # w \/ k # n => HeldBy[c][k] = fd[c][k]
    BY <2>1 DEF IInv, TypeOK
  <2>5. QED  BY <1>3, <2>1, <2>2, <2>3, <2>4 DEF Used
<1>4. QED  BY <1>2, <1>3

LEMMA ObjectLemma == IInv /\ ViewInv => ObjectView
<1> SUFFICES ASSUME IInv, ViewInv  PROVE ObjectView
  OBVIOUS
<1>1. \A i \in Entries : Object[i] =
        IF (Delivering /\ srv.i = i) \/ \E c \in Clients : \E k \in Slots : fd[c][k] = i
        THEN Shown(i) ELSE None
  BY DEF Object, Shown
<1>2. Object = [i \in Entries |-> Object[i]]
  BY DEF Object
<1>3. ASSUME NEW i \in Entries, Used(i)
      PROVE  page[i] # None /\ page[i] \in FdPage /\ opentab[i].file \in Files /\ Shown(i) # None
  <2>1. Filled(i)
    <3>1. CASE Delivering /\ srv.i = i
      BY <3>1 DEF Delivering, IInv, ServerInv
    <3>2. ASSUME NEW c \in Clients, NEW k \in Slots, fd[c][k] = i  PROVE Filled(i)
      BY <3>2, NoneAssumption DEF IInv, EntryHeld, Filled
    <3>3. QED  BY <1>3, <3>1, <3>2, UsedLemma
  <2>2. page[i] # None /\ page[i] \in FdPage /\ opentab[i].file \in Files
    BY <2>1 DEF Filled, IInv, TypeOK
  <2>3. Shown(i) \in [file : Files, offset : 0 .. 2 * Capacity]
    BY <2>2 DEF Shown, FdPage
  <2>4. QED  BY <2>2, <2>3, ViewAssumption
<1>4. QED
  <2>1. \A i \in Entries : Used(i) <=>
          (Delivering /\ srv.i = i) \/ \E c \in Clients : \E k \in Slots : fd[c][k] = i
    BY UsedLemma
  <2>2. \A i \in Entries : Object[i] = IF Used(i) THEN Shown(i) ELSE None
    BY <1>1, <2>1
  <2>3. QED  BY <1>2, <1>3, <2>2 DEF ObjectView

(* The calls: what they are made of, and that they are not None.            *)
Stages == {"asked", "moving", "done"}
LEMMA AsCallLemma ==
    ASSUME NEW req \in Request, NEW s \in Stages, NEW r \in Values
    PROVE  /\ AsCall(req, s, r) # None
           /\ AsCall(req, s, r).op = req.op /\ AsCall(req, s, r).fd = req.num
           /\ AsCall(req, s, r).file = req.file /\ AsCall(req, s, r).mode = req.mode
           /\ AsCall(req, s, r).n = req.n
           /\ AsCall(req, s, r).stage = s /\ AsCall(req, s, r).answer = r
<1>1. AsCall(req, s, r) \in
        [op : Ops, fd : Slots, file : Files \cup {None}, mode : Modes \cup {{}},
         n : 0 .. Capacity, stage : {"asked", "moving", "done"}, answer : Values]
  BY DEF AsCall, Request, Stages
<1>2. QED  BY <1>1, ViewAssumption DEF AsCall

(* How the calls go on: to an answer that is final, to one that still has   *)
(* to move the offset, and from there to the end.                           *)
LEMMA LaterLemma ==
    ASSUME NEW req \in Request, NEW r \in Values
    PROVE  /\ Abstract!Later(AsCall(req, "asked", 0), r) =
                AsCall(req, IF req.op \in {"read", "write"} /\ r > 0 THEN "moving" ELSE "done", r)
           /\ [AsCall(req, "moving", r) EXCEPT !.stage = "done"] = AsCall(req, "done", r)
<1>1. PICK o, k, f, m, n : o = req.op /\ k = req.num /\ f = req.file /\ m = req.mode /\ n = req.n
  OBVIOUS
<1>2. \A s, v : AsCall(req, s, v) = [op |-> o, fd |-> k, file |-> f, mode |-> m, n |-> n,
                                    stage |-> s, answer |-> v]
  BY <1>1 DEF AsCall
<1>3. ASSUME NEW s, NEW t, NEW v  PROVE [AsCall(req, s, v) EXCEPT !.stage = t] = AsCall(req, t, v)
  BY <1>2
<1>4. ASSUME NEW s, NEW v, NEW w  PROVE [AsCall(req, s, v) EXCEPT !.answer = w] = AsCall(req, s, w)
  BY <1>2
<1>5. AsCall(req, "asked", 0).op = req.op
  BY <1>1, <1>2
<1>6. PICK t : t = IF req.op \in {"read", "write"} /\ r > 0 THEN "moving" ELSE "done"
  OBVIOUS
<1>7. Abstract!Later(AsCall(req, "asked", 0), r) =
        [AsCall(req, "asked", 0) EXCEPT !.answer = r, !.stage = t]
  BY <1>5, <1>6 DEF Abstract!Later
<1>8. [AsCall(req, "asked", 0) EXCEPT !.answer = r, !.stage = t] = AsCall(req, t, r)
  <2>1. [AsCall(req, "asked", 0) EXCEPT !.answer = r] = AsCall(req, "asked", r)
    BY <1>4
  <2>2. [AsCall(req, "asked", r) EXCEPT !.stage = t] = AsCall(req, t, r)
    BY <1>3
  <2>3. QED  BY ONLY <2>1, <2>2, Zenon
<1>9. QED  BY <1>3, <1>6, <1>7, <1>8

LEMMA ServedLemma ==
    ASSUME IInv, srv.pc # "recv"
    PROVE  \E s \in Stages, r \in Values : ServedCall(fsreq) = AsCall(fsreq, s, r)
<1>1. 0 \in Values /\ srv.r \in Values
  BY ValuesLemma DEF IInv, TypeOK
<1>2. QED  BY <1>1 DEF ServedCall, Stages

LEMMA AskedLemma == IInv /\ ViewInv => AskedView
<1> SUFFICES ASSUME IInv, ViewInv  PROVE AskedView
  OBVIOUS
<1>1. Asked = [c \in Clients |-> Asked[c]]
  BY DEF Asked
<1>2. ASSUME NEW c \in Clients
      PROVE  /\ pc[c] \in {"dead", "idle"} => Asked[c] = None
             /\ pc[c] = "unmap" => Asked[c] = AsCall(call[c], "done", 0)
             /\ pc[c] \in {"sent", "wait"} => Asked[c] = ServedCall(call[c])
  BY <1>2 DEF Asked
<1>3. ASSUME NEW c \in Clients, pc[c] = "unmap"  PROVE Asked[c] # None
  <2>1. call[c] \in Request
    BY <1>3 DEF ViewInv, ClientInv
  <2>2. AsCall(call[c], "done", 0) # None
    BY <2>1, AsCallLemma, ValuesLemma DEF Stages
  <2>3. QED  BY <1>2, <1>3, <2>2
<1>4. ASSUME NEW c \in Clients, pc[c] \in {"sent", "wait"}
      PROVE  srv.whom = c /\ srv.pc # "recv" /\ call[c] = fsreq /\ Asked[c] = ServedCall(fsreq)
             /\ Asked[c] # None
  <2>1. srv.whom = c /\ call[c] = fsreq
    BY <1>4 DEF IInv, Attended
  <2>2. srv.pc # "recv" /\ fsreq \in Request
    BY <2>1, NoneAssumption DEF IInv, ServerInv
  <2>3. ServedCall(fsreq) # None
    BY <2>2, ServedLemma, AsCallLemma
  <2>4. QED  BY <1>2, <1>4, <2>1, <2>2, <2>3
<1>5. QED  BY <1>1, <1>2, <1>3, <1>4 DEF AskedView

LEMMA ViewLemma == IInv /\ ViewInv => View
  BY HeldLemma, ObjectLemma, AskedLemma DEF View

(* What changes the open files: nothing, one of them, or that some are no   *)
(* longer in use.                                                           *)
LEMMA SameObjects ==
    ASSUME View, View', HeldBy' = HeldBy,
           \A i \in Entries : Used(i) => opentab'[i].file = opentab[i].file
                                         /\ page'[i].offset = page[i].offset
    PROVE  Object' = Object
<1>1. \A i \in Entries : Used(i)' = Used(i)
  BY DEF Used
<1>2. \A i \in Entries : Used(i) => Shown(i)' = Shown(i)
  BY DEF Shown
<1>3. \A i \in Entries : Object'[i] = Object[i]
  BY <1>1, <1>2 DEF View, ObjectView
<1>4. Object = [i \in Entries |-> Object[i]] /\ Object' = [i \in Entries |-> Object'[i]]
  BY DEF View, ObjectView
<1>5. QED  BY ONLY <1>3, <1>4, SameFunction

LEMMA ForgottenObjects ==
    ASSUME View, View', UNCHANGED <<opentab, page>>,
           \A i \in Entries : Used(i)' => Used(i)
    PROVE  Object' = Abstract!Forget(HeldBy', Object)
<1>1. \A i \in Entries : Shown(i)' = Shown(i)
  BY DEF Shown
<1>2. \A i \in Entries : Object'[i] = IF Used(i)' THEN Object[i] ELSE None
  BY <1>1 DEF View, ObjectView
<1>3. Object' = [i \in Entries |-> Object'[i]]
  BY DEF View, ObjectView
<1>4. Object' = [i \in Entries |-> IF Used(i)' THEN Object[i] ELSE None]
  BY <1>2, <1>3, Zenon
<1>5. QED  BY <1>4, Zenon DEF Abstract!Forget, Used

LEMMA SameAsked ==
    ASSUME View, View', \A c \in Clients : Asked'[c] = Asked[c]
    PROVE  Asked' = Asked
<1>1. Asked = [c \in Clients |-> Asked[c]] /\ Asked' = [c \in Clients |-> Asked'[c]]
  BY DEF View, AskedView
<1>2. QED  BY ONLY <1>1, SameFunction, \A c \in Clients : Asked'[c] = Asked[c]

LEMMA ChangedAsked ==
    ASSUME View, View', NEW c \in Clients, \A d \in Clients : d # c => Asked'[d] = Asked[d]
    PROVE  Asked' = [Asked EXCEPT ![c] = Asked'[c]]
<1>1. Asked = [d \in Clients |-> Asked[d]] /\ Asked' = [d \in Clients |-> Asked'[d]]
  BY DEF View, AskedView
<1>2. \A d \in Clients : d # c => Asked'[d] = Asked[d]
  OBVIOUS
<1>3. c \in Clients
  OBVIOUS
<1>4. QED  BY ONLY <1>1, <1>2, <1>3, ChangedFunction

LEMMA AskedKept ==
    ASSUME View, View', NEW d \in Clients, pc'[d] = pc[d], call'[d] = call[d],
           pc[d] \in {"dead", "idle", "unmap"}
    PROVE  Asked'[d] = Asked[d]
  BY DEF View, AskedView, AsCall

LEMMA AskedUnmoved ==
    ASSUME View, View', NEW d \in Clients, pc'[d] = pc[d], call'[d] = call[d],
           pc[d] \in {"dead", "idle", "sent", "wait", "unmap"}, UNCHANGED <<srv, fsreq>>
    PROVE  Asked'[d] = Asked[d]
<1>1. ServedCall(fsreq)' = ServedCall(fsreq)
  BY DEF ServedCall, AsCall
<1>2. AsCall(call[d], "done", 0)' = AsCall(call[d], "done", 0)
  BY DEF AsCall
<1>3. QED  BY <1>1, <1>2 DEF View, AskedView

(* What OpenFiles may do, or nothing.                                       *)
Promised == [Abstract!Next]_(Abstract!ovars)
LEMMA StutterLemma ==
    ASSUME size' = size, HeldBy' = HeldBy, Object' = Object, Asked' = Asked, Orphans' = Orphans
    PROVE  Promised
  BY DEF Promised, Abstract!ovars

-----------------------------------------------------------------------------
(* The programs' steps.                                                     *)
LEMMA CallPromised ==
    ASSUME IInv, ViewInv, View, View', NEW c \in Clients, NEW request \in Request,
           Call(c, request), (request.op = "open") = (fd[c][request.num] = None)
    PROVE  Promised
<1>1. /\ pc[c] = "idle" /\ srv.pc = "recv" /\ srv'.whom = c /\ srv'.pc \in {"scan", "work"}
      /\ fsreq' = request /\ pc' = [pc EXCEPT ![c] = "sent"] /\ call' = [call EXCEPT ![c] = request]
      /\ UNCHANGED <<fd, opentab, page, size>>
  BY DEF Call, Runs, Receiving
<1>2. HeldBy = fd /\ HeldBy' = fd
  BY <1>1 DEF View, HeldView, Delivering
<1>3. Object' = Object
  BY <1>1, <1>2, SameObjects
<1>4. pc'[c] = "sent" /\ \A d \in Clients : d # c => pc'[d] = pc[d] /\ call'[d] = call[d]
  BY <1>1 DEF IInv, TypeOK
<1>5. Asked[c] = None /\ Asked'[c] = AsCall(request, "asked", 0)
  BY <1>1, <1>4 DEF View, AskedView, ServedCall
<1>6. \A d \in Clients : d # c => Asked'[d] = Asked[d]
  <2>1. ASSUME NEW d \in Clients, d # c  PROVE Asked'[d] = Asked[d]
    <3>1. pc[d] \in {"dead", "idle", "unmap"}
      BY <1>1 DEF View, AskedView, IInv, TypeOK
    <3>2. QED  BY <1>4, <2>1, <3>1, AskedKept
  <2>2. QED  BY <2>1
<1>7. Asked' = [Asked EXCEPT ![c] = Asked'[c]]
  BY <1>6, ChangedAsked
<1>8. Orphans = {} /\ Orphans' = {}
  BY <1>1, NoneAssumption DEF Orphans
<1>9. PICK q : q = AsCall(request, "asked", 0)
  OBVIOUS
<1>10. q.stage = "asked" /\ q.op = request.op /\ q.fd = request.num
  BY <1>9, AsCallLemma, ValuesLemma DEF Stages
<1>11. q \in Abstract!Calls
  <2>1. request.mode \in SUBSET {"CREAT", "EXCL", "TRUNC"}
    <3>1. request.mode \in Modes \cup {{}}
      BY DEF Request
    <3>2. QED  BY <3>1, ModesAssumption
  <2>2. 0 \in Abstract!Answers
    BY CountsLemma DEF Abstract!Answers, Abstract!Error
  <2>3. QED  BY <1>9, <2>1, <2>2 DEF AsCall, Abstract!Calls, Abstract!Ops, Request, Ops
<1>12. Asked[c] = None /\ q \in Abstract!Calls /\ q.stage = "asked"
       /\ (q.op = "open") = (HeldBy[c][q.fd] = None)
       /\ Asked' = [Asked EXCEPT ![c] = q]
       /\ UNCHANGED <<size, HeldBy, Object, Orphans>>
  BY <1>1, <1>2, <1>3, <1>5, <1>7, <1>8, <1>9, <1>10, <1>11
<1>13. Abstract!Ask(c)
  BY <1>5, <1>9, <1>12 DEF Abstract!Ask
<1>14. QED  BY <1>13 DEF Promised, Abstract!Next

LEMMA OpenPromised ==
    ASSUME IInv, ViewInv, View, View', NEW c \in Clients, Open(c)
    PROVE  Promised
<1>1. PICK k \in Slots, f \in Files, m \in Modes :
        /\ FdAlloc(c, k)
        /\ Call(c, [op |-> "open", num |-> k, id |-> 0, file |-> f, mode |-> m, n |-> 0])
  BY DEF Open
<1>2. 0 \in Ids /\ 0 \in 0 .. Capacity
  BY CountsLemma DEF Ids
<1>3. [op |-> "open", num |-> k, id |-> 0, file |-> f, mode |-> m, n |-> 0] \in Request
  BY <1>2 DEF Request, Ops
<1>4. QED  BY <1>1, <1>3, CallPromised DEF FdAlloc

LEMMA DevfilePromised ==
    ASSUME IInv, ViewInv, View, View', NEW c \in Clients, Devfile(c)
    PROVE  Promised
<1>1. PICK k \in Slots, op \in Ops \ {"open"}, n \in 0 .. Capacity :
        /\ fd[c][k] # None
        /\ Call(c, [op |-> op, num |-> k, id |-> page[fd[c][k]].id, file |-> None,
                    mode |-> {}, n |-> n])
  BY DEF Devfile
<1>2. page[fd[c][k]].id \in Ids
  BY <1>1 DEF IInv, TypeOK, EntryHeld, FdPage
<1>3. [op |-> op, num |-> k, id |-> page[fd[c][k]].id, file |-> None, mode |-> {}, n |-> n] \in Request
  BY <1>2 DEF Request
<1>4. QED  BY <1>1, <1>3, CallPromised

LEMMA IpcRecvPromised ==
    ASSUME IInv, ViewInv, View, View', NEW c \in Clients, IpcRecv(c)
    PROVE  Promised
<1>1. /\ pc[c] = "sent" /\ pc' = [pc EXCEPT ![c] = "wait"]
      /\ UNCHANGED <<fd, call, opentab, page, size, srv, fsreq>>
  BY DEF IpcRecv, Runs, serverVars
<1>2. HeldBy' = HeldBy /\ Orphans' = Orphans
  BY <1>1 DEF HeldBy, Delivering, Orphans, ServedCall, AsCall, At
<1>3. Object' = Object
  BY <1>1, <1>2, SameObjects
<1>4. ASSUME NEW d \in Clients  PROVE Asked'[d] = Asked[d]
  <2>1. CASE d = c
    BY <1>1, <2>1 DEF View, AskedView, ServedCall, AsCall, IInv, TypeOK
  <2>2. CASE d # c
    BY <1>1, <2>2 DEF View, AskedView, ServedCall, AsCall, IInv, TypeOK
  <2>3. QED  BY <2>1, <2>2
<1>5. Asked' = Asked
  BY <1>4, SameAsked
<1>6. QED  BY <1>1, <1>2, <1>3, <1>5, StutterLemma

LEMMA SeekPromised ==
    ASSUME IInv, ViewInv, View, View', NEW c \in Clients, Seek(c)
    PROVE  Promised
<1>1. PICK k \in Slots, o \in Seeks :
        /\ fd[c][k] # None /\ page' = [page EXCEPT ![fd[c][k]].offset = o]
  BY DEF Seek
<1>2. pc[c] = "idle" /\ UNCHANGED <<fd, pc, call, opentab, size, srv, fsreq>>
  BY DEF Seek, Runs, clientVars
<1>3. PICK i \in Entries : i = fd[c][k]
  BY <1>1 DEF IInv, TypeOK
<1>4. HeldBy' = HeldBy /\ Orphans' = Orphans
  BY <1>2 DEF HeldBy, Delivering, Orphans, ServedCall, AsCall, At
<1>5. Asked' = Asked
  BY <1>2 DEF Asked, ServedCall, AsCall
<1>6. Asked[c] = None
  BY <1>2 DEF View, AskedView
<1>7. HeldBy[c][k] = i
  <2>1. srv.whom # c
    BY <1>2 DEF ViewInv, ClientInv
  <2>2. QED  BY <1>3, <2>1 DEF View, HeldView, IInv, TypeOK
<1>8. Used(i) /\ \A j \in Entries : Used(j)' = Used(j)
  BY <1>4, <1>7 DEF Used
<1>9. /\ \A j \in Entries : j # i => Shown(j)' = Shown(j)
      /\ Shown(i)' = [Shown(i) EXCEPT !.offset = o]
  <2>1. page[i] \in FdPage
    BY <1>8 DEF View, ObjectView
  <2>2. \A j \in Entries : j # i => page'[j] = page[j]
    BY <1>1, <1>3 DEF IInv, TypeOK
  <2>3. page'[i].offset = o
    BY <1>1, <1>3, <2>1 DEF IInv, TypeOK, FdPage
  <2>4. PICK f, x : f = opentab[i].file /\ x = page[i].offset
    OBVIOUS
  <2>5. Shown(i)' = [file |-> f, offset |-> o] /\ Shown(i) = [file |-> f, offset |-> x]
    BY <1>2, <2>3, <2>4 DEF Shown
  <2>6. QED  BY <1>2, <2>2, <2>5 DEF Shown
<1>10. Object' = [Object EXCEPT ![i].offset = o]
  <2>1. /\ \A j \in Entries : j # i => Object'[j] = Object[j]
        /\ Object'[i] = [Object[i] EXCEPT !.offset = o]
    BY <1>8, <1>9 DEF View, ObjectView
  <2>2. Object = [j \in Entries |-> Object[j]] /\ Object' = [j \in Entries |-> Object'[j]]
    BY DEF View, ObjectView
  <2>3. Object' = [Object EXCEPT ![i] = Object'[i]]
    BY <2>1, <2>2, <1>3, ChangedFunction
  <2>4. QED  BY <2>1, <2>3
<1>11. o \in 0 .. Capacity /\ i # None
  BY SeeksAssumption, NoneAssumption
<1>12. Abstract!Seek(c)
  BY <1>2, <1>4, <1>5, <1>6, <1>7, <1>10, <1>11 DEF Abstract!Seek
<1>13. QED  BY <1>12 DEF Promised, Abstract!Next

(* CloseUnmap returns from the flush: the descriptor is given up.           *)
LEMMA CloseUnmapPromised ==
    ASSUME IInv, ViewInv, View, View', NEW c \in Clients, CloseUnmap(c)
    PROVE  Promised
<1>1. /\ pc[c] = "unmap" /\ pc' = [pc EXCEPT ![c] = "idle"]
      /\ call' = [call EXCEPT ![c] = NoCall]
      /\ fd' = [fd EXCEPT ![c][call[c].num] = None]
      /\ UNCHANGED <<opentab, page, size, srv, fsreq>>
  BY DEF CloseUnmap, Runs, serverVars
<1>2. PICK k \in Slots : k = call[c].num /\ call[c] \in Request /\ call[c].op = "flush"
  BY <1>1 DEF ViewInv, ClientInv, Request
<1>3. Asked[c] = AsCall(call[c], "done", 0) /\ Asked[c] # None /\ Asked'[c] = None
  BY <1>1 DEF View, AskedView, IInv, TypeOK
<1>4. Asked[c].op = "flush" /\ Asked[c].fd = k /\ Asked[c].stage = "done"
  BY <1>2, <1>3, AsCallLemma, ValuesLemma DEF Stages
<1>5. \A d \in Clients : d # c => Asked'[d] = Asked[d]
  <2>1. ASSUME NEW d \in Clients, d # c  PROVE Asked'[d] = Asked[d]
    <3>1. pc'[d] = pc[d] /\ call'[d] = call[d] /\ pc[d] \in {"dead", "idle", "sent", "wait", "unmap"}
      BY <1>1, <2>1 DEF IInv, TypeOK
    <3>2. QED  BY <1>1, <3>1, AskedUnmoved
  <2>2. QED  BY <2>1
<1>6. Asked' = [Asked EXCEPT ![c] = None]
  BY <1>3, <1>5, ChangedAsked
<1>7. srv.whom # c /\ (Delivering' = Delivering)
  BY <1>1 DEF ViewInv, ClientInv, Delivering
<1>8. HeldBy' = [HeldBy EXCEPT ![c][k] = None]
  <2>1. CASE ~ Delivering
    BY <1>1, <1>2, <1>7, <2>1 DEF View, HeldView
  <2>2. CASE Delivering
    <3>1. PICK w \in Clients, n \in Slots, j \in Entries : w = srv.whom /\ n = fsreq.num /\ j = srv.i
      BY <2>2 DEF View, HeldView
    <3>2. HeldBy = [fd EXCEPT ![w][n] = j]
      BY <2>2, <3>1 DEF View, HeldView
    <3>3. Delivering' /\ w = srv'.whom /\ n = fsreq'.num /\ j = srv'.i
      BY <1>1, <1>7, <2>2, <3>1
    <3>4. HeldBy' = [fd' EXCEPT ![w][n] = j]
      BY <3>3 DEF View, HeldView
    <3>5. w # c
      BY <1>7, <3>1
    <3>6. QED  BY <1>1, <3>2, <3>4, <3>5, <1>2 DEF IInv, TypeOK
  <2>3. QED  BY <2>1, <2>2
<1>9. \A i \in Entries : Used(i)' => Used(i)
  BY <1>8, NoneAssumption DEF Used, View, HeldView
<1>10. Object' = Abstract!Forget(HeldBy', Object)
  BY <1>1, <1>9, ForgottenObjects
<1>11. Orphans' = Orphans
  BY <1>1 DEF Orphans, ServedCall, AsCall, At
<1>12. Abstract!Return(c)
  BY <1>1, <1>3, <1>4, <1>6, <1>8, <1>10, <1>11 DEF Abstract!Return, Abstract!Stage
<1>13. QED  BY <1>12 DEF Promised, Abstract!Next

LEMMA ForkPromised ==
    ASSUME IInv, ViewInv, View, View', NEW c \in Clients, NEW e \in Clients, Fork(c, e)
    PROVE  Promised
<1>1. /\ pc[c] = "idle" /\ pc[e] = "dead" /\ pc' = [pc EXCEPT ![e] = "idle"]
      /\ fd' = [fd EXCEPT ![e] = fd[c]]
      /\ UNCHANGED <<call, opentab, page, size, srv, fsreq>>
  BY DEF Fork, Runs, serverVars
<1>2. Asked[c] = None /\ Asked[e] = None /\ Asked'[e] = None
  BY <1>1 DEF View, AskedView, IInv, TypeOK
<1>3. Asked' = Asked
  <2>1. ASSUME NEW d \in Clients  PROVE Asked'[d] = Asked[d]
    BY <1>1, <1>2, <2>1, SMTT(30) DEF View, AskedView, ServedCall, AsCall, IInv, TypeOK
  <2>2. QED  BY <2>1, SameAsked
<1>4. srv.whom # e /\ srv.whom # c /\ (Delivering' = Delivering) /\ fd[e] = Closed
  BY <1>1 DEF ViewInv, ClientInv, Delivering
<1>5. HeldBy[e] = Closed /\ HeldBy' = [HeldBy EXCEPT ![e] = HeldBy[c]]
  <2>1. CASE ~ Delivering
    BY <1>1, <1>4, <2>1 DEF View, HeldView
  <2>2. CASE Delivering
    <3>1. PICK w \in Clients, n \in Slots, j \in Entries : w = srv.whom /\ n = fsreq.num /\ j = srv.i
      BY <2>2 DEF View, HeldView
    <3>2. HeldBy = [fd EXCEPT ![w][n] = j]
      BY <2>2, <3>1 DEF View, HeldView
    <3>3. Delivering' /\ w = srv'.whom /\ n = fsreq'.num /\ j = srv'.i
      BY <1>1, <1>4, <2>2, <3>1
    <3>4. HeldBy' = [fd' EXCEPT ![w][n] = j]
      BY <3>3 DEF View, HeldView
    <3>5. w # e /\ w # c
      BY <1>4, <3>1
    <3>6. QED  BY <1>1, <3>2, <3>4, <3>5, <1>4 DEF IInv, TypeOK
  <2>3. QED  BY <2>1, <2>2
<1>6. \A i \in Entries : Used(i)' = Used(i)
  <2>1. ASSUME NEW i \in Entries, NEW d \in Clients, NEW k \in Slots, HeldBy'[d][k] = i
        PROVE  Used(i)
    BY <1>5, <2>1 DEF Used, View, HeldView
  <2>2. ASSUME NEW i \in Entries, NEW d \in Clients, NEW k \in Slots, HeldBy[d][k] = i
        PROVE  Used(i)'
    <3>1. d # e
      BY <1>5, <2>2, NoneAssumption DEF Closed
    <3>2. QED  BY <1>5, <2>2, <3>1 DEF Used, View, HeldView
  <2>3. QED  BY <2>1, <2>2 DEF Used
<1>7. Object' = Object
  <2>1. \A i \in Entries : Shown(i)' = Shown(i)
    BY <1>1 DEF Shown
  <2>2. \A i \in Entries : Object'[i] = Object[i]
    BY <1>6, <2>1 DEF View, ObjectView
  <2>3. Object = [i \in Entries |-> Object[i]] /\ Object' = [i \in Entries |-> Object'[i]]
    BY DEF View, ObjectView
  <2>4. QED  BY ONLY <2>2, <2>3, SameFunction
<1>8. Orphans' = Orphans
  BY <1>1 DEF Orphans, ServedCall, AsCall, At
<1>9. Abstract!Inherit(c, e)
  BY <1>1, <1>2, <1>3, <1>5, <1>7, <1>8 DEF Abstract!Inherit, Abstract!NoneHeld, Closed
<1>10. QED  BY <1>9 DEF Promised, Abstract!Next

(* A program that dies leaves its call to the server, while the server has  *)
(* not answered it.                                                         *)
LEMMA DestroyPromised ==
    ASSUME IInv, ViewInv, View, View', NEW c \in Clients, Destroy(c)
    PROVE  Promised
<1>1. /\ pc' = [pc EXCEPT ![c] = "dead"] /\ fd' = [fd EXCEPT ![c] = Closed]
      /\ call' = [call EXCEPT ![c] = NoCall]
      /\ UNCHANGED <<opentab, page, size, fsreq>>
  BY DEF Destroy
<1>2. /\ srv'.pc = srv.pc /\ srv'.i = srv.i /\ srv'.r = srv.r
      /\ srv'.whom = IF srv.whom = c THEN None ELSE srv.whom
      /\ srv.whom # c => srv' = srv
  BY DEF Destroy, IInv, TypeOK
<1>3. pc'[c] = "dead" /\ \A d \in Clients : d # c => pc'[d] = pc[d] /\ call'[d] = call[d]
  BY <1>1 DEF IInv, TypeOK
<1>4. Asked' = [Asked EXCEPT ![c] = None]
  <2>1. Asked'[c] = None
    BY <1>3 DEF View, AskedView
  <2>2. ASSUME NEW d \in Clients, d # c  PROVE Asked'[d] = Asked[d]
    <3>1. pc[d] \in {"dead", "idle", "sent", "wait", "unmap"}
      BY DEF IInv, TypeOK
    <3>2. CASE srv.whom = d
      BY <1>1, <1>2, <1>3, <2>2, <3>1, <3>2, AskedUnmoved
    <3>3. CASE srv.whom # d
      <4>1. pc[d] \in {"dead", "idle", "unmap"}
        BY <3>1, <3>3 DEF View, AskedView
      <4>2. QED  BY <1>3, <2>2, <4>1, AskedKept
    <3>4. QED  BY <3>2, <3>3
  <2>3. QED  BY <2>1, <2>2, ChangedAsked
<1>5. HeldBy' = [HeldBy EXCEPT ![c] = Closed]
  <2>1. CASE ~ Delivering
    <3>1. ~ Delivering'
      BY <1>1, <1>2, <2>1 DEF Delivering
    <3>2. QED  BY <1>1, <2>1, <3>1 DEF View, HeldView
  <2>2. CASE Delivering
    <3>1. PICK w \in Clients, n \in Slots, j \in Entries : w = srv.whom /\ n = fsreq.num /\ j = srv.i
      BY <2>2 DEF View, HeldView
    <3>2. HeldBy = [fd EXCEPT ![w][n] = j]
      BY <2>2, <3>1 DEF View, HeldView
    <3>3. CASE w = c
      <4>1. ~ Delivering'
        BY <1>2, <3>1, <3>3 DEF Delivering
      <4>2. HeldBy' = fd'
        BY <4>1 DEF View, HeldView
      <4>3. QED  BY <1>1, <3>2, <3>3, <4>2 DEF IInv, TypeOK
    <3>4. CASE w # c
      <4>1. Delivering' /\ w = srv'.whom /\ n = fsreq'.num /\ j = srv'.i
        BY <1>1, <1>2, <2>2, <3>1, <3>4 DEF Delivering
      <4>2. HeldBy' = [fd' EXCEPT ![w][n] = j]
        BY <4>1 DEF View, HeldView
      <4>3. QED  BY <1>1, <3>2, <3>4, <4>2 DEF IInv, TypeOK
    <3>5. QED  BY <3>3, <3>4
  <2>3. QED  BY <2>1, <2>2
<1>6. Object' = Abstract!Forget(HeldBy', Object)
  <2>1. \A i \in Entries : Used(i)' => Used(i)
    BY <1>5, NoneAssumption DEF Used, View, HeldView, Closed
  <2>2. QED  BY <1>1, <2>1, ForgottenObjects
<1>7. Orphans' \in {Orphans} \cup
           {Orphans \cup {[call |-> x, on |-> HeldBy[c][x.fd]]} :
                x \in Abstract!Stage(c, "asked") \cup Abstract!Stage(c, "moving")}
  <2>1. ServedCall(fsreq)' = ServedCall(fsreq) /\ At' = At
    BY <1>1, <1>2 DEF ServedCall, AsCall, At
  <2>2. CASE srv.whom # c
    BY <1>1, <1>2, <2>1, <2>2 DEF Orphans
  <2>3. CASE srv.whom = c /\ srv.pc \notin {"scan", "claim", "work", "move"}
    BY <1>2, <2>3, NoneAssumption DEF Orphans
  <2>4. CASE srv.whom = c /\ srv.pc \in {"scan", "claim", "work", "move"}
    <3>1. PICK x : x = Asked[c] /\ x # None /\ x = ServedCall(fsreq)
      BY <2>4 DEF ViewInv, ClientInv, View, AskedView
    <3>2. fsreq \in Request /\ srv.r \in Values /\ 0 \in Values
      BY <2>4, ValuesLemma DEF IInv, ServerInv, TypeOK
    <3>3. x.stage \in {"asked", "moving"} /\ x.fd = fsreq.num
      BY <2>4, <3>1, <3>2, AsCallLemma DEF ServedCall, Stages
    <3>4. HeldBy[c][x.fd] = IF fsreq.op = "open" THEN None ELSE At
      <4>1. HeldBy = fd
        BY <2>4 DEF View, HeldView, Delivering
      <4>2. fsreq.op = "open" => fd[c][fsreq.num] = None
        BY <2>4 DEF ViewInv, ClientInv
      <4>3. fsreq.op # "open" => fd[c][fsreq.num] = At
        BY <2>4, NoneAssumption, WorkingLemma
      <4>4. QED  BY <3>3, <4>1, <4>2, <4>3
    <3>5. Orphans = {} /\ Orphans' = {[call |-> x, on |-> HeldBy[c][x.fd]]}
      <4>1. Orphans = {}
        BY <2>4, NoneAssumption DEF Orphans
      <4>2. srv'.whom = None /\ srv'.pc \in {"scan", "claim", "work", "move"} /\ fsreq' = fsreq
        BY <1>1, <1>2, <2>4
      <4>3. Orphans' = {[call |-> ServedCall(fsreq)', on |-> IF fsreq.op = "open" THEN None ELSE At']}
        BY <4>2 DEF Orphans
      <4>4. QED  BY <2>1, <3>1, <3>4, <4>1, <4>3
    <3>6. x \in Abstract!Stage(c, "asked") \cup Abstract!Stage(c, "moving")
      BY <3>1, <3>3 DEF Abstract!Stage
    <3>7. QED  BY <3>5, <3>6
  <2>5. QED  BY <2>2, <2>3, <2>4
<1>8. Abstract!Die(c)
  BY <1>1, <1>4, <1>5, <1>6, <1>7 DEF Abstract!Die, Abstract!NoneHeld, Closed
<1>9. QED  BY <1>8 DEF Promised, Abstract!Next

-----------------------------------------------------------------------------
(* The server's steps act for the program it works for, or for an orphan.   *)
LEMMA ServerView ==
    ASSUME IInv, ViewInv, View, View', UNCHANGED <<pc, call, fsreq>>, srv'.whom = srv.whom,
           srv.pc # "recv", srv'.pc # "recv"
    PROVE  /\ srv.whom = None => Asked' = Asked
           /\ srv.whom # None =>
                 /\ srv.whom \in Clients
                 /\ Asked[srv.whom] = ServedCall(fsreq) /\ Asked[srv.whom] # None
                 /\ Asked'[srv.whom] = ServedCall(fsreq)' /\ Asked'[srv.whom] # None
                 /\ Asked' = [Asked EXCEPT ![srv.whom] = Asked'[srv.whom]]
                 /\ Orphans = {} /\ Orphans' = {}
<1>1. ASSUME NEW d \in Clients, d # srv.whom  PROVE Asked'[d] = Asked[d]
  <2>1. pc[d] \in {"dead", "idle", "unmap"}
    BY <1>1 DEF View, AskedView, IInv, TypeOK
  <2>2. QED  BY <1>1, <2>1, AskedKept
<1>2. ASSUME srv.whom = None  PROVE Asked' = Asked
  <2>1. \A d \in Clients : Asked'[d] = Asked[d]
    BY <1>1, <1>2, NoneAssumption
  <2>2. QED  BY <2>1, SameAsked
<1>3. ASSUME srv.whom # None
      PROVE  /\ srv.whom \in Clients
             /\ Asked[srv.whom] = ServedCall(fsreq) /\ Asked[srv.whom] # None
             /\ Asked'[srv.whom] = ServedCall(fsreq)' /\ Asked'[srv.whom] # None
             /\ Asked' = [Asked EXCEPT ![srv.whom] = Asked'[srv.whom]]
             /\ Orphans = {} /\ Orphans' = {}
  <2>1. PICK c \in Clients : c = srv.whom /\ pc[c] \in {"sent", "wait"} /\ pc'[c] \in {"sent", "wait"}
    BY <1>3 DEF IInv, TypeOK, ViewInv, ClientInv
  <2>2. Asked[c] = ServedCall(fsreq) /\ Asked[c] # None
        /\ Asked'[c] = ServedCall(fsreq)' /\ Asked'[c] # None
    BY <2>1 DEF View, AskedView
  <2>3. Asked' = [Asked EXCEPT ![c] = Asked'[c]]
    BY <1>1, <2>1, ChangedAsked
  <2>4. Orphans = {} /\ Orphans' = {}
    BY <1>3 DEF Orphans
  <2>5. QED  BY <2>1, <2>2, <2>3, <2>4
<1>4. QED  BY <1>2, <1>3

(* A step of the server that the program does not see.                      *)
LEMMA UnseenLemma ==
    ASSUME IInv, ViewInv, View, View', UNCHANGED <<pc, call, fsreq, size>>, srv'.whom = srv.whom,
           srv.pc \in {"scan", "claim"}, srv'.pc \in {"scan", "claim"},
           HeldBy' = HeldBy, Object' = Object
    PROVE  Promised
<1>1. ServedCall(fsreq)' = ServedCall(fsreq) /\ At' = At
  BY DEF ServedCall, AsCall, At
<1>2. Asked' = Asked
  <2>1. CASE srv.whom = None
    BY <2>1, ServerView
  <2>2. CASE srv.whom # None
    <3>1. PICK c \in Clients : Asked'[c] = Asked[c] /\ Asked' = [Asked EXCEPT ![c] = Asked'[c]]
      BY <1>1, <2>2, ServerView
    <3>2. Asked = [d \in Clients |-> Asked[d]]
      BY DEF View, AskedView
    <3>3. QED  BY <3>1, <3>2
  <2>3. QED  BY <2>1, <2>2
<1>3. Orphans' = Orphans
  BY <1>1 DEF Orphans
<1>4. QED  BY <1>2, <1>3, StutterLemma

(* The open fails, or what a dead program asked for lapses.                 *)
LEMMA RefusedLemma ==
    ASSUME IInv, ViewInv, View, View', UNCHANGED <<pc, call, fsreq, size>>, srv'.whom = srv.whom,
           srv.pc \in {"scan", "claim"}, srv'.pc = "reply", srv'.r = Error,
           HeldBy' = HeldBy, Object' = Object
    PROVE  Promised
<1>1. fsreq \in Request /\ fsreq.op = "open" /\ Error \in Values /\ 0 \in Values
  BY ValuesLemma DEF IInv, ServerInv
<1>2. ServedCall(fsreq) = AsCall(fsreq, "asked", 0) /\ ServedCall(fsreq)' = AsCall(fsreq, "done", Error)
  BY DEF ServedCall, AsCall
<1>3. CASE srv.whom # None
  <2>1. PICK c \in Clients : c = srv.whom
    BY <1>3 DEF IInv, TypeOK
  <2>2. PICK q : q = AsCall(fsreq, "asked", 0)
    OBVIOUS
  <2>3. /\ Asked[c] = q /\ q # None /\ Orphans = {} /\ Orphans' = {}
        /\ Asked' = [Asked EXCEPT ![c] = AsCall(fsreq, "done", Error)]
    BY <1>2, <1>3, <2>1, <2>2, ServerView
  <2>4. q.stage = "asked" /\ q.op = "open"
    BY <1>1, <2>2, AsCallLemma DEF Stages
  <2>5. Abstract!Later(q, Error) = AsCall(fsreq, "done", Error)
    BY <1>1, <2>2, LaterLemma
  <2>6. Abstract!Error = Error
    BY DEF Error, Abstract!Error
  <2>7. Abstract!OpenFails(c)
    BY <2>3, <2>4, <2>5, <2>6 DEF Abstract!OpenFails, Abstract!Stage
  <2>8. QED  BY <2>7 DEF Promised, Abstract!Next
<1>4. CASE srv.whom = None
  <2>1. Asked' = Asked
    BY <1>4, ServerView
  <2>2. PICK x : Orphans = {x} /\ Orphans' = {}
    BY <1>4 DEF Orphans
  <2>3. Abstract!OrphanLapses
    BY <2>1, <2>2 DEF Abstract!OrphanLapses
  <2>4. QED  BY <2>3 DEF Promised, Abstract!Next
<1>5. QED  BY <1>3, <1>4

LEMMA UnusedLemma ==
    ASSUME View, ~ Delivering, NEW i, Unheld(i)
    PROVE  ~ Used(i)
  BY DEF View, HeldView, Used, Unheld

LEMMA ScanPromised ==
    ASSUME IInv, ViewInv, View, View', Scan
    PROVE  Promised
<1>1. UNCHANGED <<fd, pc, call, opentab, size, fsreq>> /\ srv.pc = "scan"
  BY DEF Scan, clientVars
<1>2. ASSUME Answer(Error), UNCHANGED page  PROVE Promised
  <2>1. srv'.pc = "reply" /\ srv'.whom = srv.whom /\ srv'.r = Error
    BY <1>2, AnswerLemma, ValuesLemma
  <2>2. HeldBy' = HeldBy
    BY <1>1, <2>1 DEF View, HeldView, Delivering, Error
  <2>3. Object' = Object
    BY <1>1, <1>2, <2>2, SameObjects
  <2>4. QED  BY <1>1, <2>1, <2>2, <2>3, RefusedLemma
<1>3. ASSUME srv' = [srv EXCEPT !.i = @ + 1], UNCHANGED page  PROVE Promised
  <2>1. srv'.pc = "scan" /\ srv'.whom = srv.whom
    BY <1>1, <1>3 DEF IInv, TypeOK
  <2>2. HeldBy' = HeldBy
    BY <1>1, <2>1 DEF View, HeldView, Delivering
  <2>3. Object' = Object
    BY <1>1, <1>3, <2>2, SameObjects
  <2>4. QED  BY <1>1, <2>1, <2>2, <2>3, UnseenLemma
<1>4. ASSUME srv.i < MAXOPEN, Free(srv.i), Goto("claim"), Clear(srv.i)  PROVE Promised
  <2>1. srv'.pc = "claim" /\ srv'.whom = srv.whom
    BY <1>4, GotoLemma
  <2>2. HeldBy' = HeldBy /\ ~ Delivering
    BY <1>1, <2>1 DEF View, HeldView, Delivering
  <2>3. PICK i \in Entries : i = srv.i /\ i # None
    BY <1>4, CountsLemma, NoneAssumption DEF IInv, TypeOK, Entries
  <2>4. ~ Used(i)
    BY <1>4, <2>2, <2>3, FreeLemma, UnusedLemma DEF IInv
  <2>5. \A j \in Entries : j # i => page'[j] = page[j]
    BY <1>4, <2>3 DEF Clear, IInv, TypeOK
  <2>6. Object' = Object
    BY <1>1, <2>2, <2>4, <2>5, SameObjects
  <2>7. QED  BY <1>1, <2>1, <2>2, <2>6, UnseenLemma
<1>5. QED  BY <1>2, <1>3, <1>4 DEF Scan

LEMMA ServeInvalidPromised ==
    ASSUME IInv, ViewInv, View, View', ServeInvalid
    PROVE  Promised
<1>1. srv.pc = "work" /\ ~ Lookup(fsreq.id) /\ Answer(Inval) /\ fsreq.op # "open"
      /\ UNCHANGED <<fd, pc, call, opentab, page, size, fsreq>>
  BY DEF ServeInvalid, clientVars, IInv, ServerInv
<1>2. srv.whom = None
  BY <1>1, WorkingLemma
<1>3. srv'.pc = "reply" /\ srv'.whom = srv.whom
  BY <1>1, AnswerLemma, ValuesLemma
<1>4. HeldBy' = HeldBy
  BY <1>1, <1>3 DEF View, HeldView, Delivering
<1>5. Object' = Object
  BY <1>1, <1>4, SameObjects
<1>6. Asked' = Asked
  BY <1>1, <1>2, <1>3, ServerView
<1>7. PICK x : Orphans = {x} /\ Orphans' = {}
  BY <1>1, <1>2, <1>3 DEF Orphans
<1>8. Abstract!OrphanLapses
  BY <1>1, <1>4, <1>5, <1>6, <1>7 DEF Abstract!OrphanLapses
<1>9. QED  BY <1>8 DEF Promised, Abstract!Next

(* The open succeeds: the entry is nobody's yet, and its page is cleared.   *)
LEMMA MayOpenLemma ==
    ASSUME IInv, srv.pc = "claim", NEW z \in Opened(fsreq), z # Error,
           size' = [size EXCEPT ![fsreq.file] = z],
           NEW q, q.file = fsreq.file, q.mode = fsreq.mode
    PROVE  Abstract!MayOpen(q) /\ Abstract!Opened(q)
<1>1. PICK f \in Files : f = fsreq.file
  BY DEF IInv, ServerInv
<1>2. z \in 0 .. 3 * Capacity
  BY OpenedLemma
<1>3. ~ Refused(fsreq)
  BY DEF Opened
<1>4. Abstract!MayOpen(q)
  BY <1>3 DEF Refused, Exists, Abstract!MayOpen
<1>5. /\ "TRUNC" \in q.mode => z = 0
      /\ "TRUNC" \notin q.mode /\ size[q.file] # Absent => z = size[q.file]
  BY <1>3 DEF Opened, Exists
<1>6. Abstract!Opened(q)
  BY <1>2, <1>5 DEF Abstract!Opened, Abstract!Resized
<1>7. QED  BY <1>4, <1>6

LEMMA ServeOpenPromised ==
    ASSUME IInv, IInv', ViewInv, View, View', ServeOpen
    PROVE  Promised
<1>1. PICK i \in {srv.i}, id \in {NextId(opentab[srv.i].fileid)}, z \in Opened(fsreq) :
        /\ opentab' = [opentab EXCEPT ![i] =
               [fileid |-> id, file |-> IF z = Error THEN @.file ELSE fsreq.file]]
        /\ size' = IF z = Error THEN size ELSE [size EXCEPT ![fsreq.file] = z]
        /\ page' = IF z = Error THEN page ELSE [page EXCEPT ![i].id = id]
        /\ Answer(IF z = Error THEN Error ELSE 0)
  BY DEF ServeOpen
<1>2. /\ srv.pc = "claim" /\ srv.i = i /\ i \in Entries /\ page[i] # None /\ Unheld(i)
      /\ fsreq \in Request /\ fsreq.op = "open" /\ fsreq.file \in Files
      /\ page[i].offset = 0
  BY <1>1 DEF ServeOpen, IInv, ServerInv, ViewInv, WorkInv
<1>3. UNCHANGED <<fd, pc, call, fsreq>>
  BY DEF ServeOpen, clientVars
<1>4. PICK r \in Values : r = IF z = Error THEN Error ELSE 0
  BY ValuesLemma
<1>5. srv'.pc = "reply" /\ srv'.whom = srv.whom /\ srv'.i = i /\ srv'.r = r
  BY <1>1, <1>2, <1>4, AnswerLemma
<1>6. /\ \A j \in Entries : j # i => opentab'[j] = opentab[j] /\ page'[j] = page[j]
      /\ page'[i].offset = 0
      /\ z # Error => opentab'[i].file = fsreq.file
  <2>1. page[i] \in FdPage
    BY <1>2 DEF IInv, TypeOK
  <2>2. PICK f : f = IF z = Error THEN opentab[i].file ELSE fsreq.file
    OBVIOUS
  <2>3. opentab' = [opentab EXCEPT ![i] = [fileid |-> id, file |-> f]]
    BY <1>1, <2>2
  <2>4. opentab'[i] = [fileid |-> id, file |-> f] /\ \A j \in Entries : j # i => opentab'[j] = opentab[j]
    BY <1>2, <2>3 DEF IInv, TypeOK
  <2>5. page'[i].offset = 0 /\ \A j \in Entries : j # i => page'[j] = page[j]
    BY <1>1, <1>2, <2>1 DEF IInv, TypeOK, FdPage
  <2>6. QED  BY <2>2, <2>4, <2>5
<1>7. ~ Delivering /\ HeldBy = fd /\ ~ Used(i)
  <2>1. ~ Delivering
    BY <1>2 DEF Delivering
  <2>2. QED  BY <1>2, <2>1, UnusedLemma DEF View, HeldView
<1>8. CASE z = Error
  <2>1. HeldBy' = HeldBy
    BY <1>3, <1>4, <1>5, <1>7, <1>8 DEF View, HeldView, Delivering, Error
  <2>2. Object' = Object
    BY <1>6, <1>7, <2>1, SameObjects
  <2>3. size' = size /\ srv'.r = Error
    BY <1>1, <1>4, <1>5, <1>8
  <2>4. QED  BY <1>2, <1>3, <1>5, <2>1, <2>2, <2>3, RefusedLemma
<1>9. CASE z # Error
  <2>1. ServedCall(fsreq) = AsCall(fsreq, "asked", 0) /\ ServedCall(fsreq)' = AsCall(fsreq, "done", 0)
    BY <1>2, <1>3, <1>4, <1>5, <1>9 DEF ServedCall, AsCall
  <2>2. PICK q : q = AsCall(fsreq, "asked", 0)
    OBVIOUS
  <2>3. /\ q.stage = "asked" /\ q.op = "open" /\ q.fd = fsreq.num
        /\ q.file = fsreq.file /\ q.mode = fsreq.mode
        /\ Abstract!Later(q, 0) = AsCall(fsreq, "done", 0)
    BY <1>2, <2>2, AsCallLemma, LaterLemma, ValuesLemma DEF Stages
  <2>4. size' = [size EXCEPT ![fsreq.file] = z]
    BY <1>1, <1>9
  <2>5. Abstract!MayOpen(q) /\ Abstract!Opened(q)
    BY <1>2, <1>9, <2>3, <2>4, MayOpenLemma
  <2>6. CASE srv.whom # None
    <3>1. PICK c \in Clients : c = srv.whom
      BY <2>6 DEF IInv, TypeOK
    <3>2. /\ Asked[c] = q /\ q # None /\ Orphans = {} /\ Orphans' = {}
          /\ Asked' = [Asked EXCEPT ![c] = Abstract!Later(q, 0)]
      BY <1>2, <1>3, <1>5, <2>1, <2>2, <2>3, <3>1, <2>6, ServerView
    <3>3. Delivering'
      BY <1>2, <1>3, <1>4, <1>5, <1>9, <2>6 DEF Delivering
    <3>4. HeldBy' = [HeldBy EXCEPT ![c][q.fd] = i]
      BY <1>3, <1>5, <1>7, <2>3, <3>1, <3>3 DEF View, HeldView
    <3>5. PICK k \in Slots : k = q.fd
      BY <1>2, <2>3 DEF Request
    <3>6. \A j \in Entries : j # i => (Used(j)' <=> Used(j))
      <4>1. ASSUME NEW j \in Entries, j # i  PROVE Used(j)' => Used(j)
        BY <3>4, <3>5, <4>1 DEF Used, View, HeldView
      <4>2. ASSUME NEW j \in Entries, j # i  PROVE Used(j) => Used(j)'
        <5>1. fd[c][k] = None
          BY <1>2, <2>3, <3>1, <3>5 DEF ViewInv, ClientInv
        <5>2. j # None
          BY NoneAssumption
        <5>3. QED  BY <1>7, <3>4, <3>5, <4>2, <5>1, <5>2 DEF Used, View, HeldView
      <4>3. QED  BY <4>1, <4>2
    <3>7. Used(i)'
      BY <3>4, <3>5 DEF Used, View, HeldView
    <3>8. Object' = [Object EXCEPT ![i] = [file |-> q.file, offset |-> 0]]
      <4>1. \A j \in Entries : j # i => Shown(j)' = Shown(j)
        BY <1>6 DEF Shown
      <4>2. Shown(i)' = [file |-> q.file, offset |-> 0]
        BY <1>6, <1>9, <2>3 DEF Shown
      <4>3. \A j \in Entries : j # i => Object'[j] = Object[j]
        BY <3>6, <4>1 DEF View, ObjectView
      <4>4. Object'[i] = [file |-> q.file, offset |-> 0]
        BY <1>2, <3>7, <4>2 DEF View, ObjectView
      <4>5. Object = [j \in Entries |-> Object[j]] /\ Object' = [j \in Entries |-> Object'[j]]
        BY DEF View, ObjectView
      <4>6. Object' = [Object EXCEPT ![i] = Object'[i]]
        BY <1>2, <4>3, <4>5, ChangedFunction
      <4>7. QED  BY <4>4, <4>6
    <3>9. ~ Abstract!InUse(i)
      BY <1>7 DEF Abstract!InUse, Used
    <3>10. Abstract!OpenFile(c)
      BY <1>2, <2>3, <2>5, <3>2, <3>4, <3>8, <3>9 DEF Abstract!OpenFile, Abstract!Stage
    <3>11. QED  BY <3>10 DEF Promised, Abstract!Next
  <2>7. CASE srv.whom = None
    <3>1. Asked' = Asked
      BY <1>2, <1>3, <1>5, <2>7, ServerView
    <3>2. HeldBy' = HeldBy
      BY <1>3, <1>5, <1>7, <2>7 DEF View, HeldView, Delivering
    <3>3. Object' = Object
      BY <1>6, <1>7, <3>2, SameObjects
    <3>4. PICK x : x = [call |-> q, on |-> None]
      OBVIOUS
    <3>5. Orphans = {x} /\ Orphans' = {}
      BY <1>2, <1>5, <2>1, <2>2, <2>7, <3>4 DEF Orphans
    <3>6. 0 \in Abstract!Answers
      BY CountsLemma DEF Abstract!Answers, Abstract!Error
    <3>7. x.call = q
      BY <3>4
    <3>8. Abstract!OrphanActs
      BY <2>3, <2>5, <3>1, <3>2, <3>3, <3>5, <3>6, <3>7 DEF Abstract!OrphanActs
    <3>9. QED  BY <3>8 DEF Promised, Abstract!Next
  <2>8. QED  BY <2>6, <2>7
<1>10. QED  BY <1>8, <1>9

(* A handler does what OpenFiles says of its call on the open file.         *)
LEMMA ActLemma ==
    ASSUME IInv, ViewInv, View, srv.pc = "work", Lookup(fsreq.id), NEW x, x = Handled(fsreq),
           size' = [size EXCEPT ![File] = x.size],
           NEW q, q.op = fsreq.op, q.n = fsreq.n
    PROVE  /\ Used(At) /\ At \in Entries
           /\ x.r \in Abstract!Answers /\ x.r \in Values
           /\ Abstract!Act(q, Object[At], x.r)
<1>1. HeldBy = fd
  BY DEF View, HeldView, Delivering
<1>2. PICK i \in Entries : i = At /\ Used(i)
  <2>1. \E c \in Clients, k \in Slots : fd[c][k] = At
    BY LookupLemma DEF Lookup
  <2>2. QED  BY <1>1, <2>1, HandledLemma DEF Used
<1>3. PICK f \in Files : f = File /\ opentab[i].file = f
  BY <1>2 DEF View, ObjectView, File
<1>4. size[f] # Absent
  <2>1. \E c \in Clients, k \in Slots : fd[c][k] = i
    BY <1>1, <1>2 DEF Used
  <2>2. QED  BY <1>3, <2>1, NoneAssumption DEF IInv, EntryHeld
<1>5. PICK s \in 0 .. 3 * Capacity, o \in 0 .. 2 * Capacity : s = size[f] /\ o = Offset /\ o = page[i].offset
  BY <1>2, <1>3, <1>4 DEF View, ObjectView, IInv, TypeOK, FdPage, Offset
<1>6. Object[i].file = f /\ Object[i].offset = o
  BY <1>2, <1>3, <1>5 DEF View, ObjectView, Shown
<1>7. PICK n \in 0 .. Capacity : n = fsreq.n
  BY DEF IInv, ServerInv, Request
<1>8. x.r \in Values
  BY HandledLemma
<1>9. \A m \in 0 .. Capacity : /\ Abstract!Fits(o, m) = Fits(m)
                               /\ Fits(m) \in Abstract!Answers
  BY <1>5, CountsLemma DEF Fits, Error, Abstract!Fits, Abstract!Error, Abstract!Answers
<1>10. size \in [Files -> {Absent} \cup 0 .. 3 * Capacity] /\ size' = [size EXCEPT ![f] = x.size]
  BY <1>3 DEF IInv, TypeOK
<1>11. x.r \in Abstract!Answers /\ Abstract!Act(q, Object[i], x.r)
  <2>1. CASE fsreq.op = "read"
    <3>1. Count(n) \in 0 .. Capacity /\ Count(n) = IF o >= s THEN 0 ELSE Abstract!Least(n, s - o)
      BY <1>3, <1>5, CountsLemma DEF Count, Least, Abstract!Least
    <3>2. x.r = Fits(Count(n)) /\ x.size = s
      BY <1>3, <1>5, <1>7, <2>1 DEF Handled
    <3>3. size' = size
      BY <1>5, <1>10, <3>2
    <3>4. x.r = IF o >= s THEN Abstract!Fits(o, 0) ELSE Abstract!Fits(o, Abstract!Least(n, s - o))
      BY <1>9, <3>1, <3>2
    <3>5. x.r \in Abstract!Answers
      BY <1>9, <3>1, <3>2
    <3>6. Abstract!Act(q, Object[i], x.r)
      BY <1>5, <1>6, <1>7, <2>1, <3>3, <3>4 DEF Abstract!Act
    <3>7. QED  BY <3>5, <3>6
  <2>2. CASE fsreq.op = "write"
    <3>1. x.r = Fits(n) /\ x.size = Larger(s, o + n)
      BY <1>3, <1>5, <1>7, <2>2 DEF Handled
    <3>2. Larger(s, o + n) = Abstract!Larger(s, o + n)
      BY DEF Larger, Abstract!Larger
    <3>3. size' = [size EXCEPT ![f] = Abstract!Larger(s, o + n)]
      BY <1>10, <3>1, <3>2
    <3>4. Abstract!Act(q, Object[i], x.r)
      BY <1>5, <1>6, <1>7, <1>9, <2>2, <3>1, <3>3 DEF Abstract!Act, Abstract!Resized
    <3>5. QED  BY <1>9, <3>1, <3>4
  <2>3. CASE fsreq.op = "stat"
    <3>1. x.r = s /\ x.size = s
      BY <1>3, <1>5, <2>3 DEF Handled
    <3>2. size' = size
      BY <1>5, <1>10, <3>1
    <3>3. s \in Abstract!Answers
      BY CountsLemma DEF Abstract!Answers, Abstract!Error
    <3>4. Abstract!Act(q, Object[i], x.r)
      BY <1>5, <1>6, <2>3, <3>1, <3>2 DEF Abstract!Act
    <3>5. QED  BY <3>1, <3>3, <3>4
  <2>4. CASE fsreq.op = "set_size"
    <3>1. x.r = 0 /\ x.size = n
      BY <1>7, <2>4 DEF Handled
    <3>2. 0 \in Abstract!Answers
      BY CountsLemma DEF Abstract!Answers, Abstract!Error
    <3>3. Abstract!Act(q, Object[i], x.r)
      BY <1>6, <1>7, <1>10, <2>4, <3>1 DEF Abstract!Act, Abstract!Resized
    <3>4. QED  BY <3>1, <3>2, <3>3
  <2>5. CASE fsreq.op = "flush"
    <3>1. x.r = 0 /\ x.size = s
      BY <1>3, <1>5, <2>5 DEF Handled
    <3>2. size' = size
      BY <1>5, <1>10, <3>1
    <3>3. 0 \in Abstract!Answers
      BY CountsLemma DEF Abstract!Answers, Abstract!Error
    <3>4. Abstract!Act(q, Object[i], x.r)
      BY <1>6, <2>5, <3>1, <3>2 DEF Abstract!Act
    <3>5. QED  BY <3>1, <3>3, <3>4
  <2>6. fsreq.op \in {"read", "write", "stat", "set_size", "flush"}
    BY DEF IInv, ServerInv, Request, Ops
  <2>7. QED  BY <2>1, <2>2, <2>3, <2>4, <2>5, <2>6
<1>12. QED  BY <1>2, <1>8, <1>11

LEMMA ServePromised ==
    ASSUME IInv, ViewInv, View, View', Serve
    PROVE  Promised
<1>1. PICK x : /\ x = Handled(fsreq)
               /\ size' = [size EXCEPT ![File] = x.size]
               /\ srv' = [srv EXCEPT !.r = x.r,
                        !.pc = IF fsreq.op \in {"read", "write"} /\ x.r > 0 THEN "move" ELSE "reply"]
  BY DEF Serve
<1>2. srv.pc = "work" /\ Lookup(fsreq.id) /\ UNCHANGED <<fd, pc, call, opentab, page, fsreq>>
      /\ fsreq \in Request /\ fsreq.op # "open"
  BY DEF Serve, clientVars, IInv, ServerInv
<1>3. PICK l : l = IF fsreq.op \in {"read", "write"} /\ x.r > 0 THEN "move" ELSE "reply"
  OBVIOUS
<1>4. srv'.pc = l /\ srv'.whom = srv.whom /\ srv'.r = x.r
  BY <1>1, <1>3 DEF IInv, TypeOK
<1>5. HeldBy' = HeldBy /\ HeldBy = fd
  BY <1>2, <1>4 DEF View, HeldView, Delivering
<1>6. Object' = Object
  BY <1>2, <1>5, SameObjects
<1>7. PICK q : q = AsCall(fsreq, "asked", 0)
  OBVIOUS
<1>8. q.stage = "asked" /\ q.op = fsreq.op /\ q.fd = fsreq.num /\ q.n = fsreq.n
  BY <1>2, <1>7, AsCallLemma, ValuesLemma DEF Stages
<1>9. /\ Used(At) /\ At \in Entries /\ x.r \in Abstract!Answers /\ x.r \in Values
      /\ Abstract!Act(q, Object[At], x.r)
  BY <1>1, <1>2, <1>8, ActLemma
<1>10. /\ ServedCall(fsreq) = q
       /\ ServedCall(fsreq)' = Abstract!Later(q, x.r)
       /\ Abstract!Later(q, x.r).answer = x.r
  <2>1. ServedCall(fsreq) = q
    BY <1>2, <1>7 DEF ServedCall
  <2>2. Abstract!Later(q, x.r) =
          AsCall(fsreq, IF fsreq.op \in {"read", "write"} /\ x.r > 0 THEN "moving" ELSE "done", x.r)
    BY <1>2, <1>7, <1>9, LaterLemma
  <2>3. CASE l = "move"
    <3>1. Abstract!Later(q, x.r) = AsCall(fsreq, "moving", x.r)
      BY <1>3, <2>2, <2>3
    <3>2. ServedCall(fsreq)' = AsCall(fsreq, "moving", x.r)
      BY <1>2, <1>4, <2>3 DEF ServedCall, AsCall
    <3>3. QED  BY <1>2, <1>9, <2>1, <3>1, <3>2, AsCallLemma DEF Stages
  <2>4. CASE l # "move"
    <3>1. Abstract!Later(q, x.r) = AsCall(fsreq, "done", x.r) /\ l = "reply"
      BY <1>3, <2>2, <2>4
    <3>2. ServedCall(fsreq)' = AsCall(fsreq, "done", x.r)
      BY <1>2, <1>4, <3>1 DEF ServedCall, AsCall
    <3>3. QED  BY <1>2, <1>9, <2>1, <3>1, <3>2, AsCallLemma DEF Stages
  <2>5. QED  BY <2>3, <2>4
<1>11. srv'.pc # "recv"
  BY <1>3, <1>4
<1>12. CASE srv.whom # None
  <2>1. PICK c \in Clients : c = srv.whom
    BY <1>12 DEF IInv, TypeOK
  <2>2. /\ Asked[c] = q /\ q # None /\ Orphans = {} /\ Orphans' = {}
        /\ Asked'[c] = Abstract!Later(q, x.r) /\ Asked'[c] # None
        /\ Asked' = [Asked EXCEPT ![c] = Abstract!Later(q, x.r)]
    BY <1>2, <1>4, <1>10, <1>11, <1>12, <2>1, ServerView
  <2>3. HeldBy[c][q.fd] = At
    BY <1>2, <1>5, <1>8, <1>12, <2>1, WorkingLemma
  <2>4. x.r \in Abstract!Given(c)'
    BY <1>10, <2>2, Zenon DEF Abstract!Given
  <2>5. Abstract!Perform(c)
    BY <1>2, <1>5, <1>6, <1>8, <1>9, <2>2, <2>3, <2>4 DEF Abstract!Perform, Abstract!Stage
  <2>6. QED  BY <2>5 DEF Promised, Abstract!Next
<1>13. CASE srv.whom = None
  <2>1. Asked' = Asked
    BY <1>2, <1>4, <1>11, <1>13, ServerView
  <2>2. PICK z : z = [call |-> q, on |-> At]
    OBVIOUS
  <2>3. z.call = q /\ z.on = At
    BY <2>2
  <2>4. Orphans = {z}
    BY <1>2, <1>10, <1>13, <2>2 DEF Orphans
  <2>5. At' = At
    BY <1>2 DEF At
  <2>6. Orphans' = {} \/ Orphans' = {[z EXCEPT !.call = Abstract!Later(q, x.r)]}
    <3>1. [z EXCEPT !.call = Abstract!Later(q, x.r)] = [call |-> Abstract!Later(q, x.r), on |-> At]
      BY <2>2
    <3>2. CASE l = "move"
      <4>1. Orphans' = {[call |-> ServedCall(fsreq)', on |-> At']}
        BY <1>2, <1>4, <1>13, <3>2 DEF Orphans
      <4>2. QED  BY <1>10, <2>5, <3>1, <4>1
    <3>3. CASE l # "move"
      BY <1>3, <1>4, <3>3 DEF Orphans
    <3>4. QED  BY <3>2, <3>3
  <2>7. Abstract!InUse(At)
    BY <1>9 DEF Used, Abstract!InUse
  <2>8. [z EXCEPT !.call = Abstract!Later(@, x.r)] = [z EXCEPT !.call = Abstract!Later(q, x.r)]
    BY <2>3, Zenon
  <2>9. Abstract!OrphanActs
    <3>1. z \in Orphans /\ z.call.stage = "asked" /\ z.call.op # "open"
      BY <1>2, <1>8, <2>3, <2>4
    <3>2. Abstract!InUse(z.on) /\ Abstract!Act(z.call, Object[z.on], x.r)
      BY <1>9, <2>3, <2>7
    <3>3. Orphans' \in {Orphans \ {z},
                        (Orphans \ {z}) \cup {[z EXCEPT !.call = Abstract!Later(@, x.r)]}}
      BY <2>4, <2>6, <2>8
    <3>4. QED  BY <1>5, <1>6, <1>9, <2>1, <3>1, <3>2, <3>3 DEF Abstract!OrphanActs
  <2>10. QED  BY <2>9 DEF Promised, Abstract!Next
<1>14. QED  BY <1>12, <1>13

(* The offset moves, on the page of the entry.  An orphan's may move when   *)
(* nobody has the entry any more.                                           *)
LEMMA MovePromised ==
    ASSUME IInv, ViewInv, View, View', Move
    PROVE  Promised
<1>1. /\ srv.pc = "move" /\ page' = [page EXCEPT ![At].offset = @ + srv.r]
      /\ Goto("reply") /\ UNCHANGED <<fd, pc, call, opentab, size, fsreq>>
  BY DEF Move, clientVars
<1>2. srv'.pc = "reply" /\ srv'.whom = srv.whom /\ srv'.r = srv.r
  BY <1>1, GotoLemma
<1>3. fsreq \in Request /\ fsreq.op # "open" /\ srv.r \in Values
  BY <1>1 DEF IInv, ServerInv, TypeOK
<1>4. PICK i \in Entries : i = At /\ page[i] \in FdPage
  BY <1>1, <1>3, AtLemma DEF IInv, ServerInv, TypeOK
<1>5. PICK o : o = page[i].offset
  OBVIOUS
<1>6. page'[i].offset = o + srv.r /\ \A j \in Entries : j # i => page'[j] = page[j]
  BY <1>1, <1>4, <1>5 DEF IInv, TypeOK, FdPage
<1>7. HeldBy' = HeldBy /\ HeldBy = fd
  BY <1>1, <1>2, <1>3 DEF View, HeldView, Delivering
<1>8. \A j \in Entries : Used(j)' = Used(j)
  BY <1>7 DEF Used
<1>9. Used(i) => Object' = [Object EXCEPT ![i].offset = @ + srv.r]
  <2>1. SUFFICES ASSUME Used(i)  PROVE Object' = [Object EXCEPT ![i].offset = @ + srv.r]
    OBVIOUS
  <2>2. PICK f : f = opentab[i].file
    OBVIOUS
  <2>3. Shown(i) = [file |-> f, offset |-> o] /\ Shown(i)' = [file |-> f, offset |-> o + srv.r]
    BY <1>1, <1>5, <1>6, <2>2 DEF Shown
  <2>4. \A j \in Entries : j # i => Shown(j)' = Shown(j)
    BY <1>1, <1>6 DEF Shown
  <2>5. /\ \A j \in Entries : j # i => Object'[j] = Object[j]
        /\ Object[i] = Shown(i) /\ Object'[i] = Shown(i)'
    BY <1>8, <2>1, <2>4 DEF View, ObjectView
  <2>6. Object = [j \in Entries |-> Object[j]] /\ Object' = [j \in Entries |-> Object'[j]]
    BY DEF View, ObjectView
  <2>7. Object' = [Object EXCEPT ![i] = Object'[i]]
    BY <1>4, <2>5, <2>6, ChangedFunction
  <2>8. Object'[i] = [Object[i] EXCEPT !.offset = @ + srv.r]
    BY <2>3, <2>5
  <2>9. QED  BY <2>7, <2>8
<1>10. ~ Used(i) => Object' = Object
  BY <1>1, <1>6, <1>7, SameObjects
<1>11. PICK q : q = AsCall(fsreq, "moving", srv.r)
  OBVIOUS
<1>12. /\ ServedCall(fsreq) = q /\ ServedCall(fsreq)' = [q EXCEPT !.stage = "done"]
       /\ q.stage = "moving" /\ q.answer = srv.r /\ q.fd = fsreq.num
  <2>1. ServedCall(fsreq) = q /\ ServedCall(fsreq)' = AsCall(fsreq, "done", srv.r)
    BY <1>1, <1>2, <1>11 DEF ServedCall, AsCall
  <2>2. [q EXCEPT !.stage = "done"] = AsCall(fsreq, "done", srv.r)
    BY <1>3, <1>11, LaterLemma
  <2>3. QED  BY <1>3, <1>11, <2>1, <2>2, AsCallLemma DEF Stages
<1>13. CASE srv.whom # None
  <2>1. PICK c \in Clients : c = srv.whom
    BY <1>13 DEF IInv, TypeOK
  <2>2. /\ Asked[c] = q /\ q # None /\ Orphans = {} /\ Orphans' = {}
        /\ Asked' = [Asked EXCEPT ![c] = [q EXCEPT !.stage = "done"]]
    BY <1>1, <1>2, <1>12, <1>13, <2>1, ServerView
  <2>3. HeldBy[c][q.fd] = i /\ fsreq.num \in Slots
    BY <1>1, <1>3, <1>4, <1>7, <1>12, <1>13, <2>1, WorkingLemma
  <2>4. Used(i)
    BY <1>12, <2>1, <2>3 DEF Used
  <2>5. Object' = [Object EXCEPT ![HeldBy[c][q.fd]].offset = @ + q.answer]
    BY <1>9, <1>12, <2>3, <2>4
  <2>6. Asked' = [Asked EXCEPT ![c].stage = "done"]
    BY <2>2
  <2>7. Abstract!Move(c)
    BY <1>1, <1>7, <1>12, <2>2, <2>5, <2>6 DEF Abstract!Move, Abstract!Stage
  <2>8. QED  BY <2>7 DEF Promised, Abstract!Next
<1>14. CASE srv.whom = None
  <2>1. Asked' = Asked
    BY <1>1, <1>2, <1>14, ServerView
  <2>2. PICK z : z = [call |-> q, on |-> i]
    OBVIOUS
  <2>3. z.call = q /\ z.on = i
    BY <2>2
  <2>4. Orphans = {z} /\ Orphans' = {}
    BY <1>1, <1>2, <1>3, <1>4, <1>12, <1>14, <2>2 DEF Orphans
  <2>5. CASE Used(i)
    <3>1. Abstract!InUse(z.on)
      BY <2>3, <2>5 DEF Used, Abstract!InUse
    <3>2. Object' = [Object EXCEPT ![z.on].offset = @ + z.call.answer]
      BY <1>9, <1>12, <2>3, <2>5
    <3>3. Abstract!OrphanMoves
      BY <1>1, <1>7, <1>12, <2>1, <2>3, <2>4, <3>1, <3>2 DEF Abstract!OrphanMoves
    <3>4. QED  BY <3>3 DEF Promised, Abstract!Next
  <2>6. CASE ~ Used(i)
    <3>1. Abstract!OrphanLapses
      BY <1>1, <1>7, <1>10, <2>1, <2>4, <2>6 DEF Abstract!OrphanLapses
    <3>2. QED  BY <3>1 DEF Promised, Abstract!Next
  <2>7. QED  BY <2>5, <2>6
<1>15. QED  BY <1>13, <1>14

(* The answer arrives: the call returns, except that close has still to     *)
(* unmap the struct Fd.                                                     *)
LEMMA ReplyPromised ==
    ASSUME IInv, ViewInv, View, View', Reply
    PROVE  Promised
<1>1. PICK c \in Clients : /\ srv.pc = "reply" /\ srv.whom = c /\ pc[c] = "wait"
                          /\ Deliver(c) /\ Replied /\ UNCHANGED <<opentab, page, size>>
  BY DEF Reply
<1>2. c # None /\ srv'.pc = "recv" /\ srv'.whom = None /\ fsreq \in Request /\ call[c] = fsreq
  BY <1>1, NoneAssumption DEF Replied, Receiving, IInv, ServerInv, Attended
<1>3. PICK k \in Slots : k = fsreq.num
  BY <1>2 DEF Request
<1>4. ~ Delivering' /\ HeldBy' = fd'
  BY <1>2 DEF View, HeldView, Delivering
<1>5. HeldBy' = HeldBy
  <2>1. CASE fsreq.op = "open" /\ srv.r = 0
    <3>1. Delivering
      BY <1>1, <1>2, <2>1 DEF Delivering
    <3>2. fd' = [fd EXCEPT ![c][fsreq.num] = srv.i]
      BY <1>1, <1>2, <2>1 DEF Deliver
    <3>3. QED  BY <1>1, <1>4, <3>1, <3>2 DEF View, HeldView
  <2>2. CASE ~ (fsreq.op = "open" /\ srv.r = 0)
    <3>1. ~ Delivering
      BY <2>2 DEF Delivering
    <3>2. fd' = fd
      BY <1>1, <2>2 DEF Deliver
    <3>3. QED  BY <1>4, <3>1, <3>2 DEF View, HeldView
  <2>3. QED  BY <2>1, <2>2
<1>6. Object' = Object
  BY <1>1, <1>5, SameObjects
<1>7. Orphans = {} /\ Orphans' = {}
  BY <1>1, <1>2 DEF Orphans
<1>8. /\ pc' = [pc EXCEPT ![c] = IF fsreq.op = "flush" THEN "unmap" ELSE "idle"]
      /\ call' = [call EXCEPT ![c] = IF fsreq.op = "flush" THEN @ ELSE NoCall]
  BY <1>1 DEF Deliver
<1>9. \A d \in Clients : d # c => pc'[d] = pc[d] /\ call'[d] = call[d]
  BY <1>8 DEF IInv, TypeOK
<1>10. \A d \in Clients : d # c => Asked'[d] = Asked[d]
  <2>1. ASSUME NEW d \in Clients, d # c  PROVE Asked'[d] = Asked[d]
    <3>1. pc[d] \in {"dead", "idle", "unmap"}
      BY <1>1, <2>1 DEF View, AskedView, IInv, TypeOK
    <3>2. QED  BY <1>9, <2>1, <3>1, AskedKept
  <2>2. QED  BY <2>1
<1>11. Asked' = [Asked EXCEPT ![c] = Asked'[c]]
  BY <1>10, ChangedAsked
<1>12. PICK q : q = AsCall(fsreq, "done", srv.r)
  OBVIOUS
<1>13. Asked[c] = q /\ q # None /\ q.stage = "done" /\ q.op = fsreq.op
  <2>1. srv.r \in Values
    BY DEF IInv, TypeOK
  <2>2. Asked[c] = q /\ q # None
    BY <1>1, <1>12 DEF View, AskedView, ServedCall
  <2>3. QED  BY <1>2, <1>12, <2>1, <2>2, AsCallLemma DEF Stages
<1>14. CASE fsreq.op = "flush"
  <2>1. pc'[c] = "unmap" /\ call'[c] = fsreq /\ srv.r = 0
    BY <1>1, <1>2, <1>8, <1>14 DEF IInv, TypeOK, ViewInv, WorkInv
  <2>2. Asked'[c] = AsCall(call[c], "done", 0)
    BY <1>2, <2>1 DEF View, AskedView, AsCall
  <2>3. Asked'[c] = Asked[c]
    BY <1>2, <1>12, <1>13, <2>1, <2>2
  <2>4. Asked' = Asked
    BY <1>10, <2>3, SameAsked
  <2>5. QED  BY <1>1, <1>5, <1>6, <1>7, <2>4, StutterLemma
<1>15. CASE fsreq.op # "flush"
  <2>1. pc'[c] = "idle"
    BY <1>8, <1>15 DEF IInv, TypeOK
  <2>2. Asked'[c] = None
    BY <2>1 DEF View, AskedView
  <2>3. Object' = Abstract!Forget(HeldBy', Object)
    <3>1. \A i \in Entries : Used(i)' => Used(i)
      BY <1>5 DEF Used
    <3>2. QED  BY <1>1, <3>1, ForgottenObjects
  <2>4. Abstract!Return(c)
    BY <1>1, <1>5, <1>7, <1>11, <1>13, <1>15, <2>2, <2>3 DEF Abstract!Return, Abstract!Stage
  <2>5. QED  BY <2>4 DEF Promised, Abstract!Next
<1>16. QED  BY <1>14, <1>15

(* The server panics: nothing of this shows.                                *)
LEMMA PanicPromised ==
    ASSUME IInv, ViewInv, View, View', Panic, UNCHANGED <<clientVars, opentab, page, size, fsreq>>
    PROVE  Promised
<1>1. /\ srv'.pc = srv.pc /\ srv'.whom = srv.whom /\ srv'.i = srv.i /\ srv'.r = srv.r
      /\ UNCHANGED <<fd, pc, call, opentab, page, size, fsreq>>
  BY DEF Panic, IInv, TypeOK, clientVars
<1>2. ServedCall(fsreq)' = ServedCall(fsreq) /\ At' = At
  BY <1>1 DEF ServedCall, AsCall, At
<1>3. HeldBy' = HeldBy /\ Orphans' = Orphans
  BY <1>1, <1>2 DEF HeldBy, Delivering, Orphans
<1>4. Object' = Object
  BY <1>1, <1>3, SameObjects
<1>5. ASSUME NEW d \in Clients  PROVE Asked'[d] = Asked[d]
  <2>1. CASE pc[d] \in {"dead", "idle", "unmap"}
    BY <1>1, <2>1, AskedKept
  <2>2. CASE pc[d] \in {"sent", "wait"}
    BY <1>1, <1>2, <2>2 DEF View, AskedView
  <2>3. QED  BY <2>1, <2>2 DEF IInv, TypeOK
<1>6. Asked' = Asked
  BY <1>5, SameAsked
<1>7. QED  BY <1>1, <1>3, <1>4, <1>6, StutterLemma

-----------------------------------------------------------------------------
LEMMA PromisedInit == Init => Abstract!Init
<1> SUFFICES ASSUME Init  PROVE Abstract!Init
  OBVIOUS
<1>1. IInv /\ ViewInv /\ View
  BY InitLemma, ViewInitLemma, ViewLemma
<1>2. /\ srv = Receiving /\ fd = [c \in Clients |-> Closed] /\ pc = [c \in Clients |-> "idle"]
      /\ size \in [Files -> {Absent, 0}]
  BY DEF Init
<1>3. HeldBy = [c \in Clients |-> Abstract!NoneHeld]
  BY <1>1, <1>2 DEF View, HeldView, Delivering, Receiving, Closed, Abstract!NoneHeld
<1>4. Object = [o \in Entries |-> None]
  <2>1. \A o \in Entries : ~ Used(o)
    BY <1>3, NoneAssumption DEF Used, Abstract!NoneHeld
  <2>2. QED  BY <1>1, <2>1 DEF View, ObjectView
<1>5. Asked = [c \in Clients |-> None]
  BY <1>1, <1>2 DEF View, AskedView
<1>6. Orphans = {}
  BY <1>2 DEF Orphans, Receiving
<1>7. size \in [Files -> (0 .. Capacity) \cup {Absent}]
  BY <1>2, CountsLemma
<1>8. QED  BY <1>3, <1>4, <1>5, <1>6, <1>7 DEF Abstract!Init

LEMMA PromisedNext == IInv /\ IInv' /\ ViewInv /\ ViewInv' /\ [Next]_vars => Promised
<1> SUFFICES ASSUME IInv, IInv', ViewInv, ViewInv', [Next]_vars  PROVE Promised
  OBVIOUS
<1>1. View
  BY ViewLemma
<1>2. View'
  BY ViewLemma, PTL
<1>3. CASE UNCHANGED vars
  <2>1. UNCHANGED <<opentab, page, size, fd, pc, call, srv, fsreq>>
    BY <1>3 DEF vars, clientVars, serverVars
  <2>2. ServedCall(fsreq)' = ServedCall(fsreq) /\ At' = At
    BY <2>1 DEF ServedCall, AsCall, At
  <2>3. HeldBy' = HeldBy /\ Orphans' = Orphans
    BY <2>1, <2>2 DEF HeldBy, Delivering, Orphans
  <2>4. Object' = Object
    BY <1>1, <1>2, <2>1, <2>3, SameObjects
  <2>5. ASSUME NEW d \in Clients  PROVE Asked'[d] = Asked[d]
    <3>1. pc[d] \in {"dead", "idle", "sent", "wait", "unmap"}
      BY DEF IInv, TypeOK
    <3>2. QED  BY <1>1, <1>2, <2>1, <3>1, AskedUnmoved
  <2>6. Asked' = Asked
    BY <1>1, <1>2, <2>5, SameAsked
  <2>7. QED  BY <2>1, <2>3, <2>4, <2>6, StutterLemma
<1>4. CASE Server
  <2>1. CASE DiskFull \/ ReplyFails
    BY <1>1, <1>2, <2>1, PanicPromised DEF DiskFull, ReplyFails
  <2>2. QED
    BY <1>1, <1>2, <1>4, <2>1, ScanPromised, ServeOpenPromised, ServeInvalidPromised,
       ServePromised, MovePromised, ReplyPromised DEF Server
<1>5. ASSUME NEW c \in Clients, Client(c)  PROVE Promised
  BY <1>1, <1>2, <1>5, OpenPromised, DevfilePromised, SeekPromised, IpcRecvPromised,
     CloseUnmapPromised, DestroyPromised, ForkPromised DEF Client
<1>6. QED  BY <1>3, <1>4, <1>5 DEF Next

(* The server, its table and its messages give programs the open files of   *)
(* OpenFiles: a request acts once, on the open file its descriptor names,   *)
(* and its answer goes to the program that asked.                           *)
THEOREM ImplementsOpenFiles == Spec => OpenFilesSpec
<1>1. Init => IInv /\ ViewInv /\ Abstract!Init
  BY InitLemma, ViewInitLemma, PromisedInit
<1>2. IInv /\ ViewInv /\ [Next]_vars => IInv' /\ ViewInv' /\ Promised
  BY NextLemma, ViewNextLemma, PromisedNext
<1>3. Promised <=> [Abstract!Next]_(Abstract!ovars)
  BY DEF Promised
<1>4. QED  BY <1>1, <1>2, <1>3, PTL DEF Spec, OpenFilesSpec, Abstract!Spec
=============================================================================
