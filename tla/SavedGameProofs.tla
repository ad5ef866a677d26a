--------------------------- MODULE SavedGameProofs ---------------------------
(* For any memory, names and course of the game: as long as no load has failed *)
(* and every object could be read, every object has its own extension and no   *)
(* pointer is left over, and what a load brings back is what was saved,        *)
(* wherever it is put.                                                         *)
EXTENDS SavedGame, TLAPS, WellFoundedInduction, SequenceTheorems, FiniteSetTheorems

-----------------------------------------------------------------------------
(* The invariant.  What is saved is as well made as what is played; while it   *)
(* is loaded, the blocks read so far are at the addresses that the table has   *)
(* for their ids, and the pointers that were cleared are those asked for.      *)

FileTyped(f) ==
    \E S, T \in SUBSET Addr : f \in [objects : [S -> Object], extensions : [T -> Extension]]

TypeInv ==
    /\ TypeOK
    /\ file # NoFile => FileTyped(file)
    /\ phase = "loading" => file # NoFile

\* Every object has an extension of its own, other pointers are to objects, and
\* names tell objects apart.
WellMade(os, es) ==
    /\ \A o \in DOMAIN os : os[o].ext \in DOMAIN es /\ es[os[o].ext].this = o
    /\ \A e \in DOMAIN es :
         /\ es[e].this \in DOMAIN os /\ os[es[e].this].ext = e
         /\ es[e].link \in DOMAIN os \cup {Null}
    /\ \A o, p \in DOMAIN os : os[o].name = os[p].name => o = p

Part(m, S) == [a \in S |-> m[a]]

Playing == WellMade(Part(mem, Objects(mem)), Part(mem, Extensions(mem)))

Vacant == \A a \in Addr : mem[a] = Free
Reset == requests = <<>> /\ table = NoTable

Saved == WellMade(file.objects, file.extensions) /\ DOMAIN file.objects \cap DOMAIN file.extensions = {}

Blank == [kind |-> "extension", this |-> Null, link |-> Null]
Target(e, f) == IF f = "this" THEN file.extensions[e].this ELSE file.extensions[e].link

Placed ==
    /\ loaded \subseteq Ids(file)
    /\ \A i \in Addr : table[i] # Null <=> i \in loaded
    /\ \A i, j \in loaded : table[i] = table[j] => i = j
    /\ \A i \in loaded \cap DOMAIN file.objects : mem[table[i]] = file.objects[i]
    /\ \A i \in loaded \cap DOMAIN file.extensions : mem[table[i]] = Blank
    /\ \A a \in Addr : mem[a] # Free => \E i \in loaded : table[i] = a

Asked ==
    /\ \A r \in Range(requests) : \E e \in loaded \cap DOMAIN file.extensions :
         r.at = table[e] /\ r.field \in {"this", "link"} /\ r.id = Target(e, r.field)
    /\ \A e \in loaded \cap DOMAIN file.extensions, f \in {"this", "link"} :
         Target(e, f) # Null => \E r \in Range(requests) : r.at = table[e] /\ r.field = f

LoadInv ==
    /\ TypeInv
    /\ Intact =>
         /\ ~wild
         /\ file # NoFile => Saved
         /\ phase = "menu" => Vacant /\ Reset /\ ~performing
         /\ phase = "game" => Playing /\ Reset /\ ~performing
         /\ phase = "loading" => Placed /\ Asked

-----------------------------------------------------------------------------
(* Helpers: the last of some indices, and an order of some addresses.          *)

Less == {pair \in Nat \X Nat : pair[1] < pair[2]}

LEMMA LastIndex ==
    ASSUME NEW n \in Nat, NEW S \in SUBSET (1 .. n), S # {}
    PROVE  Max(S) \in S
<1> DEFINE T == {n - k : k \in S}
<1>0. \A k \in S : k \in Int /\ n - k \in Nat
    OBVIOUS
<1>1. T \in SUBSET Nat /\ T # {}
    BY <1>0
<1>2. OpToRel(<, Nat) = Less
    BY DEF OpToRel, Less
<1>3. IsWellFoundedOn(Less, Nat)
    BY <1>2, NatLessThanWellFounded
<1> HIDE DEF T
<1>4. PICK x \in T : \A y \in T : <<y, x>> \notin Less
    BY <1>1, <1>3, WFMin
<1>5. ASSUME NEW y \in T PROVE x <= y
    <2>1. x \in Nat /\ y \in Nat /\ ~(y < x)
        BY <1>1, <1>4 DEF Less
    <2> QED
        BY <2>1
<1>6. PICK k \in S : x = n - k
    BY DEF T
<1>7. ASSUME NEW j \in S PROVE k >= j
    <2>1. n - j \in T /\ k \in Int /\ j \in Int
        BY <1>0 DEF T
    <2>2. n - k <= n - j
        BY <1>5, <1>6, <2>1
    <2> QED
        BY <2>1, <2>2
<1> QED
    BY <1>7 DEF Max

LEMMA Enumerated ==
    ASSUME NEW S \in SUBSET Addr
    PROVE  /\ SetToSeq(S) \in Seq(S)
           /\ \A x \in S : \E k \in DOMAIN SetToSeq(S) : SetToSeq(S)[k] = x
<1>1. IsFiniteSet(S)
    BY AddrAssumption, FS_Subset
<1> DEFINE n == Cardinality(S)
<1>2. n \in Nat /\ ExistsBijection(1 .. n, S)
    BY <1>1, FS_CardinalityType
<1>3. \E f \in [1 .. n -> S] : IsInjective(f)
    BY <1>2 DEF ExistsBijection, Bijection, Injection
<1>4. SetToSeq(S) \in [1 .. n -> S] /\ IsInjective(SetToSeq(S))
    BY <1>3 DEF SetToSeq
<1>5. SetToSeq(S) \in Injection(1 .. n, S)
    BY <1>4 DEF Injection
<1>6. Cardinality(1 .. n) = n
    BY <1>2, FS_Interval
<1>7. SetToSeq(S) \in Surjection(1 .. n, S)
    BY <1>1, <1>5, <1>6, FS_Injection
<1> QED
    BY <1>2, <1>4, <1>7 DEF Surjection

-----------------------------------------------------------------------------
(* Memory.                                                                     *)

Memory == [Addr -> Object \cup Extension \cup {Free}]

LEMMA Kinds ==
    ASSUME NEW x
    PROVE  /\ x \in Object => x.kind = "object" /\ x.name \in Names /\ x.ext \in Pointer
                                /\ x = [kind |-> "object", name |-> x.name, ext |-> x.ext]
                                /\ x \notin Extension /\ x # Free
           /\ x \in Extension => x.kind = "extension" /\ x.this \in Pointer /\ x.link \in Pointer
                                /\ x = [kind |-> "extension", this |-> x.this, link |-> x.link]
                                /\ x \notin Object /\ x # Free
BY NothingAssumption DEF Object, Extension

LEMMA Blocks ==
    ASSUME NEW m \in Memory
    PROVE  /\ Objects(m) \subseteq Addr /\ Extensions(m) \subseteq Addr
           /\ Objects(m) \cap Extensions(m) = {}
           /\ \A a \in Addr : a \in Objects(m) \/ a \in Extensions(m) \/ m[a] = Free
           /\ \A a \in Addr : m[a] = Free => a \notin Objects(m) \cup Extensions(m)
BY Kinds DEF Memory, Objects, Extensions

LEMMA PatchIs ==
    ASSUME NEW rq \in Seq(Request), table \in [Addr -> Pointer], NEW a, NEW f, NEW old
    PROVE  \/ Writes(rq, a, f) = {} /\ Patch(rq, a, f, old) = old
           \/ \E k \in Writes(rq, a, f) : Patch(rq, a, f, old) = table[rq[k].id]
<1>1. Len(rq) \in Nat /\ Writes(rq, a, f) \in SUBSET (1 .. Len(rq))
    BY DEF Writes, Served
<1>2. Writes(rq, a, f) # {} => Max(Writes(rq, a, f)) \in Writes(rq, a, f)
    BY <1>1, LastIndex
<1> QED
    BY <1>2 DEF Patch

LEMMA PatchTyped ==
    ASSUME NEW rq \in Seq(Request), table \in [Addr -> Pointer], NEW a, NEW f, NEW old \in Pointer
    PROVE  Patch(rq, a, f, old) \in Pointer
<1>0. \A k \in DOMAIN rq : rq[k] \in Request
    OBVIOUS
<1>1. \A k \in DOMAIN rq : rq[k].id \in Addr
    BY <1>0 DEF Request
<1>2. Writes(rq, a, f) \subseteq DOMAIN rq
    BY DEF Writes, Served
<1> QED
    BY <1>1, <1>2, PatchIs

LEMMA PatchedIs ==
    ASSUME NEW m \in Memory, NEW rq \in Seq(Request), table \in [Addr -> Pointer]
    PROVE  /\ Patched(m, rq) \in Memory
           /\ \A a \in Objects(m) : Patched(m, rq)[a] =
                [kind |-> "object", name |-> m[a].name, ext |-> Patch(rq, a, "ext", m[a].ext)]
           /\ \A a \in Extensions(m) : Patched(m, rq)[a] =
                [kind |-> "extension", this |-> Patch(rq, a, "this", m[a].this),
                                       link |-> Patch(rq, a, "link", m[a].link)]
           /\ \A a \in Addr : m[a] = Free => Patched(m, rq)[a] = Free
<1>1. ASSUME NEW a \in Objects(m)
      PROVE  /\ a \in Addr
             /\ Patched(m, rq)[a] =
                [kind |-> "object", name |-> m[a].name, ext |-> Patch(rq, a, "ext", m[a].ext)]
             /\ Patched(m, rq)[a] \in Object
    <2>1. a \in Addr /\ m[a] \in Object /\ m[a] \notin Extension
        BY Kinds DEF Objects
    <2>2. m[a] = [kind |-> "object", name |-> m[a].name, ext |-> m[a].ext]
          /\ m[a].name \in Names /\ m[a].ext \in Pointer
        BY <2>1, Kinds
    <2>3. Patched(m, rq)[a] = [m[a] EXCEPT !.ext = Patch(rq, a, "ext", @)]
        BY <2>1 DEF Patched
    <2>4. Patch(rq, a, "ext", m[a].ext) \in Pointer
        BY <2>2, PatchTyped
    <2> QED
        BY <2>1, <2>2, <2>3, <2>4 DEF Object
<1>2. ASSUME NEW a \in Extensions(m)
      PROVE  /\ a \in Addr
             /\ Patched(m, rq)[a] =
                [kind |-> "extension", this |-> Patch(rq, a, "this", m[a].this),
                                       link |-> Patch(rq, a, "link", m[a].link)]
             /\ Patched(m, rq)[a] \in Extension
    <2>1. a \in Addr /\ m[a] \in Extension /\ m[a] \notin Object
        BY Kinds DEF Extensions
    <2>2. m[a] = [kind |-> "extension", this |-> m[a].this, link |-> m[a].link]
          /\ m[a].this \in Pointer /\ m[a].link \in Pointer
        BY <2>1, Kinds
    <2>3. Patched(m, rq)[a] = [m[a] EXCEPT !.this = Patch(rq, a, "this", @),
                                           !.link = Patch(rq, a, "link", @)]
        BY <2>1 DEF Patched
    <2>4. Patch(rq, a, "this", m[a].this) \in Pointer /\ Patch(rq, a, "link", m[a].link) \in Pointer
        BY <2>2, PatchTyped
    <2> QED
        BY <2>1, <2>2, <2>3, <2>4 DEF Extension
<1>3. ASSUME NEW a \in Addr, m[a] = Free PROVE Patched(m, rq)[a] = Free
    BY <1>3, Kinds DEF Patched
<1>4. Patched(m, rq) = [a \in Addr |-> Patched(m, rq)[a]]
    BY DEF Patched
<1>5. \A a \in Addr : Patched(m, rq)[a] \in Object \cup Extension \cup {Free}
    BY <1>1, <1>2, <1>3, Blocks
<1> QED
    BY <1>1, <1>2, <1>3, <1>4, <1>5 DEF Memory

LEMMA ClearedTyped == Cleared \in Memory
BY DEF Cleared, Memory

LEMMA WithoutTyped ==
    ASSUME NEW m \in Memory
    PROVE  /\ WithoutExtensions(m) \in Memory
           /\ \A a \in Objects(m) : WithoutExtensions(m)[a] =
                    [kind |-> "object", name |-> m[a].name, ext |-> Null]
           /\ \A a \in Addr \ Objects(m) : WithoutExtensions(m)[a] = m[a]
<1>1. ASSUME NEW a \in Objects(m)
      PROVE  /\ a \in Addr /\ WithoutExtensions(m)[a] \in Object
             /\ WithoutExtensions(m)[a] = [kind |-> "object", name |-> m[a].name, ext |-> Null]
    <2>1. a \in Addr /\ m[a] \in Object
        BY DEF Objects
    <2>2. m[a] = [kind |-> "object", name |-> m[a].name, ext |-> m[a].ext] /\ m[a].name \in Names
        BY <2>1, Kinds
    <2>3. WithoutExtensions(m)[a] = [m[a] EXCEPT !.ext = Null]
        BY <2>1 DEF WithoutExtensions
    <2> QED
        BY <2>1, <2>2, <2>3 DEF Object, Pointer
<1>2. \A a \in Addr \ Objects(m) : WithoutExtensions(m)[a] = m[a]
    BY DEF WithoutExtensions
<1>3. WithoutExtensions(m) = [a \in Addr |-> WithoutExtensions(m)[a]]
    BY DEF WithoutExtensions
<1>4. \A a \in Addr : WithoutExtensions(m)[a] \in Object \cup Extension \cup {Free}
    BY <1>1, <1>2 DEF Memory
<1> QED
    BY <1>1, <1>2, <1>3, <1>4 DEF Memory

\* What Extension::Request_Pointer_Remap asks for.
LEMMA ExtensionsAsked ==
    ASSUME mem \in Memory
    PROVE  /\ ExtensionRequests \in Seq(Request)
           /\ \A r \in Range(ExtensionRequests) :
                r.field = "ext" /\ r.at \in Objects(mem) /\ r.id = mem[r.at].ext
           /\ \A o \in Objects(mem) : mem[o].ext # Null =>
                \E r \in Range(ExtensionRequests) : r.at = o /\ r.field = "ext"
<1> DEFINE S == {o \in Objects(mem) : mem[o].ext # Null}
           os == SetToSeq(S)
           Ask(o) == [id |-> mem[o].ext, at |-> o, field |-> "ext"]
<1>1. S \in SUBSET Addr
    BY Blocks
<1>2. os \in Seq(S) /\ \A x \in S : \E k \in DOMAIN os : os[k] = x
    BY <1>1, Enumerated
<1>3. \A o \in S : Ask(o) \in Request /\ Ask(o).field = "ext" /\ Ask(o).at = o
                   /\ Ask(o).id = mem[o].ext /\ o \in Objects(mem)
    <2>1. ASSUME NEW o \in S PROVE mem[o].ext \in Addr
        BY Kinds DEF Objects, Pointer
    <2> QED
        BY <1>1, <2>1 DEF Request, Fields
<1>4. ExtensionRequests = [k \in DOMAIN os |-> Ask(os[k])]
    BY DEF ExtensionRequests
<1> HIDE DEF S, os, Ask
<1>5. DOMAIN os = 1 .. Len(os) /\ Len(os) \in Nat /\ \A k \in DOMAIN os : os[k] \in S
    BY <1>2
<1>6. ExtensionRequests \in Seq(Request)
    <2>1. \A k \in 1 .. Len(os) : ExtensionRequests[k] \in Request
        BY <1>3, <1>4, <1>5
    <2>2. ExtensionRequests = [k \in 1 .. Len(os) |-> ExtensionRequests[k]]
        BY <1>4, <1>5
    <2>3. ExtensionRequests \in [1 .. Len(os) -> Request]
        BY <2>1, <2>2
    <2> QED
        BY <1>5, <2>3
<1>7. \A k \in DOMAIN ExtensionRequests : ExtensionRequests[k] = Ask(os[k]) /\ os[k] \in S
    BY <1>4, <1>5
<1>8. ASSUME NEW o \in Objects(mem), mem[o].ext # Null
      PROVE  \E r \in Range(ExtensionRequests) : r.at = o /\ r.field = "ext"
    <2>1. o \in S
        BY <1>8 DEF S
    <2>2. PICK k \in DOMAIN os : os[k] = o
        BY <1>2, <2>1
    <2> QED
        BY <1>3, <1>4, <2>1, <2>2 DEF Range
<1> QED
    BY <1>3, <1>6, <1>7, <1>8 DEF Range

-----------------------------------------------------------------------------
(* The types.                                                                  *)

LEMMA TypeFacts ==
    ASSUME TypeInv
    PROVE  /\ mem \in Memory /\ requests \in Seq(Request) /\ table \in [Addr -> Pointer]
           /\ loaded \subseteq Addr
           /\ phase = "loading" =>
                /\ file # NoFile /\ FileTyped(file)
                /\ DOMAIN file.objects \subseteq Addr /\ DOMAIN file.extensions \subseteq Addr
                /\ \A i \in DOMAIN file.objects : file.objects[i] \in Object
                /\ \A i \in DOMAIN file.extensions : file.extensions[i] \in Extension
BY DEF TypeInv, TypeOK, Memory

LEMMA TypeInit == Init => TypeInv
<1> SUFFICES ASSUME Init PROVE TypeInv
    OBVIOUS
<1>1. /\ mem \in [Addr -> Object \cup Extension \cup {Free}] /\ table \in [Addr -> Pointer]
      /\ requests \in Seq(Request)
    BY DEF Init, NoTable, Pointer
<1> QED
    BY <1>1 DEF Init, TypeInv, TypeOK

LEMMA BlockTyped ==
    ASSUME NEW a \in Addr, NEW e \in Pointer, NEW n \in Names
    PROVE  /\ [kind |-> "object", name |-> n, ext |-> e] \in Object
           /\ [kind |-> "extension", this |-> a, link |-> Null] \in Extension
BY DEF Object, Extension, Pointer

LEMMA Blanked ==
    ASSUME NEW x \in Extension
    PROVE  [x EXCEPT !.this = Null, !.link = Null] = Blank
<1> DEFINE y == [x EXCEPT !.this = Null, !.link = Null]
<1>1. y \in Extension
    BY DEF Extension, Pointer
<1>2. y.this = Null
    BY DEF Extension
<1>3. y.link = Null
    BY DEF Extension
<1> HIDE DEF y
<1>4. y = [kind |-> "extension", this |-> y.this, link |-> y.link]
    BY <1>1, Kinds
<1>5. y = Blank
    BY <1>2, <1>3, <1>4 DEF Blank
<1> QED
    BY <1>5 DEF y

LEMMA BlankTyped == Blank \in Extension
BY DEF Extension, Pointer, Blank

LEMMA RequestTyped ==
    ASSUME NEW i \in Pointer, NEW a \in Addr, NEW f \in Fields
    PROVE  RequestFor(i, a, f) \in Seq(Request)
<1>1. CASE i = Null
    BY <1>1 DEF RequestFor
<1>2. CASE i # Null
    <2>1. [id |-> i, at |-> a, field |-> f] \in Request
        BY <1>2 DEF Request, Pointer
    <2> QED
        BY <1>2, <2>1 DEF RequestFor
<1> QED
    BY <1>1, <1>2

\* A step keeps the types when it keeps those of what it changes.
LEMMA TypesKept ==
    ASSUME TypeInv, mem' \in Memory, requests' \in Seq(Request), table' \in [Addr -> Pointer],
           phase' \in {"menu", "game", "loading"}, loaded' \subseteq Addr,
           performing' \in BOOLEAN, failed' \in BOOLEAN, short' \in BOOLEAN, wild' \in BOOLEAN,
           file' = file, phase' = "loading" => file # NoFile
    PROVE  TypeInv'
<1>1. file' # NoFile =>
         /\ FileTyped(file)'
         /\ \A i \in DOMAIN file'.objects : i \in Addr /\ file'.objects[i] \in Object
         /\ \A i \in DOMAIN file'.extensions : i \in Addr /\ file'.extensions[i] \in Extension
    BY DEF TypeInv, TypeOK, FileTyped
<1> QED
    BY <1>1 DEF TypeInv, TypeOK, Memory

LEMMA TablesTyped ==
    ASSUME NEW rq \in Seq(Request), table \in [Addr -> Pointer]
    PROVE  RequestsAfter(rq) \in Seq(Request) /\ TableAfter(rq) \in [Addr -> Pointer]
BY DEF RequestsAfter, TableAfter, NoTable, Pointer

LEMMA GameTyped == TypeInv /\ Game => TypeInv'
<1> SUFFICES ASSUME TypeInv, Game PROVE TypeInv'
    OBVIOUS
<1>0. /\ mem \in Memory /\ requests \in Seq(Request) /\ table \in [Addr -> Pointer]
      /\ loaded \subseteq Addr /\ performing \in BOOLEAN /\ {failed, short, wild} \subseteq BOOLEAN
    BY TypeFacts DEF TypeInv, TypeOK
<1>1. CASE NewGame
    <2>1. mem' \in Memory
        BY <1>1, ClearedTyped DEF NewGame
    <2>2. wild' \in BOOLEAN
        BY <1>1 DEF NewGame, Astray, Misses
    <2> QED
        BY <1>0, <1>1, <2>1, <2>2, TablesTyped, TypesKept DEF NewGame
<1>2. ASSUME NEW a \in Addr, NEW e \in Addr, NEW n \in Names, Create(a, e, n) PROVE TypeInv'
    <2>1. mem' \in Memory
        <3>1. /\ [kind |-> "object", name |-> n, ext |-> Null] \in Object
              /\ [kind |-> "object", name |-> n, ext |-> e] \in Object
              /\ [kind |-> "extension", this |-> a, link |-> Null] \in Extension
            BY BlockTyped DEF Pointer
        <3> QED
            BY <1>0, <1>2, <3>1 DEF Create, Memory
    <2> QED
        BY <1>0, <1>2, <2>1, TypesKept DEF Create, tables
<1>3. ASSUME NEW o \in Addr, Destroy(o) PROVE TypeInv'
    <2>1. \A a \in Addr : Detached(mem, o)[a] \in Object \cup Extension \cup {Free}
        <3>1. ASSUME NEW a \in Addr, mem[a] \in Extension PROVE [mem[a] EXCEPT !.link = Null] \in Extension
            BY <3>1 DEF Extension, Pointer
        <3> QED
            BY <1>0, <3>1 DEF Detached, Memory
    <2>2. mem' \in Memory
        BY <1>3, <2>1 DEF Destroy, Memory
    <2> QED
        BY <1>0, <1>3, <2>2, TypesKept DEF Destroy, tables
<1>4. ASSUME NEW e \in Addr, NEW o \in Addr, Link(e, o) PROVE TypeInv'
    <2>1. [mem[e] EXCEPT !.link = o] \in Extension
        BY <1>4 DEF Link, Extensions, Extension, Pointer
    <2>2. mem' = [mem EXCEPT ![e] = [mem[e] EXCEPT !.link = o]]
        BY <1>4 DEF Link
    <2>3. mem' \in Memory
        BY <1>0, <2>1, <2>2 DEF Memory
    <2> QED
        BY <1>0, <1>4, <2>3, TypesKept DEF Link, tables
<1>5. CASE SaveGame
    <2>1. Objects(mem) \subseteq Addr /\ Extensions(mem) \subseteq Addr
        BY <1>0, Blocks
    <2>2. /\ [a \in Objects(mem) |-> mem[a]] \in [Objects(mem) -> Object]
          /\ [a \in Extensions(mem) |-> mem[a]] \in [Extensions(mem) -> Extension]
        BY DEF Objects, Extensions
    <2>3. FileTyped(file')
        BY <1>5, <2>1, <2>2 DEF SaveGame, FileTyped
    <2>4. /\ \A i \in DOMAIN file'.objects : i \in Addr /\ file'.objects[i] \in Object
          /\ \A i \in DOMAIN file'.extensions : i \in Addr /\ file'.extensions[i] \in Extension
        BY <2>3 DEF FileTyped
    <2> QED
        BY <1>0, <1>5, <2>3, <2>4 DEF SaveGame, TypeInv, TypeOK, FileTyped, tables
<1> QED
    BY <1>1, <1>2, <1>3, <1>4, <1>5 DEF Game

LEMMA RegisteredTyped ==
    ASSUME table \in [Addr -> Pointer], NEW i \in Addr, NEW a \in Addr
    PROVE  Registered(i, a) \in [Addr -> Pointer]
BY DEF Registered, Pointer

LEMMA LoadingTyped == TypeInv /\ Loading => TypeInv'
<1> SUFFICES ASSUME TypeInv, Loading PROVE TypeInv'
    OBVIOUS
<1>0. /\ mem \in Memory /\ requests \in Seq(Request) /\ table \in [Addr -> Pointer]
      /\ loaded \subseteq Addr /\ performing \in BOOLEAN /\ {failed, short, wild} \subseteq BOOLEAN
    BY TypeFacts DEF TypeInv, TypeOK
<1>1. CASE BeginLoad
    <2>2. mem' \in Memory
        BY <1>1, ClearedTyped DEF BeginLoad
    <2>3. requests' \in Seq(Request) /\ table' \in [Addr -> Pointer]
        BY <1>0, <1>1, TablesTyped DEF BeginLoad
    <2>4. wild' \in BOOLEAN
        BY <1>1 DEF BeginLoad, Misses, Astray
    <2> QED
        BY <1>0, <1>1, <2>2, <2>3, <2>4, TypesKept DEF BeginLoad
<1>2. CASE EndLoad
    <2>1. ExtensionRequests \in Seq(Request)
        BY <1>0, ExtensionsAsked
    <2> DEFINE rq == requests \o ExtensionRequests
    <2>2. rq \in Seq(Request)
        BY <1>0, <2>1
    <2>3. /\ mem' = Patched(WithoutExtensions(mem), rq)
          /\ requests' = RequestsAfter(rq) /\ table' = TableAfter(rq)
          /\ wild' = Misses(WithoutExtensions(mem), rq)
        BY <1>2 DEF EndLoad
    <2> HIDE DEF rq
    <2>4. WithoutExtensions(mem) \in Memory
        BY <1>0, WithoutTyped
    <2>5. mem' \in Memory
        BY <1>0, <2>2, <2>3, <2>4, PatchedIs
    <2>6. requests' \in Seq(Request) /\ table' \in [Addr -> Pointer]
        BY <1>0, <2>2, <2>3, TablesTyped
    <2>7. wild' \in BOOLEAN
        BY <2>3 DEF Misses
    <2> QED
        BY <1>0, <1>2, <2>5, <2>6, <2>7, TypesKept DEF EndLoad
<1>3. CASE FailLoad
    BY <1>0, <1>3, TypesKept DEF FailLoad, tables
<1>4. ASSUME NEW i \in Addr, NEW a \in Addr, LoadObject(i, a) PROVE TypeInv'
    <2>1. file.objects[i] \in Object /\ phase = "loading" /\ file # NoFile
        BY <1>4, TypeFacts DEF LoadObject
    <2>2. mem' \in Memory
        BY <1>0, <1>4, <2>1 DEF LoadObject, Memory
    <2>3. table' \in [Addr -> Pointer]
        BY <1>0, <1>4, RegisteredTyped DEF LoadObject
    <2> QED
        BY <1>0, <1>4, <2>1, <2>2, <2>3, TypesKept DEF LoadObject
<1>5. ASSUME NEW i \in Addr, NEW a \in Addr, LoadExtension(i, a) PROVE TypeInv'
    <2>1. file.extensions[i] \in Extension /\ phase = "loading" /\ file # NoFile
        BY <1>5, TypeFacts DEF LoadExtension
    <2>2. [file.extensions[i] EXCEPT !.this = Null, !.link = Null] \in Extension
        BY <2>1 DEF Extension, Pointer
    <2>3. mem' \in Memory
        BY <1>0, <1>5, <2>2 DEF LoadExtension, Memory
    <2>4. table' \in [Addr -> Pointer]
        BY <1>0, <1>5, RegisteredTyped DEF LoadExtension
    <2>5. file.extensions[i].this \in Pointer /\ file.extensions[i].link \in Pointer
        BY <2>1 DEF Extension
    <2>6. /\ RequestFor(file.extensions[i].this, a, "this") \in Seq(Request)
          /\ RequestFor(file.extensions[i].link, a, "link") \in Seq(Request)
        BY <2>5, RequestTyped DEF Fields
    <2>7. requests' \in Seq(Request)
        BY <1>0, <1>5, <2>6 DEF LoadExtension
    <2> QED
        BY <1>0, <1>5, <2>1, <2>3, <2>4, <2>7, TypesKept DEF LoadExtension
<1>6. ASSUME NEW i \in Addr, NEW a \in Addr, ReadFails(i, a) PROVE TypeInv'
    <2>1. file.objects[i] \in Object /\ phase = "loading" /\ file # NoFile
        BY <1>6, TypeFacts DEF ReadFails
    <2>2. mem' \in Memory /\ table' \in [Addr -> Pointer]
        <3>1. CASE UNCHANGED <<mem, table>>
            BY <1>0, <3>1
        <3>2. CASE ~UNCHANGED <<mem, table>>
            <4>1. PICK e \in {Null, file.objects[i].ext} :
                    mem' = [mem EXCEPT ![a] = [file.objects[i] EXCEPT !.ext = e]]
                BY <1>6, <3>2 DEF ReadFails
            <4>2. [file.objects[i] EXCEPT !.ext = e] \in Object
                BY <2>1 DEF Object, Pointer
            <4>3. table' \in {table, Registered(i, a)}
                BY <1>6, <3>2 DEF ReadFails
            <4> QED
                BY <1>0, <4>1, <4>2, <4>3, RegisteredTyped DEF Memory
        <3> QED
            BY <3>1, <3>2
    <2> QED
        BY <1>0, <1>6, <2>1, <2>2, TypesKept DEF ReadFails
<1> QED
    BY <1>1, <1>2, <1>3, <1>4, <1>5, <1>6 DEF Loading

LEMMA TypeStep == TypeInv /\ [Next]_vars => TypeInv'
<1>1. TypeInv /\ UNCHANGED vars => TypeInv'
    BY DEF TypeInv, TypeOK, FileTyped, vars, tables
<1> QED
    BY <1>1, GameTyped, LoadingTyped DEF Next

(* Every variable keeps its type, also when loads fail: blocks are objects or  *)
(* extensions, requests and table are about addresses (TypeOK of SavedGame).   *)
THEOREM SavedGameTypeCorrect == Spec => []TypeOK
<1>1. TypeInv => TypeOK
    BY DEF TypeInv
<1> QED
    BY <1>1, TypeInit, TypeStep, PTL DEF Spec

-----------------------------------------------------------------------------
(* The game.                                                                   *)

\* Paired, with the names, in terms of memory.
MadeWell(m) ==
    /\ \A o \in Objects(m) : m[o].ext \in Extensions(m) /\ m[m[o].ext].this = o
    /\ \A e \in Extensions(m) :
         /\ m[e].this \in Objects(m) /\ m[m[e].this].ext = e
         /\ m[e].link \in Objects(m) \cup {Null}
    /\ \A o, p \in Objects(m) : m[o].name = m[p].name => o = p

LEMMA PlayingIs == Playing <=> MadeWell(mem)
BY DEF Playing, MadeWell, WellMade, Part

\* Clear_Scenario deletes what it should.
LEMMA NothingAstray ==
    ASSUME NEW m \in Memory, MadeWell(m) \/ \A a \in Addr : m[a] = Free
    PROVE  ~Astray(m)
<1>1. CASE MadeWell(m)
    <2>1. ASSUME NEW o \in Objects(m)
          PROVE  m[o].ext \in Extensions(m) /\ \A p \in Objects(m) \ {o} : m[p].ext # m[o].ext
        BY <1>1 DEF MadeWell
    <2> QED
        BY <2>1 DEF Astray
<1>2. CASE \A a \in Addr : m[a] = Free
    <2>1. Objects(m) = {}
        BY <1>2, Blocks
    <2> QED
        BY <2>1 DEF Astray
<1> QED
    BY <1>1, <1>2

LEMMA VacantMade ==
    ASSUME NEW m \in Memory, \A a \in Addr : m[a] = Free
    PROVE  MadeWell(m) /\ Objects(m) = {} /\ Extensions(m) = {}
<1>1. Objects(m) = {} /\ Extensions(m) = {}
    BY Blocks
<1> QED
    BY <1>1 DEF MadeWell

LEMMA CreateMade ==
    ASSUME mem \in Memory, MadeWell(mem), ~performing,
           NEW a \in Addr, NEW e \in Addr, NEW n \in Names, Create(a, e, n)
    PROVE  MadeWell(mem')
<1> DEFINE O == [kind |-> "object", name |-> n, ext |-> e]
           X == [kind |-> "extension", this |-> a, link |-> Null]
<1>1. /\ mem' = [mem EXCEPT ![a] = O, ![e] = X] /\ a # e /\ mem[a] = Free /\ mem[e] = Free
      /\ \A o \in Objects(mem) : mem[o].name # n
    BY DEF Create
<1>2. O \in Object /\ X \in Extension /\ O.name = n /\ O.ext = e /\ X.this = a /\ X.link = Null
    BY BlockTyped DEF Pointer
<1>3. O \notin Extension /\ X \notin Object
    BY <1>2, Kinds
<1> HIDE DEF O, X
<1>4. mem'[a] = O /\ mem'[e] = X /\ \A b \in Addr \ {a, e} : mem'[b] = mem[b]
    BY <1>1 DEF Memory
<1>5. /\ a \notin Objects(mem) \cup Extensions(mem) /\ e \notin Objects(mem) \cup Extensions(mem)
      /\ Objects(mem) \subseteq Addr \ {a, e} /\ Extensions(mem) \subseteq Addr \ {a, e}
    BY <1>1, Blocks
<1>6. Objects(mem') = Objects(mem) \cup {a} /\ Extensions(mem') = Extensions(mem) \cup {e}
    BY <1>2, <1>3, <1>4, <1>5 DEF Objects, Extensions
<1>7. /\ \A o \in Objects(mem) : mem'[o] = mem[o]
      /\ \A x \in Extensions(mem) : mem'[x] = mem[x]
    BY <1>4, <1>5
<1>8. ASSUME NEW o \in Objects(mem')
      PROVE  mem'[o].ext \in Extensions(mem') /\ mem'[mem'[o].ext].this = o
    BY <1>2, <1>4, <1>6, <1>7 DEF MadeWell
<1>9. ASSUME NEW x \in Extensions(mem')
      PROVE  /\ mem'[x].this \in Objects(mem') /\ mem'[mem'[x].this].ext = x
             /\ mem'[x].link \in Objects(mem') \cup {Null}
    BY <1>2, <1>4, <1>6, <1>7 DEF MadeWell
<1>10. ASSUME NEW o \in Objects(mem'), NEW p \in Objects(mem'), mem'[o].name = mem'[p].name
       PROVE  o = p
    <2>1. CASE o = a \/ p = a
        BY <1>1, <1>2, <1>4, <1>6, <1>7, <1>10, <2>1
    <2>2. CASE o # a /\ p # a
        <3>1. o \in Objects(mem) /\ p \in Objects(mem) /\ mem[o].name = mem[p].name
            BY <1>6, <1>7, <1>10, <2>2
        <3> QED
            BY <3>1 DEF MadeWell
    <2> QED
        BY <2>1, <2>2
<1> QED
    BY <1>8, <1>9, <1>10 DEF MadeWell

LEMMA DestroyMade ==
    ASSUME mem \in Memory, MadeWell(mem), NEW o \in Addr, Destroy(o)
    PROVE  MadeWell(mem') /\ ~wild'
<1> DEFINE e == mem[o].ext
<1>1. o \in Objects(mem) /\ e \in Extensions(mem) /\ mem[e].this = o
    BY DEF Destroy, MadeWell
<1>2. ~wild'
    BY <1>1 DEF Destroy
<1>3. /\ \A a \in Addr \ {o, e} : mem'[a] = Detached(mem, o)[a]
      /\ mem'[o] = Free /\ mem'[e] = Free
    BY <1>1, Blocks DEF Destroy
<1> HIDE DEF e
<1>4. ASSUME NEW a \in Objects(mem) \ {o} PROVE a \in Objects(mem') /\ mem'[a] = mem[a]
    <2>1. a \in Addr \ {o, e} /\ mem[a] \in Object /\ mem[a] \notin Extension
        BY <1>1, Blocks DEF Objects, Extensions
    <2> QED
        BY <1>3, <2>1 DEF Objects, Detached
<1>5. ASSUME NEW x \in Extensions(mem) \ {e}
      PROVE  /\ x \in Extensions(mem') /\ mem'[x].this = mem[x].this
             /\ mem'[x].link = IF mem[x].link = o THEN Null ELSE mem[x].link
    <2>1. x \in Addr \ {o, e} /\ mem[x] \in Extension
        BY <1>1, Blocks DEF Objects, Extensions
    <2>2. mem'[x] = IF mem[x].link = o THEN [mem[x] EXCEPT !.link = Null] ELSE mem[x]
        BY <1>3, <2>1 DEF Detached
    <2>3. /\ [mem[x] EXCEPT !.link = Null] \in Extension
          /\ [mem[x] EXCEPT !.link = Null].this = mem[x].this
          /\ [mem[x] EXCEPT !.link = Null].link = Null
        BY <2>1 DEF Extension, Pointer
    <2> QED
        BY <2>1, <2>2, <2>3 DEF Extensions
<1>6. ASSUME NEW a \in Addr, mem'[a] # Free
      PROVE  a \in (Objects(mem) \ {o}) \cup (Extensions(mem) \ {e})
    <2>1. a \in Addr \ {o, e} /\ mem'[a] = Detached(mem, o)[a]
        BY <1>3, <1>6
    <2>2. mem[a] # Free
        BY <1>6, <2>1, Kinds DEF Detached
    <2> QED
        BY <2>1, <2>2, Blocks
<1>7. Objects(mem') \cap Extensions(mem') = {} /\ Free \notin Object \cup Extension
    BY Kinds, NothingAssumption DEF Objects, Extensions
<1>8. Objects(mem') = Objects(mem) \ {o} /\ Extensions(mem') = Extensions(mem) \ {e}
    <2>1. Objects(mem') \cup Extensions(mem') \subseteq (Objects(mem) \ {o}) \cup (Extensions(mem) \ {e})
        BY <1>6, <1>7 DEF Objects, Extensions
    <2> QED
        BY <1>4, <1>5, <1>7, <2>1
<1>9. ASSUME NEW a \in Objects(mem')
      PROVE  mem'[a].ext \in Extensions(mem') /\ mem'[mem'[a].ext].this = a
    <2>1. mem'[a].ext = mem[a].ext /\ mem[a].ext \in Extensions(mem) /\ mem[mem[a].ext].this = a /\ a # o
        BY <1>4, <1>8 DEF MadeWell
    <2>2. mem[a].ext # e
        BY <1>1, <2>1
    <2> QED
        BY <1>5, <1>8, <2>1, <2>2
<1>10. ASSUME NEW x \in Extensions(mem')
       PROVE  /\ mem'[x].this \in Objects(mem') /\ mem'[mem'[x].this].ext = x
              /\ mem'[x].link \in Objects(mem') \cup {Null}
    <2>1. /\ mem[x].this \in Objects(mem) /\ mem[mem[x].this].ext = x /\ x # e
          /\ mem[x].link \in Objects(mem) \cup {Null}
        BY <1>8 DEF MadeWell
    <2>2. mem[x].this # o
        BY <2>1 DEF e
    <2> QED
        BY <1>4, <1>5, <1>8, <2>1, <2>2
<1>11. ASSUME NEW a \in Objects(mem'), NEW b \in Objects(mem'), mem'[a].name = mem'[b].name
       PROVE  a = b
    BY <1>4, <1>8, <1>11 DEF MadeWell
<1> QED
    BY <1>2, <1>9, <1>10, <1>11 DEF MadeWell

LEMMA LinkMade ==
    ASSUME mem \in Memory, MadeWell(mem), NEW e \in Addr, NEW o \in Addr, Link(e, o)
    PROVE  MadeWell(mem')
<1> DEFINE X == [mem[e] EXCEPT !.link = o]
<1>1. e \in Extensions(mem) /\ o \in Objects(mem) /\ mem' = [mem EXCEPT ![e] = X]
    BY DEF Link
<1>2. X \in Extension /\ X.this = mem[e].this /\ X.link = o
    BY <1>1 DEF Extensions, Extension, Pointer
<1> HIDE DEF X
<1>3. mem'[e] = X /\ \A a \in Addr \ {e} : mem'[a] = mem[a]
    BY <1>1 DEF Memory
<1>4. X \notin Object /\ e \notin Objects(mem)
    BY <1>1, <1>2, Kinds, Blocks
<1>5. Objects(mem') = Objects(mem) /\ Extensions(mem') = Extensions(mem)
    BY <1>1, <1>2, <1>3, <1>4 DEF Objects, Extensions
<1>6. /\ \A a \in Objects(mem) : mem'[a] = mem[a]
      /\ \A x \in Extensions(mem) : mem'[x].this = mem[x].this /\ mem'[x].link \in {mem[x].link, o}
    BY <1>2, <1>3, <1>4 DEF Objects, Extensions
<1>7. ASSUME NEW a \in Objects(mem')
      PROVE  mem'[a].ext \in Extensions(mem') /\ mem'[mem'[a].ext].this = a
    BY <1>5, <1>6 DEF MadeWell
<1>8. ASSUME NEW x \in Extensions(mem')
      PROVE  /\ mem'[x].this \in Objects(mem') /\ mem'[mem'[x].this].ext = x
             /\ mem'[x].link \in Objects(mem') \cup {Null}
    BY <1>1, <1>5, <1>6 DEF MadeWell
<1>9. ASSUME NEW a \in Objects(mem'), NEW b \in Objects(mem'), mem'[a].name = mem'[b].name
      PROVE  a = b
    BY <1>5, <1>6, <1>9 DEF MadeWell
<1> QED
    BY <1>7, <1>8, <1>9 DEF MadeWell

-----------------------------------------------------------------------------
(* The load.                                                                   *)

LEMMA RangeOfRequest ==
    ASSUME NEW i \in Pointer, NEW a \in Addr, NEW f \in Fields
    PROVE  /\ i = Null => Range(RequestFor(i, a, f)) = {}
           /\ i # Null => Range(RequestFor(i, a, f)) = {[id |-> i, at |-> a, field |-> f]}
BY DEF RequestFor, Range

\* Nothing is asked for, and nothing is patched.
LEMMA NothingPatched ==
    ASSUME mem \in Memory, table \in [Addr -> Pointer]
    PROVE  Patched(mem, <<>>) = mem /\ \A m : ~Misses(m, <<>>)
<1>1. Served(<<>>) = {}
    BY DEF Served
<1>2. \A a, f, old : Patch(<<>>, a, f, old) = old
    BY <1>1 DEF Patch, Writes
<1>3. <<>> \in Seq(Request)
    OBVIOUS
<1>4. Patched(mem, <<>>) \in Memory
    BY <1>3, PatchedIs
<1>5. ASSUME NEW a \in Addr PROVE Patched(mem, <<>>)[a] = mem[a]
    <2>1. CASE a \in Objects(mem)
        <3>1. mem[a] = [kind |-> "object", name |-> mem[a].name, ext |-> mem[a].ext]
            BY <2>1, Kinds DEF Objects
        <3>2. Patched(mem, <<>>)[a] = [kind |-> "object", name |-> mem[a].name,
                                       ext |-> Patch(<<>>, a, "ext", mem[a].ext)]
            BY <1>3, <2>1, PatchedIs
        <3>3. Patch(<<>>, a, "ext", mem[a].ext) = mem[a].ext
            BY <1>2
        <3> QED
            BY <3>1, <3>2, <3>3
    <2>2. CASE a \in Extensions(mem)
        <3>1. mem[a] = [kind |-> "extension", this |-> mem[a].this, link |-> mem[a].link]
            BY <2>2, Kinds DEF Extensions
        <3>2. Patched(mem, <<>>)[a] = [kind |-> "extension",
                                       this |-> Patch(<<>>, a, "this", mem[a].this),
                                       link |-> Patch(<<>>, a, "link", mem[a].link)]
            BY <1>3, <2>2, PatchedIs
        <3>3. /\ Patch(<<>>, a, "this", mem[a].this) = mem[a].this
              /\ Patch(<<>>, a, "link", mem[a].link) = mem[a].link
            BY <1>2
        <3> QED
            BY <3>1, <3>2, <3>3
    <2>3. CASE mem[a] = Free
        BY <1>3, <2>3, PatchedIs
    <2> QED
        BY <2>1, <2>2, <2>3, Blocks
<1>6. Patched(mem, <<>>) = mem
    BY <1>4, <1>5 DEF Memory
<1> QED
    BY <1>1, <1>6 DEF Misses

LEMMA BeginPlaced ==
    ASSUME LoadInv, Intact, BeginLoad
    PROVE  Placed' /\ Asked' /\ ~wild'
<1>1. mem \in Memory /\ table \in [Addr -> Pointer]
    BY TypeFacts DEF LoadInv
<1>2. phase \in {"menu", "game"} /\ Reset /\ (Vacant \/ MadeWell(mem))
    BY PlayingIs DEF LoadInv, BeginLoad
<1>3. Patched(mem, requests) = mem /\ ~Misses(mem, requests)
    BY <1>1, <1>2, NothingPatched DEF Reset
<1>4. ~Astray(mem)
    BY <1>1, <1>2, NothingAstray DEF Vacant
<1>5. /\ \A a \in Addr : mem'[a] = Free
      /\ requests' = <<>> /\ table' = NoTable /\ loaded' = {} /\ ~wild'
    BY <1>2, <1>3, <1>4 DEF BeginLoad, Cleared, RequestsAfter, TableAfter, Reset
<1>6. Range(requests') = {}
    BY <1>5 DEF Range
<1> QED
    BY <1>5, <1>6 DEF Placed, Asked, NoTable

\* A block is put where nothing is, and its id is not in the table yet.
LEMMA NewBlock ==
    ASSUME LoadInv, Intact, phase = "loading", NEW i \in Ids(file) \ loaded, NEW a \in Addr,
           mem[a] = Free, table' = Registered(i, a), loaded' = loaded \cup {i}
    PROVE  /\ i \in Addr /\ table'[i] = a
           /\ \A j \in loaded : j \in Addr /\ j # i /\ table'[j] = table[j] /\ table[j] \in Addr \ {a}
           /\ \A j \in Addr : table'[j] # Null <=> j \in loaded'
           /\ \A j, k \in loaded' : table'[j] = table'[k] => j = k
<1>1. /\ table \in [Addr -> Pointer] /\ loaded \subseteq Addr /\ Placed
      /\ DOMAIN file.objects \subseteq Addr /\ DOMAIN file.extensions \subseteq Addr
      /\ \A j \in DOMAIN file.objects : file.objects[j] \in Object
    BY TypeFacts DEF LoadInv
<1>2. i \in Addr /\ table[i] = Null
    BY <1>1 DEF Placed, Ids
<1>3. table' = [table EXCEPT ![i] = a]
    BY <1>2 DEF Registered
<1>4. ASSUME NEW j \in loaded PROVE table[j] \in Addr \ {a}
    <2>1. table[j] \in Addr
        BY <1>1 DEF Placed, Pointer
    <2>2. mem[table[j]] \in Object \/ mem[table[j]] = Blank
        BY <1>1 DEF Placed, Ids
    <2>3. mem[table[j]] # Free
        BY <1>2, <2>2, Kinds, BlankTyped
    <2> QED
        BY <2>1, <2>3
<1>5. \A j \in loaded : j \in Addr /\ j # i /\ table'[j] = table[j]
    BY <1>1, <1>3
<1>6. table'[i] = a /\ a # Null
    BY <1>1, <1>2, <1>3, AddrAssumption
<1>7. \A j \in Addr : table'[j] # Null <=> j \in loaded'
    BY <1>1, <1>3, <1>6 DEF Placed
<1>8. \A j, k \in loaded' : table'[j] = table'[k] => j = k
    BY <1>1, <1>4, <1>5, <1>6 DEF Placed
<1> QED
    BY <1>2, <1>4, <1>5, <1>6, <1>7, <1>8

\* The block that was read is in memory, and the others are where they were.
LEMMA BlockPlaced ==
    ASSUME LoadInv, Intact, phase = "loading", NEW i \in Ids(file) \ loaded, NEW a \in Addr,
           mem[a] = Free, table' = Registered(i, a), loaded' = loaded \cup {i}, file' = file,
           NEW x, mem' = [mem EXCEPT ![a] = x],
           i \in DOMAIN file.objects => x = file.objects[i],
           i \in DOMAIN file.extensions => x = Blank
    PROVE  Placed'
<1>1. mem \in Memory /\ Placed
    BY TypeFacts DEF LoadInv
<1>2. mem'[a] = x /\ \A b \in Addr \ {a} : mem'[b] = mem[b]
    BY <1>1 DEF Memory
<1>3. /\ i \in Addr /\ table'[i] = a
      /\ \A j \in loaded : j \in Addr /\ j # i /\ table'[j] = table[j] /\ table[j] \in Addr \ {a}
      /\ \A j \in Addr : table'[j] # Null <=> j \in loaded'
      /\ \A j, k \in loaded' : table'[j] = table'[k] => j = k
    BY NewBlock
<1>4. \A j \in loaded : mem'[table'[j]] = mem[table[j]]
    BY <1>2, <1>3
<1>5. loaded' \subseteq Ids(file)
    BY <1>1 DEF Placed
<1>6. \A j \in loaded' \cap DOMAIN file.objects : mem'[table'[j]] = file.objects[j]
    BY <1>1, <1>2, <1>3, <1>4 DEF Placed
<1>7. \A j \in loaded' \cap DOMAIN file.extensions : mem'[table'[j]] = Blank
    BY <1>1, <1>2, <1>3, <1>4 DEF Placed
<1>8. ASSUME NEW b \in Addr, mem'[b] # Free PROVE \E j \in loaded' : table'[j] = b
    <2>1. CASE b = a
        BY <1>3, <2>1
    <2>2. CASE b # a
        <3>1. PICK j \in loaded : table[j] = b
            BY <1>1, <1>2, <1>8, <2>2 DEF Placed
        <3> QED
            BY <1>3, <3>1
    <2> QED
        BY <2>1, <2>2
<1>9. file'.objects = file.objects /\ file'.extensions = file.extensions /\ Ids(file)' = Ids(file)
    BY DEF Ids
<1> QED
    BY <1>3, <1>5, <1>6, <1>7, <1>8, <1>9 DEF Placed, Blank

LEMMA LoadObjectPlaced ==
    ASSUME LoadInv, Intact, NEW i \in Addr, NEW a \in Addr, LoadObject(i, a)
    PROVE  Placed' /\ Asked'
<1>1. /\ phase = "loading" /\ i \in DOMAIN file.objects \ loaded /\ mem[a] = Free
      /\ mem' = [mem EXCEPT ![a] = file.objects[i]]
      /\ table' = Registered(i, a) /\ loaded' = loaded \cup {i}
      /\ file' = file /\ requests' = requests
    BY DEF LoadObject
<1>2. i \in Ids(file) \ loaded /\ i \notin DOMAIN file.extensions
    BY <1>1, TypeFacts DEF Ids, LoadInv, Saved
<1>3. Placed'
    BY <1>1, <1>2, BlockPlaced
<1>4. \A j \in loaded : table'[j] = table[j]
    BY <1>1, <1>2, NewBlock
<1>5. Asked
    BY <1>1 DEF LoadInv
<1>6. loaded' \cap DOMAIN file.extensions = loaded \cap DOMAIN file.extensions
    BY <1>1, <1>2
<1>7. Asked'
    BY <1>1, <1>4, <1>5, <1>6 DEF Asked, Target
<1> QED
    BY <1>3, <1>7

LEMMA LoadExtensionPlaced ==
    ASSUME LoadInv, Intact, NEW i \in Addr, NEW a \in Addr, LoadExtension(i, a)
    PROVE  Placed' /\ Asked'
<1> DEFINE x == file.extensions[i]
           r1 == RequestFor(x.this, a, "this")
           r2 == RequestFor(x.link, a, "link")
           new == {[id |-> Target(i, f), at |-> a, field |-> f] : f \in {"this", "link"}}
<1>1. /\ phase = "loading" /\ i \in DOMAIN file.extensions \ loaded /\ mem[a] = Free
      /\ mem' = [mem EXCEPT ![a] = [x EXCEPT !.this = Null, !.link = Null]]
      /\ table' = Registered(i, a) /\ loaded' = loaded \cup {i}
      /\ file' = file /\ requests' = requests \o r1 \o r2
    BY DEF LoadExtension
<1>2. i \in Ids(file) \ loaded /\ i \notin DOMAIN file.objects /\ x \in Extension
    BY <1>1, TypeFacts DEF Ids, LoadInv, Saved
<1>3. [x EXCEPT !.this = Null, !.link = Null] = Blank
    BY <1>2, Blanked
<1>4. Placed'
    BY <1>1, <1>2, <1>3, BlockPlaced
<1>5. /\ table'[i] = a
      /\ \A j \in loaded : j # i /\ table'[j] = table[j]
    BY <1>1, <1>2, NewBlock
<1>6. Asked /\ requests \in Seq(Request)
    BY <1>1, TypeFacts DEF LoadInv
<1>7. x.this \in Pointer /\ x.link \in Pointer /\ x.this = Target(i, "this") /\ x.link = Target(i, "link")
    BY <1>2, Kinds DEF Target
<1>8. /\ r1 \in Seq(Request) /\ r2 \in Seq(Request)
      /\ Range(r1) = {r \in new : r.field = "this" /\ Target(i, "this") # Null}
      /\ Range(r2) = {r \in new : r.field = "link" /\ Target(i, "link") # Null}
    <2>1. r1 \in Seq(Request) /\ r2 \in Seq(Request)
        BY <1>7, RequestTyped DEF Fields
    <2>2. "this" \in Fields /\ "link" \in Fields
        BY DEF Fields
    <2>3. /\ x.this = Null => Range(r1) = {}
          /\ x.this # Null => Range(r1) = {[id |-> x.this, at |-> a, field |-> "this"]}
        BY <1>7, <2>2, RangeOfRequest
    <2>4. /\ x.link = Null => Range(r2) = {}
          /\ x.link # Null => Range(r2) = {[id |-> x.link, at |-> a, field |-> "link"]}
        BY <1>7, <2>2, RangeOfRequest
    <2> QED
        BY <1>7, <2>1, <2>3, <2>4
<1> HIDE DEF x, r1, r2
<1>9. Range(requests') = Range(requests) \cup Range(r1) \cup Range(r2)
    <2> DEFINE both == requests \o r1
    <2>1. both \in Seq(Request) /\ Range(both) = Range(requests) \cup Range(r1)
        BY <1>6, <1>8, RangeConcatenation
    <2>2. requests' = both \o r2
        BY <1>1
    <2> HIDE DEF both
    <2>3. Range(both \o r2) = Range(both) \cup Range(r2)
        BY <1>8, <2>1, RangeConcatenation
    <2> QED
        BY <2>1, <2>2, <2>3
<1>10. ASSUME NEW r \in Range(requests')
       PROVE  \E e \in loaded' \cap DOMAIN file.extensions :
                r.at = table'[e] /\ r.field \in {"this", "link"} /\ r.id = Target(e, r.field)
    <2>1. CASE r \in Range(requests)
        <3>1. PICK e \in loaded \cap DOMAIN file.extensions :
                r.at = table[e] /\ r.field \in {"this", "link"} /\ r.id = Target(e, r.field)
            BY <1>6, <2>1 DEF Asked
        <3> QED
            BY <1>1, <1>5, <3>1
    <2>2. CASE r \in new
        <3>1. r.at = a /\ r.field \in {"this", "link"} /\ r.id = Target(i, r.field)
            BY <2>2
        <3> QED
            BY <1>1, <1>5, <3>1
    <2> QED
        BY <1>8, <1>9, <2>1, <2>2
<1>11. ASSUME NEW e \in loaded' \cap DOMAIN file.extensions, NEW f \in {"this", "link"}, Target(e, f) # Null
       PROVE  \E r \in Range(requests') : r.at = table'[e] /\ r.field = f
    <2>1. CASE e \in loaded
        <3>1. PICK r \in Range(requests) : r.at = table[e] /\ r.field = f
            BY <1>6, <1>11, <2>1 DEF Asked
        <3> QED
            BY <1>5, <1>9, <2>1, <3>1
    <2>2. CASE e = i
        <3> DEFINE r == [id |-> Target(i, f), at |-> a, field |-> f]
        <3>1. r \in new /\ r.at = a /\ r.field = f
            OBVIOUS
        <3>2. r \in Range(r1) \cup Range(r2)
            BY <1>8, <1>11, <2>2, <3>1
        <3> QED
            BY <1>5, <1>9, <2>2, <3>1, <3>2
    <2> QED
        BY <1>1, <2>1, <2>2
<1>12. Asked'
    BY <1>1, <1>10, <1>11 DEF Asked, Target
<1> QED
    BY <1>4, <1>12

-----------------------------------------------------------------------------
(* The end of the load: every block has its id's address in the table, every   *)
(* request is served, and each block points where the saved one did.           *)

\* All that is asked for, in the end.
AllAsked == requests \o ExtensionRequests

LEMMA PlacedAll ==
    ASSUME LoadInv, Intact, EndLoad
    PROVE  /\ Placed /\ Asked /\ Saved /\ loaded = Ids(file)
           /\ DOMAIN file.objects \subseteq Addr /\ DOMAIN file.extensions \subseteq Addr
           /\ \A i \in loaded : table[i] \in Addr
           /\ \A i, j \in loaded : table[i] = table[j] => i = j
           /\ \A i \in DOMAIN file.objects : i \in loaded /\ mem[table[i]] = file.objects[i]
           /\ \A e \in DOMAIN file.extensions : e \in loaded /\ mem[table[e]] = Blank
           /\ Objects(mem) = {table[i] : i \in DOMAIN file.objects}
           /\ Extensions(mem) = {table[e] : e \in DOMAIN file.extensions}
<1>1. /\ phase = "loading" /\ Ids(file) \subseteq loaded
      /\ Placed /\ Asked /\ file # NoFile /\ Saved
      /\ mem \in Memory /\ table \in [Addr -> Pointer]
      /\ DOMAIN file.objects \subseteq Addr /\ DOMAIN file.extensions \subseteq Addr
      /\ \A i \in DOMAIN file.objects : file.objects[i] \in Object
    BY TypeFacts DEF LoadInv, EndLoad
<1>2. loaded = Ids(file) /\ \A i \in loaded : i \in Addr /\ table[i] \in Addr
    BY <1>1 DEF Placed, Pointer, Ids
<1>3. /\ \A i \in DOMAIN file.objects : i \in loaded /\ mem[table[i]] = file.objects[i]
      /\ \A e \in DOMAIN file.extensions : e \in loaded /\ mem[table[e]] = Blank
    BY <1>1, <1>2 DEF Placed, Ids
<1>4. /\ \A i \in DOMAIN file.objects : table[i] \in Objects(mem)
      /\ \A e \in DOMAIN file.extensions : table[e] \in Extensions(mem)
    BY <1>1, <1>2, <1>3, BlankTyped DEF Objects, Extensions
<1>5. \A b \in Objects(mem) \cup Extensions(mem) : \E i \in loaded : table[i] = b
    <2>1. \A b \in Objects(mem) \cup Extensions(mem) : b \in Addr /\ mem[b] # Free
        BY <1>1, Blocks
    <2> QED
        BY <1>1, <2>1 DEF Placed
<1>6. Objects(mem) \cap Extensions(mem) = {}
    BY <1>1, Blocks
<1>7. /\ Objects(mem) = {table[i] : i \in DOMAIN file.objects}
      /\ Extensions(mem) = {table[e] : e \in DOMAIN file.extensions}
    BY <1>2, <1>4, <1>5, <1>6 DEF Ids
<1> QED
    BY <1>1, <1>2, <1>3, <1>7 DEF Placed

LEMMA AllAnswered ==
    ASSUME LoadInv, Intact, EndLoad
    PROVE  /\ AllAsked \in Seq(Request) /\ Served(AllAsked) = DOMAIN AllAsked
           /\ Range(AllAsked) = Range(requests) \cup Range(ExtensionRequests)
           /\ \A r \in Range(AllAsked) : r \in Request
           /\ \A r \in Range(requests) : \E e \in DOMAIN file.extensions :
                r.at = table[e] /\ r.field \in {"this", "link"} /\ r.id = Target(e, r.field)
           /\ \A r \in Range(ExtensionRequests) : \E i \in DOMAIN file.objects :
                r.at = table[i] /\ r.field = "ext" /\ r.id = file.objects[i].ext
<1>1. mem \in Memory /\ requests \in Seq(Request)
    BY TypeFacts DEF LoadInv
<1>2. ExtensionRequests \in Seq(Request)
    BY <1>1, ExtensionsAsked
<1>3. AllAsked \in Seq(Request)
    BY <1>1, <1>2 DEF AllAsked
<1>4. Range(AllAsked) = Range(requests) \cup Range(ExtensionRequests)
    BY <1>1, <1>2, RangeConcatenation DEF AllAsked
<1>5. ASSUME NEW r \in Range(requests)
      PROVE  \E e \in DOMAIN file.extensions :
                r.at = table[e] /\ r.field \in {"this", "link"} /\ r.id = Target(e, r.field)
    BY PlacedAll DEF Asked
<1>6. ASSUME NEW r \in Range(ExtensionRequests)
      PROVE  \E i \in DOMAIN file.objects :
                r.at = table[i] /\ r.field = "ext" /\ r.id = file.objects[i].ext
    <2>1. r.field = "ext" /\ r.at \in Objects(mem) /\ r.id = mem[r.at].ext
        BY <1>1, ExtensionsAsked
    <2>2. PICK i \in DOMAIN file.objects : r.at = table[i]
        BY <2>1, PlacedAll
    <2>3. mem[table[i]] = file.objects[i]
        BY PlacedAll
    <2> QED
        BY <2>1, <2>2, <2>3
<1>7. ASSUME NEW r \in Range(AllAsked) PROVE r \in Request /\ r.id \in loaded
    <2>1. r \in Request /\ r.id \in Addr
        <3>1. r \in Request
            BY <1>3, RangeOfSeq
        <3> QED
            BY <3>1 DEF Request
    <2>2. Saved /\ loaded = Ids(file)
        BY PlacedAll
    <2>3. CASE r \in Range(requests)
        <3>1. PICK e \in DOMAIN file.extensions :
                    r.field \in {"this", "link"} /\ r.id = Target(e, r.field)
            BY <1>5, <2>3
        <3>2. r.id \in DOMAIN file.objects \cup {Null}
            BY <2>2, <3>1 DEF Saved, WellMade, Target
        <3> QED
            BY <2>1, <2>2, <3>2, AddrAssumption DEF Ids
    <2>4. CASE r \in Range(ExtensionRequests)
        <3>1. PICK i \in DOMAIN file.objects : r.id = file.objects[i].ext
            BY <1>6, <2>4
        <3> QED
            BY <2>1, <2>2, <3>1 DEF Saved, WellMade, Ids
    <2> QED
        BY <1>4, <2>3, <2>4
<1>8. \A k \in DOMAIN AllAsked : table[AllAsked[k].id] # Null
    <2>1. \A r \in Range(AllAsked) : table[r.id] \in Addr
        BY <1>7, PlacedAll
    <2> QED
        BY <2>1, AddrAssumption DEF Range
<1>9. Served(AllAsked) = DOMAIN AllAsked
    <2>1. DOMAIN AllAsked = 1 .. Len(AllAsked) /\ Len(AllAsked) \in Nat
        BY <1>3
    <2>2. ASSUME NEW n \in DOMAIN AllAsked, NEW k \in 1 .. n PROVE k \in DOMAIN AllAsked
        BY <2>1
    <2> QED
        BY <1>8, <2>2 DEF Served
<1> QED
    BY <1>3, <1>4, <1>5, <1>6, <1>7, <1>9

\* A pointer that was asked for gets the address of its id.
LEMMA PatchAnswered ==
    ASSUME AllAsked \in Seq(Request), Served(AllAsked) = DOMAIN AllAsked,
           table \in [Addr -> Pointer], NEW a, NEW f, NEW id,
           \E r \in Range(AllAsked) : r.at = a /\ r.field = f,
           \A r \in Range(AllAsked) : r.at = a /\ r.field = f => r.id = id
    PROVE  Patch(AllAsked, a, f, Null) = table[id]
<1>1. Writes(AllAsked, a, f) # {}
    BY DEF Writes, Range
<1>2. PICK k \in Writes(AllAsked, a, f) : Patch(AllAsked, a, f, Null) = table[AllAsked[k].id]
    BY <1>1, PatchIs
<1>3. AllAsked[k] \in Range(AllAsked) /\ AllAsked[k].at = a /\ AllAsked[k].field = f
    BY DEF Writes, Range
<1> QED
    BY <1>2, <1>3

LEMMA ObjectRestored ==
    ASSUME LoadInv, Intact, EndLoad, NEW i \in DOMAIN file.objects
    PROVE  Patch(AllAsked, table[i], "ext", Null) = table[file.objects[i].ext]
<1>1. /\ i \in loaded /\ mem[table[i]] = file.objects[i] /\ table[i] \in Objects(mem)
      /\ file.objects[i].ext \in DOMAIN file.extensions /\ DOMAIN file.extensions \subseteq Addr
    BY PlacedAll DEF Saved, WellMade
<1>2. \E r \in Range(AllAsked) : r.at = table[i] /\ r.field = "ext"
    <2>1. mem \in Memory
        BY TypeFacts DEF LoadInv
    <2>2. mem[table[i]].ext # Null
        BY <1>1, AddrAssumption
    <2>3. \E r \in Range(ExtensionRequests) : r.at = table[i] /\ r.field = "ext"
        BY <1>1, <2>1, <2>2, ExtensionsAsked
    <2> QED
        BY <2>3, AllAnswered
<1>3. ASSUME NEW r \in Range(AllAsked), r.at = table[i], r.field = "ext"
      PROVE  r.id = file.objects[i].ext
    <2>1. r \notin Range(requests)
        <3>1. \A q \in Range(requests) : q.field \in {"this", "link"}
            BY AllAnswered
        <3> QED
            BY <1>3, <3>1
    <2>2. PICK j \in DOMAIN file.objects : r.at = table[j] /\ r.id = file.objects[j].ext
        BY <2>1, AllAnswered
    <2>3. j = i
        BY <1>1, <1>3, <2>2, PlacedAll
    <2> QED
        BY <2>2, <2>3
<1>4. /\ AllAsked \in Seq(Request) /\ Served(AllAsked) = DOMAIN AllAsked
      /\ table \in [Addr -> Pointer]
    BY AllAnswered, TypeFacts DEF LoadInv
<1> QED
    BY <1>2, <1>3, <1>4, PatchAnswered

LEMMA ExtensionRestored ==
    ASSUME LoadInv, Intact, EndLoad, NEW e \in DOMAIN file.extensions, NEW f \in {"this", "link"}
    PROVE  Patch(AllAsked, table[e], f, Null)
                = IF Target(e, f) = Null THEN Null ELSE table[Target(e, f)]
<1>1. e \in loaded /\ Asked
    BY PlacedAll
<1>2. ASSUME NEW r \in Range(AllAsked), r.at = table[e], r.field = f
      PROVE  r.id = Target(e, f)
    <2>1. r \in Range(requests)
        <3>1. \A q \in Range(ExtensionRequests) : q.field = "ext"
            BY AllAnswered
        <3> QED
            BY <1>2, <3>1, AllAnswered
    <2>2. PICK j \in DOMAIN file.extensions : r.at = table[j] /\ r.id = Target(j, r.field)
        BY <2>1, AllAnswered
    <2>3. j = e
        BY <1>1, <1>2, <2>2, PlacedAll
    <2> QED
        BY <1>2, <2>2, <2>3
<1>3. CASE Target(e, f) # Null
    <2>1. \E r \in Range(AllAsked) : r.at = table[e] /\ r.field = f
        BY <1>1, <1>3, AllAnswered DEF Asked
    <2>2. /\ AllAsked \in Seq(Request) /\ Served(AllAsked) = DOMAIN AllAsked
          /\ table \in [Addr -> Pointer]
        BY AllAnswered, TypeFacts DEF LoadInv
    <2> QED
        BY <1>2, <1>3, <2>1, <2>2, PatchAnswered
<1>4. CASE Target(e, f) = Null
    <2>1. \A r \in Range(AllAsked) : ~(r.at = table[e] /\ r.field = f)
        <3>1. \A r \in Range(AllAsked) : r.id # Null
            BY AllAnswered, AddrAssumption DEF Request
        <3> QED
            BY <1>2, <1>4, <3>1
    <2>2. Writes(AllAsked, table[e], f) = {}
        BY <2>1, AllAnswered DEF Writes, Range
    <2> QED
        BY <1>4, <2>2 DEF Patch
<1> QED
    BY <1>3, <1>4

LEMMA WithoutKinds ==
    ASSUME NEW m \in Memory
    PROVE  /\ Objects(WithoutExtensions(m)) = Objects(m)
           /\ Extensions(WithoutExtensions(m)) = Extensions(m)
<1>1. ASSUME NEW a \in Objects(m) PROVE WithoutExtensions(m)[a] \in Object
    <2>1. WithoutExtensions(m)[a] = [kind |-> "object", name |-> m[a].name, ext |-> Null]
        BY WithoutTyped
    <2>2. m[a].name \in Names
        BY Kinds DEF Objects
    <2> QED
        BY <2>1, <2>2 DEF Object, Pointer
<1>2. /\ Objects(m) \subseteq Addr /\ Extensions(m) \subseteq Addr \ Objects(m)
      /\ \A a \in Addr \ Objects(m) : WithoutExtensions(m)[a] = m[a]
    BY Blocks, WithoutTyped
<1>3. \A a \in Objects(m) : WithoutExtensions(m)[a] \notin Extension
    BY <1>1, Kinds
<1> QED
    BY <1>1, <1>2, <1>3 DEF Objects, Extensions

LEMMA PatchedKinds ==
    ASSUME NEW m \in Memory, NEW rq \in Seq(Request), table \in [Addr -> Pointer]
    PROVE  /\ Objects(Patched(m, rq)) = Objects(m)
           /\ Extensions(Patched(m, rq)) = Extensions(m)
<1>1. Patched(m, rq) \in Memory /\ \A a \in Addr : m[a] = Free => Patched(m, rq)[a] = Free
    BY PatchedIs
<1>2. ASSUME NEW a \in Objects(m) PROVE a \in Objects(Patched(m, rq))
    <2>1. a \in Addr /\ m[a].name \in Names /\ m[a].ext \in Pointer
        BY Kinds DEF Objects
    <2>2. Patched(m, rq)[a] =
            [kind |-> "object", name |-> m[a].name, ext |-> Patch(rq, a, "ext", m[a].ext)]
        BY PatchedIs
    <2>3. Patch(rq, a, "ext", m[a].ext) \in Pointer
        BY <2>1, PatchTyped
    <2> QED
        BY <2>1, <2>2, <2>3 DEF Objects, Object
<1>3. ASSUME NEW a \in Extensions(m) PROVE a \in Extensions(Patched(m, rq))
    <2>1. a \in Addr /\ m[a].this \in Pointer /\ m[a].link \in Pointer
        BY Kinds DEF Extensions
    <2>2. Patched(m, rq)[a] = [kind |-> "extension", this |-> Patch(rq, a, "this", m[a].this),
                                                     link |-> Patch(rq, a, "link", m[a].link)]
        BY PatchedIs
    <2>3. Patch(rq, a, "this", m[a].this) \in Pointer /\ Patch(rq, a, "link", m[a].link) \in Pointer
        BY <2>1, PatchTyped
    <2> QED
        BY <2>1, <2>2, <2>3 DEF Extensions, Extension
<1>4. Objects(Patched(m, rq)) \cap Extensions(Patched(m, rq)) = {}
    BY <1>1, Blocks
<1>5. \A a \in Addr : a \in Objects(m) \/ a \in Extensions(m) \/ m[a] = Free
    BY Blocks
<1>6. \A a \in Objects(Patched(m, rq)) \cup Extensions(Patched(m, rq)) : a \in Addr /\ m[a] # Free
    BY <1>1, Blocks
<1> QED
    BY <1>2, <1>3, <1>4, <1>5, <1>6

\* The table is emptied, also when nothing was asked for: then nothing was loaded.
LEMMA TablesEmptied ==
    ASSUME LoadInv, Intact, EndLoad
    PROVE  requests' = <<>> /\ table' = NoTable
<1>1. requests' = RequestsAfter(AllAsked) /\ table' = TableAfter(AllAsked) /\ AllServed(AllAsked)
    BY AllAnswered DEF EndLoad, AllAsked, AllServed
<1>2. CASE AllAsked # <<>>
    BY <1>1, <1>2 DEF RequestsAfter, TableAfter
<1>3. CASE AllAsked = <<>>
    <2>1. DOMAIN file.objects = {}
        <3> SUFFICES ASSUME NEW i \in DOMAIN file.objects PROVE FALSE
            OBVIOUS
        <3>1. /\ mem[table[i]] = file.objects[i] /\ table[i] \in Objects(mem)
              /\ file.objects[i].ext \in Addr
            BY PlacedAll DEF Saved, WellMade
        <3>2. mem[table[i]].ext # Null /\ mem \in Memory
            BY <3>1, AddrAssumption, TypeFacts DEF LoadInv
        <3>3. \E r \in Range(ExtensionRequests) : r.at = table[i]
            BY <3>1, <3>2, ExtensionsAsked
        <3>4. Range(AllAsked) = {}
            BY <1>3 DEF Range
        <3> QED
            BY <3>3, <3>4, AllAnswered
    <2>2. DOMAIN file.extensions = {}
        BY <2>1, PlacedAll DEF Saved, WellMade
    <2>3. loaded = {} /\ \A i \in Addr : table[i] # Null <=> i \in loaded
        BY <2>1, <2>2, PlacedAll DEF Ids, Placed
    <2>4. table \in [Addr -> Pointer]
        BY TypeFacts DEF LoadInv
    <2>5. table = NoTable
        BY <2>3, <2>4 DEF NoTable
    <2> QED
        BY <1>1, <1>3, <2>5 DEF RequestsAfter, TableAfter
<1> QED
    BY <1>2, <1>3

LEMMA Restored ==
    ASSUME LoadInv, Intact, EndLoad
    PROVE  /\ Objects(mem') = {table[i] : i \in DOMAIN file.objects}
           /\ Extensions(mem') = {table[e] : e \in DOMAIN file.extensions}
           /\ \A i \in DOMAIN file.objects :
                /\ mem'[table[i]].name = file.objects[i].name
                /\ mem'[table[i]].ext = table[file.objects[i].ext]
           /\ \A e \in DOMAIN file.extensions :
                /\ mem'[table[e]].this = table[file.extensions[e].this]
                /\ mem'[table[e]].link = IF file.extensions[e].link = Null THEN Null
                                         ELSE table[file.extensions[e].link]
           /\ ~wild'
<1> DEFINE m == WithoutExtensions(mem)
<1>1. mem \in Memory /\ table \in [Addr -> Pointer] /\ AllAsked \in Seq(Request)
    BY TypeFacts, AllAnswered DEF LoadInv
<1>2. m \in Memory /\ Objects(m) = Objects(mem) /\ Extensions(m) = Extensions(mem)
    BY <1>1, WithoutTyped, WithoutKinds
<1>3. mem' = Patched(m, AllAsked) /\ wild' = Misses(m, AllAsked)
    BY DEF EndLoad, AllAsked
<1>4. Objects(mem') = Objects(mem) /\ Extensions(mem') = Extensions(mem)
    BY <1>1, <1>2, <1>3, PatchedKinds
<1>5. ASSUME NEW i \in DOMAIN file.objects
      PROVE  mem'[table[i]].name = file.objects[i].name /\ mem'[table[i]].ext = table[file.objects[i].ext]
    <2>1. table[i] \in Objects(mem) /\ mem[table[i]] = file.objects[i]
        BY PlacedAll
    <2>2. m[table[i]] = [kind |-> "object", name |-> mem[table[i]].name, ext |-> Null]
        BY <1>1, <2>1, WithoutTyped
    <2>3. mem'[table[i]] = [kind |-> "object", name |-> m[table[i]].name,
                            ext |-> Patch(AllAsked, table[i], "ext", m[table[i]].ext)]
        BY <1>1, <1>2, <1>3, <2>1, PatchedIs
    <2>4. m[table[i]].name = file.objects[i].name /\ m[table[i]].ext = Null
        BY <2>1, <2>2
    <2>5. Patch(AllAsked, table[i], "ext", Null) = table[file.objects[i].ext]
        BY ObjectRestored
    <2> QED
        BY <2>3, <2>4, <2>5
<1>6. ASSUME NEW e \in DOMAIN file.extensions
      PROVE  /\ mem'[table[e]].this = table[file.extensions[e].this]
             /\ mem'[table[e]].link = IF file.extensions[e].link = Null THEN Null
                                      ELSE table[file.extensions[e].link]
    <2>1. table[e] \in Extensions(mem) /\ mem[table[e]] = Blank
        BY PlacedAll
    <2>2. m[table[e]] = Blank
        BY <1>1, <2>1, WithoutTyped, Blocks
    <2>3. m[table[e]].this = Null /\ m[table[e]].link = Null
        BY <2>2 DEF Blank
    <2>4. mem'[table[e]] = [kind |-> "extension",
                            this |-> Patch(AllAsked, table[e], "this", m[table[e]].this),
                            link |-> Patch(AllAsked, table[e], "link", m[table[e]].link)]
        BY <1>1, <1>2, <1>3, <2>1, PatchedIs
    <2>5. file.extensions[e].this \in Addr
        BY PlacedAll DEF Saved, WellMade
    <2>6. Patch(AllAsked, table[e], "this", Null) = table[file.extensions[e].this]
        BY <2>5, ExtensionRestored, AddrAssumption DEF Target
    <2>7. Patch(AllAsked, table[e], "link", Null) =
            IF file.extensions[e].link = Null THEN Null ELSE table[file.extensions[e].link]
        BY ExtensionRestored DEF Target
    <2> QED
        BY <2>3, <2>4, <2>6, <2>7
<1>7. ~Misses(m, AllAsked)
    <2>1. ASSUME NEW r \in Range(AllAsked)
          PROVE  r.at \in IF r.field = "ext" THEN Objects(m) ELSE Extensions(m)
        <3>1. CASE r \in Range(requests)
            BY <1>2, <3>1, AllAnswered, PlacedAll
        <3>2. CASE r \in Range(ExtensionRequests)
            BY <1>2, <3>2, AllAnswered, PlacedAll
        <3> QED
            BY <3>1, <3>2, AllAnswered
    <2>2. \A k \in Served(AllAsked) : AllAsked[k] \in Range(AllAsked)
        BY DEF Served, Range
    <2> QED
        BY <2>1, <2>2 DEF Misses
<1> QED
    BY <1>3, <1>4, <1>5, <1>6, <1>7, PlacedAll

LEMMA EndMade ==
    ASSUME LoadInv, Intact, EndLoad
    PROVE  MadeWell(mem')
<1>1. /\ WellMade(file.objects, file.extensions)
      /\ \A i \in DOMAIN file.objects \cup DOMAIN file.extensions : i \in loaded /\ i \in Addr
      /\ \A i, j \in loaded : table[i] = table[j] => i = j
    BY PlacedAll DEF Saved
<1>2. ASSUME NEW i \in DOMAIN file.objects
      PROVE  /\ mem'[table[i]].ext \in Extensions(mem')
             /\ mem'[mem'[table[i]].ext].this = table[i]
    <2>1. file.objects[i].ext \in DOMAIN file.extensions /\ file.extensions[file.objects[i].ext].this = i
        BY <1>1 DEF WellMade
    <2> QED
        BY <2>1, Restored
<1>3. ASSUME NEW e \in DOMAIN file.extensions
      PROVE  /\ mem'[table[e]].this \in Objects(mem') /\ mem'[mem'[table[e]].this].ext = table[e]
             /\ mem'[table[e]].link \in Objects(mem') \cup {Null}
    <2>1. /\ file.extensions[e].this \in DOMAIN file.objects
          /\ file.objects[file.extensions[e].this].ext = e
          /\ file.extensions[e].link \in DOMAIN file.objects \cup {Null}
        BY <1>1 DEF WellMade
    <2> QED
        BY <2>1, Restored
<1>4. ASSUME NEW i \in DOMAIN file.objects, NEW j \in DOMAIN file.objects,
             mem'[table[i]].name = mem'[table[j]].name
      PROVE  table[i] = table[j]
    BY <1>1, <1>4, Restored DEF WellMade
<1> QED
    BY <1>2, <1>3, <1>4, Restored DEF MadeWell

-----------------------------------------------------------------------------
(* The invariant is kept.                                                      *)

LEMMA SaveSaved ==
    ASSUME mem \in Memory, Playing, SaveGame
    PROVE  Saved'
<1>1. /\ file'.objects = Part(mem, Objects(mem)) /\ file'.extensions = Part(mem, Extensions(mem))
      /\ DOMAIN file'.objects = Objects(mem) /\ DOMAIN file'.extensions = Extensions(mem)
    BY DEF SaveGame, Part
<1>2. WellMade(file'.objects, file'.extensions)
    BY <1>1 DEF Playing
<1> QED
    BY <1>1, <1>2, Blocks DEF Saved, WellMade

LEMMA LoadInit == Init => LoadInv
BY TypeInit DEF Init, LoadInv, Vacant, Reset

\* What a step of the game must show: the game is as it should be after it.
LEMMA GameKept ==
    ASSUME LoadInv, TypeInv', Intact, Intact', phase' = "game", MadeWell(mem'), ~wild',
           UNCHANGED <<tables, performing>>, phase # "loading", ~performing, file' # NoFile => Saved'
    PROVE  LoadInv'
<1>1. Playing'
    BY DEF Playing, MadeWell, WellMade, Part
<1>2. Reset'
    BY DEF LoadInv, Reset, tables, TypeInv, TypeOK
<1> QED
    BY <1>1, <1>2 DEF LoadInv

LEMMA GameStep == LoadInv /\ Intact' /\ Game => LoadInv'
<1> SUFFICES ASSUME LoadInv, Intact', Game PROVE LoadInv'
    OBVIOUS
<1>0. TypeInv' /\ mem \in Memory
    BY GameTyped, TypeFacts DEF LoadInv
<1>1. CASE NewGame
    <2>1. Intact /\ phase \in {"menu", "game"} /\ (Vacant \/ MadeWell(mem)) /\ ~performing /\ Reset
        BY <1>1, PlayingIs DEF NewGame, LoadInv, Intact
    <2>2. ~Astray(mem) /\ ~Misses(Cleared, requests)
        BY <1>0, <2>1, TypeFacts, NothingAstray, NothingPatched DEF Vacant, Reset, LoadInv
    <2>3. mem' \in Memory /\ \A a \in Addr : mem'[a] = Free
        BY <1>1, ClearedTyped DEF NewGame, Cleared
    <2>4. MadeWell(mem')
        BY <2>3, VacantMade
    <2>5. phase' = "game" /\ ~wild' /\ UNCHANGED <<tables, performing, file>>
        BY <1>1, <2>1, <2>2 DEF NewGame, Reset, RequestsAfter, TableAfter, tables
    <2>6. file' # NoFile => Saved'
        BY <2>1, <2>5 DEF LoadInv, Saved, WellMade
    <2> QED
        BY <1>0, <2>1, <2>4, <2>5, <2>6, GameKept
<1>2. ASSUME ~NewGame
      PROVE  phase = "game" /\ Intact /\ ~wild /\ MadeWell(mem) /\ Playing /\ ~performing /\ phase' = "game"
             /\ UNCHANGED <<tables, performing>> /\ (file # NoFile => Saved)
    <2>1. phase = "game" /\ phase' = "game" /\ UNCHANGED <<tables, performing, failed, short>>
        BY <1>2 DEF Game, SaveGame, Create, Destroy, Link
    <2> QED
        BY <2>1, PlayingIs DEF LoadInv, Intact
<1>3. ASSUME ~NewGame, ~SaveGame PROVE file' # NoFile => Saved'
    <2>1. file' = file
        BY <1>3 DEF Game, Create, Destroy, Link
    <2> QED
        BY <1>2, <1>3, <2>1 DEF Saved, WellMade
<1>4. CASE ~NewGame /\ ~SaveGame
    <2>1. ASSUME NEW a \in Addr, NEW e \in Addr, NEW n \in Names, Create(a, e, n) PROVE LoadInv'
        <3>1. MadeWell(mem') /\ ~wild'
            BY <1>0, <1>2, <1>4, <2>1, CreateMade DEF Create
        <3> QED
            BY <1>0, <1>2, <1>3, <1>4, <3>1, GameKept
    <2>2. ASSUME NEW o \in Addr, Destroy(o) PROVE LoadInv'
        <3>1. MadeWell(mem') /\ ~wild'
            BY <1>0, <1>2, <1>4, <2>2, DestroyMade
        <3> QED
            BY <1>0, <1>2, <1>3, <1>4, <3>1, GameKept
    <2>3. ASSUME NEW e \in Addr, NEW o \in Addr, Link(e, o) PROVE LoadInv'
        <3>1. MadeWell(mem') /\ ~wild'
            BY <1>0, <1>2, <1>4, <2>3, LinkMade DEF Link
        <3> QED
            BY <1>0, <1>2, <1>3, <1>4, <3>1, GameKept
    <2> QED
        BY <1>4, <2>1, <2>2, <2>3 DEF Game
<1>5. CASE SaveGame /\ ~NewGame
    <2>1. Saved' /\ mem' = mem /\ wild' = wild
        BY <1>0, <1>2, <1>5, SaveSaved DEF SaveGame
    <2> QED
        BY <1>0, <1>2, <1>5, <2>1, GameKept
<1> QED
    BY <1>1, <1>4, <1>5

LEMMA LoadingStep == LoadInv /\ Intact' /\ Loading => LoadInv'
<1> SUFFICES ASSUME LoadInv, Intact', Loading PROVE LoadInv'
    OBVIOUS
<1>0. TypeInv' /\ Intact
    <2>1. TypeInv'
        BY LoadingTyped DEF LoadInv
    <2>2. (failed' = failed \/ failed' = TRUE) /\ (short' = short \/ short' = TRUE)
        BY DEF Loading, BeginLoad, EndLoad, FailLoad, LoadObject, ReadFails, LoadExtension
    <2> QED
        BY <2>1, <2>2 DEF Intact
<1>1. file' = file /\ (file # NoFile => Saved')
    <2>1. file' = file
        BY DEF Loading, BeginLoad, EndLoad, FailLoad, LoadObject, ReadFails, LoadExtension
    <2> QED
        BY <1>0, <2>1 DEF LoadInv, Saved, WellMade
<1>2. CASE BeginLoad
    <2>1. phase' = "loading"
        BY <1>2 DEF BeginLoad
    <2> QED
        BY <1>0, <1>1, <1>2, <2>1, BeginPlaced DEF LoadInv
<1>3. CASE EndLoad
    <2>1. phase' = "game" /\ ~performing'
        BY <1>3 DEF EndLoad
    <2>2. MadeWell(mem') /\ ~wild' /\ requests' = <<>> /\ table' = NoTable
        BY <1>0, <1>3, EndMade, Restored, TablesEmptied
    <2>3. Playing' /\ Reset'
        BY <2>2 DEF Playing, MadeWell, WellMade, Part, Reset, NoTable
    <2> QED
        BY <1>0, <1>1, <2>1, <2>2, <2>3 DEF LoadInv
<1>4. CASE FailLoad
    BY <1>4 DEF FailLoad, Intact
<1>5. ASSUME NEW i \in Addr, NEW a \in Addr, LoadObject(i, a) \/ LoadExtension(i, a) PROVE LoadInv'
    <2>1. phase' = "loading" /\ wild' = wild
        BY <1>5 DEF LoadObject, LoadExtension
    <2>2. Placed' /\ Asked'
        BY <1>0, <1>5, LoadObjectPlaced, LoadExtensionPlaced
    <2> QED
        BY <1>0, <1>1, <2>1, <2>2 DEF LoadInv
<1>6. ASSUME NEW i \in Addr, NEW a \in Addr, ReadFails(i, a) PROVE FALSE
    BY <1>6 DEF ReadFails, Intact
<1> QED
    BY <1>2, <1>3, <1>4, <1>5, <1>6 DEF Loading

\* When a load has failed, or was short, only the types are left.
LEMMA LoadStep == LoadInv /\ [Next]_vars => LoadInv'
<1> SUFFICES ASSUME LoadInv, [Next]_vars PROVE LoadInv'
    OBVIOUS
<1>1. CASE ~Intact' /\ Next
    <2>1. TypeInv'
        BY <1>1, TypeStep DEF LoadInv
    <2> QED
        BY <1>1, <2>1 DEF LoadInv
<1>2. CASE Intact' /\ Next
    BY <1>2, GameStep, LoadingStep DEF Next
<1>3. CASE UNCHANGED vars
    <2>1. TypeInv'
        BY <1>3, TypeStep DEF LoadInv
    <2>2. /\ Saved' = Saved /\ Vacant' = Vacant /\ Reset' = Reset /\ Playing' = Playing
          /\ Placed' = Placed /\ Asked' = Asked /\ Intact' = Intact
        BY <1>3 DEF vars, tables, Saved, Vacant, Reset, Playing, Placed, Asked, WellMade, Part,
                    Objects, Extensions, NoTable, Ids, Blank, Target, Intact
    <2> QED
        BY <1>3, <2>1, <2>2 DEF LoadInv, vars, tables
<1> QED
    BY <1>1, <1>2, <1>3

(* As long as no load has failed and no read of an object, in a game every     *)
(* object has an extension of its own and every extension an object, and every *)
(* other pointer is to an object: also right after a load, wherever it put     *)
(* them (Paired of SavedGame; Extension::Fetch and every remapped pointer rely *)
(* on it).                                                                     *)
THEOREM EveryObjectHasItsOwn == Spec => [](~short => Paired)
<1>1. LoadInv => (~short => Paired)
    <2> SUFFICES ASSUME LoadInv, ~short, phase = "game", ~failed PROVE Paired
        BY DEF Paired
    <2>1. MadeWell(mem)
        BY PlayingIs DEF LoadInv, Intact
    <2>2. /\ \A o \in Objects(mem) : mem[o].ext \in Extensions(mem) /\ mem[mem[o].ext].this = o
          /\ \A e \in Extensions(mem) :
               /\ mem[e].this \in Objects(mem) /\ mem[mem[e].this].ext = e
               /\ mem[e].link \in Objects(mem) \cup {Null}
        BY <2>1 DEF MadeWell
    <2>3. \A o \in Objects(mem) : mem[o].ext # Null
        BY <2>2, AddrAssumption DEF Extensions
    <2> QED
        BY <2>2, <2>3 DEF Paired
<1> QED
    BY <1>1, LoadInit, LoadStep, PTL DEF Spec

(* As long as no load has failed and no read of an object, no step frees or    *)
(* writes what it should not, and no request or table entry of a load is left  *)
(* for the next (CleanSlate of SavedGame; Reset and Process_Tables).           *)
THEOREM NothingLeftOver == Spec => []CleanSlate
<1>1. LoadInv => CleanSlate
    BY DEF LoadInv, CleanSlate, Reset, TypeInv, TypeOK
<1> QED
    BY <1>1, LoadInit, LoadStep, PTL DEF Spec

-----------------------------------------------------------------------------
(* The refinement.  A world is a function of the memory, or of the file: what  *)
(* it says of an object does not depend on which address the object has.       *)

NameIn(m, a) == IF a = Null THEN NoName ELSE m[a].name
NamesIn(m) == {m[o].name : o \in Objects(m)}
WorldOf(m) ==
    [n \in NamesIn(m) |-> NameIn(m, m[m[CHOOSE o \in Objects(m) : m[o].name = n].ext].link)]

NameOn(f, i) == IF i = Null THEN NoName ELSE f.objects[i].name
NamesOn(f) == {NameOn(f, i) : i \in DOMAIN f.objects}
WorldOn(f) ==
    [n \in NamesOn(f) |->
        NameOn(f, f.extensions[f.objects[CHOOSE i \in DOMAIN f.objects : NameOn(f, i) = n].ext].link)]

LEMMA WorldIs ==
    /\ World = IF phase # "game" \/ ~Intact THEN NoFile ELSE WorldOf(mem)
    /\ World' = IF phase' # "game" \/ ~Intact' THEN NoFile ELSE WorldOf(mem')
BY DEF World, NameAt, WorldOf, NameIn, NamesIn, Objects

LEMMA SavedWorldIs ==
    /\ SavedWorld = IF file = NoFile \/ ~Intact THEN NoFile ELSE WorldOn(file)
    /\ SavedWorld' = IF file' = NoFile \/ ~Intact' THEN NoFile ELSE WorldOn(file')
BY DEF SavedWorld, WorldOn, NamesOn, NameOn

LEMMA WorldAt ==
    ASSUME NEW m \in Memory, MadeWell(m)
    PROVE  /\ WorldOf(m) \in [NamesIn(m) -> NamesIn(m) \cup {NoName}]
           /\ NamesIn(m) \subseteq Names
           /\ \A o \in Objects(m) : WorldOf(m)[m[o].name] = NameIn(m, m[m[o].ext].link)
<1>1. ASSUME NEW o \in Objects(m)
      PROVE  /\ m[o].name \in NamesIn(m) /\ m[o].name \in Names
             /\ NameIn(m, m[m[o].ext].link) \in NamesIn(m) \cup {NoName}
             /\ (CHOOSE p \in Objects(m) : m[p].name = m[o].name) = o
    <2>1. m[o].name \in NamesIn(m) /\ m[o].name \in Names
        BY Kinds DEF NamesIn, Objects
    <2>2. m[m[o].ext].link \in Objects(m) \cup {Null}
        BY DEF MadeWell
    <2>3. NameIn(m, m[m[o].ext].link) \in NamesIn(m) \cup {NoName}
        BY <2>2 DEF NameIn, NamesIn
    <2>4. (CHOOSE p \in Objects(m) : m[p].name = m[o].name) = o
        BY DEF MadeWell
    <2> QED
        BY <2>1, <2>3, <2>4
<1>2. \A o \in Objects(m) : WorldOf(m)[m[o].name] = NameIn(m, m[m[o].ext].link)
    BY <1>1 DEF WorldOf
<1>3. \A n \in NamesIn(m) : \E o \in Objects(m) : n = m[o].name
    BY DEF NamesIn
<1>4. \A n \in NamesIn(m) : n \in Names /\ WorldOf(m)[n] \in NamesIn(m) \cup {NoName}
    BY <1>1, <1>2, <1>3
<1>5. WorldOf(m) = [n \in NamesIn(m) |-> WorldOf(m)[n]]
    BY DEF WorldOf
<1> QED
    BY <1>2, <1>4, <1>5

LEMMA SavedWorldAt ==
    ASSUME NEW f, DOMAIN f.objects \subseteq Addr, WellMade(f.objects, f.extensions)
    PROVE  /\ WorldOn(f) = [n \in NamesOn(f) |-> WorldOn(f)[n]]
           /\ NamesOn(f) = {f.objects[i].name : i \in DOMAIN f.objects}
           /\ \A i \in DOMAIN f.objects :
                WorldOn(f)[f.objects[i].name] = NameOn(f, f.extensions[f.objects[i].ext].link)
<1>1. ASSUME NEW i \in DOMAIN f.objects
      PROVE  /\ NameOn(f, i) = f.objects[i].name
             /\ (CHOOSE j \in DOMAIN f.objects : NameOn(f, j) = f.objects[i].name) = i
    <2>1. \A j \in DOMAIN f.objects : NameOn(f, j) = f.objects[j].name
        BY AddrAssumption DEF NameOn
    <2> QED
        BY <2>1 DEF WellMade
<1>2. NamesOn(f) = {f.objects[i].name : i \in DOMAIN f.objects}
    BY <1>1 DEF NamesOn
<1>3. \A i \in DOMAIN f.objects :
        WorldOn(f)[f.objects[i].name] = NameOn(f, f.extensions[f.objects[i].ext].link)
    BY <1>1, <1>2 DEF WorldOn
<1>4. WorldOn(f) = [n \in NamesOn(f) |-> WorldOn(f)[n]]
    BY DEF WorldOn
<1> QED
    BY <1>2, <1>3, <1>4

LEMMA WorldFacts ==
    ASSUME NEW m \in Memory, MadeWell(m)
    PROVE  WorldOf(m) \in A!Worlds /\ WorldOf(m) # NoFile
<1>1. WorldOf(m) \in [NamesIn(m) -> NamesIn(m) \cup {NoName}] /\ NamesIn(m) \in SUBSET Names
    BY WorldAt
<1>2. WorldOf(m) \in A!Worlds
    BY <1>1 DEF A!Worlds
<1>3. WorldOf(m) \in [NamesIn(m) -> Names \cup {NoName}]
    BY <1>1
<1> QED
    BY <1>1, <1>2, <1>3, NothingAssumption

\* What is in the file after saving is the world that is played.
LEMMA SaveRefines ==
    ASSUME LoadInv, Intact, SaveGame
    PROVE  A!Save
<1>1. /\ mem \in Memory /\ MadeWell(mem) /\ Saved' /\ phase = "game"
      /\ file'.objects = Part(mem, Objects(mem)) /\ file'.extensions = Part(mem, Extensions(mem))
      /\ mem' = mem /\ phase' = phase /\ Intact'
    BY TypeFacts, PlayingIs, SaveSaved DEF LoadInv, SaveGame, Part, Intact
<1>2. DOMAIN file'.objects = Objects(mem) /\ DOMAIN file'.extensions = Extensions(mem)
    BY <1>1 DEF Part
<1>3. Objects(mem) \subseteq Addr
    BY <1>1, Blocks
<1>4. file' # NoFile
    <2>1. file' \in [objects : [Objects(mem) -> Object], extensions : [Extensions(mem) -> Extension]]
        BY DEF SaveGame, Objects, Extensions
    <2>2. Objects(mem) \in SUBSET Addr /\ Extensions(mem) \in SUBSET Addr
        BY <1>1, Blocks
    <2> QED
        BY <2>1, <2>2, NothingAssumption
<1>5. World = WorldOf(mem) /\ World' = World /\ SavedWorld' = WorldOn(file')
    BY <1>1, <1>4, WorldIs, SavedWorldIs
<1>6. WellMade(file'.objects, file'.extensions)
    BY <1>1 DEF Saved, WellMade
<1>7. /\ WorldOn(file') = [n \in NamesOn(file') |-> WorldOn(file')[n]]
      /\ NamesOn(file') = {file'.objects[i].name : i \in DOMAIN file'.objects}
      /\ \A i \in DOMAIN file'.objects : WorldOn(file')[file'.objects[i].name]
            = NameOn(file', file'.extensions[file'.objects[i].ext].link)
    BY <1>2, <1>3, <1>6, SavedWorldAt
<1>8. /\ WorldOf(mem) \in [NamesIn(mem) -> NamesIn(mem) \cup {NoName}]
      /\ \A o \in Objects(mem) : WorldOf(mem)[mem[o].name] = NameIn(mem, mem[mem[o].ext].link)
    BY <1>1, WorldAt
<1>9. NamesOn(file') = NamesIn(mem)
    BY <1>1, <1>2, <1>7 DEF NamesIn, Part
<1>10. ASSUME NEW o \in Objects(mem) PROVE WorldOn(file')[mem[o].name] = WorldOf(mem)[mem[o].name]
    <2>1. /\ file'.objects[o] = mem[o] /\ mem[o].ext \in Extensions(mem)
          /\ file'.extensions[mem[o].ext] = mem[mem[o].ext]
          /\ mem[mem[o].ext].link \in Objects(mem) \cup {Null}
        BY <1>1 DEF Part, MadeWell
    <2>2. NameOn(file', mem[mem[o].ext].link) = NameIn(mem, mem[mem[o].ext].link)
        BY <1>1, <2>1 DEF NameOn, NameIn, Part
    <2> QED
        BY <1>2, <1>7, <1>8, <2>1, <2>2
<1>11. \A n \in NamesIn(mem) : WorldOn(file')[n] = WorldOf(mem)[n]
    BY <1>10 DEF NamesIn
<1>12. WorldOn(file') = WorldOf(mem)
    BY <1>7, <1>8, <1>9, <1>11
<1> QED
    BY <1>1, <1>5, <1>12, WorldFacts DEF A!Save

\* The world after the load is the one in the file.
LEMMA LoadRefines ==
    ASSUME LoadInv, Intact, EndLoad, TypeInv'
    PROVE  A!Load
<1>1. /\ phase = "loading" /\ phase' = "game" /\ Intact' /\ file' = file
      /\ file # NoFile /\ mem' \in Memory
    BY TypeFacts DEF LoadInv, EndLoad, TypeInv, TypeOK, Memory, Intact
<1>2. MadeWell(mem') /\ WellMade(file.objects, file.extensions) /\ DOMAIN file.objects \subseteq Addr
    BY EndMade, PlacedAll DEF Saved
<1>3. World = NoFile /\ World' = WorldOf(mem') /\ SavedWorld = WorldOn(file) /\ SavedWorld' = SavedWorld
    BY <1>1, WorldIs, SavedWorldIs
<1>4. /\ WorldOn(file) = [n \in NamesOn(file) |-> WorldOn(file)[n]]
      /\ NamesOn(file) = {file.objects[i].name : i \in DOMAIN file.objects}
      /\ \A i \in DOMAIN file.objects : WorldOn(file)[file.objects[i].name]
            = NameOn(file, file.extensions[file.objects[i].ext].link)
    BY <1>2, SavedWorldAt
<1>5. /\ WorldOf(mem') \in [NamesIn(mem') -> NamesIn(mem') \cup {NoName}]
      /\ \A o \in Objects(mem') : WorldOf(mem')[mem'[o].name] = NameIn(mem', mem'[mem'[o].ext].link)
    BY <1>1, <1>2, WorldAt
<1>6. /\ Objects(mem') = {table[i] : i \in DOMAIN file.objects}
      /\ \A i \in DOMAIN file.objects :
            mem'[table[i]].name = file.objects[i].name /\ mem'[table[i]].ext = table[file.objects[i].ext]
      /\ \A e \in DOMAIN file.extensions :
            mem'[table[e]].link = IF file.extensions[e].link = Null THEN Null
                                  ELSE table[file.extensions[e].link]
      /\ \A i \in DOMAIN file.objects : table[i] \in Addr
    BY Restored, PlacedAll
<1>7. NamesIn(mem') = NamesOn(file)
    BY <1>4, <1>6 DEF NamesIn
<1>8. ASSUME NEW i \in DOMAIN file.objects
      PROVE  WorldOf(mem')[file.objects[i].name] = WorldOn(file)[file.objects[i].name]
    <2> DEFINE e == file.objects[i].ext
               l == file.extensions[e].link
    <2>1. e \in DOMAIN file.extensions /\ l \in DOMAIN file.objects \cup {Null}
        BY <1>2 DEF WellMade
    <2>2. table[i] \in Objects(mem') /\ mem'[table[i]].name = file.objects[i].name
          /\ mem'[mem'[table[i]].ext].link = IF l = Null THEN Null ELSE table[l]
        BY <1>6, <2>1
    <2>3. WorldOf(mem')[file.objects[i].name] = NameIn(mem', IF l = Null THEN Null ELSE table[l])
        BY <1>5, <2>2
    <2>4. NameIn(mem', IF l = Null THEN Null ELSE table[l]) = NameOn(file, l)
        BY <1>6, <2>1, AddrAssumption DEF NameIn, NameOn
    <2> QED
        BY <1>4, <2>3, <2>4
<1>9. \A n \in NamesOn(file) : WorldOf(mem')[n] = WorldOn(file)[n]
    BY <1>4, <1>8
<1>10. WorldOf(mem') = WorldOn(file)
    BY <1>4, <1>5, <1>7, <1>9
<1>11. WorldOf(mem') # NoFile
    BY <1>1, <1>2, WorldFacts
<1> QED
    BY <1>3, <1>10, <1>11 DEF A!Load

LEMMA GameRefines ==
    ASSUME LoadInv, LoadInv', Intact, Game
    PROVE  A!Next
<1>1. ASSUME phase' = "game", Intact' PROVE mem' \in Memory /\ MadeWell(mem')
    <2>1. mem' \in Memory
        BY DEF LoadInv, TypeInv, TypeOK, Memory
    <2>2. MadeWell(mem')
        BY <1>1 DEF LoadInv, Playing, MadeWell, WellMade, Part
    <2> QED
        BY <2>1, <2>2
<1>2. CASE NewGame
    <2>1. phase' = "game" /\ Intact' /\ file' = file /\ mem' = Cleared
        BY <1>2 DEF NewGame, Intact
    <2>2. \A a \in Addr : mem'[a] = Free
        BY <2>1 DEF Cleared
    <2>3. Objects(mem') = {}
        BY <1>1, <2>1, <2>2, VacantMade
    <2>4. NamesIn(mem') = {}
        BY <2>3 DEF NamesIn
    <2>5. WorldOf(mem') = [n \in {} |-> NoName]
        BY <1>1, <2>1, <2>4, WorldAt
    <2>6. World' = [n \in {} |-> NoName] /\ SavedWorld' = SavedWorld
        BY <2>1, <2>5, WorldIs, SavedWorldIs
    <2> QED
        BY <2>6 DEF A!Next, A!Begin
<1>3. CASE SaveGame
    BY <1>3, SaveRefines DEF A!Next
<1>4. CASE ~NewGame /\ ~SaveGame
    <2>1. phase = "game" /\ phase' = "game" /\ Intact' /\ file' = file
        BY <1>4 DEF Game, Create, Destroy, Link, Intact
    <2>2. mem \in Memory /\ MadeWell(mem)
        BY <2>1, TypeFacts, PlayingIs DEF LoadInv
    <2>3. World = WorldOf(mem) /\ World' = WorldOf(mem') /\ SavedWorld' = SavedWorld
        BY <2>1, WorldIs, SavedWorldIs
    <2>4. World # NoFile /\ World' \in A!Worlds
        BY <1>1, <2>1, <2>2, <2>3, WorldFacts
    <2> QED
        BY <2>3, <2>4 DEF A!Next, A!Play
<1> QED
    BY <1>2, <1>3, <1>4

LEMMA LoadingRefines ==
    ASSUME LoadInv, LoadInv', Intact, Intact', Loading
    PROVE  A!Next \/ UNCHANGED <<World, SavedWorld>>
<1>1. CASE EndLoad
    BY <1>1, LoadRefines DEF LoadInv, A!Next
<1>2. CASE BeginLoad
    <2>1. World' = NoFile /\ SavedWorld' = SavedWorld
        BY <1>2, WorldIs, SavedWorldIs DEF BeginLoad
    <2> QED
        BY <2>1 DEF A!Next, A!Leave
<1>3. CASE ~EndLoad /\ ~BeginLoad
    <2>1. phase = "loading" /\ phase' # "game" /\ file' = file
        BY <1>3 DEF Loading, FailLoad, LoadObject, ReadFails, LoadExtension
    <2>2. World = NoFile /\ World' = NoFile /\ SavedWorld' = SavedWorld
        BY <2>1, WorldIs, SavedWorldIs
    <2> QED
        BY <2>2
<1> QED
    BY <1>1, <1>2, <1>3

LEMMA StepRefines ==
    LoadInv /\ LoadInv' /\ [Next]_vars => [Intact' => A!Next]_<<World, SavedWorld>>
<1> SUFFICES ASSUME LoadInv, LoadInv', [Next]_vars, Intact'
             PROVE  A!Next \/ UNCHANGED <<World, SavedWorld>>
    OBVIOUS
<1>0. Intact
    <2>1. (failed' = failed \/ failed' = TRUE) /\ (short' = short \/ short' = TRUE)
        BY DEF Next, Game, NewGame, SaveGame, Create, Destroy, Link, Loading, BeginLoad, EndLoad,
               FailLoad, LoadObject, ReadFails, LoadExtension, vars
    <2> QED
        BY <2>1 DEF Intact
<1>1. CASE Game
    BY <1>0, <1>1, GameRefines
<1>2. CASE Loading
    BY <1>0, <1>2, LoadingRefines
<1>3. CASE UNCHANGED vars
    BY <1>3, WorldIs, SavedWorldIs DEF vars, tables, Intact
<1> QED
    BY <1>1, <1>2, <1>3 DEF Next

(* Until a load fails, or the read of an object, a load brings back the world  *)
(* that was saved, at whatever addresses and read in whatever order: saving    *)
(* and loading implement Archive (ImplementsArchive of SavedGame; the swizzle  *)
(* manager and Vinifera_Load_Game).                                            *)
THEOREM LoadBringsBack == Spec => ImplementsArchive
<1>1. Init => A!Init
    BY WorldIs, SavedWorldIs DEF Init, A!Init
<1>2. Spec => []LoadInv
    BY LoadInit, LoadStep, PTL DEF Spec
<1> QED
    BY <1>1, <1>2, StepRefines, PTL DEF Spec, ImplementsArchive
=============================================================================
