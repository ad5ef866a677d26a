------------------------------ MODULE SavedGame ------------------------------
(* Saving and loading: the swizzle manager, the extensions of the engine's     *)
(* objects, and the way Vinifera_Load_Game leads through a load.               *)
(*                                                                             *)
(* Every engine object has an extension in a block of memory of its own; the   *)
(* two point to each other (the object in the place of IsDirty, the extension  *)
(* in ThisPtr), and extensions point to other objects (NavalFactory, Spawnee   *)
(* and so on, here one pointer, link).  A save writes every block with its     *)
(* address as the id; a load puts blocks at new addresses, which may have been *)
(* the ids of others, and the swizzle manager turns ids into addresses.        *)
EXTENDS Naturals, Sequences, SequencesExt

CONSTANTS
    Addr,           \* blocks of memory
    Names,          \* what tells one object from another
    Null, Free, NoFile, NoName,
    AfterFailure,   \* bound: whether the behaviour goes on when a load has failed, and
                    \* objects are made and linked when one could not read them all
    ReadErrors      \* bound: whether the read of an object may fail

ASSUME AddrAssumption == IsFiniteSet(Addr) /\ Null \notin Addr
ASSUME BoundsAssumption == AfterFailure \in BOOLEAN /\ ReadErrors \in BOOLEAN

Pointer == Addr \cup {Null}
Object == [kind : {"object"}, name : Names, ext : Pointer]
Extension == [kind : {"extension"}, this : Pointer, link : Pointer]
Fields == {"ext", "this", "link"}
Request == [id : Addr, at : Addr, field : Fields]

\* What stands for nothing is nothing that there is.
ASSUME NothingAssumption ==
    /\ Free \notin Object \cup Extension
    /\ \A S \in SUBSET Names : NoFile \notin [S -> Names \cup {NoName}]
    /\ \A S, T \in SUBSET Addr :
         NoFile \notin [objects : [S -> Object], extensions : [T -> Extension]]

VARIABLES
    mem,            \* what is at an address
    phase,          \* menu, game or loading
    file,           \* the saved game: blocks by id
    loaded,         \* the ids read so far, or tried to
    performing,     \* Vinifera_PerformingLoad
    requests,       \* RequestTable
    table,          \* PointerTable: the address of an id, or Null
    failed,         \* history: a load has failed
    short,          \* history: an object could not be read, and the load went on
    wild            \* memory was freed or written that is not what it was taken for,
                    \* or a load began with ids or requests of an earlier one

vars == <<mem, phase, file, loaded, performing, requests, table, failed, short, wild>>
tables == <<requests, table>>

-----------------------------------------------------------------------------
Objects(m) == {a \in Addr : m[a] \in Object}
Extensions(m) == {a \in Addr : m[a] \in Extension}
NoTable == [i \in Addr |-> Null]

(* Process_Tables: the requests are served in order, up to one whose id is not *)
(* known; then it gives up and leaves both tables as they are.  Without any    *)
(* request it does nothing, and leaves the pointers registered.                *)
Served(rq) == {n \in DOMAIN rq : \A k \in 1 .. n : table[rq[k].id] # Null}
AllServed(rq) == Served(rq) = DOMAIN rq

Writes(rq, a, f) == {k \in Served(rq) : rq[k].at = a /\ rq[k].field = f}
Patch(rq, a, f, old) ==
    IF Writes(rq, a, f) = {} THEN old ELSE table[rq[Max(Writes(rq, a, f))].id]
Patched(m, rq) ==
    [a \in Addr |->
        CASE m[a] \in Object -> [m[a] EXCEPT !.ext = Patch(rq, a, "ext", @)]
          [] m[a] \in Extension -> [m[a] EXCEPT !.this = Patch(rq, a, "this", @),
                                                !.link = Patch(rq, a, "link", @)]
          [] OTHER -> m[a]]
Misses(m, rq) ==    \* a request is served where its block is not any more
    \E k \in Served(rq) :
        rq[k].at \notin (IF rq[k].field = "ext" THEN Objects(m) ELSE Extensions(m))

RequestsAfter(rq) == IF AllServed(rq) THEN <<>> ELSE rq

\* Mutant: the pointers stay registered.
TableKept(rq) == table

TableAfter(rq) == IF AllServed(rq) /\ rq # <<>> THEN NoTable ELSE table

(* Clear_Scenario deletes all objects, and Extension_Destroy the extension of  *)
(* each: whatever the object has as its pointer to it is deleted.  Extensions  *)
(* that no object has are dropped from the lists (Free_Heaps), and count as    *)
(* free.                                                                       *)
Cleared == [a \in Addr |-> Free]
Astray(m) ==
    \E o \in Objects(m) :
        m[o].ext # Null /\ (m[o].ext \notin Extensions(m)
                            \/ \E p \in Objects(m) \ {o} : m[p].ext = m[o].ext)

\* What the program does with memory or tables it has spoilt is not modelled.
GoesOn == ~wild /\ (failed => AfterFailure)

\* Bound: nothing more is made when a load could not read everything.
Plays == GoesOn /\ (short => AfterFailure)

-----------------------------------------------------------------------------
Init ==
    /\ mem = [a \in Addr |-> Free]
    /\ phase = "menu"
    /\ file = NoFile
    /\ loaded = {}
    /\ performing = FALSE
    /\ requests = <<>> /\ table = NoTable
    /\ failed = FALSE /\ short = FALSE /\ wild = FALSE

(* A new scenario is started: Clear_Scenario, and then Read_Scenario_INI, which *)
(* resets the swizzle manager.                                                 *)
NewGame ==
    /\ phase \in {"menu", "game"} /\ GoesOn
    /\ phase' = "game"
    /\ mem' = Cleared
    /\ requests' = RequestsAfter(requests) /\ table' = TableAfter(requests)
    /\ wild' = (Astray(mem) \/ Misses(Cleared, requests))
    /\ UNCHANGED <<file, loaded, performing, failed, short>>

(* The engine makes an object; its constructor makes the extension, except     *)
(* while a load is performed.                                                  *)
Create(a, e, n) ==
    /\ phase = "game" /\ Plays
    /\ a # e /\ mem[a] = Free /\ mem[e] = Free
    /\ \A o \in Objects(mem) : mem[o].name # n
    /\ mem' = IF performing
              THEN [mem EXCEPT ![a] = [kind |-> "object", name |-> n, ext |-> Null]]
              ELSE [mem EXCEPT ![a] = [kind |-> "object", name |-> n, ext |-> e],
                               ![e] = [kind |-> "extension", this |-> a, link |-> Null]]
    /\ UNCHANGED <<phase, file, loaded, performing, tables, failed, short, wild>>

(* An object is destroyed: its extension with it, and Detach_This_From_All     *)
(* clears the pointers of the others to it.                                    *)
\* Mutant: the extensions of the others are not told.
Forgotten(m, o) == m

Detached(m, o) ==
    [a \in Addr |-> IF m[a] \in Extension /\ m[a].link = o THEN [m[a] EXCEPT !.link = Null]
                                                           ELSE m[a]]

Destroy(o) ==
    /\ phase = "game" /\ GoesOn
    /\ o \in Objects(mem)
    /\ LET e == mem[o].ext IN
         /\ mem' = [a \in Addr |-> IF a \in {o, e} THEN Free ELSE Detached(mem, o)[a]]
         /\ wild' = (e # Null /\ e \notin Extensions(mem))
    /\ UNCHANGED <<phase, file, loaded, performing, tables, failed, short>>

(* The game makes an extension point to an object.                             *)
Link(e, o) ==
    /\ phase = "game" /\ Plays
    /\ e \in Extensions(mem) /\ o \in Objects(mem)
    /\ mem' = [mem EXCEPT ![e].link = o]
    /\ UNCHANGED <<phase, file, loaded, performing, tables, failed, short, wild>>

SaveGame ==
    /\ phase = "game" /\ GoesOn
    /\ file' = [objects |-> [a \in Objects(mem) |-> mem[a]],
                extensions |-> [a \in Extensions(mem) |-> mem[a]]]
    /\ UNCHANGED <<mem, phase, loaded, performing, tables, failed, short, wild>>

-----------------------------------------------------------------------------
(* Vinifera_Load_Game resets the swizzle manager, and Get_All clears the       *)
(* scenario and sets the flag.                                                 *)
BeginLoad ==
    /\ phase \in {"menu", "game"} /\ GoesOn /\ file # NoFile
    /\ phase' = "loading"
    /\ mem' = Cleared
    /\ requests' = RequestsAfter(requests) /\ table' = TableAfter(requests)
    /\ wild' = (\/ Misses(mem, requests) \/ Astray(Patched(mem, requests))
                \/ requests' # <<>> \/ table' # NoTable)
    /\ loaded' = {}
    /\ performing' = TRUE
    /\ UNCHANGED <<file, failed, short>>

\* Here_I_Am registers an id once: emplace leaves an entry that is there.
Registered(i, a) == IF table[i] = Null THEN [table EXCEPT ![i] = a] ELSE table

\* Mutants: a null pointer is asked for too, or a pointer is cleared and not asked for.
RequestForNull(i, a, f) == <<[id |-> i, at |-> a, field |-> f]>>
RequestForPartner(i, a, f) ==
    IF i = Null \/ f = "link" THEN <<>> ELSE <<[id |-> i, at |-> a, field |-> f]>>

\* Swizzle clears the pointer, and remembers where it is.
RequestFor(i, a, f) ==
    IF i = Null THEN <<>> ELSE <<[id |-> i, at |-> a, field |-> f]>>

(* Vinifera_Load_Vector: an object is read into a new block of memory.  Its    *)
(* pointer to the extension is still the id.                                   *)
LoadObject(i, a) ==
    /\ phase = "loading" /\ GoesOn
    /\ i \in DOMAIN file.objects \ loaded
    /\ mem[a] = Free
    /\ mem' = [mem EXCEPT ![a] = file.objects[i]]
    /\ table' = Registered(i, a)
    /\ loaded' = loaded \cup {i}
    /\ UNCHANGED <<phase, file, performing, requests, failed, short, wild>>

(* The read of an object fails.  Vinifera_Load_Vector returns the HRESULT as a *)
(* bool, which FAILED takes for success: the load goes on.  The object was not *)
(* made, or it was, and its pointer to the extension read or not, and its id   *)
(* registered or not.                                                          *)
ReadFails(i, a) ==
    /\ phase = "loading" /\ GoesOn /\ ReadErrors
    /\ i \in DOMAIN file.objects \ loaded
    /\ \/ UNCHANGED <<mem, table>>
       \/ /\ mem[a] = Free
          /\ \E e \in {Null, file.objects[i].ext} :
               mem' = [mem EXCEPT ![a] = [file.objects[i] EXCEPT !.ext = e]]
          /\ table' \in {table, Registered(i, a)}
    /\ loaded' = loaded \cup {i}
    /\ short' = TRUE
    /\ UNCHANGED <<phase, file, performing, requests, failed, wild>>

Ids(f) == DOMAIN f.objects \cup DOMAIN f.extensions

(* Extension_Load, after all objects.                                          *)
LoadExtension(i, a) ==
    /\ phase = "loading" /\ GoesOn
    /\ DOMAIN file.objects \subseteq loaded
    /\ i \in DOMAIN file.extensions \ loaded
    /\ mem[a] = Free
    /\ mem' = [mem EXCEPT ![a] = [file.extensions[i] EXCEPT !.this = Null, !.link = Null]]
    /\ table' = Registered(i, a)
    /\ requests' = requests \o RequestFor(file.extensions[i].this, a, "this")
                            \o RequestFor(file.extensions[i].link, a, "link")
    /\ loaded' = loaded \cup {i}
    /\ UNCHANGED <<phase, file, performing, failed, short, wild>>

(* Get_All ends with Extension::Request_Pointer_Remap, which asks for the      *)
(* extension of every object, and Vinifera_Load_Game resets the swizzle        *)
(* manager.  When that cannot serve a request it says that the game will       *)
(* return to the main menu, and returns to Vinifera_Load_Game.                 *)
ExtensionRequests ==
    LET os == SetToSeq({o \in Objects(mem) : mem[o].ext # Null})   \* some order
    IN [k \in DOMAIN os |-> [id |-> mem[os[k]].ext, at |-> os[k], field |-> "ext"]]
WithoutExtensions(m) ==
    [a \in Addr |-> IF a \in Objects(m) THEN [m[a] EXCEPT !.ext = Null] ELSE m[a]]

EndLoad ==
    /\ phase = "loading" /\ GoesOn
    /\ Ids(file) \subseteq loaded
    /\ LET rq == requests \o ExtensionRequests
           m == WithoutExtensions(mem)
       IN /\ mem' = Patched(m, rq)
          /\ requests' = RequestsAfter(rq) /\ table' = TableAfter(rq)
          /\ wild' = Misses(m, rq)
    /\ performing' = FALSE
    /\ phase' = "game"
    /\ UNCHANGED <<file, loaded, failed, short>>

(* Get_All returns false: the scenario's file or an add-on is missing, or the  *)
(* map, another part that is read as a whole, or an extension cannot be read.  *)
FailLoad ==
    /\ phase = "loading" /\ GoesOn
    /\ phase' = "menu"
    /\ failed' = TRUE
    /\ UNCHANGED <<mem, file, loaded, performing, tables, short, wild>>

-----------------------------------------------------------------------------
Game ==
    \/ NewGame \/ SaveGame
    \/ \E a, e \in Addr, n \in Names : Create(a, e, n)
    \/ \E o \in Addr : Destroy(o)
    \/ \E e, o \in Addr : Link(e, o)

Loading ==
    \/ BeginLoad \/ EndLoad \/ FailLoad
    \/ \E i, a \in Addr : LoadObject(i, a) \/ ReadFails(i, a) \/ LoadExtension(i, a)

Next == Game \/ Loading

Spec == Init /\ [][Next]_vars

-----------------------------------------------------------------------------
(* The types, and the bound on RequestTable: an extension asks for two         *)
(* pointers and an object for one.                                             *)
TypeOK ==
    /\ mem \in [Addr -> Object \cup Extension \cup {Free}]
    /\ phase \in {"menu", "game", "loading"}
    /\ file # NoFile =>
         /\ \A i \in DOMAIN file.objects : i \in Addr /\ file.objects[i] \in Object
         /\ \A i \in DOMAIN file.extensions : i \in Addr /\ file.extensions[i] \in Extension
    /\ loaded \subseteq Addr
    /\ {performing, failed, short, wild} \subseteq BOOLEAN
    /\ requests \in Seq(Request)
    /\ table \in [Addr -> Pointer]

\* Every load so far has read all that was saved.
Intact == ~failed /\ ~short

(* In a game, while no load has failed, an object that has an extension has    *)
(* its own, which points back to it, and every other pointer is to an object:  *)
(* also after objects that could not be read.  As long as all could be, every  *)
(* object has an extension, and every extension is some object's.  That is     *)
(* what Extension::Fetch and every use of a remapped pointer rely on.          *)
Paired ==
    (phase = "game" /\ ~failed /\ ~wild) =>
        /\ \A o \in Objects(mem) : mem[o].ext # Null =>
             mem[o].ext \in Extensions(mem) /\ mem[mem[o].ext].this = o
        /\ \A e \in Extensions(mem) : mem[e].link \in Objects(mem) \cup {Null}
        /\ ~short =>
             /\ \A o \in Objects(mem) : mem[o].ext # Null
             /\ \A e \in Extensions(mem) : mem[e].this \in Objects(mem) /\ mem[mem[e].this].ext = e

(* While every load has read all of its file, nothing is freed or written that *)
(* is not what it is taken for, and an id of an earlier load, or a request of  *)
(* it, is never left for the next ("Reset swizzler in preparation for load").  *)
CleanSlate ==
    Intact => ~wild /\ (phase # "loading" => requests = <<>> /\ table = NoTable)

(* The world, whatever addresses it has.                                       *)
NameAt(a) == IF a = Null THEN NoName ELSE mem[a].name
World ==
    IF phase # "game" \/ ~Intact THEN NoFile
    ELSE [n \in {mem[o].name : o \in Objects(mem)} |->
            NameAt(mem[mem[CHOOSE o \in Objects(mem) : mem[o].name = n].ext].link)]

SavedWorld ==
    IF file = NoFile \/ ~Intact THEN NoFile
    ELSE LET os == DOMAIN file.objects
             name(i) == IF i = Null THEN NoName ELSE file.objects[i].name
         IN [n \in {name(i) : i \in os} |->
               name(file.extensions[file.objects[CHOOSE i \in os : name(i) = n].ext].link)]

A == INSTANCE Archive WITH Nobody <- NoName, NoWorld <- NoFile, world <- World, saved <- SavedWorld

(* While every load has read all of its file, the game that a load brings back *)
(* is the one that was saved, wherever its objects are put and in whatever     *)
(* order they are read.                                                        *)
ImplementsArchive == A!Init /\ [][Intact' => A!Next]_<<World, SavedWorld>>

(* "the scenario will have to be re-initialized" when a load has failed: then  *)
(* it must be possible to, and the objects of the new game have extensions.    *)
Reinitialised ==
    phase = "game" => \A o \in Objects(mem) : mem[o].ext # Null
=============================================================================
