--------------------------- MODULE NamespaceStore ---------------------------
(***************************************************************************)
(* The namespace as clap_namespace.c keeps it: an array of pointers to     *)
(* entries, each with a copy of its key and a tagged union that owns a     *)
(* string or an array of strings.  Every allocation may fail, and the      *)
(* allocator may be the client's.  A call is one step, except for          *)
(* clap_namespace_merge, whose calls on the destination are one step each. *)
(***************************************************************************)
EXTENDS Allocator, Sequences

CONSTANTS
    NsId,            \* the namespaces a program has pointers for
    Name,            \* keys
    Str,             \* strings the client or a command line stores
    NoName,          \* the key of an entry whose copy of the key failed: NULL
    NoStr,           \* a NULL string
    Num,             \* ints, floats and bools that are stored
    NumType,         \* the types of them that a client uses
    ValueCapacity,   \* value_capacity of a new namespace (8 in the source)
    ItemCapacity,    \* capacity of a new array (4 in the source)
    GivenRealloc,    \* what the client passes for realloc: "client" or "NULL"
    MaxItems,        \* bound: the items of an array that a client appends
    MaxBlocks,       \* bound: the live blocks with which a client still stores values
    MaxFailures      \* bound: the allocations of a run that fail

ASSUME StoreAssumption ==
    /\ IsFiniteSet(NsId)
    /\ Name # {} /\ NoName \notin Name
    /\ Str # {} /\ NoStr \notin Str
    /\ Num \subseteq Int /\ 0 \in Num
    /\ NumType \subseteq {"INT", "FLOAT", "BOOL"}
    /\ ValueCapacity \in Nat \ {0}
    /\ ItemCapacity \in Nat \ {0}
    /\ GivenRealloc \subseteq {"client", "NULL"}
    /\ {MaxItems, MaxBlocks, MaxFailures} \subseteq Nat

VARIABLES
    ns,       \* each namespace: Gone, or its entries and the capacity for them
    merge,    \* where clap_namespace_merge is, or NoMerge
    moved,    \* of each namespace, the arrays that another family's realloc replaced
    result,   \* what the last call returned
    crashed,  \* a NULL or a foreign pointer was used
    failures, \* history: how many allocations have failed
    before    \* history: what the destination held when the merge began

vars == <<ns, merge, moved, result, crashed, failures, before, allocator>>

-----------------------------------------------------------------------------
ValueType == {"NONE", "STRING", "INT", "FLOAT", "BOOL", "ARRAY"}

(***************************************************************************)
(* clap_value_t.data, the union: a string is one item.                     *)
(***************************************************************************)
NoData == [items |-> << >>, num |-> 0, capacity |-> 0]
StringData(s) == [NoData EXCEPT !.items = <<s>>]
NumberData(k) == [NoData EXCEPT !.num = k]
ArrayData == [NoData EXCEPT !.capacity = ItemCapacity]

Data == [items : Seq(Str \cup {NoStr}), num : Num, capacity : Nat]
Entry == [name : Name \cup {NoName}, type : ValueType, data : Data]
Store == [values : Seq(Entry), capacity : Nat]

Gone == [values |-> << >>, capacity |-> 0]
NewStore == [Gone EXCEPT !.capacity = ValueCapacity]
NoMerge == [dst |-> "none", src |-> "none", entry |-> 0, item |-> 0]

-----------------------------------------------------------------------------
(***************************************************************************)
(* A call's outcome, given the allocations of it that fail: the store it   *)
(* leaves, the blocks it makes and frees, what it returns, which of its    *)
(* allocations it tried, which arrays it gave to clap_realloc (0 for the   *)
(* array of entries, i for that of the entry i), whether it crashed.       *)
(***************************************************************************)
Outcome(st, ok, at) ==
    [store |-> st, ok |-> ok, at |-> at, made |-> 0, freed |-> 0,
     tried |-> {}, grown |-> {}, crash |-> FALSE]

\* find_value: strcmp with every key in turn until one is equal.
IndexOf(values, d) == {i \in DOMAIN values : values[i].name = d /\ d # NoName}
NullCompared(values, d) ==
    \E i \in DOMAIN values :
        /\ NoName \in {values[i].name, d}
        /\ \A j \in IndexOf(values, d) : i < j

\* Mutation for CrashesExplained: the entry gets no key.
NoKeyCopy(d, fails) == NoName

\* clap_strdup of the key of a new entry, whose result is not looked at.
KeyCopy(d, fails) == IF "name" \in fails THEN NoName ELSE d

\* ensure_value
Ensured(st, d, fails) ==
    LET found  == IndexOf(st.values, d)
        full   == Len(st.values) >= st.capacity
        room   == IF full THEN [st EXCEPT !.capacity = 2 * @] ELSE st
        name   == KeyCopy(d, fails)
        tried  == IF full THEN {"room", "entry"} ELSE {"entry"}
        grown  == IF full THEN {0} ELSE {}
        entry  == [name |-> name, type |-> "NONE", data |-> NoData]
    IN  IF NullCompared(st.values, d) THEN [Outcome(st, FALSE, 0) EXCEPT !.crash = TRUE]
        ELSE IF found # {} THEN Outcome(st, TRUE, Min(found))
        ELSE IF full /\ "room" \in fails
             THEN [Outcome(st, FALSE, 0) EXCEPT !.tried = {"room"}, !.grown = grown]
        ELSE IF "entry" \in fails
             THEN [Outcome(room, FALSE, 0) EXCEPT !.tried = tried, !.grown = grown]
        ELSE [Outcome([room EXCEPT !.values = Append(@, entry)], TRUE, Len(st.values) + 1)
              EXCEPT !.tried = tried \cup (IF d = NoName THEN {} ELSE {"name"}),
                     !.made = IF name = NoName THEN 1 ELSE 2,
                     !.grown = grown]

\* The entry at e.at is given a tag and the member of the union that goes with it.
Holding(e, type, data) ==
    [e EXCEPT !.store.values[e.at] = [name |-> @.name, type |-> type, data |-> data]]

\* Mutation for LostOnlyByRetyping: the string that was there is not freed.
StringSetOver(st, d, s, fails) ==
    LET e    == Ensured(st, d, fails)
        copy == IF "copy" \in fails THEN NoStr ELSE s
    IN  IF ~e.ok THEN e
        ELSE [Holding(e, "STRING", StringData(copy))
              EXCEPT !.tried = IF s = NoStr THEN @ ELSE @ \cup {"copy"},
                     !.made = IF copy = NoStr THEN @ ELSE @ + 1]

\* clap_namespace_set_string
StringSet(st, d, s, fails) ==
    LET e    == Ensured(st, d, fails)
        old  == e.store.values[e.at]
        copy == IF "copy" \in fails THEN NoStr ELSE s
    IN  IF ~e.ok THEN e
        ELSE [Holding(e, "STRING", StringData(copy))
              EXCEPT !.tried = IF s = NoStr THEN @ ELSE @ \cup {"copy"},
                     !.made = IF copy = NoStr THEN @ ELSE @ + 1,
                     !.freed = IF old.type = "STRING" /\ old.data.items # <<NoStr>>
                               THEN 1 ELSE 0]

\* clap_namespace_set_int, clap_namespace_set_float, clap_namespace_set_bool
NumberSet(st, d, type, k, fails) ==
    LET e == Ensured(st, d, fails)
    IN  IF ~e.ok THEN e
        ELSE Holding(e, type, NumberData(k))

\* Mutation for WithinCapacity: an array grows only when it is past its capacity.
ItemsFullLate(data) == Len(data.items) > data.capacity

\* clap_namespace_append_string: is there no room for one more item?
ItemsFull(data) == Len(data.items) >= data.capacity

\* The array of an entry: a new one if it had another type.
ArrayOf(e) == IF e.type = "ARRAY" THEN e.data ELSE ArrayData

\* One more item, in twice the capacity if there was no room.
WithItem(array, s) ==
    [array EXCEPT !.items = Append(@, s),
                  !.capacity = IF ItemsFull(array) THEN 2 * @ ELSE @]

\* Mutation for Refines: an array that cannot grow is given up.
StringAppendedOrEmptied(st, d, s, fails) ==
    LET e     == Ensured(st, d, fails)
        array == ArrayOf(e.store.values[e.at])
    IN  IF ~e.ok THEN e
        ELSE [Holding(e, "ARRAY", IF "items" \in fails THEN ArrayData ELSE WithItem(array, s))
              EXCEPT !.tried = @ \cup {"items"}, !.ok = "items" \notin fails]

(***************************************************************************)
(* clap_namespace_append_string.  An entry of another type is made an      *)
(* empty array first; if the memory for that is not there, its items are a *)
(* NULL pointer, which the last statement writes through.                  *)
(***************************************************************************)
StringAppended(st, d, s, fails) ==
    LET e     == Ensured(st, d, fails)
        old   == e.store.values[e.at]
        fresh == old.type # "ARRAY"
        full  == ItemsFull(ArrayOf(old))
        copy  == IF "copy" \in fails THEN NoStr ELSE s
        owned == (IF fresh THEN 1 ELSE 0) + (IF copy = NoStr THEN 0 ELSE 1)
    IN  IF s = NoStr THEN Outcome(st, TRUE, 0)
        ELSE IF ~e.ok THEN e
        ELSE IF fresh /\ "items" \in fails
             THEN [Outcome(st, FALSE, 0) EXCEPT !.tried = e.tried \cup {"items"}, !.crash = TRUE]
        ELSE IF full /\ "items" \in fails
             THEN [e EXCEPT !.tried = @ \cup {"items"}, !.grown = {e.at}, !.ok = FALSE]
        ELSE [Holding(e, "ARRAY", WithItem(ArrayOf(old), copy))
              EXCEPT !.tried = @ \cup {"copy"} \cup (IF fresh \/ full THEN {"items"} ELSE {}),
                     !.grown = IF full THEN {e.at} ELSE @,
                     !.made = @ + owned]

-----------------------------------------------------------------------------
(***************************************************************************)
(* What the namespaces hold, as the getters of the interface tell it: the  *)
(* member of the union that the tag names.                                 *)
(***************************************************************************)
NotHeld == [type |-> "ABSENT", items |-> << >>, num |-> 0]

Told(e) ==
    [type  |-> IF e.type = "NONE" THEN "ABSENT" ELSE e.type,
     items |-> IF e.type \in {"STRING", "ARRAY"} THEN e.data.items ELSE << >>,
     num   |-> IF e.type \in {"INT", "FLOAT", "BOOL"} THEN e.data.num ELSE 0]

Held(st) ==
    [d \in Name |-> IF IndexOf(st.values, d) = {} THEN NotHeld
                    ELSE Told(st.values[Min(IndexOf(st.values, d))])]

Exists(n) == ns[n] # Gone
Idle == merge = NoMerge /\ ~crashed

Init ==
    /\ AllocatorInit
    /\ ns = [n \in NsId |-> Gone]
    /\ merge = NoMerge
    /\ moved = [n \in NsId |-> {}]
    /\ result = TRUE
    /\ crashed = FALSE
    /\ failures = 0
    /\ before = << >>

\* clap_set_allocator by a client that has a malloc and a free.
ReplaceAllocator ==
    /\ Idle
    /\ \E realloc \in GivenRealloc : SetAllocator("client", "client", realloc)
    /\ UNCHANGED <<ns, merge, moved, result, crashed, failures, before>>

Failing(fails) ==
    /\ failures + Cardinality(fails) <= MaxFailures
    /\ failures' = failures + Cardinality(fails)

\* clap_namespace_new: the namespace, then its array of entries.
New(n) ==
    /\ Idle
    /\ ~Exists(n)
    /\ \E fails \in {{}, {"namespace"}, {"values"}} :
          /\ IF fails = {} THEN Allocates(2, 0) ELSE Allocates(0, 0)
          /\ ns' = IF fails = {} THEN [ns EXCEPT ![n] = NewStore] ELSE ns
          /\ result' = (fails = {})
          /\ Failing(fails)
    /\ UNCHANGED <<merge, moved, crashed, before>>

\* The allocations of ensure_value, and of a call that also copies a string.
EnsureAllocation == {"room", "entry", "name"}
StringAllocation == EnsureAllocation \cup {"copy"}
Allocation == StringAllocation \cup {"items"}

(***************************************************************************)
(* A call on n that has the outcome o when the allocations fails of those  *)
(* it tries fail.  An array that grows is given to clap_realloc; another   *)
(* family's function crashes on it, or makes a block of its own family of  *)
(* it.  An entry that is no array any more has lost its array.             *)
(***************************************************************************)
Arrays(st) == {0} \cup {i \in DOMAIN st.values : st.values[i].type = "ARRAY"}

Foreign(o) == IF ReallocIsForeign THEN o.grown ELSE {}
Replaced(o, fails) == IF {"room", "items"} \cap fails = {} THEN Foreign(o) ELSE {}

Called(n, o, fails) ==
    /\ fails \subseteq o.tried
    /\ ns' = [ns EXCEPT ![n] = o.store]
    /\ Allocates(o.made, o.freed)
    /\ moved' = [moved EXCEPT ![n] = (@ \cup Replaced(o, fails)) \cap Arrays(o.store)]
    /\ result' = o.ok
    /\ Failing(fails)
    /\ crashed' \in IF o.crash THEN {TRUE}
                    ELSE IF Foreign(o) \subseteq moved[n] THEN {FALSE} ELSE BOOLEAN

\* A client stores a value in a namespace it has.
Storing(n) == Idle /\ Exists(n) /\ Live <= MaxBlocks

SetString(n, d, s) ==
    /\ Storing(n)
    /\ \E fails \in SUBSET StringAllocation : Called(n, StringSet(ns[n], d, s, fails), fails)
    /\ UNCHANGED <<merge, before>>

SetNumber(n, d, type, k) ==
    /\ Storing(n)
    /\ \E fails \in SUBSET EnsureAllocation :
          Called(n, NumberSet(ns[n], d, type, k, fails), fails)
    /\ UNCHANGED <<merge, before>>

AppendString(n, d, s) ==
    /\ Storing(n)
    /\ Len(Held(ns[n])[d].items) < MaxItems
    /\ \E fails \in SUBSET Allocation : Called(n, StringAppended(ns[n], d, s, fails), fails)
    /\ UNCHANGED <<merge, before>>

\* Mutation for TypeOK: the case of a string falls through to that of an array.
EntryBlocksFallThrough(e) ==
    LET strings == Cardinality({i \in DOMAIN e.data.items : e.data.items[i] # NoStr})
    IN  1 + (IF e.name = NoName THEN 0 ELSE 1)
          + (IF e.type \in {"STRING", "ARRAY"} THEN strings + 1 ELSE 0)

\* value_free, for every entry: what the tag says the entry owns.
EntryBlocks(e) ==
    LET strings == Cardinality({i \in DOMAIN e.data.items : e.data.items[i] # NoStr})
        array   == IF e.type = "ARRAY" THEN 1 ELSE 0
    IN  1 + array + (IF e.name = NoName THEN 0 ELSE 1)
          + (IF e.type \in {"STRING", "ARRAY"} THEN strings ELSE 0)

StoreBlocks(st) ==
    IF st = Gone THEN 0
    ELSE 2 + MapThenSumSet(LAMBDA i : EntryBlocks(st.values[i]), DOMAIN st.values)

\* clap_namespace_free, whose free is not made for the arrays that were moved.
Free(n) ==
    /\ Idle /\ Exists(n)
    /\ live' = [live EXCEPT ![freeFn] = @ - StoreBlocks(ns[n])]
    /\ ns' = [ns EXCEPT ![n] = Gone]
    /\ moved' = [moved EXCEPT ![n] = {}]
    /\ crashed' \in IF moved[n] = {} THEN {FALSE} ELSE BOOLEAN
    /\ UNCHANGED <<merge, result, failures, before, mallocFn, freeFn, reallocFn, locked>>

-----------------------------------------------------------------------------
\* clap_namespace_merge(dst, src), which clap_parse_with_pattern calls.
BeginMerge(dst, src) ==
    /\ Idle /\ dst # src /\ Exists(dst) /\ Exists(src)
    /\ merge' = [dst |-> dst, src |-> src, entry |-> 1, item |-> 1]
    /\ before' = Held(ns[dst])
    /\ UNCHANGED <<ns, moved, result, crashed, failures, allocator>>

\* The entry of src the merge is at, and whether it is copied to dst at all.
Merging == merge # NoMerge /\ ~crashed
AtEntry == Merging /\ merge.entry \in DOMAIN ns[merge.src].values
MergedEntry == ns[merge.src].values[merge.entry]

NextEntry == [merge EXCEPT !.entry = @ + 1, !.item = 1]

\* The key is looked for once for each entry, before its first item is copied.
Compares == merge.item = 1 /\ NullCompared(ns[merge.dst].values, MergedEntry.name)

MergeCrashes ==
    /\ AtEntry /\ Compares
    /\ crashed' = TRUE
    /\ UNCHANGED <<ns, merge, moved, result, failures, before, allocator>>

\* Mutation for MergeIsUnion: the key is looked for again before every item.
KeepsEntryOf(values) == IndexOf(values, MergedEntry.name) # {}

KeepsEntry(values) == merge.item = 1 /\ IndexOf(values, MergedEntry.name) # {}

SkipEntry ==
    /\ AtEntry /\ ~Compares
    /\ \/ KeepsEntry(ns[merge.dst].values)
       \/ MergedEntry.type = "NONE"
       \/ MergedEntry.type = "ARRAY" /\ merge.item > Len(MergedEntry.data.items)
    /\ merge' = NextEntry
    /\ UNCHANGED <<ns, moved, result, crashed, failures, before, allocator>>

\* The copy of an entry, or of the next item of an array; what it returns is dropped.
CopyEntry ==
    /\ AtEntry /\ ~Compares /\ ~KeepsEntry(ns[merge.dst].values)
    /\ LET e   == MergedEntry
           dst == ns[merge.dst]
       IN  \E fails \in SUBSET Allocation :
             \/ /\ e.type = "STRING"
                /\ Called(merge.dst, StringSet(dst, e.name, e.data.items[1], fails), fails)
                /\ merge' = NextEntry
             \/ /\ e.type \in {"INT", "FLOAT", "BOOL"}
                /\ Called(merge.dst, NumberSet(dst, e.name, e.type, e.data.num, fails), fails)
                /\ merge' = NextEntry
             \/ /\ e.type = "ARRAY" /\ merge.item \in DOMAIN e.data.items
                /\ Called(merge.dst,
                          StringAppended(dst, e.name, e.data.items[merge.item], fails), fails)
                /\ merge' = [merge EXCEPT !.item = @ + 1]
    /\ UNCHANGED before

EndMerge ==
    /\ Merging /\ ~AtEntry
    /\ merge' = NoMerge
    /\ before' = << >>
    /\ result' = TRUE
    /\ UNCHANGED <<ns, moved, crashed, failures, allocator>>

\* The process is gone.
Stopped == crashed /\ UNCHANGED vars

Next ==
    \/ ReplaceAllocator
    \/ \E n \in NsId :
          \/ New(n)
          \/ Free(n)
          \/ \E src \in NsId : BeginMerge(n, src)
          \/ \E d \in Name :
                \/ \E s \in Str : SetString(n, d, s) \/ AppendString(n, d, s)
                \/ \E k \in Num, type \in NumType : SetNumber(n, d, type, k)
    \/ MergeCrashes \/ SkipEntry \/ CopyEntry \/ EndMerge
    \/ Stopped

Spec == Init /\ [][Next]_vars

-----------------------------------------------------------------------------
(***************************************************************************)
(* Properties.                                                             *)
(***************************************************************************)
\* Every variable has its type.
TypeOK ==
    /\ AllocatorTypeOK
    /\ ns \in [NsId -> Store]
    /\ merge \in [dst : NsId, src : NsId, entry : Nat, item : Nat] \cup {NoMerge}
    /\ moved \in [NsId -> SUBSET Nat]
    /\ {result, crashed} \subseteq BOOLEAN
    /\ failures \in 0..MaxFailures

(***************************************************************************)
(* Neither the array of entries nor an array of strings holds more than    *)
(* was allocated for it, whichever reallocation failed before              *)
(* (clap_namespace.c:79-91, 147-156).                                      *)
(***************************************************************************)
WithinCapacity ==
    \A n \in NsId :
        /\ Len(ns[n].values) <= ns[n].capacity
        /\ \A i \in DOMAIN ns[n].values :
              LET data == ns[n].values[i].data
              IN  ns[n].values[i].type = "ARRAY" => Len(data.items) <= data.capacity

\* The blocks nothing points to any more.
Lost == Live - MapThenSumSet(LAMBDA n : StoreBlocks(ns[n]), NsId)

\* The entry i of n owned memory through its tag, and has another tag now.
Retyped(n, i) ==
    /\ i \in DOMAIN ns[n].values /\ i \in DOMAIN ns'[n].values
    /\ ns[n].values[i].type \in {"STRING", "ARRAY"}
    /\ ns'[n].values[i].type # ns[n].values[i].type

(***************************************************************************)
(* Memory is released exactly once, and lost in one way only: by a call    *)
(* that changes the type of an entry that owns a string or an array, which *)
(* clap_namespace.c:95-145 does not free.  No failed allocation, no merge  *)
(* and no clap_namespace_free loses a block or releases one twice.         *)
(***************************************************************************)
LostOnlyByRetyping ==
    [][Lost' # Lost => Lost' > Lost /\ \E n \in NsId : \E i \in DOMAIN ns[n].values :
                                           Retyped(n, i)]_vars

\* free is of the family of every block that malloc gave.
FreeFitsMalloc == \A f \in Family : live[f] # 0 => freeFn = f

\* The array a of the store is not the one it was made with.
HasGrown(st, a) ==
    \/ a = 0 /\ st.capacity > ValueCapacity
    \/ /\ a \in DOMAIN st.values
       /\ st.values[a].type = "ARRAY" /\ st.values[a].data.capacity > ItemCapacity

(***************************************************************************)
(* Every block is released by the function that belongs to the one that    *)
(* made it, as the functions never change while a block lives              *)
(* (clap_allocator.c:36-46), with one exception: an array that has grown   *)
(* by the C library's realloc because the client gave no realloc of its    *)
(* own (clap_allocator.c:43,77).                                           *)
(***************************************************************************)
OneFamily ==
    /\ FreeFitsMalloc
    /\ \A n \in NsId : \A a \in moved[n] : reallocFn # mallocFn /\ HasGrown(ns[n], a)

(***************************************************************************)
(* A client needs no realloc: without one an array grows by the client's   *)
(* malloc and free ("falls back to malloc+copy+free internally",           *)
(* clap.h:50-52), and every block is its family's to release.              *)
(***************************************************************************)
ReallocNotNeeded == FreeFitsMalloc /\ \A n \in NsId : moved[n] = {}

(***************************************************************************)
(* The library stops the program only if an allocation has failed, or the  *)
(* client gave no realloc and an array was grown, or such an array freed:  *)
(* it never compares or writes through a NULL pointer otherwise            *)
(* (clap_namespace.c:66-158).                                              *)
(***************************************************************************)
CrashesExplained == crashed => failures > 0 \/ reallocFn # mallocFn

(***************************************************************************)
(* A merge in which no allocation fails leaves the union of the two        *)
(* namespaces, the destination's entry winning: nothing of an array is     *)
(* lost, nothing the destination had is touched (clap_namespace.c:21-64).  *)
(***************************************************************************)
Union(dst, src) == [d \in Name |-> IF dst[d] # NotHeld THEN dst[d] ELSE src[d]]

MergeIsUnion ==
    [][EndMerge /\ failures = 0 =>
         Held(ns[merge.dst]) = Union(before, Held(ns[merge.src]))]_vars

(***************************************************************************)
(* The store implements the namespace its users rely on: each call changes *)
(* the entry it names and no other, and one that says FALSE changes        *)
(* nothing, also when it failed half way (clap_namespace.c).               *)
(***************************************************************************)
Promise == INSTANCE NamespaceSpec WITH
    map <- [n \in NsId |-> IF Exists(n) THEN Held(ns[n]) ELSE << >>]

Refines == Promise!Spec
=============================================================================
