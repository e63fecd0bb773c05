------------------------ MODULE NamespaceStore_proofs ------------------------
(***************************************************************************)
(* The namespace: memory goes back to the family of functions it came      *)
(* from, no array holds more than was allocated for it, and the store      *)
(* implements NamespaceSpec.  For all keys, strings, numbers, capacities   *)
(* and bounds, and any number of namespaces.                               *)
(***************************************************************************)
EXTENDS NamespaceStore, Folds_proofs, SequenceTheorems

(***************************************************************************)
(* OneFamily is not inductive: it needs to know that malloc and free are   *)
(* of one family, and that before the lock is set nothing is allocated and *)
(* no namespace exists that could be freed.  That an array which was moved *)
(* has grown is shown with the stores, below.                              *)
(***************************************************************************)
FamilyInv ==
    /\ mallocFn \in Family /\ freeFn = mallocFn
    /\ DOMAIN live = Family /\ moved = [n \in NsId |-> moved[n]]
    /\ ~locked => /\ \A f \in Family : live[f] = 0
                  /\ \A n \in NsId : ~Exists(n) /\ moved[n] = {}
    /\ FreeFitsMalloc
    /\ \A n \in NsId : moved[n] # {} => reallocFn # mallocFn

LEMMA AllocatesFamily ==
    ASSUME FamilyInv, NEW made, NEW freed, Allocates(made, freed),
           moved' = [m \in NsId |-> moved'[m]],
           \A n \in NsId : moved'[n] \subseteq moved[n] \/ ReallocIsForeign
    PROVE  FamilyInv'
<1>1. /\ DOMAIN live' = Family
      /\ \A f \in Family : f # mallocFn => live'[f] = live[f]
  BY DEF FamilyInv, Allocates
<1>2. mallocFn' = mallocFn /\ freeFn' = freeFn /\ reallocFn' = reallocFn /\ locked' = TRUE
  BY DEF Allocates
<1>3. FreeFitsMalloc'
  BY <1>1, <1>2 DEF FamilyInv, FreeFitsMalloc
<1>4. ReallocIsForeign => reallocFn # mallocFn
  BY DEF ReallocIsForeign, FamilyInv, FreeFitsMalloc
<1>5. \A n \in NsId : moved'[n] # {} => reallocFn' # mallocFn'
  BY <1>2, <1>4 DEF FamilyInv
<1> QED
  BY <1>1, <1>2, <1>3, <1>5 DEF FamilyInv

\* The arrays a call leaves to another family's realloc.
LEMMA CalledMoves ==
    ASSUME FamilyInv, NEW n, NEW o, NEW fails, Called(n, o, fails)
    PROVE  /\ moved' = [m \in NsId |-> moved'[m]]
           /\ \A m \in NsId : moved'[m] \subseteq moved[m] \/ ReallocIsForeign
<1>1. moved' = [moved EXCEPT ![n] = (@ \cup Replaced(o, fails)) \cap Arrays(o.store)]
  BY DEF Called
<1>2. ~ReallocIsForeign => Replaced(o, fails) = {}
  BY DEF Replaced, Foreign
<1> QED
  BY <1>1, <1>2 DEF FamilyInv

LEMMA FamilyInit == Init => FamilyInv
  BY DEF Init, AllocatorInit, FamilyInv, FreeFitsMalloc, Family, Exists

LEMMA FamilyNext == FamilyInv /\ [Next]_vars => FamilyInv'
<1> SUFFICES ASSUME FamilyInv, [Next]_vars
             PROVE  FamilyInv'
  OBVIOUS
<1>1. CASE UNCHANGED <<ns, moved, allocator>>
  BY <1>1 DEF FamilyInv, FreeFitsMalloc, Exists, allocator
<1>2. CASE ReplaceAllocator
  BY <1>2 DEF ReplaceAllocator, SetAllocator, OrDefault, FamilyInv, FreeFitsMalloc, Family
<1>3. ASSUME NEW n \in NsId, New(n)
      PROVE  FamilyInv'
  <2>1. moved' = [m \in NsId |-> moved'[m]] /\ \A m \in NsId : moved'[m] = moved[m]
    BY <1>3 DEF New, FamilyInv
  <2> QED
    BY <1>3, <2>1, AllocatesFamily DEF New
<1>4. ASSUME NEW n \in NsId, Free(n)
      PROVE  FamilyInv'
  <2>1. locked /\ locked'
    BY <1>4 DEF Free, FamilyInv
  <2>2. /\ DOMAIN live' = Family
        /\ \A f \in Family : f # freeFn => live'[f] = live[f]
        /\ mallocFn' = mallocFn /\ freeFn' = freeFn /\ reallocFn' = reallocFn
    BY <1>4 DEF Free, FamilyInv
  <2>3. moved' = [m \in NsId |-> moved'[m]] /\ \A m \in NsId : moved'[m] # {} => moved[m] # {}
    BY <1>4 DEF Free, FamilyInv
  <2> QED
    BY <2>1, <2>2, <2>3 DEF FamilyInv, FreeFitsMalloc
<1>5. ASSUME NEW n, NEW o, NEW fails, Called(n, o, fails)
      PROVE  FamilyInv'
  BY <1>5, AllocatesFamily, CalledMoves DEF Called
<1>6. ASSUME NEW n \in NsId, NEW d \in Name, NEW s \in Str,
             SetString(n, d, s) \/ AppendString(n, d, s)
      PROVE  FamilyInv'
  BY <1>5, <1>6 DEF SetString, AppendString
<1>7. ASSUME NEW n \in NsId, NEW d \in Name, NEW type \in NumType, NEW k \in Num,
             SetNumber(n, d, type, k)
      PROVE  FamilyInv'
  BY <1>5, <1>7 DEF SetNumber
<1>8. CASE CopyEntry
  BY <1>5, <1>8 DEF CopyEntry
<1>9. CASE MergeCrashes \/ SkipEntry \/ EndMerge \/ Stopped
  BY <1>1, <1>9 DEF MergeCrashes, SkipEntry, EndMerge, Stopped, vars, allocator
<1>10. ASSUME NEW n \in NsId, NEW src \in NsId, BeginMerge(n, src)
       PROVE  FamilyInv'
  BY <1>1, <1>10 DEF BeginMerge
<1> QED
  BY <1>1, <1>2, <1>3, <1>4, <1>6, <1>7, <1>8, <1>9, <1>10 DEF Next, vars, allocator

-----------------------------------------------------------------------------
(***************************************************************************)
(* A store as its functions leave it: room for at least one more after an  *)
(* array has grown, a tag that says what the union holds.                  *)
(***************************************************************************)
GoodEntry(e) ==
    /\ e \in Entry
    /\ e.type \in {"NONE", "STRING", "ARRAY"} \cup NumType
    /\ e.type = "STRING" => Len(e.data.items) = 1
    /\ e.type = "ARRAY" => e.data.capacity >= 1 /\ Len(e.data.items) <= e.data.capacity

GoodStore(st) ==
    /\ st \in Store
    /\ st.capacity >= 1 /\ Len(st.values) <= st.capacity
    /\ \A i \in DOMAIN st.values : GoodEntry(st.values[i])

Outcomes ==
    [store : Store, ok : BOOLEAN, at : Nat, made : Int, freed : Int,
     tried : SUBSET Allocation, grown : SUBSET Nat, crash : BOOLEAN]

\* Where a key is found, if it is.
LEMMA IndexOfType ==
    ASSUME NEW st \in Store, NEW d, IndexOf(st.values, d) # {}
    PROVE  /\ Min(IndexOf(st.values, d)) \in DOMAIN st.values
           /\ st.values[Min(IndexOf(st.values, d))].name = d /\ d # NoName
           /\ \A j \in IndexOf(st.values, d) : Min(IndexOf(st.values, d)) <= j
<1>1. IndexOf(st.values, d) \subseteq Nat
  BY DEF Store, IndexOf
<1> QED
  BY <1>1, MinOfNaturals DEF IndexOf

(***************************************************************************)
(* ensure_value finds the entry of the key, or appends one with the type   *)
(* NONE, or fails and leaves the entries as they are.                      *)
(***************************************************************************)
Found(st, d, e) ==
    /\ e.at \in DOMAIN st.values
    /\ e.store = st
    /\ e.at = Min(IndexOf(st.values, d)) /\ IndexOf(st.values, d) # {}

Appended(st, d, e) ==
    /\ e.at = Len(st.values) + 1
    /\ IndexOf(st.values, d) = {}
    /\ e.store.values = Append(st.values, e.store.values[e.at])
    /\ e.store.values[e.at].name \in {d, NoName}
    /\ e.store.values[e.at].type = "NONE"

LEMMA EnsuredOutcome ==
    ASSUME NEW st, GoodStore(st), NEW d \in Name \cup {NoName}, NEW fails,
           NEW e, e = Ensured(st, d, fails)
    PROVE  /\ e \in Outcomes
           /\ GoodStore(e.store)
           /\ ~e.ok => e.store.values = st.values
           /\ e.ok => Found(st, d, e) \/ Appended(st, d, e)
<1> DEFINE found == IndexOf(st.values, d)
           full  == Len(st.values) >= st.capacity
           room  == IF full THEN [st EXCEPT !.capacity = 2 * @] ELSE st
           name  == KeyCopy(d, fails)
           tried == IF full THEN {"room", "entry"} ELSE {"entry"}
           grown == IF full THEN {0} ELSE {}
           x     == [name |-> name, type |-> "NONE", data |-> NoData]
<1>1. /\ st \in Store /\ Len(st.values) \in Nat /\ st.capacity \in Nat \ {0}
      /\ DOMAIN st.values = 1..Len(st.values)
  BY DEF GoodStore, Store
<1>2. room \in Store /\ room.values = st.values /\ GoodStore(room)
  <2>1. CASE full
    BY <1>1, <2>1 DEF Store, GoodStore
  <2>2. CASE ~full
    BY <1>1, <2>2 DEF GoodStore
  <2> QED
    BY <2>1, <2>2
<1>3. tried \in SUBSET Allocation /\ {} \in SUBSET Allocation /\ {"room"} \in SUBSET Allocation
      /\ tried \cup {"name"} \in SUBSET Allocation
  BY DEF Allocation, StringAllocation, EnsureAllocation
<1>4. CASE NullCompared(st.values, d)
  <2>1. e = [Outcome(st, FALSE, 0) EXCEPT !.crash = TRUE]
    BY <1>4 DEF Ensured
  <2>2. e = [store |-> st, ok |-> FALSE, at |-> 0, made |-> 0, freed |-> 0,
             tried |-> {}, grown |-> {}, crash |-> TRUE]
    BY <2>1 DEF Outcome
  <2>3. e \in Outcomes /\ e.store = st /\ e.ok = FALSE
    BY <2>2, <1>1 DEF Outcomes
  <2> QED
    BY <2>3
<1>5. CASE ~NullCompared(st.values, d) /\ found # {}
  <2>1. e = Outcome(st, TRUE, Min(found))
    BY <1>5 DEF Ensured
  <2>2. Min(found) \in DOMAIN st.values
    BY <1>1, <1>5, IndexOfType
  <2>3. e \in Outcomes /\ e.store = st /\ e.ok /\ e.at = Min(found)
    BY <2>1, <2>2, <1>1 DEF Outcome, Outcomes
  <2> QED
    BY <2>2, <2>3, <1>5 DEF Found
<1>6. CASE ~NullCompared(st.values, d) /\ found = {} /\ full /\ "room" \in fails
  <2>1. e = [Outcome(st, FALSE, 0) EXCEPT !.tried = {"room"}, !.grown = {0}]
    BY <1>6 DEF Ensured
  <2>2. e = [store |-> st, ok |-> FALSE, at |-> 0, made |-> 0, freed |-> 0,
             tried |-> {"room"}, grown |-> {0}, crash |-> FALSE]
    BY <2>1 DEF Outcome
  <2>3. e \in Outcomes /\ e.store = st /\ e.ok = FALSE
    BY <2>2, <1>1, <1>3 DEF Outcomes
  <2> QED
    BY <2>3
<1>7. CASE /\ ~NullCompared(st.values, d) /\ found = {}
           /\ ~(full /\ "room" \in fails) /\ "entry" \in fails
  <2>1. e = [Outcome(room, FALSE, 0) EXCEPT !.tried = tried, !.grown = grown]
    BY <1>7 DEF Ensured
  <2> HIDE DEF room, tried, grown
  <2>2. e = [store |-> room, ok |-> FALSE, at |-> 0, made |-> 0, freed |-> 0,
             tried |-> tried, grown |-> grown, crash |-> FALSE]
    BY <2>1 DEF Outcome
  <2>3. grown \in SUBSET Nat
    BY DEF grown
  <2>4. e \in Outcomes /\ e.store = room /\ e.ok = FALSE
    BY <2>2, <2>3, <1>1, <1>2, <1>3 DEF Outcomes
  <2> QED
    BY <2>4, <1>2
<1>8. CASE /\ ~NullCompared(st.values, d) /\ found = {}
           /\ ~(full /\ "room" \in fails) /\ "entry" \notin fails
  <2> DEFINE st2 == [room EXCEPT !.values = Append(@, x)]
             made == IF name = NoName THEN 1 ELSE 2
             all == tried \cup (IF d = NoName THEN {} ELSE {"name"})
  <2>1. e = [Outcome(st2, TRUE, Len(st.values) + 1)
             EXCEPT !.tried = all, !.made = made, !.grown = grown]
    BY <1>8 DEF Ensured
  <2>2. x \in Entry /\ GoodEntry(x) /\ x.name \in {d, NoName} /\ x.type = "NONE"
    BY StoreAssumption DEF GoodEntry, Entry, KeyCopy, NoData, Data, ValueType
  <2> HIDE DEF x, room
  <2>3. st2 \in Store /\ st2.values = Append(st.values, x) /\ st2.capacity = room.capacity
    BY <1>1, <1>2, <2>2 DEF Store
  <2>4. /\ st2.values[Len(st.values) + 1] = x
        /\ Len(st2.values) = Len(st.values) + 1
        /\ DOMAIN st2.values = 1..(Len(st.values) + 1)
        /\ \A i \in DOMAIN st.values : st2.values[i] = st.values[i]
    BY <1>1, <2>2, <2>3 DEF Store
  <2>5. Len(st.values) + 1 <= st2.capacity
    BY <1>1, <1>2, <2>3 DEF room, Store, GoodStore
  <2>6. GoodStore(st2)
    BY <1>1, <1>2, <2>2, <2>3, <2>4, <2>5 DEF GoodStore
  <2>7. made \in Int /\ all \in SUBSET Allocation /\ grown \in SUBSET Nat
    BY <1>3
  <2> HIDE DEF st2, made, all, grown
  <2>8. e = [store |-> st2, ok |-> TRUE, at |-> Len(st.values) + 1, made |-> made, freed |-> 0,
             tried |-> all, grown |-> grown, crash |-> FALSE]
    BY <2>1 DEF Outcome
  <2>9. e \in Outcomes /\ e.store = st2 /\ e.ok /\ e.at = Len(st.values) + 1
    BY <1>1, <2>8, <2>3, <2>7 DEF Outcomes
  <2> QED
    BY <1>1, <1>8, <2>2, <2>3, <2>4, <2>6, <2>9 DEF Appended
<1> QED
  BY <1>4, <1>5, <1>6, <1>7, <1>8

(***************************************************************************)
(* The entry that ensure_value returned is given another value: what the   *)
(* store holds changes for that key only, and not at all if it has none.   *)
(***************************************************************************)
LEMMA EntryWritten ==
    ASSUME NEW st, GoodStore(st), NEW d \in Name \cup {NoName},
           NEW e, GoodStore(e.store), Found(st, d, e) \/ Appended(st, d, e),
           NEW x, GoodEntry(x), x.name = e.store.values[e.at].name,
           NEW st2, st2 = [e.store EXCEPT !.values = [@ EXCEPT ![e.at] = x]]
    PROVE  /\ GoodStore(st2)
           /\ \/ x.name \notin Name /\ Held(st2) = Held(st)
              \/ d \in Name /\ Held(st2) = [Held(st) EXCEPT ![d] = Told(x)]
<1> DEFINE old == st.values
           mid == e.store.values
           new == st2.values
<1>1. /\ st \in Store /\ e.store \in Store /\ old \in Seq(Entry) /\ mid \in Seq(Entry)
      /\ DOMAIN old = 1..Len(old) /\ DOMAIN mid = 1..Len(mid)
      /\ Len(old) \in Nat /\ Len(mid) \in Nat /\ x \in Entry
  BY DEF GoodStore, GoodEntry, Store
<1>2. /\ e.at \in DOMAIN mid /\ e.at \in Nat
      /\ \A j \in DOMAIN mid : j # e.at => j \in DOMAIN old /\ mid[j] = old[j]
      /\ \A j \in DOMAIN old : j \in DOMAIN mid
  <2>1. CASE Found(st, d, e)
    <3>1. Min(IndexOf(old, d)) \in DOMAIN old
      BY <1>1, <2>1, IndexOfType DEF Found
    <3> QED
      BY <1>1, <2>1, <3>1 DEF Found
  <2>2. CASE Appended(st, d, e)
    <3>1. mid = Append(old, mid[e.at]) /\ e.at = Len(old) + 1
      BY <2>2 DEF Appended
    <3>2. Len(mid) = Len(old) + 1 /\ \A j \in 1..Len(old) : mid[j] = old[j]
      BY <1>1, <3>1
    <3> QED
      BY <1>1, <3>1, <3>2
  <2> QED
    BY <2>1, <2>2
<1>3. /\ new = [mid EXCEPT ![e.at] = x] /\ st2.capacity = e.store.capacity
      /\ new \in Seq(Entry) /\ st2 \in Store
      /\ DOMAIN new = DOMAIN mid /\ Len(new) = Len(mid)
      /\ \A j \in DOMAIN mid : new[j] = IF j = e.at THEN x ELSE mid[j]
  <2>1. e.store = [values |-> mid, capacity |-> e.store.capacity]
    BY <1>1 DEF Store
  <2>2. new = [mid EXCEPT ![e.at] = x] /\ st2.capacity = e.store.capacity
    BY <2>1
  <2>3. new \in Seq(Entry) /\ DOMAIN new = DOMAIN mid /\ Len(new) = Len(mid)
    BY <1>1, <1>2, <2>2, ExceptSeq
  <2>4. \A j \in DOMAIN mid : new[j] = IF j = e.at THEN x ELSE mid[j]
    BY <2>2
  <2>5. st2 = [values |-> new, capacity |-> e.store.capacity]
    BY <2>1, <2>2
  <2>6. st2 \in Store
    BY <1>1, <2>3, <2>5 DEF Store
  <2> QED
    BY <2>2, <2>3, <2>4, <2>6
<1>4. GoodStore(st2)
  BY <1>1, <1>3 DEF GoodStore
<1>5. ASSUME NEW c \in Name, c # x.name
      PROVE  Held(st2)[c] = Held(st)[c]
  <2>1. ~(e.at \in IndexOf(old, c))
    <3>1. CASE Found(st, d, e)
      BY <1>1, <1>2, <1>5, <3>1 DEF Found, IndexOf
    <3>2. CASE Appended(st, d, e)
      BY <1>1, <3>2 DEF Appended, IndexOf
    <3> QED
      BY <3>1, <3>2
  <2>2. IndexOf(new, c) = IndexOf(old, c)
    BY <1>2, <1>3, <1>5, <2>1 DEF IndexOf
  <2>3. \A j \in IndexOf(old, c) : new[j] = old[j]
    BY <1>2, <1>3, <2>1 DEF IndexOf
  <2>4. CASE IndexOf(old, c) = {}
    BY <2>2, <2>4 DEF Held
  <2>5. CASE IndexOf(old, c) # {}
    <3>1. Min(IndexOf(old, c)) \in DOMAIN old /\ old[Min(IndexOf(old, c))].name = c /\ c # NoName
      BY <1>1, <2>5, IndexOfType
    <3>2. Min(IndexOf(old, c)) \in IndexOf(old, c)
      BY <3>1 DEF IndexOf
    <3> QED
      BY <2>2, <2>3, <2>5, <3>2 DEF Held
  <2> QED
    BY <2>4, <2>5
<1>6. CASE x.name \notin Name
  BY <1>4, <1>5, <1>6 DEF Held
<1>7. CASE x.name \in Name
  <2>1. x.name = d
    <3>1. CASE Found(st, d, e)
      BY <1>1, <3>1, IndexOfType DEF Found
    <3>2. CASE Appended(st, d, e)
      BY <1>7, <3>2, StoreAssumption DEF Appended
    <3> QED
      BY <3>1, <3>2
  <2>2. IndexOf(new, d) # {} /\ Min(IndexOf(new, d)) = e.at
    <3>1. CASE Found(st, d, e)
      <4>1. mid[e.at].name = d /\ mid = old
        BY <1>1, <3>1, IndexOfType DEF Found
      <4>2. IndexOf(new, d) = IndexOf(old, d)
        BY <1>3, <4>1 DEF IndexOf
      <4> QED
        BY <3>1, <4>2 DEF Found
    <3>2. CASE Appended(st, d, e)
      <4>1. IndexOf(new, d) = {e.at}
        BY <1>2, <1>3, <1>7, <2>1, <3>2, StoreAssumption DEF Appended, IndexOf
      <4> QED
        BY <1>1, <1>2, <4>1, MinOfNaturals
    <3> QED
      BY <3>1, <3>2
  <2>3. Held(st2)[d] = Told(x)
    BY <1>2, <1>3, <1>7, <2>1, <2>2 DEF Held
  <2> QED
    BY <1>4, <1>5, <1>7, <2>1, <2>3 DEF Held
<1> QED
  BY <1>6, <1>7

-----------------------------------------------------------------------------
(***************************************************************************)
(* The outcome o of a call on the key d does what NamespaceSpec allows: no *)
(* effect, or one of the values V becomes that of d and the call says TRUE. *)
(***************************************************************************)
Effect(st, d, o, V) ==
    /\ GoodStore(o.store)
    /\ o.ok \in BOOLEAN
    /\ \/ Held(o.store) = Held(st)
       \/ /\ o.ok /\ d \in Name
          /\ \E v \in V : Held(o.store) = [Held(st) EXCEPT ![d] = v]

\* A call whose ensure_value failed has no effect.
LEMMA NotEnsured ==
    ASSUME NEW st, GoodStore(st), NEW d \in Name \cup {NoName}, NEW fails, NEW V,
           NEW e, e = Ensured(st, d, fails), ~e.ok
    PROVE  Effect(st, d, e, V)
<1>1. e \in Outcomes /\ GoodStore(e.store) /\ e.store.values = st.values
  BY EnsuredOutcome
<1>2. Held(e.store) = Held(st)
  BY <1>1 DEF Held
<1> QED
  BY <1>1, <1>2 DEF Effect, Outcomes

LEMMA HoldingEffect ==
    ASSUME NEW st, GoodStore(st), NEW d \in Name \cup {NoName}, NEW fails,
           NEW e, e = Ensured(st, d, fails), e.ok,
           NEW type, NEW data, NEW name \in Name \cup {NoName},
           name = e.store.values[e.at].name,
           GoodEntry([name |-> name, type |-> type, data |-> data]),
           NEW o, o.store = Holding(e, type, data).store
    PROVE  /\ GoodStore(o.store)
           /\ \/ name \notin Name /\ Held(o.store) = Held(st)
              \/ /\ d \in Name
                 /\ Held(o.store) =
                      [Held(st) EXCEPT ![d] = Told([name |-> name, type |-> type, data |-> data])]
<1> DEFINE x == [name |-> name, type |-> type, data |-> data]
<1>1. e \in Outcomes /\ GoodStore(e.store) /\ (Found(st, d, e) \/ Appended(st, d, e))
  BY EnsuredOutcome
<1>2. o.store = [e.store EXCEPT !.values = [@ EXCEPT ![e.at] = x]]
  BY <1>1 DEF Holding, Outcomes, GoodStore, Store
<1>3. x.name = e.store.values[e.at].name
  OBVIOUS
<1> HIDE DEF x
<1> QED
  BY <1>1, <1>2, <1>3, EntryWritten DEF x

LEMMA EnsuredEntry ==
    ASSUME NEW st, GoodStore(st), NEW d \in Name \cup {NoName}, NEW fails,
           NEW e, e = Ensured(st, d, fails), e.ok
    PROVE  /\ e.at \in DOMAIN e.store.values
           /\ GoodEntry(e.store.values[e.at])
           /\ e.store.values[e.at].name \in Name \cup {NoName}
<1>1. GoodStore(e.store) /\ (Found(st, d, e) \/ Appended(st, d, e))
  BY EnsuredOutcome
<1>2. e.at \in DOMAIN e.store.values
  <2>1. CASE Found(st, d, e)
    BY <2>1, IndexOfType DEF Found, GoodStore
  <2>2. CASE Appended(st, d, e)
    BY <1>1, <2>2 DEF Appended, GoodStore, Store
  <2> QED
    BY <1>1, <2>1, <2>2
<1>3. GoodEntry(e.store.values[e.at])
  BY <1>1, <1>2 DEF GoodStore
<1> QED
  BY <1>2, <1>3 DEF GoodEntry, Entry

\* The entries the calls write, and what is told of them.
LEMMA StringEntry ==
    ASSUME NEW name \in Name \cup {NoName}, NEW s \in Str \cup {NoStr},
           NEW x, x = [name |-> name, type |-> "STRING", data |-> StringData(s)]
    PROVE  GoodEntry(x) /\ Told(x) = Promise!StringOf(s)
<1>1. StringData(s) = [items |-> <<s>>, num |-> 0, capacity |-> 0]
  BY DEF StringData, NoData
<1>2. <<s>> \in Seq(Str \cup {NoStr}) /\ Len(<<s>>) = 1
  OBVIOUS
<1>3. StringData(s) \in Data /\ Len(StringData(s).items) = 1
  BY <1>1, <1>2, StoreAssumption DEF Data
<1> QED
  BY <1>1, <1>3, StoreAssumption DEF GoodEntry, Entry, ValueType, Told, Promise!StringOf

LEMMA NumberEntry ==
    ASSUME NEW name \in Name \cup {NoName}, NEW type \in NumType, NEW k \in Num,
           NEW x, x = [name |-> name, type |-> type, data |-> NumberData(k)]
    PROVE  GoodEntry(x) /\ Told(x) = Promise!NumberOf(type, k)
<1>1. NumberData(k) = [items |-> << >>, num |-> k, capacity |-> 0]
  BY DEF NumberData, NoData
<1>2. NumberData(k) \in Data
  BY <1>1, StoreAssumption DEF Data
<1> QED
  BY <1>1, <1>2, StoreAssumption DEF GoodEntry, Entry, ValueType, Told, Promise!NumberOf

LEMMA StringSetEffect ==
    ASSUME NEW st, GoodStore(st), NEW d \in Name \cup {NoName}, NEW s \in Str \cup {NoStr},
           NEW fails, NEW o, o = StringSet(st, d, s, fails)
    PROVE  Effect(st, d, o, {Promise!StringOf(s), Promise!StringOf(NoStr)})
<1> DEFINE V == {Promise!StringOf(s), Promise!StringOf(NoStr)}
           copy == IF "copy" \in fails THEN NoStr ELSE s
<1>1. PICK e : e = Ensured(st, d, fails)
  OBVIOUS
<1>2. CASE ~e.ok
  <2>1. o = e
    BY <1>1, <1>2 DEF StringSet
  <2> QED
    BY <1>1, <1>2, <2>1, NotEnsured
<1>3. CASE e.ok
  <2>1. e \in Outcomes
    BY <1>1, EnsuredOutcome
  <2>2. o.store = Holding(e, "STRING", StringData(copy)).store /\ o.ok = e.ok
    BY <1>1, <1>3, <2>1 DEF StringSet, Holding, Outcomes
  <2>3. PICK name \in Name \cup {NoName} : name = e.store.values[e.at].name
    BY <1>1, <1>3, EnsuredEntry
  <2> DEFINE x == [name |-> name, type |-> "STRING", data |-> StringData(copy)]
  <2>4. GoodEntry(x)
    <3> copy \in Str \cup {NoStr}
      OBVIOUS
    <3> QED
      BY StringEntry
  <2>5. Told(x) = Promise!StringOf(copy)
    <3> copy \in Str \cup {NoStr}
      OBVIOUS
    <3> QED
      BY StringEntry
  <2>6. /\ GoodStore(o.store)
        /\ \/ Held(o.store) = Held(st)
           \/ d \in Name /\ Held(o.store) = [Held(st) EXCEPT ![d] = Told(x)]
    BY <1>1, <1>3, <2>2, <2>3, <2>4, HoldingEffect
  <2> HIDE DEF x
  <2> QED
    BY <1>3, <2>2, <2>5, <2>6 DEF Effect
<1> QED
  BY <1>2, <1>3

LEMMA NumberSetEffect ==
    ASSUME NEW st, GoodStore(st), NEW d \in Name \cup {NoName}, NEW type \in NumType,
           NEW k \in Num, NEW fails, NEW o, o = NumberSet(st, d, type, k, fails)
    PROVE  Effect(st, d, o, {Promise!NumberOf(type, k)})
<1>1. PICK e : e = Ensured(st, d, fails)
  OBVIOUS
<1>2. CASE ~e.ok
  <2>1. o = e
    BY <1>1, <1>2 DEF NumberSet
  <2> QED
    BY <1>1, <1>2, <2>1, NotEnsured
<1>3. CASE e.ok
  <2>1. e \in Outcomes
    BY <1>1, EnsuredOutcome
  <2>2. o.store = Holding(e, type, NumberData(k)).store /\ o.ok = e.ok
    BY <1>1, <1>3, <2>1 DEF NumberSet, Holding, Outcomes
  <2>3. PICK name \in Name \cup {NoName} : name = e.store.values[e.at].name
    BY <1>1, <1>3, EnsuredEntry
  <2> DEFINE x == [name |-> name, type |-> type, data |-> NumberData(k)]
  <2>4. GoodEntry(x)
    BY NumberEntry
  <2>5. Told(x) = Promise!NumberOf(type, k)
    BY NumberEntry
  <2>6. /\ GoodStore(o.store)
        /\ \/ Held(o.store) = Held(st)
           \/ d \in Name /\ Held(o.store) = [Held(st) EXCEPT ![d] = Told(x)]
    BY <1>1, <1>3, <2>2, <2>3, <2>4, HoldingEffect
  <2> HIDE DEF x
  <2> QED
    BY <1>3, <2>2, <2>5, <2>6 DEF Effect
<1> QED
  BY <1>2, <1>3

\* There is room for the item that is appended to an array.
LEMMA ItemHasRoom ==
    ASSUME NEW array \in Data, Len(array.items) <= array.capacity, array.capacity >= 1,
           NEW copy \in Str \cup {NoStr},
           NEW data, data = WithItem(array, copy)
    PROVE  /\ data \in Data /\ data.items = Append(array.items, copy)
           /\ data.capacity >= 1 /\ Len(data.items) <= data.capacity
<1> DEFINE capacity == IF ItemsFull(array) THEN 2 * array.capacity ELSE array.capacity
<1>1. /\ array.items \in Seq(Str \cup {NoStr}) /\ array.num \in Num
      /\ Len(array.items) \in Nat /\ array.capacity \in Nat
      /\ array = [items |-> array.items, num |-> array.num, capacity |-> array.capacity]
  BY DEF Data
<1>2. capacity \in Nat /\ capacity >= Len(array.items) + 1 /\ capacity >= 1
  BY <1>1 DEF ItemsFull
<1>3. data = [array EXCEPT !.items = Append(@, copy), !.capacity = capacity]
  BY DEF WithItem
<1> HIDE DEF capacity
<1>4. data = [items |-> Append(array.items, copy), num |-> array.num, capacity |-> capacity]
  BY <1>1, <1>3
<1>5. /\ Append(array.items, copy) \in Seq(Str \cup {NoStr})
      /\ Len(Append(array.items, copy)) = Len(array.items) + 1
  BY <1>1
<1>6. data \in Data
  BY <1>1, <1>2, <1>4, <1>5 DEF Data
<1> QED
  BY <1>1, <1>2, <1>4, <1>5, <1>6

LEMMA ArrayOfGoodEntry ==
    ASSUME NEW old, GoodEntry(old), NEW array, array = ArrayOf(old)
    PROVE  array \in Data /\ Len(array.items) <= array.capacity /\ array.capacity >= 1
<1>1. CASE old.type = "ARRAY"
  BY <1>1 DEF ArrayOf, GoodEntry, Entry
<1>2. CASE old.type # "ARRAY"
  <2>1. array = [items |-> << >>, num |-> 0, capacity |-> ItemCapacity]
    BY <1>2 DEF ArrayOf, ArrayData, NoData
  <2>2. << >> \in Seq(Str \cup {NoStr}) /\ Len(<< >>) = 0
    BY EmptySeq
  <2> QED
    BY <2>1, <2>2, StoreAssumption DEF Data
<1> QED
  BY <1>1, <1>2

\* An array with one more item, as the getters tell it.
LEMMA ArrayTold ==
    ASSUME NEW st, NEW d \in Name, NEW e, Found(st, d, e) \/ Appended(st, d, e),
           NEW s, NEW array, array = ArrayOf(e.store.values[e.at]),
           NEW x, x.type = "ARRAY", x.data.items = Append(array.items, s)
    PROVE  Told(x) = Promise!ArrayWith(Held(st)[d], s)
<1> DEFINE old == e.store.values[e.at]
           fresh == old.type # "ARRAY"
<1>1. Told(x) = [type |-> "ARRAY", items |-> Append(array.items, s), num |-> 0]
  BY DEF Told
<1>2. fresh => array.items = << >>
  BY DEF ArrayOf, ArrayData, NoData
<1>3. ~fresh => array = old.data
  BY DEF ArrayOf
<1>4. Append(<< >>, s) = <<s>>
  OBVIOUS
<1>5. CASE Found(st, d, e)
  <2>1. Held(st)[d] = Told(old)
    BY <1>5 DEF Found, Held
  <2>2. /\ fresh => Held(st)[d].type # "ARRAY"
        /\ ~fresh => Held(st)[d].type = "ARRAY" /\ Held(st)[d].items = array.items
    BY <1>3, <2>1 DEF Told
  <2> HIDE DEF fresh
  <2> QED
    BY <1>1, <1>2, <1>4, <2>2 DEF Promise!ArrayWith
<1>6. CASE Appended(st, d, e)
  <2>1. Held(st)[d].type = "ABSENT" /\ fresh
    BY <1>6 DEF Appended, Held, NotHeld
  <2> HIDE DEF fresh
  <2> QED
    BY <1>1, <1>2, <1>4, <2>1 DEF Promise!ArrayWith
<1> QED
  BY <1>5, <1>6

LEMMA StringAppendedEffect ==
    ASSUME NEW st, GoodStore(st), NEW d \in Name \cup {NoName}, NEW s \in Str \cup {NoStr},
           NEW fails, NEW o, o = StringAppended(st, d, s, fails),
           NEW V, d \in Name => V = {Promise!ArrayWith(Held(st)[d], s),
                                     Promise!ArrayWith(Held(st)[d], NoStr)}
    PROVE  Effect(st, d, o, V)
<1>1. PICK e : e = Ensured(st, d, fails)
  OBVIOUS
<1>2. e \in Outcomes /\ GoodStore(e.store)
  BY <1>1, EnsuredOutcome
<1> DEFINE old   == e.store.values[e.at]
           fresh == old.type # "ARRAY"
           full  == ItemsFull(ArrayOf(old))
<1>3. CASE s = NoStr
  <2>1. o = Outcome(st, TRUE, 0)
    BY <1>3 DEF StringAppended
  <2> QED
    BY <2>1 DEF Outcome, Effect
<1>4. CASE s # NoStr /\ ~e.ok
  <2>1. o = e
    BY <1>1, <1>4 DEF StringAppended
  <2> QED
    BY <1>1, <1>4, <2>1, NotEnsured
<1>5. CASE s # NoStr /\ e.ok /\ fresh /\ "items" \in fails
  <2>1. o = [Outcome(st, FALSE, 0) EXCEPT !.tried = e.tried \cup {"items"}, !.crash = TRUE]
    BY <1>1, <1>5 DEF StringAppended
  <2>2. o.store = st /\ o.ok = FALSE
    BY <2>1 DEF Outcome
  <2> QED
    BY <2>2 DEF Effect
<1>6. CASE s # NoStr /\ e.ok /\ ~fresh /\ full /\ "items" \in fails
  <2>1. o = [e EXCEPT !.tried = @ \cup {"items"}, !.grown = {e.at}, !.ok = FALSE]
    BY <1>1, <1>6 DEF StringAppended
  <2>2. o.store = e.store /\ o.ok = FALSE
    BY <1>2, <2>1 DEF Outcomes
  <2>3. e.store = st
    BY <1>1, <1>6, EnsuredOutcome DEF Appended, Found
  <2> QED
    BY <2>2, <2>3 DEF Effect
<1>7. CASE s # NoStr /\ e.ok /\ ~((fresh \/ full) /\ "items" \in fails)
  <2>1. PICK copy \in {s, NoStr} : copy = IF "copy" \in fails THEN NoStr ELSE s
    OBVIOUS
  <2>2. PICK array : array = ArrayOf(old)
    OBVIOUS
  <2>3. PICK data : data = WithItem(array, copy)
    OBVIOUS
  <2>4. o.store = Holding(e, "ARRAY", data).store /\ o.ok = e.ok
    <3> DEFINE owned == (IF fresh THEN 1 ELSE 0) + (IF copy = NoStr THEN 0 ELSE 1)
    <3>1. o = [Holding(e, "ARRAY", data)
               EXCEPT !.tried = @ \cup {"copy"} \cup (IF fresh \/ full THEN {"items"} ELSE {}),
                      !.grown = IF full THEN {e.at} ELSE @,
                      !.made = @ + owned]
      BY <1>1, <1>7, <2>1, <2>2, <2>3 DEF StringAppended
    <3> HIDE DEF owned, fresh, full
    <3> QED
      BY <1>2, <3>1 DEF Holding, Outcomes
  <2>5. PICK name \in Name \cup {NoName} : name = old.name
    BY <1>1, <1>7, EnsuredEntry
  <2>6. array \in Data /\ Len(array.items) <= array.capacity /\ array.capacity >= 1
    BY <1>1, <1>7, <2>2, EnsuredEntry, ArrayOfGoodEntry
  <2>7. /\ data \in Data /\ data.items = Append(array.items, copy)
        /\ data.capacity >= 1 /\ Len(data.items) <= data.capacity
    BY <2>1, <2>3, <2>6, ItemHasRoom
  <2> DEFINE x == [name |-> name, type |-> "ARRAY", data |-> data]
  <2>8. GoodEntry(x)
    BY <2>7 DEF GoodEntry, Entry, ValueType
  <2>9. /\ GoodStore(o.store)
        /\ \/ Held(o.store) = Held(st)
           \/ d \in Name /\ Held(o.store) = [Held(st) EXCEPT ![d] = Told(x)]
    BY <1>1, <1>7, <2>4, <2>5, <2>8, HoldingEffect
  <2>11. ASSUME d \in Name
         PROVE  Told(x) = Promise!ArrayWith(Held(st)[d], copy)
    <3>1. Found(st, d, e) \/ Appended(st, d, e)
      BY <1>1, <1>7, EnsuredOutcome
    <3>2. x.type = "ARRAY" /\ x.data.items = Append(array.items, copy)
      BY <2>7
    <3> HIDE DEF x
    <3> QED
      BY <2>2, <2>11, <3>1, <3>2, ArrayTold
  <2>12. d \in Name => Told(x) \in V
    BY <2>1, <2>11
  <2> HIDE DEF x
  <2> QED
    BY <1>7, <2>4, <2>9, <2>12 DEF Effect, Outcomes
<1> QED
  BY <1>3, <1>4, <1>5, <1>6, <1>7

-----------------------------------------------------------------------------
(***************************************************************************)
(* Every namespace that exists is a good store, and a merge is between two *)
(* that do.                                                                *)
(***************************************************************************)
Merges == [dst : NsId, src : NsId, entry : Nat \ {0}, item : Nat \ {0}]

StoreInv ==
    /\ DOMAIN ns = NsId
    /\ \A n \in NsId : Exists(n) => GoodStore(ns[n])
    /\ result \in BOOLEAN
    /\ merge # NoMerge => /\ merge \in Merges
                          /\ Exists(merge.dst) /\ Exists(merge.src) /\ merge.dst # merge.src

\* The map of the refinement.
Map == [n \in NsId |-> IF Exists(n) THEN Held(ns[n]) ELSE << >>]

LEMMA GoodStoreIsThere == ASSUME NEW st, GoodStore(st) PROVE st # Gone
  BY DEF GoodStore, Gone

LEMMA MapNext == Map' = [n \in NsId |-> IF ns'[n] # Gone THEN Held(ns'[n]) ELSE << >>]
  BY DEF Map, Exists, Held, IndexOf, Told

LEMMA HeldIsThere == \A st : Held(st) # << >> /\ DOMAIN Held(st) = Name
<1>1. \A st : DOMAIN Held(st) = Name
  BY DEF Held
<1>2. DOMAIN << >> = {}
  OBVIOUS
<1> QED
  BY <1>1, <1>2, StoreAssumption

\* A call without effect is one that NamespaceSpec allows, whatever it says.
LEMMA NoEffect ==
    ASSUME NEW n \in NsId, Exists(n), Map' = Map, result' \in BOOLEAN
    PROVE  Promise!SpecNext
<1>1. PICK d \in Name, s \in Str : TRUE
  BY StoreAssumption
<1>2. Map[n] # << >>
  BY HeldIsThere DEF Map
<1>3. Promise!PutString(n, d, s)
  BY <1>2 DEF Map, Promise!PutString, Promise!Becomes, Promise!NoMap
<1> QED
  BY <1>1, <1>3 DEF Promise!SpecNext

LEMMA CallImplements ==
    ASSUME StoreInv, NEW n \in NsId, Exists(n), NEW d, NEW V, NEW o, NEW fails,
           Effect(ns[n], d, o, V), Called(n, o, fails),
           d \in Name /\ Promise!Becomes(n, d, V) => Promise!SpecNext
    PROVE  /\ Promise!SpecNext
           /\ result' \in BOOLEAN /\ DOMAIN ns' = NsId
           /\ \A m \in NsId : ns'[m] # Gone => GoodStore(ns'[m])
           /\ \A m \in NsId : Exists(m) => ns'[m] # Gone
<1>1. /\ ns' = [ns EXCEPT ![n] = o.store] /\ result' = o.ok
      /\ GoodStore(o.store) /\ o.store # Gone /\ o.ok \in BOOLEAN
  BY GoodStoreIsThere DEF Called, Effect
<1>2. Map' = [Map EXCEPT ![n] = Held(o.store)]
  BY <1>1, MapNext DEF StoreInv, Map, Exists
<1>3. Map[n] = Held(ns[n]) /\ Map[n] # << >>
  BY HeldIsThere DEF Map
<1>4. CASE Held(o.store) = Held(ns[n])
  <2>1. Map' = Map
    BY <1>2, <1>3, <1>4 DEF Map
  <2> QED
    BY <1>1, <2>1, NoEffect DEF StoreInv, Exists
<1>5. CASE o.ok /\ d \in Name /\ \E v \in V : Held(o.store) = [Held(ns[n]) EXCEPT ![d] = v]
  <2>1. Promise!Becomes(n, d, V)
    <3>1. PICK v \in V : Map' = [Map EXCEPT ![n] = [Map[n] EXCEPT ![d] = v]]
      BY <1>2, <1>3, <1>5
    <3>2. result' = TRUE
      BY <1>1, <1>5
    <3> QED
      BY <1>3, <3>1, <3>2 DEF Map, Promise!Becomes, Promise!NoMap
  <2> QED
    BY <1>1, <1>5, <2>1 DEF StoreInv, Exists
<1> QED
  BY <1>4, <1>5 DEF Effect

-----------------------------------------------------------------------------
(***************************************************************************)
(* Each step keeps StoreInv, and is a step of NamespaceSpec or changes     *)
(* nothing its users see.                                                  *)
(***************************************************************************)
LEMMA StoreInit == Init => StoreInv /\ Promise!SpecInit
<1> SUFFICES ASSUME Init PROVE StoreInv /\ Promise!SpecInit
  OBVIOUS
<1>1. \A n \in NsId : ~Exists(n)
  BY DEF Init, Exists
<1> QED
  BY <1>1 DEF Init, StoreInv, Promise!SpecInit, Promise!NoMap

\* A step that leaves the namespaces and what was returned as they are.
LEMMA Unseen ==
    ASSUME StoreInv, ns' = ns, result' = result
    PROVE  /\ UNCHANGED <<Map, result>>
           /\ merge' \in {merge, NoMerge} => StoreInv'
<1>1. Map' = Map
  BY MapNext DEF Map, Exists
<1>2. \A n \in NsId : Exists(n)' = Exists(n)
  BY DEF Exists
<1>3. ASSUME merge' \in {merge, NoMerge}
      PROVE  StoreInv'
  BY <1>2, <1>3 DEF StoreInv, Exists, Merges
<1> QED
  BY <1>1, <1>3

LEMMA NewStoreIsGood ==
    NewStore \in Store /\ GoodStore(NewStore) /\ Held(NewStore) = Promise!EmptyMap
<1>1. NewStore = [values |-> << >>, capacity |-> ValueCapacity]
  BY DEF NewStore, Gone
<1>2. << >> \in Seq(Entry) /\ Len(<< >>) = 0 /\ DOMAIN << >> = {}
  BY EmptySeq
<1>3. \A d : IndexOf(NewStore.values, d) = {}
  BY <1>1, <1>2 DEF IndexOf
<1> QED
  BY <1>1, <1>2, <1>3, StoreAssumption
  DEF Store, GoodStore, Held, NotHeld, Promise!EmptyMap, Promise!Absent

LEMMA NewStep ==
    ASSUME StoreInv, NEW n \in NsId, New(n)
    PROVE  StoreInv' /\ Promise!SpecNext
<1>1. PICK fails : /\ ns' = IF fails = {} THEN [ns EXCEPT ![n] = NewStore] ELSE ns
                   /\ result' = (fails = {})
  BY DEF New
<1>2. merge' = merge /\ ~Exists(n) /\ merge = NoMerge
  BY DEF New, Idle
<1>3. Map[n] = << >>
  BY <1>2 DEF Map
<1>4. CASE fails = {}
  <2>1. NewStore \in Store /\ GoodStore(NewStore) /\ Held(NewStore) = Promise!EmptyMap
    BY NewStoreIsGood
  <2>2. NewStore # Gone
    BY <2>1, GoodStoreIsThere
  <2>3. Map' = [Map EXCEPT ![n] = Promise!EmptyMap]
    BY <1>1, <1>4, <2>1, <2>2, MapNext DEF StoreInv, Map, Exists
  <2>4. Promise!Create(n)
    BY <1>1, <1>3, <1>4, <2>3 DEF Map, Promise!Create, Promise!NoMap
  <2>5. StoreInv'
    BY <1>1, <1>2, <1>4, <2>1 DEF StoreInv, Exists
  <2> QED
    BY <2>4, <2>5 DEF Promise!SpecNext
<1>5. CASE fails # {}
  <2>1. Map' = Map
    BY <1>1, <1>5, MapNext DEF Map, Exists
  <2>2. Promise!Create(n)
    BY <1>1, <1>3, <1>5, <2>1 DEF Map, Promise!Create, Promise!NoMap
  <2>3. StoreInv'
    BY <1>1, <1>2, <1>5 DEF StoreInv, Exists
  <2> QED
    BY <2>2, <2>3 DEF Promise!SpecNext
<1> QED
  BY <1>4, <1>5

LEMMA FreeStep ==
    ASSUME StoreInv, NEW n \in NsId, Free(n)
    PROVE  StoreInv' /\ Promise!SpecNext
<1>1. /\ ns' = [ns EXCEPT ![n] = Gone] /\ result' = result
      /\ merge' = merge /\ merge = NoMerge /\ Exists(n)
  BY DEF Free, Idle
<1>2. Map' = [Map EXCEPT ![n] = << >>]
  BY <1>1, MapNext DEF StoreInv, Map, Exists
<1>3. Map[n] # << >>
  BY <1>1, HeldIsThere DEF Map
<1>4. Promise!Destroy(n)
  BY <1>1, <1>2, <1>3 DEF Map, Promise!Destroy, Promise!NoMap
<1>5. StoreInv'
  BY <1>1 DEF StoreInv, Exists
<1> QED
  BY <1>4, <1>5 DEF Promise!SpecNext

LEMMA ClientCallStep ==
    ASSUME StoreInv, NEW n \in NsId, NEW d \in Name,
           \/ \E s \in Str : SetString(n, d, s) \/ AppendString(n, d, s)
           \/ \E k \in Num, type \in NumType : SetNumber(n, d, type, k)
    PROVE  StoreInv' /\ Promise!SpecNext
<1> DEFINE Goal == StoreInv' /\ Promise!SpecNext
<1>1. Exists(n) /\ merge = NoMerge /\ merge' = merge /\ GoodStore(ns[n])
  BY DEF SetString, AppendString, SetNumber, Storing, Idle, StoreInv
<1>2. ASSUME NEW V, NEW o, NEW fails, Effect(ns[n], d, o, V), Called(n, o, fails),
             Promise!Becomes(n, d, V) => Promise!SpecNext
      PROVE  Goal
  <2>1. /\ Promise!SpecNext
        /\ result' \in BOOLEAN /\ DOMAIN ns' = NsId
        /\ \A m \in NsId : ns'[m] # Gone => GoodStore(ns'[m])
    BY <1>1, <1>2, CallImplements
  <2> QED
    BY <1>1, <2>1 DEF StoreInv, Exists
<1>3. ASSUME NEW s \in Str, SetString(n, d, s)
      PROVE  Goal
  <2> DEFINE V == {Promise!StringOf(s), Promise!StringOf(NoStr)}
  <2>1. PICK fails : Called(n, StringSet(ns[n], d, s, fails), fails)
    BY <1>3 DEF SetString
  <2>2. Effect(ns[n], d, StringSet(ns[n], d, s, fails), V)
    BY <1>1, StringSetEffect
  <2>3. Promise!Becomes(n, d, V) => Promise!SpecNext
    BY DEF Promise!SpecNext, Promise!PutString
  <2> QED
    BY <1>2, <2>1, <2>2, <2>3
<1>4. ASSUME NEW s \in Str, AppendString(n, d, s)
      PROVE  Goal
  <2> DEFINE V == {Promise!ArrayWith(Held(ns[n])[d], s), Promise!ArrayWith(Held(ns[n])[d], NoStr)}
  <2>1. PICK fails : Called(n, StringAppended(ns[n], d, s, fails), fails)
    BY <1>4 DEF AppendString
  <2>2. Effect(ns[n], d, StringAppended(ns[n], d, s, fails), V)
    BY <1>1, StringAppendedEffect
  <2>3. Promise!Becomes(n, d, V) => Promise!SpecNext
    BY <1>1 DEF Promise!SpecNext, Promise!AppendString
  <2> QED
    BY <1>2, <2>1, <2>2, <2>3
<1>5. ASSUME NEW k \in Num, NEW type \in NumType, SetNumber(n, d, type, k)
      PROVE  Goal
  <2> DEFINE V == {Promise!NumberOf(type, k)}
  <2>1. PICK fails : Called(n, NumberSet(ns[n], d, type, k, fails), fails)
    BY <1>5 DEF SetNumber
  <2>2. Effect(ns[n], d, NumberSet(ns[n], d, type, k, fails), V)
    BY <1>1, NumberSetEffect
  <2>3. Promise!Becomes(n, d, V) => Promise!SpecNext
    BY DEF Promise!SpecNext, Promise!PutNumber
  <2> QED
    BY <1>2, <2>1, <2>2, <2>3
<1> QED
  BY <1>3, <1>4, <1>5

LEMMA NextEntryType ==
    ASSUME merge \in Merges
    PROVE  NextEntry \in Merges /\ NextEntry.dst = merge.dst /\ NextEntry.src = merge.src
<1>1. PICK m : m = [merge EXCEPT !.entry = @ + 1]
  OBVIOUS
<1>2. m \in Merges /\ m.dst = merge.dst /\ m.src = merge.src
  BY <1>1 DEF Merges
<1>3. NextEntry = [m EXCEPT !.item = 1]
  BY <1>1 DEF NextEntry
<1> QED
  BY <1>2, <1>3 DEF Merges

(***************************************************************************)
(* A merge hands each entry of the source to the functions that a client   *)
(* calls; the key may be NULL, and then nothing is held for it.            *)
(***************************************************************************)
LEMMA CopyStep ==
    ASSUME StoreInv, CopyEntry
    PROVE  StoreInv' /\ Promise!SpecNext
<1> DEFINE Goal == StoreInv' /\ Promise!SpecNext
           e    == MergedEntry
           dst  == ns[merge.dst]
           keyed == e.name \in Name
<1>1. /\ merge \in Merges /\ Exists(merge.dst) /\ Exists(merge.src) /\ merge.dst # merge.src
      /\ merge.entry \in DOMAIN ns[merge.src].values
      /\ merge.dst \in NsId /\ merge.src \in NsId
  BY DEF CopyEntry, AtEntry, Merging, StoreInv, Merges
<1>2. GoodStore(dst) /\ GoodEntry(e) /\ e.name \in Name \cup {NoName}
  BY <1>1 DEF StoreInv, GoodStore, MergedEntry, GoodEntry, Entry
<1>3. NextEntry \in Merges /\ NextEntry.dst = merge.dst /\ NextEntry.src = merge.src
  BY <1>1, NextEntryType
<1>4. [merge EXCEPT !.item = @ + 1] \in Merges
  BY <1>1 DEF Merges
<1>5. ASSUME NEW V, NEW o, NEW fails, Effect(dst, e.name, o, V), Called(merge.dst, o, fails),
             keyed /\ Promise!Becomes(merge.dst, e.name, V) => Promise!SpecNext,
             merge' \in {NextEntry, [merge EXCEPT !.item = @ + 1]}
      PROVE  Goal
  <2>1. /\ Promise!SpecNext
        /\ result' \in BOOLEAN /\ DOMAIN ns' = NsId
        /\ \A m \in NsId : ns'[m] # Gone => GoodStore(ns'[m])
        /\ \A m \in NsId : Exists(m) => ns'[m] # Gone
    BY <1>1, <1>5, CallImplements
  <2>2. merge' \in Merges /\ merge'.dst = merge.dst /\ merge'.src = merge.src
    BY <1>1, <1>3, <1>4, <1>5 DEF Merges
  <2> QED
    BY <1>1, <2>1, <2>2 DEF StoreInv, Exists
<1>6. ASSUME NEW fails, e.type = "STRING", merge' = NextEntry,
             Called(merge.dst, StringSet(dst, e.name, e.data.items[1], fails), fails)
      PROVE  Goal
  <2> DEFINE s == e.data.items[1]
             o == StringSet(dst, e.name, s, fails)
  <2>1. s \in Str \cup {NoStr}
    BY <1>2, <1>6 DEF GoodEntry, Entry, Data
  <2>2. PICK V : V = {Promise!StringOf(s), Promise!StringOf(NoStr)}
    OBVIOUS
  <2>3. Effect(dst, e.name, o, V)
    BY <1>2, <2>1, <2>2, StringSetEffect
  <2>4. ASSUME keyed, Promise!Becomes(merge.dst, e.name, V)
        PROVE  Promise!SpecNext
    <3>1. PICK t \in Str : V \subseteq {Promise!StringOf(t), Promise!StringOf(NoStr)}
      BY <2>1, <2>2, StoreAssumption
    <3>2. Promise!PutString(merge.dst, e.name, t)
      BY <2>4, <3>1 DEF Promise!PutString, Promise!Becomes
    <3> QED
      BY <1>1, <2>4, <3>2 DEF Promise!SpecNext
  <2> QED
    BY <1>5, <1>6, <2>3, <2>4
<1>7. ASSUME NEW fails, e.type \in {"INT", "FLOAT", "BOOL"}, merge' = NextEntry,
             Called(merge.dst, NumberSet(dst, e.name, e.type, e.data.num, fails), fails)
      PROVE  Goal
  <2> DEFINE o == NumberSet(dst, e.name, e.type, e.data.num, fails)
  <2>1. e.type \in NumType /\ e.data.num \in Num
    BY <1>2, <1>7 DEF GoodEntry, Entry, Data
  <2>2. PICK V : V = {Promise!NumberOf(e.type, e.data.num)}
    OBVIOUS
  <2>3. Effect(dst, e.name, o, V)
    BY <1>2, <2>1, <2>2, NumberSetEffect
  <2>4. ASSUME keyed, Promise!Becomes(merge.dst, e.name, V)
        PROVE  Promise!SpecNext
    BY <1>1, <2>1, <2>2, <2>4 DEF Promise!SpecNext, Promise!PutNumber
  <2> QED
    BY <1>5, <1>7, <2>3, <2>4
<1>8. ASSUME NEW fails, e.type = "ARRAY", merge.item \in DOMAIN e.data.items,
             merge' = [merge EXCEPT !.item = @ + 1],
             Called(merge.dst, StringAppended(dst, e.name, e.data.items[merge.item], fails), fails)
      PROVE  Goal
  <2> DEFINE s == e.data.items[merge.item]
             o == StringAppended(dst, e.name, s, fails)
  <2>1. s \in Str \cup {NoStr}
    BY <1>2, <1>8 DEF GoodEntry, Entry, Data
  <2>2. PICK V : V = {Promise!ArrayWith(Held(dst)[e.name], s),
                      Promise!ArrayWith(Held(dst)[e.name], NoStr)}
    OBVIOUS
  <2>3. Effect(dst, e.name, o, V)
    BY <1>2, <2>1, <2>2, StringAppendedEffect
  <2>4. ASSUME keyed, Promise!Becomes(merge.dst, e.name, V)
        PROVE  Promise!SpecNext
    <3>1. PICK t \in Str : V \subseteq {Promise!ArrayWith(Held(dst)[e.name], t),
                                        Promise!ArrayWith(Held(dst)[e.name], NoStr)}
      BY <2>1, <2>2, StoreAssumption
    <3>2. Promise!AppendString(merge.dst, e.name, t)
      BY <1>1, <2>4, <3>1 DEF Promise!AppendString, Promise!Becomes
    <3> QED
      BY <1>1, <2>4, <3>2 DEF Promise!SpecNext
  <2> QED
    BY <1>5, <1>8, <2>3, <2>4
<1> HIDE DEF Goal
<1>9. Goal
  BY <1>6, <1>7, <1>8 DEF CopyEntry
<1> QED
  BY <1>9 DEF Goal

LEMMA MergeSteps ==
    ASSUME StoreInv,
           \/ \E dst, src \in NsId : BeginMerge(dst, src)
           \/ MergeCrashes \/ SkipEntry \/ EndMerge
    PROVE  StoreInv' /\ (Promise!SpecNext \/ UNCHANGED <<Map, result>>)
<1>1. ASSUME NEW dst \in NsId, NEW src \in NsId, BeginMerge(dst, src)
      PROVE  StoreInv' /\ UNCHANGED <<Map, result>>
  <2>1. /\ ns' = ns /\ result' = result /\ Exists(dst) /\ Exists(src) /\ dst # src
        /\ merge' = [dst |-> dst, src |-> src, entry |-> 1, item |-> 1]
    BY <1>1 DEF BeginMerge
  <2>2. merge' \in Merges /\ merge'.dst = dst /\ merge'.src = src
    BY <2>1 DEF Merges
  <2>3. UNCHANGED <<Map, result>>
    BY <2>1, Unseen
  <2> QED
    BY <2>1, <2>2, <2>3 DEF StoreInv, Exists
<1>2. CASE MergeCrashes
  BY <1>2, Unseen DEF MergeCrashes
<1>3. CASE SkipEntry
  <2>1. ns' = ns /\ result' = result /\ merge' = NextEntry /\ merge # NoMerge
    BY <1>3 DEF SkipEntry, AtEntry, Merging
  <2>2. merge' \in Merges /\ merge'.dst = merge.dst /\ merge'.src = merge.src
    BY <2>1, NextEntryType DEF StoreInv
  <2>3. UNCHANGED <<Map, result>>
    BY <2>1, Unseen
  <2> QED
    BY <2>1, <2>2, <2>3 DEF StoreInv, Exists
<1>4. CASE EndMerge
  <2>1. ns' = ns /\ result' = TRUE /\ merge' = NoMerge /\ merge # NoMerge
    BY <1>4 DEF EndMerge, Merging
  <2>2. Map' = Map
    BY <2>1, MapNext DEF Map, Exists
  <2>3. merge.dst \in NsId /\ Exists(merge.dst)
    BY <2>1 DEF StoreInv, Merges
  <2>4. Promise!SpecNext
    BY <2>1, <2>2, <2>3, NoEffect
  <2> QED
    BY <2>1, <2>4 DEF StoreInv, Exists
<1> QED
  BY <1>1, <1>2, <1>3, <1>4

LEMMA StoreNext ==
    StoreInv /\ [Next]_vars => StoreInv' /\ [Promise!SpecNext]_<<Map, result>>
<1> SUFFICES ASSUME StoreInv, [Next]_vars
             PROVE  StoreInv' /\ (Promise!SpecNext \/ UNCHANGED <<Map, result>>)
  OBVIOUS
<1>1. CASE ReplaceAllocator \/ Stopped \/ UNCHANGED vars
  BY <1>1, Unseen DEF ReplaceAllocator, Stopped, vars
<1>2. CASE \E n \in NsId : New(n) \/ Free(n)
  BY <1>2, NewStep, FreeStep
<1>3. CASE \E n \in NsId : \E d \in Name :
              \/ \E s \in Str : SetString(n, d, s) \/ AppendString(n, d, s)
              \/ \E k \in Num, type \in NumType : SetNumber(n, d, type, k)
  BY <1>3, ClientCallStep
<1>4. CASE CopyEntry
  BY <1>4, CopyStep
<1>5. CASE \/ \E dst, src \in NsId : BeginMerge(dst, src)
           \/ MergeCrashes \/ SkipEntry \/ EndMerge
  BY <1>5, MergeSteps
<1> QED
  BY <1>1, <1>2, <1>3, <1>4, <1>5 DEF Next

(***************************************************************************)
(* Neither the array of entries nor an array of strings holds more than    *)
(* was allocated for it (clap_namespace.c:79-91, 147-156).                 *)
(***************************************************************************)
THEOREM WithinCapacityAlways == Spec => []WithinCapacity
<1>1. StoreInv => WithinCapacity
  <2> SUFFICES ASSUME StoreInv, NEW n \in NsId
               PROVE  /\ Len(ns[n].values) <= ns[n].capacity
                      /\ \A i \in DOMAIN ns[n].values :
                            ns[n].values[i].type = "ARRAY" =>
                              Len(ns[n].values[i].data.items) <= ns[n].values[i].data.capacity
    BY DEF WithinCapacity
  <2>1. CASE Exists(n)
    BY <2>1 DEF StoreInv, GoodStore, GoodEntry
  <2>2. CASE ~Exists(n)
    <3>1. ns[n].values = << >> /\ ns[n].capacity = 0
      BY <2>2 DEF Exists, Gone
    <3>2. Len(<< >>) = 0 /\ DOMAIN << >> = {}
      OBVIOUS
    <3> QED
      BY <3>1, <3>2
  <2> QED
    BY <2>1, <2>2
<1> QED
  BY <1>1, StoreInit, StoreNext, PTL DEF Spec

(***************************************************************************)
(* The store implements the namespace its users rely on: each call changes *)
(* the entry it names and no other, and one that says FALSE changes        *)
(* nothing, also when it failed half way (clap_namespace.c).               *)
(***************************************************************************)
THEOREM StoreRefines == Spec => Refines
  BY StoreInit, StoreNext, PTL DEF Spec, Refines, Promise!Spec, Map

-----------------------------------------------------------------------------
(***************************************************************************)
(* CrashesExplained needs to know that a key is NULL only after a failed   *)
(* allocation, and that a block that another family's realloc would take   *)
(* means that malloc and realloc differ.                                   *)
(***************************************************************************)
Keyed(st) == \A i \in DOMAIN st.values : st.values[i].name # NoName

CrashInv ==
    /\ failures \in Nat
    /\ failures = 0 => \A n \in NsId : Keyed(ns[n])
    /\ CrashesExplained

LEMMA NoneFailed ==
    ASSUME NEW fails \in SUBSET Allocation
    PROVE  Cardinality(fails) \in Nat /\ (Cardinality(fails) = 0 => fails = {})
<1>1. Allocation = (({"room"} \cup {"entry"}) \cup ({"name"} \cup {"copy"})) \cup {"items"}
  BY DEF Allocation, StringAllocation, EnsureAllocation
<1>2. \A x : IsFiniteSet({x})
  BY FS_Singleton
<1>3. IsFiniteSet(Allocation)
  BY <1>1, <1>2, FS_Union
<1>4. IsFiniteSet(fails)
  BY <1>3, FS_Subset
<1> QED
  BY <1>4, FS_EmptySet, FS_CardinalityType

LEMMA EnsuredKeyed ==
    ASSUME NEW st, GoodStore(st), Keyed(st), NEW d \in Name, NEW e, e = Ensured(st, d, {})
    PROVE  Keyed(e.store) /\ e.crash = FALSE /\ e.ok
<1>1. ~NullCompared(st.values, d) /\ d # NoName
  BY StoreAssumption DEF NullCompared, Keyed
<1>2. CASE IndexOf(st.values, d) # {}
  <2>1. e = Outcome(st, TRUE, Min(IndexOf(st.values, d)))
    BY <1>1, <1>2 DEF Ensured
  <2> QED
    BY <2>1 DEF Outcome
<1>3. CASE IndexOf(st.values, d) = {}
  <2> DEFINE full == Len(st.values) >= st.capacity
             x == [name |-> d, type |-> "NONE", data |-> NoData]
  <2>1. PICK room : room = IF full THEN [st EXCEPT !.capacity = 2 * @] ELSE st
    OBVIOUS
  <2>2. PICK st2 : st2 = [room EXCEPT !.values = Append(@, x)]
    OBVIOUS
  <2>3. PICK tried, made, grown : e = [Outcome(st2, TRUE, Len(st.values) + 1)
                                EXCEPT !.tried = tried, !.made = made, !.grown = grown]
    BY <1>1, <1>3, <2>1, <2>2 DEF Ensured, KeyCopy
  <2>4. e.store = st2 /\ e.crash = FALSE /\ e.ok
    BY <2>3 DEF Outcome
  <2>5. room.values = st.values /\ room \in Store /\ st.values \in Seq(Entry)
    BY <2>1 DEF GoodStore, Store
  <2>6. st2.values = Append(st.values, x)
    BY <2>2, <2>5 DEF Store
  <2>7. Keyed(st2)
    BY <1>1, <2>5, <2>6 DEF Keyed
  <2> QED
    BY <2>4, <2>7
<1> QED
  BY <1>2, <1>3

LEMMA HoldingKeyed ==
    ASSUME NEW e \in Outcomes, Keyed(e.store), e.at \in DOMAIN e.store.values, NEW type, NEW data
    PROVE  Keyed(Holding(e, type, data).store) /\ Holding(e, type, data).crash = e.crash
  BY DEF Holding, Outcomes, Store, Keyed

(***************************************************************************)
(* A call in which nothing fails leaves no key NULL, and does not crash.   *)
(***************************************************************************)
Unharmed(o) == Keyed(o.store) /\ o.crash = FALSE

LEMMA CallsUnharmed ==
    ASSUME NEW st, GoodStore(st), Keyed(st), NEW d \in Name, NEW s, NEW type, NEW k
    PROVE  /\ Unharmed(StringSet(st, d, s, {}))
           /\ Unharmed(NumberSet(st, d, type, k, {}))
           /\ Unharmed(StringAppended(st, d, s, {}))
<1>1. PICK e : e = Ensured(st, d, {})
  OBVIOUS
<1>2. e \in Outcomes /\ Keyed(e.store) /\ e.crash = FALSE
  BY <1>1, EnsuredOutcome, EnsuredKeyed
<1>4. ASSUME e.ok, NEW t, NEW data
      PROVE  Unharmed(Holding(e, t, data))
  <2>1. e.at \in DOMAIN e.store.values
    BY <1>1, <1>4, EnsuredEntry
  <2> QED
    BY <1>2, <2>1, HoldingKeyed DEF Unharmed
<1>5. ASSUME NEW t, NEW data
      PROVE  {"store", "crash"} \subseteq DOMAIN Holding(e, t, data)
  BY <1>2 DEF Holding, Outcomes
<1>6. Unharmed(e)
  BY <1>2 DEF Unharmed
<1>7. Unharmed(NumberSet(st, d, type, k, {}))
  BY <1>1, <1>4, <1>6 DEF NumberSet
<1>8. Unharmed(StringSet(st, d, s, {}))
  <2>1. CASE ~e.ok
    BY <1>1, <1>6, <2>1 DEF StringSet
  <2>2. CASE e.ok
    <3>1. PICK h : h = Holding(e, "STRING", StringData(s))
      OBVIOUS
    <3>2. PICK tried, made, freed :
             StringSet(st, d, s, {}) =
               [h EXCEPT !.tried = tried, !.made = made, !.freed = freed]
      BY <1>1, <2>2, <3>1 DEF StringSet
    <3>3. Unharmed(h) /\ {"store", "crash"} \subseteq DOMAIN h
      BY <1>4, <1>5, <2>2, <3>1
    <3> QED
      BY <3>2, <3>3 DEF Unharmed
  <2> QED
    BY <2>1, <2>2
<1>9. Unharmed(StringAppended(st, d, s, {}))
  <2>1. CASE s = NoStr
    BY <2>1 DEF StringAppended, Outcome, Unharmed
  <2>2. CASE s # NoStr /\ ~e.ok
    BY <1>1, <1>6, <2>2 DEF StringAppended
  <2>3. CASE s # NoStr /\ e.ok
    <3>1. PICK h : h = Holding(e, "ARRAY", WithItem(ArrayOf(e.store.values[e.at]), s))
      OBVIOUS
    <3>2. PICK tried, grown, made :
             StringAppended(st, d, s, {}) =
               [h EXCEPT !.tried = tried, !.grown = grown, !.made = made]
      BY <1>1, <2>3, <3>1 DEF StringAppended
    <3>3. Unharmed(h) /\ {"store", "crash"} \subseteq DOMAIN h
      BY <1>4, <1>5, <2>3, <3>1
    <3> QED
      BY <3>2, <3>3 DEF Unharmed
  <2> QED
    BY <2>1, <2>2, <2>3
<1> QED
  BY <1>7, <1>8, <1>9

LEMMA CalledCrash ==
    ASSUME FamilyInv, StoreInv, CrashInv, ~crashed,
           NEW n \in NsId, NEW o, NEW fails \in SUBSET Allocation, Called(n, o, fails),
           Keyed(ns[n]) /\ failures = 0 /\ fails = {} => Unharmed(o)
    PROVE  CrashInv'
<1>1. /\ failures' = failures + Cardinality(fails) /\ failures \in Nat
      /\ Cardinality(fails) \in Nat /\ (Cardinality(fails) = 0 => fails = {})
  BY NoneFailed DEF Called, Failing, CrashInv
<1>2. failures' \in Nat /\ (failures' = 0 => failures = 0 /\ fails = {})
  BY <1>1
<1>3. ASSUME failures' = 0
      PROVE  \A m \in NsId : Keyed(ns'[m])
  <2>1. ns' = [ns EXCEPT ![n] = o.store] /\ Keyed(o.store) /\ \A m \in NsId : Keyed(ns[m])
    BY <1>2, <1>3 DEF CrashInv, Called, Unharmed
  <2> QED
    BY <2>1 DEF StoreInv
<1>4. CrashesExplained'
  <2> SUFFICES ASSUME crashed', failures' = 0
               PROVE  reallocFn' # mallocFn'
    BY <1>2 DEF CrashesExplained
  <2>1. o.crash = FALSE
    BY <1>2 DEF CrashInv, Unharmed
  <2>2. ReallocIsForeign
    BY <2>1 DEF Called, Foreign
  <2>3. reallocFn # mallocFn
    BY <2>2 DEF ReallocIsForeign, FamilyInv, FreeFitsMalloc
  <2> QED
    BY <2>3 DEF Called, Allocates
<1>5. \A m \in NsId : Keyed(ns[m])' <=> Keyed(ns'[m])
  BY DEF Keyed
<1> QED
  BY <1>2, <1>3, <1>4, <1>5 DEF CrashInv

LEMMA CrashInit == Init => CrashInv
  BY DEF Init, CrashInv, CrashesExplained, Keyed, Gone

\* A step that makes no allocation and does not crash.
LEMMA NothingAllocated ==
    ASSUME CrashInv, failures' = failures, crashed' = crashed,
           mallocFn' = mallocFn, reallocFn' = reallocFn,
           \A n \in NsId : Keyed(ns[n]) => Keyed(ns'[n])
    PROVE  CrashInv'
<1>1. \A n \in NsId : Keyed(ns[n])' <=> Keyed(ns'[n])
  BY DEF Keyed
<1> QED
  BY <1>1 DEF CrashInv, CrashesExplained

LEMMA CrashNext == FamilyInv /\ StoreInv /\ CrashInv /\ [Next]_vars => CrashInv'
<1> SUFFICES ASSUME FamilyInv, StoreInv, CrashInv, [Next]_vars
             PROVE  CrashInv'
  OBVIOUS
<1>1. CASE ReplaceAllocator
  BY <1>1 DEF ReplaceAllocator, Idle, CrashInv, CrashesExplained, Keyed
<1>2. ASSUME NEW n \in NsId, New(n)
      PROVE  CrashInv'
  <2>1. PICK fails \in {{}, {"namespace"}, {"values"}} :
           /\ ns' = IF fails = {} THEN [ns EXCEPT ![n] = NewStore] ELSE ns
           /\ failures' = failures + Cardinality(fails)
    BY <1>2 DEF New, Failing
  <2>2. Cardinality(fails) \in {0, 1} /\ (Cardinality(fails) = 0 => fails = {})
    BY FS_EmptySet, FS_Singleton
  <2>3. failures' \in Nat /\ (failures' = 0 => failures = 0 /\ fails = {})
    BY <2>1, <2>2 DEF CrashInv
  <2>4. Keyed(NewStore)
    BY DEF Keyed, NewStore, Gone
  <2>5. failures' = 0 => \A m \in NsId : Keyed(ns'[m])
    BY <2>1, <2>3, <2>4 DEF CrashInv, StoreInv
  <2>6. ~crashed'
    BY <1>2 DEF New, Idle
  <2>7. \A m \in NsId : Keyed(ns[m])' <=> Keyed(ns'[m])
    BY DEF Keyed
  <2> QED
    BY <2>3, <2>5, <2>6, <2>7 DEF CrashInv, CrashesExplained
<1>3. ASSUME NEW n \in NsId, Free(n)
      PROVE  CrashInv'
  <2>1. Keyed(Gone)
    BY DEF Keyed, Gone
  <2>2. \A m \in NsId : Keyed(ns[m]) => Keyed(ns'[m])
    BY <1>3, <2>1 DEF Free, StoreInv
  <2>3. /\ failures' = failures /\ mallocFn' = mallocFn /\ reallocFn' = reallocFn
        /\ crashed' => moved[n] # {}
    BY <1>3 DEF Free
  <2>4. CrashesExplained'
    BY <2>3 DEF FamilyInv, CrashInv, CrashesExplained
  <2>5. \A m \in NsId : Keyed(ns[m])' <=> Keyed(ns'[m])
    BY DEF Keyed
  <2> QED
    BY <2>2, <2>3, <2>4, <2>5 DEF CrashInv
<1>4. ASSUME NEW n \in NsId, NEW d \in Name,
             \/ \E s \in Str : SetString(n, d, s) \/ AppendString(n, d, s)
             \/ \E k \in Num, type \in NumType : SetNumber(n, d, type, k)
      PROVE  CrashInv'
  <2>1. GoodStore(ns[n]) /\ ~crashed
    BY <1>4 DEF SetString, AppendString, SetNumber, Storing, Idle, StoreInv
  <2>2. ASSUME NEW o, NEW fails \in SUBSET Allocation, Called(n, o, fails),
               Keyed(ns[n]) /\ fails = {} => Unharmed(o)
        PROVE  CrashInv'
    BY <2>1, <2>2, CalledCrash
  <2>3. ASSUME NEW s \in Str, SetString(n, d, s)
        PROVE  CrashInv'
    <3>1. PICK fails \in SUBSET StringAllocation :
             Called(n, StringSet(ns[n], d, s, fails), fails)
      BY <2>3 DEF SetString
    <3> QED
      BY <2>1, <2>2, <3>1, CallsUnharmed DEF Allocation
  <2>4. ASSUME NEW s \in Str, AppendString(n, d, s)
        PROVE  CrashInv'
    <3>1. PICK fails \in SUBSET Allocation :
             Called(n, StringAppended(ns[n], d, s, fails), fails)
      BY <2>4 DEF AppendString
    <3> QED
      BY <2>1, <2>2, <3>1, CallsUnharmed
  <2>5. ASSUME NEW k \in Num, NEW type \in NumType, SetNumber(n, d, type, k)
        PROVE  CrashInv'
    <3>1. PICK fails \in SUBSET EnsureAllocation :
             Called(n, NumberSet(ns[n], d, type, k, fails), fails)
      BY <2>5 DEF SetNumber
    <3> QED
      BY <2>1, <2>2, <3>1, CallsUnharmed DEF Allocation, StringAllocation
  <2> QED
    BY <1>4, <2>3, <2>4, <2>5
<1>5. CASE CopyEntry
  <2> DEFINE e == MergedEntry
             dst == ns[merge.dst]
  <2>1. /\ merge.dst \in NsId /\ merge.src \in NsId /\ ~crashed
        /\ merge.entry \in DOMAIN ns[merge.src].values
        /\ GoodStore(dst) /\ GoodStore(ns[merge.src])
    BY <1>5 DEF CopyEntry, AtEntry, Merging, StoreInv, Merges
  <2>2. failures = 0 => e.name \in Name
    BY <2>1 DEF CrashInv, Keyed, MergedEntry, GoodStore, GoodEntry, Entry
  <2>3. ASSUME NEW o, NEW fails \in SUBSET Allocation, Called(merge.dst, o, fails),
               e.name \in Name /\ Keyed(dst) /\ fails = {} => Unharmed(o)
        PROVE  CrashInv'
    BY <2>1, <2>2, <2>3, CalledCrash
  <2>4. PICK fails \in SUBSET Allocation :
           \/ Called(merge.dst, StringSet(dst, e.name, e.data.items[1], fails), fails)
           \/ Called(merge.dst, NumberSet(dst, e.name, e.type, e.data.num, fails), fails)
           \/ Called(merge.dst,
                     StringAppended(dst, e.name, e.data.items[merge.item], fails), fails)
    BY <1>5 DEF CopyEntry
  <2>5. e.name \in Name /\ Keyed(dst) =>
           /\ Unharmed(StringSet(dst, e.name, e.data.items[1], {}))
           /\ Unharmed(NumberSet(dst, e.name, e.type, e.data.num, {}))
           /\ Unharmed(StringAppended(dst, e.name, e.data.items[merge.item], {}))
    BY <2>1, CallsUnharmed
  <2> QED
    BY <2>3, <2>4, <2>5
<1>6. CASE MergeCrashes
  <2>1. /\ merge.dst \in NsId /\ merge.src \in NsId
        /\ merge.entry \in DOMAIN ns[merge.src].values
        /\ NullCompared(ns[merge.dst].values, MergedEntry.name)
    BY <1>6 DEF MergeCrashes, AtEntry, Merging, Compares, StoreInv, Merges
  <2>2. ~(Keyed(ns[merge.dst]) /\ Keyed(ns[merge.src]))
    BY <2>1 DEF NullCompared, Keyed, MergedEntry
  <2>3. failures # 0 /\ failures' = failures
    BY <1>6, <2>1, <2>2 DEF CrashInv, MergeCrashes
  <2> QED
    BY <2>3 DEF CrashInv, CrashesExplained
<1>7. CASE \/ \E dst, src \in NsId : BeginMerge(dst, src)
           \/ SkipEntry \/ EndMerge \/ Stopped \/ UNCHANGED vars
  BY <1>7, NothingAllocated
  DEF BeginMerge, SkipEntry, EndMerge, Stopped, vars, allocator
<1> QED
  BY <1>1, <1>2, <1>3, <1>4, <1>5, <1>6, <1>7 DEF Next

(***************************************************************************)
(* The library stops the program only if an allocation has failed, or the  *)
(* client gave no realloc and an array was grown, or such an array freed   *)
(* (clap_namespace.c:66-158).                                              *)
(***************************************************************************)
THEOREM CrashesExplainedAlways == Spec => []CrashesExplained
<1>1. CrashInv => CrashesExplained
  BY DEF CrashInv
<1> QED
  BY <1>1, FamilyInit, StoreInit, CrashInit, FamilyNext, StoreNext, CrashNext, PTL DEF Spec

-----------------------------------------------------------------------------
(***************************************************************************)
(* OneFamily.  An array is made with a capacity that no call ever makes    *)
(* smaller, and twice of it is more: the arrays that were moved are those  *)
(* of entries that are arrays still, and have grown.                       *)
(***************************************************************************)
AtLeast(st) ==
    /\ st.capacity >= ValueCapacity
    /\ \A i \in DOMAIN st.values :
          st.values[i].type = "ARRAY" => st.values[i].data.capacity >= ItemCapacity

\* st2 follows on st: no array is smaller than it was.
Follows(st, st2) ==
    /\ AtLeast(st2)
    /\ \A a \in Arrays(st2) : HasGrown(st, a) => HasGrown(st2, a)

Grows(st, o, fails) ==
    /\ Follows(st, o.store)
    /\ {"room", "items"} \cap fails = {} =>
          \A a \in o.grown \cap Arrays(o.store) : HasGrown(o.store, a)

GrownInv ==
    \A n \in NsId : /\ Exists(n) => AtLeast(ns[n])
                    /\ \A a \in moved[n] : HasGrown(ns[n], a)

LEMMA SameFollows == ASSUME NEW st, AtLeast(st) PROVE Follows(st, st)
  BY DEF Follows

LEMMA EnsuredGrows ==
    ASSUME NEW st, GoodStore(st), AtLeast(st), NEW d \in Name \cup {NoName}, NEW fails,
           NEW e, e = Ensured(st, d, fails)
    PROVE  Grows(st, e, fails) /\ e.grown \subseteq {0}
<1> DEFINE full == Len(st.values) >= st.capacity
<1>1. PICK room : room = IF full THEN [st EXCEPT !.capacity = 2 * @] ELSE st
  OBVIOUS
<1>2. PICK grown : grown = IF full THEN {0} ELSE {}
  OBVIOUS
<1>3. PICK x : x = [name |-> KeyCopy(d, fails), type |-> "NONE", data |-> NoData]
  OBVIOUS
<1>4. PICK st2 : st2 = [room EXCEPT !.values = Append(@, x)]
  OBVIOUS
<1>5. /\ st \in Store /\ st.values \in Seq(Entry) /\ st.capacity \in Nat /\ Len(st.values) \in Nat
      /\ DOMAIN st.values = 1..Len(st.values)
      /\ ValueCapacity \in Nat \ {0} /\ st.capacity >= ValueCapacity
  BY StoreAssumption DEF GoodStore, Store, AtLeast
<1>6. /\ room.values = st.values /\ room.capacity >= ValueCapacity /\ room.capacity \in Nat
      /\ room.capacity >= st.capacity
      /\ full => room.capacity > ValueCapacity
      /\ room \in Store
  BY <1>1, <1>5 DEF Store
<1>7. Follows(st, room)
  BY <1>5, <1>6 DEF Follows, AtLeast, HasGrown
<1>8. x \in Entry /\ x.type = "NONE"
  BY <1>3, StoreAssumption DEF Entry, KeyCopy, NoData, Data, ValueType
<1>9. /\ st2.values = Append(st.values, x) /\ st2.capacity = room.capacity
  BY <1>4, <1>6 DEF Store
<1>10. /\ DOMAIN st2.values = 1..(Len(st.values) + 1)
       /\ st2.values[Len(st.values) + 1] = x
       /\ \A i \in DOMAIN st.values : st2.values[i] = st.values[i]
  BY <1>5, <1>8, <1>9
<1>11. Arrays(st2) = Arrays(st)
  BY <1>5, <1>8, <1>10 DEF Arrays
<1>12. Follows(st, st2)
  <2>1. AtLeast(st2)
    BY <1>5, <1>6, <1>8, <1>9, <1>10 DEF AtLeast
  <2>2. ASSUME NEW a \in Arrays(st), HasGrown(st, a)
        PROVE  HasGrown(st2, a)
    BY <1>5, <1>6, <1>9, <1>10, <2>2 DEF HasGrown
  <2> QED
    BY <1>11, <2>1, <2>2 DEF Follows
<1>13. CASE NullCompared(st.values, d)
  <2>1. e = [Outcome(st, FALSE, 0) EXCEPT !.crash = TRUE]
    BY <1>13 DEF Ensured
  <2>2. e.store = st /\ e.grown = {}
    BY <2>1 DEF Outcome
  <2> QED
    BY <2>2, SameFollows DEF Grows
<1>14. CASE ~NullCompared(st.values, d) /\ IndexOf(st.values, d) # {}
  <2>1. e = Outcome(st, TRUE, Min(IndexOf(st.values, d)))
    BY <1>14 DEF Ensured
  <2>2. e.store = st /\ e.grown = {}
    BY <2>1 DEF Outcome
  <2> QED
    BY <2>2, SameFollows DEF Grows
<1>15. CASE ~NullCompared(st.values, d) /\ IndexOf(st.values, d) = {} /\ full /\ "room" \in fails
  <2>1. e = [Outcome(st, FALSE, 0) EXCEPT !.tried = {"room"}, !.grown = {0}]
    BY <1>15 DEF Ensured
  <2>2. e.store = st /\ e.grown = {0}
    BY <2>1 DEF Outcome
  <2> QED
    BY <1>15, <2>2, SameFollows DEF Grows
<1>16. ASSUME ~NullCompared(st.values, d), IndexOf(st.values, d) = {},
              ~(full /\ "room" \in fails)
       PROVE  e.store \in {room, st2} /\ e.grown = grown
  <2>1. CASE "entry" \in fails
    <3>1. PICK tried : e = [Outcome(room, FALSE, 0) EXCEPT !.tried = tried, !.grown = grown]
      BY <1>1, <1>2, <1>16, <2>1 DEF Ensured
    <3> QED
      BY <3>1 DEF Outcome
  <2>2. CASE "entry" \notin fails
    <3>1. PICK tried, made : e = [Outcome(st2, TRUE, Len(st.values) + 1)
                                  EXCEPT !.tried = tried, !.made = made, !.grown = grown]
      BY <1>1, <1>2, <1>3, <1>4, <1>16, <2>2 DEF Ensured
    <3> QED
      BY <3>1 DEF Outcome
  <2> QED
    BY <2>1, <2>2
<1>17. ASSUME e.store \in {room, st2}, e.grown = grown
       PROVE  Grows(st, e, fails) /\ e.grown \subseteq {0}
  <2>1. Follows(st, e.store)
    BY <1>7, <1>12, <1>17
  <2>2. e.store.capacity = room.capacity
    BY <1>9, <1>17
  <2>3. \A a \in grown : HasGrown(e.store, a)
    BY <1>2, <1>6, <2>2 DEF HasGrown
  <2> QED
    BY <1>2, <1>17, <2>1, <2>3 DEF Grows
<1> QED
  BY <1>13, <1>14, <1>15, <1>16, <1>17

(***************************************************************************)
(* The entry a call writes: if it is an array, it is one that began with   *)
(* ItemCapacity, and not smaller than the entry's array was.               *)
(***************************************************************************)
LEMMA WrittenFollows ==
    ASSUME NEW st, NEW e \in Outcomes, Follows(st, e.store), e.at \in DOMAIN e.store.values,
           e.at \in DOMAIN st.values => e.store.values[e.at] = st.values[e.at],
           NEW type, NEW data,
           type = "ARRAY" =>
             /\ data.capacity \in Nat /\ data.capacity >= ItemCapacity
             /\ e.store.values[e.at].type = "ARRAY" =>
                  /\ e.store.values[e.at].data.capacity \in Nat
                  /\ data.capacity >= e.store.values[e.at].data.capacity,
           NEW st2, st2 = Holding(e, type, data).store
    PROVE  Follows(st, st2)
<1>0. PICK x : x = [name |-> e.store.values[e.at].name, type |-> type, data |-> data]
  OBVIOUS
<1>1. st2 = [e.store EXCEPT !.values = [@ EXCEPT ![e.at] = x]]
  BY <1>0 DEF Holding, Outcomes
<1>2. /\ e.store.values \in Seq(Entry) /\ DOMAIN e.store.values = 1..Len(e.store.values)
      /\ Len(e.store.values) \in Nat /\ e.store \in Store
  BY DEF Outcomes, Store
<1>3. /\ st2.capacity = e.store.capacity
      /\ DOMAIN st2.values = DOMAIN e.store.values
      /\ st2.values[e.at] = x
      /\ \A i \in DOMAIN e.store.values : i # e.at => st2.values[i] = e.store.values[i]
  BY <1>1, <1>2 DEF Store
<1>4. AtLeast(st2)
  BY <1>0, <1>3 DEF AtLeast, Follows
<1>5. ASSUME NEW a \in Arrays(st2), HasGrown(st, a)
      PROVE  HasGrown(st2, a)
  <2>1. CASE a = 0
    <3>1. a \in Arrays(e.store)
      BY <2>1 DEF Arrays
    <3>2. e.at # 0 /\ ~(0 \in DOMAIN e.store.values)
      BY <1>2
    <3>3. HasGrown(e.store, 0)
      BY <1>5, <2>1, <3>1 DEF Follows
    <3> QED
      BY <1>3, <2>1, <3>2, <3>3 DEF HasGrown
  <2>2. CASE a # 0 /\ a # e.at
    <3>1. a \in Arrays(e.store) /\ a \in DOMAIN e.store.values
      BY <1>3, <2>2 DEF Arrays
    <3>2. HasGrown(e.store, a)
      BY <1>5, <3>1 DEF Follows
    <3> QED
      BY <1>3, <2>2, <3>1, <3>2 DEF HasGrown
  <2>3. CASE a # 0 /\ a = e.at
    <3>1. type = "ARRAY"
      BY <1>0, <1>3, <1>5, <2>3 DEF Arrays
    <3>2. CASE e.store.values[e.at].type = "ARRAY"
      <4>1. a \in Arrays(e.store)
        BY <2>3, <3>2 DEF Arrays
      <4>2. HasGrown(e.store, a)
        BY <1>5, <4>1 DEF Follows
      <4>3. e.store.values[a].data.capacity > ItemCapacity
        BY <2>3, <4>2 DEF HasGrown
      <4>4. data.capacity > ItemCapacity
        BY <2>3, <3>1, <3>2, <4>3, StoreAssumption
      <4> QED
        BY <1>0, <1>3, <2>3, <3>1, <4>4 DEF HasGrown
    <3>3. CASE e.store.values[e.at].type # "ARRAY"
      <4>1. a \in DOMAIN st.values /\ st.values[a].type = "ARRAY"
        BY <1>5, <2>3 DEF HasGrown
      <4> QED
        BY <2>3, <3>3, <4>1
    <3> QED
      BY <3>2, <3>3
  <2> QED
    BY <2>1, <2>2, <2>3
<1> QED
  BY <1>4, <1>5 DEF Follows


\* What ensure_value returned is the entry of the key, or a new one.
LEMMA EnsuredWritten ==
    ASSUME NEW st, GoodStore(st), AtLeast(st), NEW d \in Name \cup {NoName}, NEW fails,
           NEW e, e = Ensured(st, d, fails), e.ok
    PROVE  /\ e \in Outcomes /\ Follows(st, e.store) /\ e.at \in DOMAIN e.store.values
           /\ e.at \in DOMAIN st.values => e.store.values[e.at] = st.values[e.at]
           /\ e.store.values[e.at].type = "ARRAY" =>
                /\ e.store.values[e.at].data.capacity \in Nat
                /\ e.store.values[e.at].data.capacity >= ItemCapacity
<1>1. e \in Outcomes /\ Follows(st, e.store)
  BY EnsuredOutcome, EnsuredGrows DEF Grows
<1>2. e.at \in DOMAIN e.store.values /\ GoodEntry(e.store.values[e.at])
  BY EnsuredEntry
<1>3. e.at \in DOMAIN st.values => e.store.values[e.at] = st.values[e.at]
  <2>1. Found(st, d, e) \/ Appended(st, d, e)
    BY EnsuredOutcome
  <2>2. CASE Found(st, d, e)
    BY <2>2 DEF Found
  <2>3. CASE Appended(st, d, e)
    <3>1. DOMAIN st.values = 1..Len(st.values) /\ Len(st.values) \in Nat
      BY DEF GoodStore, Store
    <3> QED
      BY <2>3, <3>1 DEF Appended
  <2> QED
    BY <2>1, <2>2, <2>3
<1> QED
  BY <1>1, <1>2, <1>3 DEF Follows, AtLeast, GoodEntry, Entry, Data

LEMMA CallsGrow ==
    ASSUME NEW st, GoodStore(st), AtLeast(st), NEW d \in Name \cup {NoName}, NEW fails,
           NEW s, NEW type \in {"INT", "FLOAT", "BOOL"}, NEW k
    PROVE  /\ Grows(st, StringSet(st, d, s, fails), fails)
           /\ Grows(st, NumberSet(st, d, type, k, fails), fails)
           /\ Grows(st, StringAppended(st, d, s, fails), fails)
<1>1. PICK e : e = Ensured(st, d, fails)
  OBVIOUS
<1>2. e \in Outcomes /\ Grows(st, e, fails) /\ e.grown \subseteq {0}
  BY <1>1, EnsuredOutcome, EnsuredGrows
<1>3. ASSUME e.ok, NEW t, t # "ARRAY", NEW data, NEW h, h = Holding(e, t, data)
      PROVE  Follows(st, h.store) /\ h.grown = e.grown /\ h \in [DOMAIN e -> {h[i] : i \in DOMAIN e}]
  <2>1. Follows(st, h.store)
    BY <1>1, <1>3, EnsuredWritten, WrittenFollows
  <2>2. h.grown = e.grown /\ h \in [DOMAIN e -> {h[i] : i \in DOMAIN e}]
    BY <1>2, <1>3 DEF Holding, Outcomes
  <2> QED
    BY <2>1, <2>2
\* What has grown before the entry is written is the array of entries.
<1>4. ASSUME NEW h, Follows(e.store, h.store), NEW a \in e.grown, HasGrown(e.store, a)
      PROVE  HasGrown(h.store, a)
  BY <1>2, <1>4 DEF Follows, Arrays
<1>5. ASSUME e.ok, NEW t, t # "ARRAY", NEW data, NEW h, h = Holding(e, t, data),
             NEW o, o.store = h.store, o.grown = h.grown
      PROVE  Grows(st, o, fails)
  <2>1. Follows(st, o.store) /\ o.grown = e.grown
    BY <1>3, <1>5
  <2>2. Follows(e.store, h.store)
    <3>1. Follows(e.store, e.store)
      BY <1>1, <1>5, EnsuredWritten DEF Follows
    <3> QED
      BY <1>1, <1>5, <3>1, EnsuredWritten, WrittenFollows
  <2>3. e.grown \subseteq Arrays(e.store)
    BY <1>2 DEF Arrays
  <2> QED
    BY <1>2, <1>4, <1>5, <2>1, <2>2, <2>3 DEF Grows
<1>6. Grows(st, NumberSet(st, d, type, k, fails), fails)
  <2>1. PICK h : h = Holding(e, type, NumberData(k))
    OBVIOUS
  <2>2. NumberSet(st, d, type, k, fails) = IF ~e.ok THEN e ELSE h
    BY <1>1, <2>1 DEF NumberSet
  <2> QED
    BY <1>2, <1>5, <2>1, <2>2
<1>7. Grows(st, StringSet(st, d, s, fails), fails)
  <2>1. CASE ~e.ok
    BY <1>1, <1>2, <2>1 DEF StringSet
  <2>2. CASE e.ok
    <3>1. PICK copy : copy = IF "copy" \in fails THEN NoStr ELSE s
      OBVIOUS
    <3>2. PICK h : h = Holding(e, "STRING", StringData(copy))
      OBVIOUS
    <3>3. PICK tried, made, freed :
             StringSet(st, d, s, fails) =
               [h EXCEPT !.tried = tried, !.made = made, !.freed = freed]
      BY <1>1, <2>2, <3>1, <3>2 DEF StringSet
    <3>4. {"store", "grown"} \subseteq DOMAIN h
      BY <1>2, <1>3, <2>2, <3>2 DEF Outcomes
    <3>5. /\ StringSet(st, d, s, fails).store = h.store
          /\ StringSet(st, d, s, fails).grown = h.grown
      BY <3>3, <3>4
    <3> QED
      BY <1>5, <2>2, <3>2, <3>5
  <2> QED
    BY <2>1, <2>2
<1>8. Grows(st, StringAppended(st, d, s, fails), fails)
  <2> DEFINE old == e.store.values[e.at]
             fresh == old.type # "ARRAY"
             full == ItemsFull(ArrayOf(old))
  <2>1. PICK o : o = StringAppended(st, d, s, fails)
    OBVIOUS
  <2>2. CASE s = NoStr
    <3>1. o.store = st /\ o.grown = {}
      BY <2>1, <2>2 DEF StringAppended, Outcome
    <3> QED
      BY <2>1, <3>1, SameFollows DEF Grows
  <2>3. CASE s # NoStr /\ ~e.ok
    BY <1>1, <1>2, <2>3 DEF StringAppended
  <2>4. CASE s # NoStr /\ e.ok /\ fresh /\ "items" \in fails
    <3>1. o = [Outcome(st, FALSE, 0) EXCEPT !.tried = e.tried \cup {"items"}, !.crash = TRUE]
      BY <1>1, <2>1, <2>4 DEF StringAppended
    <3>2. o.store = st /\ o.grown = {}
      BY <3>1 DEF Outcome
    <3> QED
      BY <2>1, <3>2, SameFollows DEF Grows
  <2>5. CASE s # NoStr /\ e.ok /\ ~fresh /\ full /\ "items" \in fails
    <3>1. o = [e EXCEPT !.tried = @ \cup {"items"}, !.grown = {e.at}, !.ok = FALSE]
      BY <1>1, <2>1, <2>5 DEF StringAppended
    <3>2. o.store = e.store
      BY <1>2, <3>1 DEF Outcomes
    <3> QED
      BY <1>2, <2>1, <2>5, <3>2 DEF Grows
  <2>6. CASE s # NoStr /\ e.ok /\ ~((fresh \/ full) /\ "items" \in fails)
    <3>1. PICK copy : copy = IF "copy" \in fails THEN NoStr ELSE s
      OBVIOUS
    <3>2. PICK array : array = ArrayOf(old)
      OBVIOUS
    <3>3. PICK data : data = WithItem(array, copy)
      OBVIOUS
    <3>4. PICK h : h = Holding(e, "ARRAY", data)
      OBVIOUS
    <3>5. h \in [DOMAIN e -> {h[i] : i \in DOMAIN e}] /\ h.grown = e.grown
      BY <1>2, <3>4 DEF Holding, Outcomes
    <3>6. o.store = h.store /\ o.grown = IF full THEN {e.at} ELSE e.grown
      <4> DEFINE owned == (IF fresh THEN 1 ELSE 0) + (IF copy = NoStr THEN 0 ELSE 1)
      <4>1. o = [h EXCEPT !.tried = @ \cup {"copy"}
                                     \cup (IF fresh \/ full THEN {"items"} ELSE {}),
                          !.grown = IF full THEN {e.at} ELSE @,
                          !.made = @ + owned]
        BY <1>1, <2>1, <2>6, <3>1, <3>2, <3>3, <3>4 DEF StringAppended
      <4>2. {"store", "grown", "made", "tried"} \subseteq DOMAIN h
        BY <1>2, <3>5 DEF Outcomes
      <4> HIDE DEF owned, fresh, full
      <4> QED
        BY <3>5, <4>1, <4>2
    <3>7. /\ e.at \in DOMAIN e.store.values
          /\ e.at \in DOMAIN st.values => e.store.values[e.at] = st.values[e.at]
          /\ ~fresh => old.data.capacity \in Nat /\ old.data.capacity >= ItemCapacity
          /\ Follows(st, e.store)
      BY <1>1, <2>6, EnsuredWritten
    <3>8. array.capacity \in Nat /\ array.capacity >= ItemCapacity
          /\ (~fresh => array.capacity = old.data.capacity)
      BY <3>2, <3>7, StoreAssumption DEF ArrayOf, ArrayData, NoData
    <3>9. /\ data.capacity \in Nat /\ data.capacity >= array.capacity
          /\ full => data.capacity > ItemCapacity
      <4>1. array \in Data
        BY <1>1, <2>6, <3>2, EnsuredEntry, ArrayOfGoodEntry
      <4>2. data.capacity = IF full THEN 2 * array.capacity ELSE array.capacity
        BY <3>2, <3>3, <4>1 DEF WithItem, Data
      <4> QED
        BY <3>8, <4>2, StoreAssumption
    <3>10. Follows(st, h.store)
      BY <1>2, <3>4, <3>7, <3>8, <3>9, WrittenFollows, StoreAssumption
    <3>11. ASSUME full
           PROVE  HasGrown(h.store, e.at)
      <4>1. PICK x : x = [name |-> old.name, type |-> "ARRAY", data |-> data]
        OBVIOUS
      <4>2. h.store.values = [e.store.values EXCEPT ![e.at] = x]
        BY <1>2, <3>4, <4>1 DEF Holding, Outcomes, Store
      <4>3. h.store.values[e.at] = x /\ e.at \in DOMAIN h.store.values
        BY <3>7, <4>2
      <4> QED
        BY <3>9, <3>11, <4>1, <4>3 DEF HasGrown
    <3>12. CASE full
      BY <2>1, <3>6, <3>10, <3>11, <3>12 DEF Grows
    <3>13. CASE ~full
      <4>1. Follows(e.store, h.store)
        <5>1. Follows(e.store, e.store)
          BY <3>7 DEF Follows
        <5> QED
          BY <1>2, <3>4, <3>7, <3>8, <3>9, <5>1, WrittenFollows, StoreAssumption
      <4>2. e.grown \subseteq Arrays(e.store)
        BY <1>2 DEF Arrays
      <4>3. o.grown = e.grown /\ o.store = h.store
        BY <3>6, <3>13
      <4> QED
        BY <1>2, <1>4, <2>1, <3>10, <4>1, <4>2, <4>3 DEF Grows
    <3> QED
      BY <3>12, <3>13
  <2> QED
    BY <2>1, <2>2, <2>3, <2>4, <2>5, <2>6
<1> QED
  BY <1>6, <1>7, <1>8


LEMMA CalledGrown ==
    ASSUME StoreInv, GrownInv, NEW n \in NsId, Exists(n), NEW o, NEW fails,
           Called(n, o, fails), Grows(ns[n], o, fails), FamilyInv
    PROVE  GrownInv'
<1>1. /\ ns' = [ns EXCEPT ![n] = o.store]
      /\ moved' = [moved EXCEPT ![n] = (@ \cup Replaced(o, fails)) \cap Arrays(o.store)]
  BY DEF Called
<1>2. /\ ns'[n] = o.store /\ \A m \in NsId : m # n => ns'[m] = ns[m]
      /\ moved'[n] = (moved[n] \cup Replaced(o, fails)) \cap Arrays(o.store)
      /\ \A m \in NsId : m # n => moved'[m] = moved[m]
  BY <1>1 DEF StoreInv, FamilyInv
<1>3. ASSUME NEW a \in moved'[n]
      PROVE  HasGrown(o.store, a)
  <2>1. CASE a \in moved[n]
    BY <1>2, <1>3, <2>1 DEF GrownInv, Grows, Follows
  <2>2. CASE a \in Replaced(o, fails)
    BY <1>2, <1>3, <2>2 DEF Replaced, Foreign, Grows
  <2> QED
    BY <1>2, <1>3, <2>1, <2>2
<1>4. \A m \in NsId : /\ ns'[m] # Gone => AtLeast(ns'[m])
                     /\ \A a \in moved'[m] : HasGrown(ns'[m], a)
  BY <1>2, <1>3 DEF GrownInv, Grows, Follows, Exists
<1>5. \A m \in NsId : (Exists(m)' <=> ns'[m] # Gone) /\ (AtLeast(ns[m])' <=> AtLeast(ns'[m]))
  BY DEF Exists, AtLeast, Gone
<1>6. \A m \in NsId : \A a : HasGrown(ns[m], a)' <=> HasGrown(ns'[m], a)
  BY DEF HasGrown
<1> QED
  BY <1>4, <1>5, <1>6 DEF GrownInv

LEMMA GrownInit == Init => GrownInv
  BY DEF Init, GrownInv, Exists

LEMMA GrownNext == FamilyInv /\ StoreInv /\ GrownInv /\ [Next]_vars => GrownInv'
<1> SUFFICES ASSUME FamilyInv, StoreInv, GrownInv, [Next]_vars
             PROVE  GrownInv'
  OBVIOUS
<1>1. CASE UNCHANGED <<ns, moved>>
  BY <1>1 DEF GrownInv, Exists, AtLeast, HasGrown, Gone
<1>2. ASSUME NEW n \in NsId, NEW st, ns' = [ns EXCEPT ![n] = st],
             \/ st = NewStore /\ moved' = moved /\ ~Exists(n)
             \/ st = Gone /\ moved' = [moved EXCEPT ![n] = {}]
      PROVE  GrownInv'
  <2>1. /\ ns'[n] = st /\ \A m \in NsId : m # n => ns'[m] = ns[m]
        /\ \A m \in NsId : m # n => moved'[m] = moved[m]
    BY <1>2 DEF StoreInv, FamilyInv
  <2>2. moved'[n] = {}
    <3>1. CASE st = Gone
      BY <1>2, <3>1, StoreAssumption DEF FamilyInv, NewStore, Gone
    <3>2. CASE ~Exists(n) /\ moved' = moved
      <4>1. \A a : ~HasGrown(Gone, a)
        BY StoreAssumption DEF HasGrown, Gone
      <4> QED
        BY <3>2, <4>1 DEF GrownInv, Exists
    <3> QED
      BY <1>2, <3>1, <3>2
  <2>3. st = Gone \/ AtLeast(st)
    BY <1>2, StoreAssumption DEF AtLeast, NewStore, Gone
  <2>4. \A m \in NsId : /\ ns'[m] # Gone => AtLeast(ns'[m])
                       /\ \A a \in moved'[m] : HasGrown(ns'[m], a)
    BY <2>1, <2>2, <2>3 DEF GrownInv, Exists
  <2>5. \A m \in NsId : (Exists(m)' <=> ns'[m] # Gone) /\ (AtLeast(ns[m])' <=> AtLeast(ns'[m]))
    BY DEF Exists, AtLeast, Gone
  <2>6. \A m \in NsId : \A a : HasGrown(ns[m], a)' <=> HasGrown(ns'[m], a)
    BY DEF HasGrown
  <2> QED
    BY <2>4, <2>5, <2>6 DEF GrownInv
<1>3. ASSUME NEW n \in NsId, New(n) \/ Free(n)
      PROVE  GrownInv'
  <2>1. CASE Free(n)
    BY <1>2, <2>1 DEF Free
  <2>2. CASE New(n)
    <3>1. /\ ns' = ns \/ ns' = [ns EXCEPT ![n] = NewStore]
          /\ moved' = moved /\ ~Exists(n)
      BY <2>2 DEF New
    <3> QED
      BY <1>1, <1>2, <3>1
  <2> QED
    BY <1>3, <2>1, <2>2
<1>4. ASSUME NEW n \in NsId, Exists(n), NEW d \in Name \cup {NoName}, NEW fails, NEW s,
             NEW type \in {"INT", "FLOAT", "BOOL"}, NEW k,
             \/ Called(n, StringSet(ns[n], d, s, fails), fails)
             \/ Called(n, NumberSet(ns[n], d, type, k, fails), fails)
             \/ Called(n, StringAppended(ns[n], d, s, fails), fails)
      PROVE  GrownInv'
  BY <1>4, CallsGrow, CalledGrown DEF StoreInv, GrownInv
<1>5. ASSUME NEW n \in NsId, NEW d \in Name,
             \/ \E s \in Str : SetString(n, d, s) \/ AppendString(n, d, s)
             \/ \E k \in Num, type \in NumType : SetNumber(n, d, type, k)
      PROVE  GrownInv'
  <2>1. Exists(n)
    BY <1>5 DEF SetString, AppendString, SetNumber, Storing
  <2>2. CASE \E s \in Str : SetString(n, d, s) \/ AppendString(n, d, s)
    BY <1>4, <2>1, <2>2 DEF SetString, AppendString
  <2>3. CASE \E k \in Num, type \in NumType : SetNumber(n, d, type, k)
    BY <1>4, <2>1, <2>3, StoreAssumption DEF SetNumber
  <2> QED
    BY <1>5, <2>2, <2>3
<1>6. CASE CopyEntry
  <2>1. PICK e : e = MergedEntry
    OBVIOUS
  <2>2. merge.dst \in NsId /\ Exists(merge.dst) /\ e.name \in Name \cup {NoName}
    BY <1>6, <2>1
    DEF CopyEntry, AtEntry, Merging, StoreInv, Merges, GoodStore, MergedEntry, GoodEntry, Entry
  <2>3. \E fails \in SUBSET Allocation :
           \/ Called(merge.dst, StringSet(ns[merge.dst], e.name, e.data.items[1], fails), fails)
           \/ /\ e.type \in {"INT", "FLOAT", "BOOL"}
              /\ Called(merge.dst, NumberSet(ns[merge.dst], e.name, e.type, e.data.num, fails), fails)
           \/ Called(merge.dst,
                     StringAppended(ns[merge.dst], e.name, e.data.items[merge.item], fails), fails)
    BY <1>6, <2>1 DEF CopyEntry
  <2> QED
    BY <1>4, <2>2, <2>3
<1>7. CASE \/ \E dst, src \in NsId : BeginMerge(dst, src)
           \/ ReplaceAllocator \/ MergeCrashes \/ SkipEntry \/ EndMerge \/ Stopped
           \/ UNCHANGED vars
  BY <1>1, <1>7
  DEF BeginMerge, ReplaceAllocator, MergeCrashes, SkipEntry, EndMerge, Stopped, vars
<1> QED
  BY <1>3, <1>5, <1>6, <1>7 DEF Next

(***************************************************************************)
(* Every block is released by the function that belongs to the one that    *)
(* made it, with one exception: an array that has grown by the C library's *)
(* realloc because the client gave none (clap_allocator.c:36-46, 77).      *)
(***************************************************************************)
THEOREM OneFamilyAlways == Spec => []OneFamily
<1>1. FamilyInv /\ GrownInv => OneFamily
  BY DEF FamilyInv, GrownInv, OneFamily
<1> QED
  BY <1>1, FamilyInit, StoreInit, GrownInit, FamilyNext, StoreNext, GrownNext, PTL DEF Spec

-----------------------------------------------------------------------------
(***************************************************************************)
(* MergeIsUnion.  As long as no allocation fails, every entry of every     *)
(* namespace is whole: it has its key, a value, and no string missing; and *)
(* a call succeeds and gives the key its value.                            *)
(***************************************************************************)
Whole(e) ==
    /\ e.name # NoName /\ e.type # "NONE"
    /\ \A i \in DOMAIN e.data.items : e.data.items[i] # NoStr
    /\ e.type = "ARRAY" => e.data.items # << >>

WholeStore(st) == \A i \in DOMAIN st.values : Whole(st.values[i])

LEMMA WholeIsKeyed == ASSUME NEW st, WholeStore(st) PROVE Keyed(st)
BY DEF WholeStore, Whole, Keyed

LEMMA EnsuredWhole ==
    ASSUME NEW st, GoodStore(st), WholeStore(st), NEW d \in Name,
           NEW e, e = Ensured(st, d, {})
    PROVE  /\ e \in Outcomes /\ e.ok /\ GoodStore(e.store)
           /\ Found(st, d, e) \/ Appended(st, d, e)
           /\ e.at \in DOMAIN e.store.values
           /\ e.store.values[e.at].name = d
           /\ GoodEntry(e.store.values[e.at])
           /\ \A i \in DOMAIN e.store.values :
                 i # e.at \/ e.store.values[i].type # "NONE" => Whole(e.store.values[i])
<1>1. e \in Outcomes /\ e.ok /\ GoodStore(e.store) /\ Keyed(e.store)
      /\ (Found(st, d, e) \/ Appended(st, d, e))
  BY WholeIsKeyed, EnsuredOutcome, EnsuredKeyed
<1>2. e.at \in DOMAIN e.store.values /\ GoodEntry(e.store.values[e.at])
  BY <1>1, EnsuredEntry
<1>3. CASE Found(st, d, e)
  BY <1>1, <1>2, <1>3, IndexOfType DEF Found, WholeStore, GoodStore
<1>4. CASE Appended(st, d, e)
  <2>1. e.store.values[e.at].name = d /\ e.store.values[e.at].type = "NONE"
    BY <1>1, <1>2, <1>4 DEF Appended, Keyed
  <2>2. st.values \in Seq(Entry) /\ e.store.values[e.at] \in Entry
    BY <1>2 DEF GoodStore, Store, GoodEntry
  <2>3. \A i \in DOMAIN e.store.values :
           i # e.at => i \in DOMAIN st.values /\ e.store.values[i] = st.values[i]
    <3>1. PICK x \in Entry : e.store.values = Append(st.values, x)
      BY <1>4, <2>2 DEF Appended
    <3> QED
      BY <1>4, <2>2, <3>1 DEF Appended
  <2> QED
    BY <1>1, <1>2, <1>4, <2>1, <2>3 DEF WholeStore
<1> QED
  BY <1>1, <1>3, <1>4

LEMMA WholeWritten ==
    ASSUME NEW st, GoodStore(st), WholeStore(st), NEW d \in Name,
           NEW e, e = Ensured(st, d, {}), NEW type, NEW data,
           NEW x, x = [name |-> d, type |-> type, data |-> data], GoodEntry(x), Whole(x),
           NEW o, o.store = Holding(e, type, data).store
    PROVE  /\ WholeStore(o.store)
           /\ Held(o.store) = [Held(st) EXCEPT ![d] = Told(x)]
<1>1. /\ e \in Outcomes /\ e.ok /\ GoodStore(e.store)
      /\ e.at \in DOMAIN e.store.values /\ e.store.values[e.at].name = d
      /\ \A i \in DOMAIN e.store.values :
            i # e.at \/ e.store.values[i].type # "NONE" => Whole(e.store.values[i])
  BY EnsuredWhole
<1>2. Held(o.store) = [Held(st) EXCEPT ![d] = Told(x)]
  BY <1>1, HoldingEffect
<1>3. o.store.values = [e.store.values EXCEPT ![e.at] = x]
  BY <1>1 DEF Holding, Outcomes, GoodStore, Store
<1>4. WholeStore(o.store)
  BY <1>1, <1>3 DEF WholeStore
<1> QED
  BY <1>2, <1>4

\* What a call in which nothing fails leaves: v for the key d.
Gives(st, d, o, v) ==
    /\ WholeStore(o.store)
    /\ Held(o.store) = [Held(st) EXCEPT ![d] = v]

LEMMA StringGiven ==
    ASSUME NEW st, GoodStore(st), WholeStore(st), NEW d \in Name, NEW s \in Str
    PROVE  Gives(st, d, StringSet(st, d, s, {}), Promise!StringOf(s))
<1>1. PICK o : o = StringSet(st, d, s, {})
  OBVIOUS
<1>2. PICK e : e = Ensured(st, d, {})
  OBVIOUS
<1>3. e \in Outcomes /\ e.ok
  BY <1>2, EnsuredWhole
<1>4. o.store = Holding(e, "STRING", StringData(s)).store
  BY <1>1, <1>2, <1>3 DEF StringSet, Holding, Outcomes
<1>5. PICK x : x = [name |-> d, type |-> "STRING", data |-> StringData(s)]
  OBVIOUS
<1>6. GoodEntry(x) /\ Told(x) = Promise!StringOf(s)
  BY <1>5, StringEntry
<1>7. Whole(x)
  BY <1>5, StoreAssumption DEF Whole, StringData, NoData
<1>8. WholeStore(o.store) /\ Held(o.store) = [Held(st) EXCEPT ![d] = Told(x)]
  BY <1>2, <1>4, <1>5, <1>6, <1>7, WholeWritten
<1> QED
  BY <1>1, <1>6, <1>8 DEF Gives

LEMMA NumberGiven ==
    ASSUME NEW st, GoodStore(st), WholeStore(st), NEW d \in Name,
           NEW type \in NumType, NEW k \in Num
    PROVE  Gives(st, d, NumberSet(st, d, type, k, {}), Promise!NumberOf(type, k))
<1>1. PICK o : o = NumberSet(st, d, type, k, {})
  OBVIOUS
<1>2. PICK e : e = Ensured(st, d, {})
  OBVIOUS
<1>3. e \in Outcomes /\ e.ok
  BY <1>2, EnsuredWhole
<1>4. o.store = Holding(e, type, NumberData(k)).store
  BY <1>1, <1>2, <1>3 DEF NumberSet, Holding, Outcomes
<1>5. PICK x : x = [name |-> d, type |-> type, data |-> NumberData(k)]
  OBVIOUS
<1>6. GoodEntry(x) /\ Told(x) = Promise!NumberOf(type, k)
  BY <1>5, NumberEntry
<1>7. Whole(x)
  BY <1>5, StoreAssumption DEF Whole, NumberData, NoData
<1>8. WholeStore(o.store) /\ Held(o.store) = [Held(st) EXCEPT ![d] = Told(x)]
  BY <1>2, <1>4, <1>5, <1>6, <1>7, WholeWritten
<1> QED
  BY <1>1, <1>6, <1>8 DEF Gives

LEMMA ItemGiven ==
    ASSUME NEW st, GoodStore(st), WholeStore(st), NEW d \in Name, NEW s \in Str
    PROVE  Gives(st, d, StringAppended(st, d, s, {}), Promise!ArrayWith(Held(st)[d], s))
<1>1. PICK o : o = StringAppended(st, d, s, {})
  OBVIOUS
<1>2. PICK e : e = Ensured(st, d, {})
  OBVIOUS
<1>3. /\ e \in Outcomes /\ e.ok
      /\ e.at \in DOMAIN e.store.values
      /\ e.store.values[e.at].name = d /\ GoodEntry(e.store.values[e.at])
      /\ e.store.values[e.at].type # "NONE" => Whole(e.store.values[e.at])
      /\ Found(st, d, e) \/ Appended(st, d, e)
  BY <1>2, EnsuredWhole
<1>4. PICK array : array = ArrayOf(e.store.values[e.at])
  OBVIOUS
<1>5. PICK data : data = WithItem(array, s)
  OBVIOUS
<1>6. o.store = Holding(e, "ARRAY", data).store
  <2>1. s # NoStr
    BY StoreAssumption
  <2> DEFINE fresh == e.store.values[e.at].type # "ARRAY"
             full == ItemsFull(array)
  <2>2. PICK h : h = Holding(e, "ARRAY", data)
    OBVIOUS
  <2>3. o = [h EXCEPT !.tried = @ \cup {"copy"} \cup (IF fresh \/ full THEN {"items"} ELSE {}),
                      !.grown = IF full THEN {e.at} ELSE @,
                      !.made = @ + ((IF fresh THEN 1 ELSE 0) + (IF s = NoStr THEN 0 ELSE 1))]
    <3>1. {} = {} /\ "copy" \notin {} /\ "items" \notin {}
      OBVIOUS
    <3> QED
      BY <1>1, <1>2, <1>3, <1>4, <1>5, <2>1, <2>2, <3>1, Zenon DEF StringAppended
  <2> HIDE DEF fresh, full
  <2>4. o.store = h.store
    BY <2>3
  <2> QED
    BY <1>3, <2>2, <2>4
<1>7. array \in Data /\ Len(array.items) <= array.capacity /\ array.capacity >= 1
  BY <1>3, <1>4, ArrayOfGoodEntry
<1>8. /\ data \in Data /\ data.items = Append(array.items, s)
      /\ data.capacity >= 1 /\ Len(data.items) <= data.capacity
  BY <1>5, <1>7, ItemHasRoom
<1>9. PICK x : x = [name |-> d, type |-> "ARRAY", data |-> data]
  OBVIOUS
<1>10. GoodEntry(x)
  BY <1>8, <1>9 DEF GoodEntry, Entry, ValueType
<1>11. array.items \in Seq(Str \cup {NoStr}) /\ \A i \in DOMAIN array.items : array.items[i] # NoStr
  <2>1. array.items \in Seq(Str \cup {NoStr})
    BY <1>7 DEF Data
  <2>2. CASE e.store.values[e.at].type = "ARRAY"
    BY <1>3, <1>4, <2>1, <2>2 DEF ArrayOf, Whole
  <2>3. CASE e.store.values[e.at].type # "ARRAY"
    <3>1. array.items = << >>
      BY <1>4, <2>3 DEF ArrayOf, ArrayData, NoData
    <3> QED
      BY <2>1, <3>1
  <2> QED
    BY <2>2, <2>3
<1>12. Whole(x)
  <2>1. /\ data.items # << >>
        /\ \A i \in DOMAIN data.items : data.items[i] # NoStr
    BY <1>8, <1>11, StoreAssumption
  <2> QED
    BY <1>9, <2>1, StoreAssumption DEF Whole
<1>13. WholeStore(o.store) /\ Held(o.store) = [Held(st) EXCEPT ![d] = Told(x)]
  BY <1>2, <1>6, <1>9, <1>10, <1>12, WholeWritten
<1>14. Told(x) = Promise!ArrayWith(Held(st)[d], s)
  BY <1>3, <1>4, <1>8, <1>9, ArrayTold
<1> QED
  BY <1>1, <1>13, <1>14 DEF Gives

(***************************************************************************)
(* What a merge that is at the item j of the entry k of src has taken from *)
(* it: the entries before k, and the items before j of an array.  Of two   *)
(* entries with one key the first counts, as it does for find_value.       *)
(***************************************************************************)
First(st, d) == Min(IndexOf(st.values, d))

Part(e, j) == IF j = 1 THEN NotHeld ELSE [Told(e) EXCEPT !.items = SubSeq(@, 1, j - 1)]

Brought(st, k, j) ==
    [d \in Name |-> IF IndexOf(st.values, d) = {} \/ First(st, d) > k THEN NotHeld
                    ELSE IF First(st, d) < k THEN Told(st.values[First(st, d)])
                    ELSE Part(st.values[k], j)]

SoFar(dst, src, k, j, held) ==
    /\ Held(dst) = Union(held, Brought(src, k, j))
    /\ k \in 1..(Len(src.values) + 1)
    /\ j > 1 => /\ k \in DOMAIN src.values /\ k = First(src, src.values[k].name)
                /\ src.values[k].type = "ARRAY" /\ held[src.values[k].name] = NotHeld
                /\ j <= Len(src.values[k].data.items) + 1

UnionInv ==
    failures = 0 =>
        /\ \A n \in NsId : WholeStore(ns[n])
        /\ merge # NoMerge =>
              SoFar(ns[merge.dst], ns[merge.src], merge.entry, merge.item, before)

\* In a whole store an entry holds something.
LEMMA WholeHeld ==
    ASSUME NEW st, GoodStore(st), WholeStore(st), NEW d \in Name
    PROVE  /\ IndexOf(st.values, d) = {} <=> Held(st)[d] = NotHeld
           /\ IndexOf(st.values, d) # {} => /\ First(st, d) \in DOMAIN st.values
                                            /\ st.values[First(st, d)].name = d
                                            /\ Told(st.values[First(st, d)]) # NotHeld
                                            /\ Held(st)[d] = Told(st.values[First(st, d)])
<1>1. CASE IndexOf(st.values, d) = {}
  BY <1>1 DEF Held
<1>2. CASE IndexOf(st.values, d) # {}
  <2>1. First(st, d) \in DOMAIN st.values /\ st.values[First(st, d)].name = d
    BY <1>2, IndexOfType DEF GoodStore, First
  <2>2. GoodEntry(st.values[First(st, d)]) /\ st.values[First(st, d)].type # "NONE"
    BY <2>1 DEF GoodStore, WholeStore, Whole
  <2>3. Told(st.values[First(st, d)]).type # "ABSENT"
    BY <2>2, StoreAssumption DEF Told, GoodEntry
  <2>4. Held(st)[d] = Told(st.values[First(st, d)])
    BY <1>2 DEF Held, First
  <2> QED
    BY <1>2, <2>1, <2>3, <2>4 DEF NotHeld
<1> QED
  BY <1>1, <1>2

\* The entry a merge is at.
LEMMA AtOneEntry ==
    ASSUME NEW st, GoodStore(st), WholeStore(st), NEW k \in DOMAIN st.values
    PROVE  /\ GoodEntry(st.values[k]) /\ Whole(st.values[k])
           /\ st.values[k].name \in Name
           /\ k \in Nat \ {0} /\ k <= Len(st.values) /\ Len(st.values) \in Nat
           /\ First(st, st.values[k].name) \in DOMAIN st.values
           /\ First(st, st.values[k].name) <= k
<1>1. /\ GoodEntry(st.values[k]) /\ Whole(st.values[k]) /\ st.values \in Seq(Entry)
      /\ st \in Store
  BY DEF GoodStore, WholeStore, Store
<1>2. st.values[k].name \in Name
  BY <1>1 DEF Whole, GoodEntry, Entry
<1>3. k \in IndexOf(st.values, st.values[k].name)
  BY <1>1 DEF IndexOf, Whole
<1>4. /\ First(st, st.values[k].name) \in DOMAIN st.values
      /\ First(st, st.values[k].name) <= k
  BY <1>1, <1>3, IndexOfType DEF First
<1>5. DOMAIN st.values = 1..Len(st.values) /\ Len(st.values) \in Nat
  BY <1>1
<1> QED
  BY <1>1, <1>2, <1>4, <1>5

LEMMA BroughtNext ==
    ASSUME NEW st, GoodStore(st), WholeStore(st), NEW k \in DOMAIN st.values,
           NEW j \in Nat \ {0}, NEW e, e = st.values[k]
    PROVE  /\ \A c \in Name : c # e.name =>
                 /\ Brought(st, k + 1, 1)[c] = Brought(st, k, j)[c]
                 /\ Brought(st, k, j + 1)[c] = Brought(st, k, j)[c]
           /\ First(st, e.name) = k => /\ Brought(st, k, j)[e.name] = Part(e, j)
                                       /\ Brought(st, k + 1, 1)[e.name] = Told(e)
           /\ First(st, e.name) # k =>
                 /\ Brought(st, k, j)[e.name] # NotHeld
                 /\ Brought(st, k + 1, 1)[e.name] = Brought(st, k, j)[e.name]
<1>1. /\ e.name \in Name /\ k \in Nat \ {0}
      /\ First(st, e.name) \in DOMAIN st.values /\ First(st, e.name) <= k
  BY AtOneEntry
<1>2. ASSUME NEW c \in Name, IndexOf(st.values, c) # {}
      PROVE  /\ First(st, c) \in Nat
             /\ First(st, c) = k => c = e.name
             /\ Told(st.values[First(st, c)]) # NotHeld
  <2>1. First(st, c) \in DOMAIN st.values /\ st.values[First(st, c)].name = c
        /\ Told(st.values[First(st, c)]) # NotHeld
    BY <1>2, WholeHeld
  <2>2. st.values \in Seq(Entry)
    BY DEF GoodStore, Store
  <2> QED
    BY <2>1, <2>2
<1>3. k \in IndexOf(st.values, e.name)
  BY AtOneEntry DEF IndexOf, Whole
<1>4. ASSUME NEW c \in Name, c # e.name
      PROVE  /\ Brought(st, k + 1, 1)[c] = Brought(st, k, j)[c]
             /\ Brought(st, k, j + 1)[c] = Brought(st, k, j)[c]
  <2>1. CASE IndexOf(st.values, c) = {}
    BY <2>1 DEF Brought
  <2>2. CASE IndexOf(st.values, c) # {}
    <3>1. First(st, c) \in Nat /\ First(st, c) # k
      BY <1>2, <1>4, <2>2
    <3>2. First(st, c) > k + 1 => First(st, c) > k
      BY <1>1, <3>1
    <3>3. CASE First(st, c) > k
      <4>1. First(st, c) > k + 1 \/ First(st, c) = k + 1
        BY <1>1, <3>1, <3>3
      <4>2. ~(First(st, c) < k + 1) /\ ~(k + 1 < k + 1)
        BY <1>1, <3>1, <3>3
      <4>3. Brought(st, k, j)[c] = NotHeld /\ Brought(st, k, j + 1)[c] = NotHeld
        BY <3>3 DEF Brought
      <4>4. Brought(st, k + 1, 1)[c] = NotHeld
        BY <4>1, <4>2 DEF Brought, Part
      <4> QED
        BY <4>3, <4>4
    <3>4. CASE First(st, c) < k
      <4>1. ~(First(st, c) > k) /\ ~(First(st, c) > k + 1) /\ First(st, c) < k + 1
        BY <1>1, <3>1, <3>4
      <4> QED
        BY <2>2, <3>4, <4>1 DEF Brought
    <3> QED
      BY <1>1, <3>1, <3>3, <3>4
  <2> QED
    BY <2>1, <2>2
<1>5. ASSUME First(st, e.name) = k
      PROVE  Brought(st, k, j)[e.name] = Part(e, j) /\ Brought(st, k + 1, 1)[e.name] = Told(e)
  BY <1>1, <1>3, <1>5 DEF Brought
<1>6. ASSUME First(st, e.name) # k
      PROVE  /\ Brought(st, k, j)[e.name] # NotHeld
             /\ Brought(st, k + 1, 1)[e.name] = Brought(st, k, j)[e.name]
  <2>1. First(st, e.name) \in Nat /\ First(st, e.name) < k
    BY <1>1, <1>2, <1>3, <1>6
  <2>2. /\ Brought(st, k, j)[e.name] = Told(st.values[First(st, e.name)])
        /\ Brought(st, k + 1, 1)[e.name] = Told(st.values[First(st, e.name)])
    BY <1>1, <1>3, <2>1 DEF Brought
  <2> QED
    BY <1>1, <1>2, <1>3, <2>2
<1> QED
  BY <1>4, <1>5, <1>6

\* One key is given what the source now tells of it, the destination having none.
LEMMA UnionGrows ==
    ASSUME NEW held, NEW b, NEW c, NEW d \in Name, held[d] = NotHeld,
           \A x \in Name : x # d => c[x] = b[x],
           NEW h, h = Union(held, b), NEW v, c[d] = v, NEW h2, h2 = [h EXCEPT ![d] = v]
    PROVE  h2 = Union(held, c)
BY DEF Union

LEMMA EntryPassed ==
    ASSUME NEW dst, GoodStore(dst), WholeStore(dst), NEW src, GoodStore(src), WholeStore(src),
           NEW k \in DOMAIN src.values, NEW j \in Nat \ {0}, NEW held,
           SoFar(dst, src, k, j, held), NEW e, e = src.values[k],
           \/ j = 1 /\ IndexOf(dst.values, e.name) # {}
           \/ e.type = "ARRAY" /\ j > Len(e.data.items)
    PROVE  SoFar(dst, src, k + 1, 1, held)
<1>1. /\ GoodEntry(e) /\ Whole(e) /\ e.name \in Name
      /\ k \in Nat \ {0} /\ k <= Len(src.values) /\ Len(src.values) \in Nat
  BY AtOneEntry
<1>2. Union(held, Brought(src, k + 1, 1)) = Union(held, Brought(src, k, j))
  <2>1. \A c \in Name : c # e.name => Brought(src, k + 1, 1)[c] = Brought(src, k, j)[c]
    BY BroughtNext
  <2>2. \/ Brought(src, k + 1, 1)[e.name] = Brought(src, k, j)[e.name]
        \/ held[e.name] # NotHeld
    <3>1. CASE First(src, e.name) # k
      BY <3>1, BroughtNext
    <3>2. CASE First(src, e.name) = k /\ j = 1 /\ IndexOf(dst.values, e.name) # {}
      <4>1. Brought(src, k, j)[e.name] = NotHeld
        <5>1. Part(e, j) = NotHeld
          BY <3>2 DEF Part
        <5> QED
          BY <3>2, <5>1, BroughtNext
      <4>2. Union(held, Brought(src, k, j))[e.name] # NotHeld
        BY <1>1, <3>2, WholeHeld DEF SoFar
      <4> QED
        BY <1>1, <4>1, <4>2 DEF Union
    <3>3. CASE First(src, e.name) = k /\ e.type = "ARRAY" /\ j > Len(e.data.items)
      <4>1. e.data.items \in Seq(Str \cup {NoStr}) /\ Len(e.data.items) \in Nat
        BY <1>1 DEF GoodEntry, Entry, Data
      <4>2. Len(e.data.items) # 0
        BY <1>1, <3>3, <4>1 DEF Whole
      <4>3. j = Len(e.data.items) + 1 /\ j # 1
        BY <3>3, <4>1, <4>2 DEF SoFar
      <4>4. SubSeq(e.data.items, 1, j - 1) = e.data.items
        BY <4>1, <4>3
      <4>5. Part(e, j) = Told(e)
        BY <3>3, <4>3, <4>4 DEF Part, Told
      <4> QED
        BY <3>3, <4>5, BroughtNext
    <3> QED
      BY <3>1, <3>2, <3>3
  <2> QED
    BY <2>1, <2>2 DEF Union
<1> QED
  BY <1>1, <1>2 DEF SoFar

\* The destination has no entry of the key: neither had it one, nor one before k.
LEMMA NotYet ==
    ASSUME NEW dst, GoodStore(dst), WholeStore(dst), NEW src, GoodStore(src), WholeStore(src),
           NEW k \in DOMAIN src.values, NEW j \in Nat \ {0}, NEW held,
           SoFar(dst, src, k, j, held), NEW e, e = src.values[k],
           j = 1 => IndexOf(dst.values, e.name) = {}
    PROVE  /\ k = First(src, e.name)
           /\ j = 1 => held[e.name] = NotHeld /\ Held(dst)[e.name] = NotHeld
<1>1. e.name \in Name
  BY AtOneEntry
<1>2. CASE j = 1
  <2>1. Held(dst)[e.name] = NotHeld
    BY <1>1, <1>2, WholeHeld
  <2>2. Union(held, Brought(src, k, j))[e.name] = NotHeld
    BY <2>1 DEF SoFar
  <2>3. held[e.name] = NotHeld /\ Brought(src, k, j)[e.name] = NotHeld
    BY <1>1, <2>2 DEF Union
  <2> QED
    BY <2>1, <2>3, BroughtNext
<1>3. CASE j # 1
  BY <1>3 DEF SoFar
<1> QED
  BY <1>2, <1>3

LEMMA EntryCopied ==
    ASSUME NEW dst, GoodStore(dst), WholeStore(dst), NEW src, GoodStore(src), WholeStore(src),
           NEW k \in DOMAIN src.values, NEW held, NEW j, j = 1,
           SoFar(dst, src, k, j, held), NEW e, e = src.values[k],
           IndexOf(dst.values, e.name) = {},
           NEW dst2, Held(dst2) = [Held(dst) EXCEPT ![e.name] = Told(e)]
    PROVE  SoFar(dst2, src, k + 1, 1, held)
<1>1. /\ e.name \in Name
      /\ k \in Nat \ {0} /\ k <= Len(src.values) /\ Len(src.values) \in Nat
  BY AtOneEntry
<1>2. k = First(src, e.name) /\ held[e.name] = NotHeld
  BY NotYet
<1>3. Brought(src, k + 1, 1)[e.name] = Told(e)
  BY <1>2, BroughtNext
<1>4. \A c \in Name : c # e.name => Brought(src, k + 1, 1)[c] = Brought(src, k, j)[c]
  BY BroughtNext
<1>5. Held(dst2) = Union(held, Brought(src, k + 1, 1))
  <2>1. Held(dst) = Union(held, Brought(src, k, j))
    BY DEF SoFar
  <2> QED
    <3>1. PICK b, c : b = Brought(src, k, j) /\ c = Brought(src, k + 1, 1)
      OBVIOUS
    <3>2. PICK d \in Name : d = e.name
      BY <1>1
    <3>3. PICK v : v = Told(e)
      OBVIOUS
    <3>4. /\ held[d] = NotHeld /\ c[d] = v /\ \A x \in Name : x # d => c[x] = b[x]
          /\ Held(dst) = Union(held, b) /\ Held(dst2) = [Held(dst) EXCEPT ![d] = v]
      BY <1>2, <1>3, <1>4, <2>1, <3>1, <3>2, <3>3
    <3>5. Held(dst2) = Union(held, c)
      BY <3>4, UnionGrows
    <3> QED
      BY <3>1, <3>5
<1> QED
  BY <1>1, <1>5 DEF SoFar

LEMMA ItemCopied ==
    ASSUME NEW dst, GoodStore(dst), WholeStore(dst), NEW src, GoodStore(src), WholeStore(src),
           NEW k \in DOMAIN src.values, NEW held, NEW e, e = src.values[k], e.type = "ARRAY",
           NEW j \in DOMAIN e.data.items, SoFar(dst, src, k, j, held),
           j = 1 => IndexOf(dst.values, e.name) = {},
           NEW dst2, Held(dst2) = [Held(dst) EXCEPT ![e.name] =
                                     Promise!ArrayWith(Held(dst)[e.name], e.data.items[j])]
    PROVE  SoFar(dst2, src, k, j + 1, held)
<1>1. /\ e.name \in Name /\ GoodEntry(e)
      /\ k \in Nat \ {0} /\ k <= Len(src.values) /\ Len(src.values) \in Nat
  BY AtOneEntry
<1>2. PICK items : items = e.data.items
  OBVIOUS
<1>3. /\ items \in Seq(Str \cup {NoStr}) /\ Len(items) \in Nat
      /\ j \in Nat \ {0} /\ j <= Len(items)
  BY <1>1, <1>2 DEF GoodEntry, Entry, Data
<1>4. /\ k = First(src, e.name)
      /\ j = 1 => held[e.name] = NotHeld /\ Held(dst)[e.name] = NotHeld
  BY <1>3, NotYet
<1>5. /\ Brought(src, k, j)[e.name] = Part(e, j)
      /\ Brought(src, k, j + 1)[e.name] = Part(e, j + 1)
      /\ \A c \in Name : c # e.name => Brought(src, k, j + 1)[c] = Brought(src, k, j)[c]
  BY <1>3, <1>4, BroughtNext
<1>6. Told(e) = [type |-> "ARRAY", items |-> items, num |-> 0]
  BY <1>2 DEF Told
<1>7. Part(e, j + 1) = [type |-> "ARRAY", items |-> SubSeq(items, 1, j), num |-> 0]
  <2>1. j + 1 # 1 /\ (j + 1) - 1 = j
    BY <1>3
  <2>2. Part(e, j + 1) = [Told(e) EXCEPT !.items = SubSeq(@, 1, j)]
    BY <2>1 DEF Part
  <2>3. PICK r : r = Told(e)
    OBVIOUS
  <2>4. r = [type |-> "ARRAY", items |-> items, num |-> 0]
    BY <1>6, <2>3
  <2>5. Part(e, j + 1) = [r EXCEPT !.items = SubSeq(@, 1, j)]
    BY <2>2, <2>3
  <2> QED
    BY <2>4, <2>5
<1>10. Held(dst) = Union(held, Brought(src, k, j))
  BY DEF SoFar
<1>12. ASSUME held[e.name] = NotHeld,
              Promise!ArrayWith(Held(dst)[e.name], items[j]) = Part(e, j + 1)
       PROVE  Held(dst2) = Union(held, Brought(src, k, j + 1))
  <2>1. PICK b, c : b = Brought(src, k, j) /\ c = Brought(src, k, j + 1)
    OBVIOUS
  <2>2. PICK d \in Name : d = e.name
    BY <1>1
  <2>3. PICK v : v = Part(e, j + 1)
    OBVIOUS
  <2>4. /\ held[d] = NotHeld /\ c[d] = v /\ \A x \in Name : x # d => c[x] = b[x]
        /\ Held(dst) = Union(held, b) /\ Held(dst2) = [Held(dst) EXCEPT ![d] = v]
    BY <1>2, <1>5, <1>10, <1>12, <2>1, <2>2, <2>3
  <2>6. PICK h, h2 : h = Held(dst) /\ h2 = Held(dst2)
    OBVIOUS
  <2>7. h = Union(held, b) /\ h2 = [h EXCEPT ![d] = v]
    BY <2>4, <2>6
  <2>5. Held(dst2) = Union(held, c)
    BY <2>4, <2>6, <2>7, UnionGrows
  <2> QED
    BY <2>1, <2>5
<1>8. CASE j = 1
  <2>1. SubSeq(items, 1, j) = <<items[j]>>
    <3>1. SubSeq(items, 1, 1) = Append(SubSeq(items, 1, 0), items[1])
      BY <1>3, <1>8
    <3>2. SubSeq(items, 1, 0) = << >>
      BY <1>3
    <3>3. Append(<< >>, items[1]) = <<items[1]>>
      OBVIOUS
    <3> QED
      BY <1>8, <3>1, <3>2, <3>3
  <2>2. PICK x : x = Held(dst)[e.name]
    OBVIOUS
  <2>3. x.type # "ARRAY"
    <3>1. x = NotHeld
      BY <1>4, <1>8, <2>2
    <3> QED
      BY <3>1 DEF NotHeld
  <2>4. Promise!ArrayWith(x, items[j]) = [type |-> "ARRAY", num |-> 0, items |-> <<items[j]>>]
    BY <2>3 DEF Promise!ArrayWith
  <2>5. Promise!ArrayWith(x, items[j]) = Part(e, j + 1)
    BY <1>7, <2>1, <2>4
  <2>6. Held(dst2) = Union(held, Brought(src, k, j + 1))
    BY <1>4, <1>8, <1>12, <1>2, <2>2, <2>5
  <2> QED
    BY <1>1, <1>2, <1>3, <1>4, <1>8, <2>6 DEF SoFar
<1>9. CASE j # 1
  <2>1. Part(e, j) = [type |-> "ARRAY", items |-> SubSeq(items, 1, j - 1), num |-> 0]
    <3>1. Part(e, j) = [Told(e) EXCEPT !.items = SubSeq(@, 1, j - 1)]
      BY <1>9 DEF Part
    <3>2. PICK r : r = Told(e)
      OBVIOUS
    <3>3. r = [type |-> "ARRAY", items |-> items, num |-> 0]
      BY <1>6, <3>2
    <3>4. Part(e, j) = [r EXCEPT !.items = SubSeq(@, 1, j - 1)]
      BY <3>1, <3>2
    <3> QED
      BY <3>3, <3>4
  <2>2. Append(SubSeq(items, 1, j - 1), items[j]) = SubSeq(items, 1, j)
    BY <1>3
  <2>3. held[e.name] = NotHeld
    BY <1>3, <1>9 DEF SoFar
  <2>4. Held(dst)[e.name] = Part(e, j)
    BY <1>1, <1>5, <2>3 DEF SoFar, Union
  <2>5. PICK x : x = Held(dst)[e.name]
    OBVIOUS
  <2>7. x = [type |-> "ARRAY", items |-> SubSeq(items, 1, j - 1), num |-> 0]
    BY <2>1, <2>4, <2>5
  <2>8. Promise!ArrayWith(x, items[j]) =
          [type |-> "ARRAY", num |-> 0, items |-> Append(SubSeq(items, 1, j - 1), items[j])]
    BY <2>7 DEF Promise!ArrayWith
  <2>9. Promise!ArrayWith(x, items[j]) = Part(e, j + 1)
    BY <1>7, <2>2, <2>8
  <2>6. Held(dst2) = Union(held, Brought(src, k, j + 1))
    BY <2>3, <1>12, <1>2, <2>5, <2>9
  <2> QED
    BY <1>1, <1>2, <1>3, <1>4, <2>3, <2>6 DEF SoFar
<1> QED
  BY <1>8, <1>9

-----------------------------------------------------------------------------
LEMMA UnionInvPrimed ==
    /\ \A n \in NsId : WholeStore(ns'[n])
    /\ merge' # NoMerge =>
          SoFar(ns'[merge'.dst], ns'[merge'.src], merge'.entry, merge'.item, before')
    => UnionInv'
BY DEF UnionInv, WholeStore, Whole, SoFar, Held, IndexOf, Told, Union, Brought, First, Part,
       NotHeld, NoMerge

LEMMA WholeGone == WholeStore(Gone) /\ WholeStore(NewStore)
BY DEF WholeStore, NewStore, Gone

LEMMA UnionInit == Init => UnionInv
  BY WholeGone DEF Init, UnionInv

\* A call, and the allocations of it that fail if none has failed after it.
LEMMA CalledWhole ==
    ASSUME StoreInv, CrashInv, failures' = 0,
           NEW n \in NsId, NEW o, NEW fails \in SUBSET Allocation, Called(n, o, fails)
    PROVE  /\ failures = 0 /\ fails = {}
           /\ ns' = [ns EXCEPT ![n] = o.store]
           /\ \A m \in NsId : ns'[m] = IF m = n THEN o.store ELSE ns[m]
<1>1. /\ failures' = failures + Cardinality(fails) /\ failures \in Nat
      /\ Cardinality(fails) \in Nat /\ (Cardinality(fails) = 0 => fails = {})
  BY NoneFailed DEF Called, Failing, CrashInv
<1> QED
  BY <1>1 DEF Called, StoreInv

LEMMA ClientCallUnion ==
    ASSUME StoreInv, CrashInv, UnionInv, failures' = 0, NEW n \in NsId, NEW d \in Name,
           \/ \E s \in Str : SetString(n, d, s) \/ AppendString(n, d, s)
           \/ \E k \in Num, type \in NumType : SetNumber(n, d, type, k)
    PROVE  UnionInv'
<1>1. Exists(n) /\ merge = NoMerge /\ merge' = merge /\ GoodStore(ns[n])
  BY DEF SetString, AppendString, SetNumber, Storing, Idle, StoreInv
<1>2. ASSUME NEW o, NEW fails \in SUBSET Allocation, Called(n, o, fails),
             WholeStore(ns[n]) /\ fails = {} => WholeStore(o.store)
      PROVE  UnionInv'
  <2>1. /\ failures = 0 /\ fails = {}
        /\ \A m \in NsId : ns'[m] = IF m = n THEN o.store ELSE ns[m]
    BY <1>2, CalledWhole
  <2>2. \A m \in NsId : WholeStore(ns'[m])
    BY <1>2, <2>1 DEF UnionInv
  <2> QED
    BY <1>1, <2>2, UnionInvPrimed
<1>3. ASSUME NEW s \in Str, SetString(n, d, s)
      PROVE  UnionInv'
  <2>1. PICK fails \in SUBSET StringAllocation : Called(n, StringSet(ns[n], d, s, fails), fails)
    BY <1>3 DEF SetString
  <2>2. fails \in SUBSET Allocation
    BY DEF Allocation
  <2> QED
    BY <1>1, <1>2, <2>1, <2>2, StringGiven DEF Gives
<1>4. ASSUME NEW s \in Str, AppendString(n, d, s)
      PROVE  UnionInv'
  <2>1. PICK fails \in SUBSET Allocation : Called(n, StringAppended(ns[n], d, s, fails), fails)
    BY <1>4 DEF AppendString
  <2> QED
    BY <1>1, <1>2, <2>1, ItemGiven DEF Gives
<1>5. ASSUME NEW k \in Num, NEW type \in NumType, SetNumber(n, d, type, k)
      PROVE  UnionInv'
  <2>1. PICK fails \in SUBSET EnsureAllocation : Called(n, NumberSet(ns[n], d, type, k, fails), fails)
    BY <1>5 DEF SetNumber
  <2>2. fails \in SUBSET Allocation
    BY DEF Allocation, StringAllocation
  <2> QED
    BY <1>1, <1>2, <2>1, <2>2, NumberGiven DEF Gives
<1> QED
  BY <1>3, <1>4, <1>5

\* The two stores of a merge, and the entry it is at, if no allocation has failed.
LEMMA MergedWhole ==
    ASSUME StoreInv, UnionInv, failures = 0, AtEntry
    PROVE  /\ merge \in Merges /\ merge # NoMerge /\ merge.dst # merge.src
           /\ merge.dst \in NsId /\ merge.src \in NsId
           /\ merge.entry \in DOMAIN ns[merge.src].values /\ merge.item \in Nat \ {0}
           /\ GoodStore(ns[merge.dst]) /\ WholeStore(ns[merge.dst])
           /\ GoodStore(ns[merge.src]) /\ WholeStore(ns[merge.src])
           /\ SoFar(ns[merge.dst], ns[merge.src], merge.entry, merge.item, before)
           /\ GoodEntry(MergedEntry) /\ Whole(MergedEntry) /\ MergedEntry.name \in Name
<1>1. /\ merge \in Merges /\ merge # NoMerge /\ merge.dst # merge.src
      /\ merge.dst \in NsId /\ merge.src \in NsId
      /\ merge.entry \in DOMAIN ns[merge.src].values /\ merge.item \in Nat \ {0}
      /\ GoodStore(ns[merge.dst]) /\ GoodStore(ns[merge.src])
  BY DEF AtEntry, Merging, StoreInv, Merges
<1>2. /\ WholeStore(ns[merge.dst]) /\ WholeStore(ns[merge.src])
      /\ SoFar(ns[merge.dst], ns[merge.src], merge.entry, merge.item, before)
  BY <1>1 DEF UnionInv
<1> QED
  BY <1>1, <1>2, AtOneEntry DEF MergedEntry

LEMMA NextEntryIs ==
    ASSUME merge \in Merges
    PROVE  /\ NextEntry # NoMerge
           /\ NextEntry.dst = merge.dst /\ NextEntry.src = merge.src
           /\ NextEntry.entry = merge.entry + 1 /\ NextEntry.item = 1
<1>1. PICK m : m = [merge EXCEPT !.entry = @ + 1]
  OBVIOUS
<1>2. m \in Merges /\ m.dst = merge.dst /\ m.src = merge.src /\ m.entry = merge.entry + 1
  BY <1>1 DEF Merges
<1>3. NextEntry = [m EXCEPT !.item = 1]
  BY <1>1 DEF NextEntry
<1>4. NoMerge.entry = 0
  BY DEF NoMerge
<1>5. merge.entry \in Nat
  BY DEF Merges
<1>6. NextEntry.entry = m.entry /\ NextEntry.dst = m.dst /\ NextEntry.src = m.src /\ NextEntry.item = 1
  BY <1>2, <1>3 DEF Merges
<1> QED
  BY <1>2, <1>4, <1>5, <1>6

LEMMA SkipUnion ==
    ASSUME StoreInv, UnionInv, failures = 0, SkipEntry
    PROVE  UnionInv'
<1> DEFINE e == MergedEntry
           dst == ns[merge.dst]
           src == ns[merge.src]
<1>1. AtEntry /\ ns' = ns /\ before' = before /\ merge' = NextEntry
  BY DEF SkipEntry
<1>2. /\ merge \in Merges /\ merge # NoMerge
      /\ merge.entry \in DOMAIN src.values /\ merge.item \in Nat \ {0}
      /\ GoodStore(dst) /\ WholeStore(dst) /\ GoodStore(src) /\ WholeStore(src)
      /\ SoFar(dst, src, merge.entry, merge.item, before)
      /\ GoodEntry(e) /\ Whole(e) /\ e = src.values[merge.entry]
  BY <1>1, MergedWhole DEF MergedEntry
<1>3. \/ merge.item = 1 /\ IndexOf(dst.values, e.name) # {}
      \/ e.type = "ARRAY" /\ merge.item > Len(e.data.items)
  BY <1>2 DEF SkipEntry, KeepsEntry, Whole
<1>4. SoFar(dst, src, merge.entry + 1, 1, before)
  <2> HIDE DEF e, dst, src
  <2> QED
    BY <1>2, <1>3, EntryPassed
<1>5. \A n \in NsId : WholeStore(ns'[n])
  BY <1>1 DEF UnionInv
<1>6. SoFar(ns'[merge'.dst], ns'[merge'.src], merge'.entry, merge'.item, before')
  BY <1>1, <1>2, <1>4, NextEntryIs
<1> QED
  BY <1>5, <1>6, UnionInvPrimed

LEMMA CopyUnion ==
    ASSUME StoreInv, CrashInv, UnionInv, failures' = 0, CopyEntry
    PROVE  UnionInv'
<1> DEFINE e == MergedEntry
           dst == ns[merge.dst]
           src == ns[merge.src]
<1>1. PICK fails \in SUBSET Allocation :
         \/ /\ e.type = "STRING"
            /\ Called(merge.dst, StringSet(dst, e.name, e.data.items[1], fails), fails)
            /\ merge' = NextEntry
         \/ /\ e.type \in {"INT", "FLOAT", "BOOL"}
            /\ Called(merge.dst, NumberSet(dst, e.name, e.type, e.data.num, fails), fails)
            /\ merge' = NextEntry
         \/ /\ e.type = "ARRAY" /\ merge.item \in DOMAIN e.data.items
            /\ Called(merge.dst,
                      StringAppended(dst, e.name, e.data.items[merge.item], fails), fails)
            /\ merge' = [merge EXCEPT !.item = @ + 1]
  BY DEF CopyEntry
<1>2. AtEntry /\ before' = before /\ merge.dst \in NsId
      /\ (merge.item = 1 => IndexOf(dst.values, e.name) = {})
  BY DEF CopyEntry, KeepsEntry, AtEntry, Merging, StoreInv, Merges
<1>3. failures = 0 /\ fails = {}
  BY <1>1, <1>2, CalledWhole
<1>4. /\ merge \in Merges /\ merge # NoMerge /\ merge.dst # merge.src
      /\ merge.dst \in NsId /\ merge.src \in NsId
      /\ merge.entry \in DOMAIN src.values /\ merge.item \in Nat \ {0}
      /\ GoodStore(dst) /\ WholeStore(dst) /\ GoodStore(src) /\ WholeStore(src)
      /\ SoFar(dst, src, merge.entry, merge.item, before)
      /\ GoodEntry(e) /\ Whole(e) /\ e.name \in Name /\ e = src.values[merge.entry]
  BY <1>2, <1>3, MergedWhole DEF MergedEntry
<1>5. ASSUME NEW o, NEW v, Called(merge.dst, o, fails), Gives(dst, e.name, o, v),
             merge'.dst = merge.dst, merge'.src = merge.src, merge' # NoMerge,
             Held(o.store) = [Held(dst) EXCEPT ![e.name] = v]
                => SoFar(o.store, src, merge'.entry, merge'.item, before)
      PROVE  UnionInv'
  <2>1. \A m \in NsId : ns'[m] = IF m = merge.dst THEN o.store ELSE ns[m]
    BY <1>4, <1>5, CalledWhole
  <2>2. \A m \in NsId : WholeStore(ns'[m])
    BY <1>3, <1>5, <2>1 DEF UnionInv, Gives
  <2>3. ns'[merge'.dst] = o.store /\ ns'[merge'.src] = src
    BY <1>4, <1>5, <2>1
  <2>4. SoFar(ns'[merge'.dst], ns'[merge'.src], merge'.entry, merge'.item, before')
    BY <1>2, <1>5, <2>3 DEF Gives
  <2> QED
    BY <2>2, <2>4, UnionInvPrimed
<1>6. ASSUME NEW o, Called(merge.dst, o, fails), Gives(dst, e.name, o, Told(e)),
             e.type # "ARRAY", merge' = NextEntry
      PROVE  UnionInv'
  <2>1. merge.item = 1
    BY <1>4, <1>6 DEF SoFar
  <2>2. IndexOf(dst.values, e.name) = {}
    BY <1>2, <2>1
  <2>3. ASSUME Held(o.store) = [Held(dst) EXCEPT ![e.name] = Told(e)]
        PROVE  SoFar(o.store, src, merge.entry + 1, 1, before)
    <3> HIDE DEF e, dst, src
    <3> QED
      BY <1>4, <2>1, <2>2, <2>3, EntryCopied
  <2>4. /\ merge' # NoMerge /\ merge'.dst = merge.dst /\ merge'.src = merge.src
        /\ merge'.entry = merge.entry + 1 /\ merge'.item = 1
    BY <1>4, <1>6, NextEntryIs
  <2> HIDE DEF e, dst, src
  <2> QED
    BY <1>5, <1>6, <2>3, <2>4
<1>7. CASE /\ e.type = "STRING"
           /\ Called(merge.dst, StringSet(dst, e.name, e.data.items[1], fails), fails)
           /\ merge' = NextEntry
  <2>1. PICK items : items = e.data.items
    OBVIOUS
  <2>2. items \in Seq(Str \cup {NoStr}) /\ Len(items) = 1 /\ \A i \in DOMAIN items : items[i] # NoStr
    BY <1>4, <1>7, <2>1 DEF GoodEntry, Entry, Data, Whole
  <2>3. items[1] \in Str /\ items = <<items[1]>>
    BY <2>2
  <2>4. Told(e) = Promise!StringOf(items[1])
    BY <1>7, <2>1, <2>3 DEF Told, Promise!StringOf
  <2>5. Gives(dst, e.name, StringSet(dst, e.name, items[1], {}), Told(e))
    BY <1>4, <2>3, <2>4, StringGiven
  <2> QED
    BY <1>3, <1>6, <1>7, <2>1, <2>5
<1>8. CASE /\ e.type \in {"INT", "FLOAT", "BOOL"}
           /\ Called(merge.dst, NumberSet(dst, e.name, e.type, e.data.num, fails), fails)
           /\ merge' = NextEntry
  <2>1. e.type \in NumType /\ e.data.num \in Num
    BY <1>4, <1>8 DEF GoodEntry, Entry, Data
  <2>2. Told(e) = Promise!NumberOf(e.type, e.data.num)
    BY <1>8 DEF Told, Promise!NumberOf
  <2>3. Gives(dst, e.name, NumberSet(dst, e.name, e.type, e.data.num, {}), Told(e))
    BY <1>4, <2>1, <2>2, NumberGiven
  <2> QED
    BY <1>3, <1>6, <1>8, <2>3
<1>9. CASE /\ e.type = "ARRAY" /\ merge.item \in DOMAIN e.data.items
           /\ Called(merge.dst,
                     StringAppended(dst, e.name, e.data.items[merge.item], fails), fails)
           /\ merge' = [merge EXCEPT !.item = @ + 1]
  <2>1. PICK s : s = e.data.items[merge.item]
    OBVIOUS
  <2>2. s \in Str
    <3>1. e.data.items \in Seq(Str \cup {NoStr})
      BY <1>4 DEF GoodEntry, Entry, Data
    <3>2. s # NoStr
      BY <1>4, <1>9, <2>1 DEF Whole
    <3> HIDE DEF e
    <3> QED
      BY <1>9, <2>1, <3>1, <3>2
  <2>3. PICK v : v = Promise!ArrayWith(Held(dst)[e.name], s)
    OBVIOUS
  <2>4. Gives(dst, e.name, StringAppended(dst, e.name, s, {}), v)
    BY <1>4, <2>2, <2>3, ItemGiven
  <2>5. PICK o : o = StringAppended(dst, e.name, s, {})
    OBVIOUS
  <2>6. ASSUME Held(o.store) = [Held(dst) EXCEPT ![e.name] = v]
        PROVE  SoFar(o.store, src, merge.entry, merge.item + 1, before)
    <3> HIDE DEF e, dst, src
    <3> QED
      BY <1>2, <1>4, <1>9, <2>1, <2>3, <2>6, ItemCopied
  <2>7. /\ merge' # NoMerge /\ merge'.dst = merge.dst /\ merge'.src = merge.src
        /\ merge'.entry = merge.entry /\ merge'.item = merge.item + 1
    BY <1>4, <1>9 DEF Merges, NoMerge
  <2>8. Called(merge.dst, o, fails)
    BY <1>3, <1>9, <2>1, <2>5
  <2> HIDE DEF e, dst, src
  <2> QED
    BY <1>5, <2>4, <2>5, <2>6, <2>7, <2>8
<1> QED
  BY <1>1, <1>7, <1>8, <1>9

LEMMA BeginUnion ==
    ASSUME StoreInv, UnionInv, failures = 0,
           NEW dst \in NsId, NEW src \in NsId, BeginMerge(dst, src)
    PROVE  UnionInv'
<1>1. /\ ns' = ns /\ Exists(dst) /\ Exists(src) /\ before' = Held(ns[dst])
      /\ merge' = [dst |-> dst, src |-> src, entry |-> 1, item |-> 1]
  BY DEF BeginMerge
<1>2. GoodStore(ns[src]) /\ WholeStore(ns[src])
  BY <1>1 DEF StoreInv, UnionInv
<1>3. ASSUME NEW d \in Name
      PROVE  Brought(ns[src], 1, 1)[d] = NotHeld
  <2>1. CASE IndexOf(ns[src].values, d) = {}
    BY <2>1 DEF Brought
  <2>2. CASE IndexOf(ns[src].values, d) # {}
    <3>1. First(ns[src], d) \in DOMAIN ns[src].values /\ ns[src].values \in Seq(Entry)
      BY <1>2, <2>2, WholeHeld DEF GoodStore, Store
    <3>2. First(ns[src], d) \in Nat /\ ~(First(ns[src], d) < 1)
      BY <3>1
    <3> QED
      BY <3>2 DEF Brought, Part
  <2> QED
    BY <2>1, <2>2
<1>4. Held(ns[dst]) = Union(Held(ns[dst]), Brought(ns[src], 1, 1))
  <2>1. PICK h : h = Held(ns[dst]) /\ h = [d \in Name |-> h[d]]
    BY DEF Held
  <2> QED
    BY <1>3, <2>1 DEF Union
<1>5. 1 \in 1..(Len(ns[src].values) + 1)
  BY <1>2 DEF GoodStore, Store
<1>6. SoFar(ns[dst], ns[src], 1, 1, Held(ns[dst]))
  BY <1>4, <1>5 DEF SoFar
<1>7. \A n \in NsId : WholeStore(ns'[n])
  BY <1>1 DEF UnionInv
<1>8. SoFar(ns'[merge'.dst], ns'[merge'.src], merge'.entry, merge'.item, before')
  BY <1>1, <1>6
<1> QED
  BY <1>7, <1>8, UnionInvPrimed

LEMMA UnionNext == StoreInv /\ CrashInv /\ UnionInv /\ [Next]_vars => UnionInv'
<1> SUFFICES ASSUME StoreInv, CrashInv, UnionInv, [Next]_vars, failures' = 0
             PROVE  UnionInv'
  BY DEF UnionInv
<1>1. ASSUME failures = 0, merge' \in {merge, NoMerge}, before' = before \/ merge' = NoMerge,
             \A n \in NsId : ns'[n] \in {ns[n], Gone, NewStore},
             ns' = ns \/ merge' = NoMerge
      PROVE  UnionInv'
  <2>1. \A n \in NsId : WholeStore(ns'[n])
    BY <1>1, WholeGone DEF UnionInv
  <2>2. merge' # NoMerge =>
           SoFar(ns'[merge'.dst], ns'[merge'.src], merge'.entry, merge'.item, before')
    BY <1>1 DEF UnionInv
  <2> QED
    BY <2>1, <2>2, UnionInvPrimed
<1>2. CASE ReplaceAllocator \/ MergeCrashes \/ EndMerge \/ Stopped \/ UNCHANGED vars
  BY <1>1, <1>2 DEF ReplaceAllocator, MergeCrashes, EndMerge, Stopped, vars
<1>3. ASSUME NEW n \in NsId, New(n)
      PROVE  UnionInv'
  <2>1. PICK fails \in {{}, {"namespace"}, {"values"}} :
           /\ ns' = IF fails = {} THEN [ns EXCEPT ![n] = NewStore] ELSE ns
           /\ failures' = failures + Cardinality(fails)
    BY <1>3 DEF New, Failing
  <2>2. Cardinality(fails) \in {0, 1}
    BY FS_EmptySet, FS_Singleton
  <2>3. failures = 0
    BY <2>1, <2>2 DEF CrashInv
  <2>4. \A m \in NsId : ns'[m] \in {ns[m], NewStore}
    BY <2>1 DEF StoreInv
  <2>5. merge' = NoMerge
    BY <1>3 DEF New, Idle
  <2> QED
    BY <1>1, <2>3, <2>4, <2>5
<1>4. ASSUME NEW n \in NsId, Free(n)
      PROVE  UnionInv'
  <2>1. failures = 0 /\ merge' = NoMerge /\ \A m \in NsId : ns'[m] \in {ns[m], Gone}
    BY <1>4 DEF Free, Idle, StoreInv
  <2> QED
    BY <1>1, <2>1
<1>5. CASE \E n \in NsId : \E d \in Name :
              \/ \E s \in Str : SetString(n, d, s) \/ AppendString(n, d, s)
              \/ \E k \in Num, type \in NumType : SetNumber(n, d, type, k)
  BY <1>5, ClientCallUnion
<1>6. CASE CopyEntry
  BY <1>6, CopyUnion
<1>7. CASE SkipEntry
  BY <1>7, SkipUnion DEF SkipEntry
<1>8. ASSUME NEW dst \in NsId, NEW src \in NsId, BeginMerge(dst, src)
      PROVE  UnionInv'
  BY <1>8, BeginUnion DEF BeginMerge
<1> QED
  BY <1>2, <1>3, <1>4, <1>5, <1>6, <1>7, <1>8 DEF Next

(***************************************************************************)
(* A merge in which no allocation fails leaves the union of the two        *)
(* namespaces, the destination's entry winning: nothing of an array is     *)
(* lost, nothing the destination had is touched (clap_namespace.c:21-64).  *)
(***************************************************************************)
THEOREM MergeIsUnionAlways == Spec => MergeIsUnion
<1>1. StoreInv /\ UnionInv =>
        (EndMerge /\ failures = 0 =>
           Held(ns[merge.dst]) = Union(before, Held(ns[merge.src])))
  <2> SUFFICES ASSUME StoreInv, UnionInv, EndMerge, failures = 0
               PROVE  Held(ns[merge.dst]) = Union(before, Held(ns[merge.src]))
    OBVIOUS
  <2> DEFINE dst == ns[merge.dst]
             src == ns[merge.src]
  <2>1. /\ merge \in Merges /\ merge.src \in NsId
        /\ merge.entry \notin DOMAIN src.values
        /\ GoodStore(src) /\ WholeStore(src)
        /\ SoFar(dst, src, merge.entry, merge.item, before)
    BY DEF EndMerge, AtEntry, Merging, StoreInv, Merges, UnionInv
  <2>2. src.values \in Seq(Entry) /\ Len(src.values) \in Nat /\ DOMAIN src.values = 1..Len(src.values)
    BY <2>1 DEF GoodStore, Store
  <2>3. merge.entry = Len(src.values) + 1
    BY <2>1, <2>2 DEF SoFar
  <2>4. ASSUME NEW d \in Name
        PROVE  Brought(src, merge.entry, merge.item)[d] = Held(src)[d]
    <3>1. CASE IndexOf(src.values, d) = {}
      BY <3>1 DEF Brought, Held
    <3>2. CASE IndexOf(src.values, d) # {}
      <4>1. First(src, d) \in DOMAIN src.values /\ Held(src)[d] = Told(src.values[First(src, d)])
        BY <2>1, <3>2, WholeHeld
      <4>2. First(src, d) < merge.entry /\ ~(First(src, d) > merge.entry)
        BY <2>2, <2>3, <4>1
      <4> QED
        BY <3>2, <4>1, <4>2 DEF Brought
    <3> QED
      BY <3>1, <3>2
  <2>5. Held(dst) = Union(before, Brought(src, merge.entry, merge.item))
    BY <2>1 DEF SoFar
  <2> HIDE DEF dst, src
  <2>6. Union(before, Brought(src, merge.entry, merge.item)) = Union(before, Held(src))
    BY <2>4 DEF Union
  <2> QED
    BY <2>5, <2>6 DEF dst, src
<1> QED
  BY <1>1, FamilyInit, StoreInit, CrashInit, UnionInit, FamilyNext, StoreNext, CrashNext,
     UnionNext, PTL DEF Spec, MergeIsUnion

-----------------------------------------------------------------------------
(***************************************************************************)
(* Memory.  The blocks of a store are counted entry by entry; a call makes *)
(* and frees as many as this count changes by, or frees too few where it   *)
(* gives another type to an entry that owns memory.                        *)
(***************************************************************************)
Strings(items) == Cardinality({i \in DOMAIN items : items[i] # NoStr})

LEMMA EntryBlocksAre ==
    ASSUME NEW e
    PROVE  /\ EntryBlocks(e) =
                1 + (IF e.type = "ARRAY" THEN 1 ELSE 0) + (IF e.name = NoName THEN 0 ELSE 1)
                  + (IF e.type \in {"STRING", "ARRAY"} THEN Strings(e.data.items) ELSE 0)
BY DEF EntryBlocks, Strings

LEMMA StringsType ==
    ASSUME NEW items \in Seq(Str \cup {NoStr})
    PROVE  /\ Strings(items) \in Nat
           /\ IsFiniteSet({i \in DOMAIN items : items[i] # NoStr})
<1>1. Len(items) \in Nat /\ DOMAIN items = 1..Len(items)
  OBVIOUS
<1>2. IsFiniteSet(1..Len(items))
  BY <1>1, FS_Interval
<1>3. IsFiniteSet({i \in DOMAIN items : items[i] # NoStr})
  BY <1>1, <1>2, FS_Subset
<1> QED
  BY <1>3, FS_CardinalityType DEF Strings

LEMMA StringsAppended ==
    ASSUME NEW items \in Seq(Str \cup {NoStr}), NEW s \in Str \cup {NoStr}
    PROVE  Strings(Append(items, s)) = Strings(items) + (IF s = NoStr THEN 0 ELSE 1)
<1> DEFINE Were == {i \in DOMAIN items : items[i] # NoStr}
           more == Append(items, s)
           Are  == {i \in DOMAIN more : more[i] # NoStr}
           n    == Len(items) + 1
<1>1. /\ n \in Nat /\ DOMAIN items = 1..Len(items) /\ DOMAIN more = 1..n
      /\ more[n] = s /\ \A i \in 1..Len(items) : more[i] = items[i]
      /\ n \notin Were
  OBVIOUS
<1>2. CASE s = NoStr
  <2>1. Are = Were
    BY <1>1, <1>2
  <2>2. Strings(more) = Strings(items)
    BY <2>1 DEF Strings
  <2>3. Strings(items) \in Nat
    BY StringsType
  <2> QED
    BY <1>2, <2>2, <2>3
<1>3. CASE s # NoStr
  <2>1. Are = Were \cup {n}
    BY <1>1, <1>3
  <2>2. IsFiniteSet(Were) /\ n \notin Were
    BY <1>1, StringsType
  <2> HIDE DEF Are, Were, n
  <2>3. Cardinality(Are) = Cardinality(Were) + 1
    BY <2>1, <2>2, FS_AddElement
  <2> QED
    BY <1>3, <2>3 DEF Strings, Are, Were
<1> QED
  BY <1>2, <1>3

LEMMA StringsOfOne ==
    ASSUME NEW s \in Str \cup {NoStr}
    PROVE  /\ Strings(<< >>) = 0
           /\ Strings(<<s>>) = IF s = NoStr THEN 0 ELSE 1
<1>1. << >> \in Seq(Str \cup {NoStr}) /\ Append(<< >>, s) = <<s>>
  OBVIOUS
<1>2. {i \in DOMAIN << >> : << >>[i] # NoStr} = {}
  OBVIOUS
<1>3. Strings(<< >>) = 0
  BY <1>2, FS_EmptySet DEF Strings
<1>4. Strings(Append(<< >>, s)) = Strings(<< >>) + (IF s = NoStr THEN 0 ELSE 1)
  BY <1>1, StringsAppended
<1> QED
  BY <1>1, <1>3, <1>4

LEMMA EntryBlocksType ==
    ASSUME NEW e, GoodEntry(e)
    PROVE  EntryBlocks(e) \in Nat /\ EntryBlocks(e) >= 1
<1>1. Strings(e.data.items) \in Nat
  BY StringsType DEF GoodEntry, Entry, Data
<1> QED
  BY <1>1, EntryBlocksAre

\* The count of a store is a sum.
Blocks(st) == [i \in DOMAIN st.values |-> EntryBlocks(st.values[i])]

\* The sum in StoreBlocks is one of a function.
LEMMA StoreSum ==
    ASSUME NEW st, st # Gone
    PROVE  StoreBlocks(st) = 2 + SumOver(Blocks(st), DOMAIN st.values)
<1> DEFINE D == DOMAIN st.values
           IsBlocks(g) ==
               g = [T \in SUBSET D |->
                      IF T = {} THEN 0
                      ELSE EntryBlocks(st.values[Chosen(T)]) + g[T \ {Chosen(T)}]]
           blocks == CHOOSE g : IsBlocks(g)
           iter   == CHOOSE g : IsSum(Blocks(st), D, g)
<1>1. \A T \in SUBSET D : T # {} => Blocks(st)[Chosen(T)] = EntryBlocks(st.values[Chosen(T)])
  BY ChosenIsMember DEF Blocks
<1>2. \A g : IsBlocks(g) <=> IsSum(Blocks(st), D, g)
  <2> SUFFICES ASSUME NEW g
               PROVE  IsBlocks(g) <=> IsSum(Blocks(st), D, g)
    OBVIOUS
  <2> DEFINE a == [T \in SUBSET D |->
                      IF T = {} THEN 0
                      ELSE EntryBlocks(st.values[Chosen(T)]) + g[T \ {Chosen(T)}]]
             b == [T \in SUBSET D |->
                      IF T = {} THEN 0
                      ELSE Blocks(st)[Chosen(T)] + g[T \ {Chosen(T)}]]
  <2>1. a = b
    BY <1>1
  <2> QED
    BY <2>1 DEF IsSum
<1>3. blocks = iter
  <2> HIDE DEF IsBlocks
  <2> QED
    BY <1>2
<1>4. SumOver(Blocks(st), D) = iter[D]
  BY DEF SumOver, MapThenSumSet, MapThenFoldSet, IsSum, Chosen
<1>5. StoreBlocks(st) = 2 + blocks[D]
  BY DEF StoreBlocks, MapThenSumSet, MapThenFoldSet, Chosen
<1> QED
  BY <1>3, <1>4, <1>5

LEMMA StoreBlocksAre ==
    ASSUME NEW st, GoodStore(st)
    PROVE  /\ StoreBlocks(st) = 2 + SumOver(Blocks(st), DOMAIN st.values)
           /\ StoreBlocks(st) \in Nat
           /\ SumOver(Blocks(st), DOMAIN st.values) \in Nat
           /\ IsFiniteSet(DOMAIN st.values)
           /\ \A i \in DOMAIN st.values : Blocks(st)[i] \in Nat
<1>1. st # Gone /\ st.values \in Seq(Entry)
  BY GoodStoreIsThere DEF GoodStore, Store
<1>2. IsFiniteSet(DOMAIN st.values)
  <2>1. Len(st.values) \in Nat /\ DOMAIN st.values = 1..Len(st.values)
    BY <1>1
  <2> QED
    BY <2>1, FS_Interval
<1>3. \A i \in DOMAIN st.values : Blocks(st)[i] = EntryBlocks(st.values[i]) /\ Blocks(st)[i] \in Nat
  BY EntryBlocksType DEF GoodStore, Blocks
<1>4. SumOver(Blocks(st), DOMAIN st.values) \in Nat
  BY <1>2, <1>3, SumOfNaturals
<1>5. StoreBlocks(st) = 2 + SumOver(Blocks(st), DOMAIN st.values)
  BY <1>1, <1>2, <1>3, StoreSum
<1> QED
  BY <1>2, <1>3, <1>4, <1>5

LEMMA WrittenBlocks ==
    ASSUME NEW st, GoodStore(st), NEW at \in DOMAIN st.values, NEW x, GoodEntry(x),
           NEW st2, GoodStore(st2), st2.values = [st.values EXCEPT ![at] = x]
    PROVE  StoreBlocks(st2) = StoreBlocks(st) + EntryBlocks(x) - EntryBlocks(st.values[at])
<1> DEFINE D == DOMAIN st.values
<1>1. /\ StoreBlocks(st) = 2 + SumOver(Blocks(st), D)
      /\ SumOver(Blocks(st), D) \in Nat /\ IsFiniteSet(D)
      /\ \A i \in D : Blocks(st)[i] \in Int
  BY StoreBlocksAre
<1>2. /\ StoreBlocks(st2) = 2 + SumOver(Blocks(st2), DOMAIN st2.values)
  BY StoreBlocksAre
<1>3. DOMAIN st2.values = D
  OBVIOUS
<1>4. /\ Blocks(st2)[at] = EntryBlocks(x) /\ EntryBlocks(x) \in Int
      /\ Blocks(st)[at] = EntryBlocks(st.values[at]) /\ EntryBlocks(st.values[at]) \in Int
      /\ \A i \in D : i # at => Blocks(st2)[i] = Blocks(st)[i]
  BY EntryBlocksType DEF Blocks, GoodStore
<1> HIDE DEF D
<1>5. SumOver(Blocks(st2), D) = SumOver(Blocks(st), D) + Blocks(st2)[at] - Blocks(st)[at]
  <2>1. PICK f, g : f = Blocks(st) /\ g = Blocks(st2)
    OBVIOUS
  <2>2. /\ IsFiniteSet(D) /\ at \in D /\ g[at] \in Int
        /\ \A i \in D : f[i] \in Int
        /\ \A i \in D : i # at => g[i] = f[i]
    BY <1>1, <1>4, <2>1 DEF D
  <2>3. SumOver(g, D) = SumOver(f, D) + g[at] - f[at]
    BY <2>2, SumChange
  <2> QED
    BY <2>1, <2>3
<1>6. StoreBlocks(st2) = 2 + SumOver(Blocks(st2), D)
  BY <1>2, <1>3, Zenon
<1> QED
  BY <1>1, <1>4, <1>5, <1>6

LEMMA AppendedBlocks ==
    ASSUME NEW st, GoodStore(st), NEW x, GoodEntry(x),
           NEW st2, GoodStore(st2), st2.values = Append(st.values, x)
    PROVE  StoreBlocks(st2) = StoreBlocks(st) + EntryBlocks(x)
<1> DEFINE D == DOMAIN st.values
           n == Len(st.values) + 1
<1>1. /\ StoreBlocks(st) = 2 + SumOver(Blocks(st), D)
      /\ SumOver(Blocks(st), D) \in Nat /\ IsFiniteSet(D)
      /\ \A i \in D : Blocks(st)[i] \in Int
  BY StoreBlocksAre
<1>2. /\ StoreBlocks(st2) = 2 + SumOver(Blocks(st2), DOMAIN st2.values)
  BY StoreBlocksAre
<1>3. /\ DOMAIN st2.values = D \cup {n} /\ n \notin D
      /\ st2.values[n] = x /\ \A i \in D : st2.values[i] = st.values[i]
  BY DEF GoodStore, Store, GoodEntry
<1>4. /\ Blocks(st2)[n] = EntryBlocks(x) /\ EntryBlocks(x) \in Int
      /\ \A i \in D : Blocks(st2)[i] = Blocks(st)[i]
  BY <1>3, EntryBlocksType DEF Blocks
<1>5. PICK E : E = DOMAIN st2.values
  OBVIOUS
<1> HIDE DEF D, n
<1>6. SumOver(Blocks(st2), E) = SumOver(Blocks(st), D) + Blocks(st2)[n]
  <2>1. PICK f, g : f = Blocks(st) /\ g = Blocks(st2)
    OBVIOUS
  <2>2. /\ IsFiniteSet(D) /\ n \notin D /\ g[n] \in Int /\ E = D \cup {n}
        /\ \A i \in D : f[i] \in Int /\ g[i] = f[i]
    BY <1>1, <1>3, <1>4, <1>5, <2>1
  <2>3. SumOver(g, E) = SumOver(f, D) + g[n]
    BY <2>2, SumAdd
  <2> QED
    BY <2>1, <2>3
<1>7. StoreBlocks(st2) = 2 + SumOver(Blocks(st2), E)
  BY <1>2, <1>5, Zenon
<1> QED
  BY <1>1, <1>4, <1>6, <1>7

LEMMA SameBlocks ==
    ASSUME NEW st, GoodStore(st), NEW st2, GoodStore(st2), st2.values = st.values
    PROVE  StoreBlocks(st2) = StoreBlocks(st)
<1>1. Blocks(st2) = Blocks(st)
  BY DEF Blocks
<1> QED
  BY <1>1, StoreBlocksAre

\* ensure_value makes what its new entry and the copy of the key are counted as.
LEMMA EnsuredBlocks ==
    ASSUME NEW st, GoodStore(st), NEW d \in Name \cup {NoName}, NEW fails,
           NEW e, e = Ensured(st, d, fails)
    PROVE  StoreBlocks(e.store) = StoreBlocks(st) + e.made /\ e.freed = 0 /\ e.made \in Nat
<1>0. e \in Outcomes /\ GoodStore(e.store) /\ (~e.ok => e.store.values = st.values)
      /\ (e.ok => Found(st, d, e) \/ Appended(st, d, e))
  BY EnsuredOutcome
<1>00. StoreBlocks(st) \in Nat
  BY StoreBlocksAre
<1>1. CASE e.made = 0 /\ e.freed = 0 /\ e.store.values = st.values
  <2>1. StoreBlocks(e.store) = StoreBlocks(st)
    BY <1>0, <1>1, SameBlocks
  <2> QED
    BY <1>00, <1>1, <2>1
<1>2. CASE ~NullCompared(st.values, d) /\ e.ok /\ IndexOf(st.values, d) = {}
  <2> DEFINE full == Len(st.values) >= st.capacity
             name == KeyCopy(d, fails)
             x == [name |-> name, type |-> "NONE", data |-> NoData]
             made == IF name = NoName THEN 1 ELSE 2
  <2>1. PICK room : room = IF full THEN [st EXCEPT !.capacity = 2 * @] ELSE st
    OBVIOUS
  <2>2. PICK st2 : st2 = [room EXCEPT !.values = Append(@, x)]
    OBVIOUS
  <2>3. ~(full /\ "room" \in fails) /\ "entry" \notin fails
    <3>1. CASE full /\ "room" \in fails
      <4>1. e = [Outcome(st, FALSE, 0) EXCEPT !.tried = {"room"}, !.grown = {0}]
        BY <1>2, <3>1 DEF Ensured
      <4> QED
        BY <1>2, <4>1 DEF Outcome
    <3>2. CASE ~(full /\ "room" \in fails) /\ "entry" \in fails
      <4>1. PICK tried, grown : e = [Outcome(room, FALSE, 0) EXCEPT !.tried = tried, !.grown = grown]
        BY <1>2, <2>1, <3>2 DEF Ensured
      <4> QED
        BY <1>2, <4>1 DEF Outcome
    <3> QED
      BY <3>1, <3>2
  <2>4. PICK tried, grown : e = [Outcome(st2, TRUE, Len(st.values) + 1)
                          EXCEPT !.tried = tried, !.made = made, !.grown = grown]
    BY <1>2, <2>1, <2>2, <2>3 DEF Ensured
  <2> HIDE DEF made, x
  <2>5. e.store = st2 /\ e.made = made /\ e.freed = 0
    BY <2>4 DEF Outcome
  <2>6. room.values = st.values /\ room \in Store
    BY <2>1 DEF GoodStore, Store
  <2>7. st2.values = Append(st.values, x)
    BY <2>2, <2>6 DEF Store
  <2>8. GoodEntry(x)
    BY StoreAssumption DEF x, GoodEntry, Entry, KeyCopy, NoData, Data, ValueType
  <2>9. StoreBlocks(st2) = StoreBlocks(st) + EntryBlocks(x)
    BY <1>0, <2>5, <2>7, <2>8, AppendedBlocks
  <2>10. EntryBlocks(x) = made
    BY EntryBlocksAre DEF x, made
  <2> QED
    BY <2>5, <2>9, <2>10 DEF made
<1>3. CASE ~(~NullCompared(st.values, d) /\ e.ok /\ IndexOf(st.values, d) = {})
  <2> DEFINE full == Len(st.values) >= st.capacity
  <2>1. CASE NullCompared(st.values, d)
    <3>1. e = [Outcome(st, FALSE, 0) EXCEPT !.crash = TRUE]
      BY <2>1 DEF Ensured
    <3> QED
      BY <1>1, <3>1 DEF Outcome
  <2>2. CASE ~NullCompared(st.values, d) /\ IndexOf(st.values, d) # {}
    <3>1. e = Outcome(st, TRUE, Min(IndexOf(st.values, d)))
      BY <2>2 DEF Ensured
    <3> QED
      BY <1>1, <3>1 DEF Outcome
  <2>3. CASE ~NullCompared(st.values, d) /\ IndexOf(st.values, d) = {} /\ ~e.ok
    <3>1. PICK room : room = IF full THEN [st EXCEPT !.capacity = 2 * @] ELSE st
      OBVIOUS
    <3>2. CASE full /\ "room" \in fails
      <4>1. e = [Outcome(st, FALSE, 0) EXCEPT !.tried = {"room"}, !.grown = {0}]
        BY <2>3, <3>2 DEF Ensured
      <4> QED
        BY <1>1, <4>1 DEF Outcome
    <3>3. CASE ~(full /\ "room" \in fails) /\ "entry" \in fails
      <4>1. PICK tried, grown : e = [Outcome(room, FALSE, 0) EXCEPT !.tried = tried, !.grown = grown]
        BY <2>3, <3>1, <3>3 DEF Ensured
      <4>2. e.made = 0 /\ e.freed = 0
        BY <4>1 DEF Outcome
      <4> QED
        BY <1>0, <1>1, <2>3, <4>2
    <3>4. CASE ~(full /\ "room" \in fails) /\ "entry" \notin fails
      <4>1. PICK st2, tried, made, grown : e = [Outcome(st2, TRUE, Len(st.values) + 1)
                                   EXCEPT !.tried = tried, !.made = made, !.grown = grown]
        BY <2>3, <3>1, <3>4 DEF Ensured
      <4> QED
        BY <2>3, <4>1 DEF Outcome
    <3> QED
      BY <3>2, <3>3, <3>4
  <2> QED
    BY <1>3, <2>1, <2>2, <2>3
<1> QED
  BY <1>2, <1>3

(***************************************************************************)
(* What is written into the entry that ensure_value returned.              *)
(***************************************************************************)
Writes(st, d, fails, e, old, x, o) ==
    /\ GoodStore(st) /\ d \in Name \cup {NoName}
    /\ e = Ensured(st, d, fails) /\ e.ok
    /\ old = e.store.values[e.at]
    /\ GoodEntry(x) /\ x.name = old.name
    /\ o.store = [e.store EXCEPT !.values = [@ EXCEPT ![e.at] = x]]

LEMMA WritesBlocks ==
    ASSUME NEW st, NEW d, NEW fails, NEW e, NEW old, NEW x, NEW o,
           Writes(st, d, fails, e, old, x, o)
    PROVE  /\ StoreBlocks(o.store) = StoreBlocks(st) + e.made + EntryBlocks(x) - EntryBlocks(old)
           /\ e.made \in Nat /\ e.freed = 0 /\ StoreBlocks(st) \in Nat
           /\ EntryBlocks(x) \in Nat /\ EntryBlocks(old) \in Nat
           /\ GoodEntry(old) /\ GoodEntry(x) /\ x.name = old.name
           /\ old.type # "NONE" => /\ e.at \in DOMAIN st.values /\ e.at \in DOMAIN o.store.values
                                   /\ st.values[e.at] = old /\ o.store.values[e.at] = x
<1>1. /\ e \in Outcomes /\ GoodStore(e.store) /\ (Found(st, d, e) \/ Appended(st, d, e))
      /\ StoreBlocks(e.store) = StoreBlocks(st) + e.made /\ e.freed = 0 /\ e.made \in Nat
      /\ e.at \in DOMAIN e.store.values /\ GoodEntry(e.store.values[e.at])
      /\ GoodEntry(x) /\ x.name = old.name
  <2>1. /\ GoodStore(st) /\ d \in Name \cup {NoName}
        /\ e = Ensured(st, d, fails) /\ e.ok /\ GoodEntry(x) /\ x.name = old.name
        /\ old = e.store.values[e.at]
    BY DEF Writes
  <2>2. e \in Outcomes /\ GoodStore(e.store) /\ (Found(st, d, e) \/ Appended(st, d, e))
    BY <2>1, EnsuredOutcome
  <2>3. StoreBlocks(e.store) = StoreBlocks(st) + e.made /\ e.freed = 0 /\ e.made \in Nat
    BY <2>1, EnsuredBlocks
  <2>4. e.at \in DOMAIN e.store.values /\ GoodEntry(e.store.values[e.at])
    BY <2>1, EnsuredEntry
  <2> QED
    BY <2>1, <2>2, <2>3, <2>4
<1>2. GoodStore(o.store)
  <2>1. /\ o.store = [e.store EXCEPT !.values = [@ EXCEPT ![e.at] = x]]
        /\ GoodStore(st) /\ d \in Name \cup {NoName} /\ old = e.store.values[e.at]
    BY DEF Writes
  <2> QED
    BY <1>1, <2>1, EntryWritten
<1>3. o.store.values = [e.store.values EXCEPT ![e.at] = x]
  BY <1>1 DEF Writes, GoodStore, Store
<1>4. StoreBlocks(o.store) = StoreBlocks(e.store) + EntryBlocks(x) - EntryBlocks(old)
  <2>1. old = e.store.values[e.at]
    BY DEF Writes
  <2> QED
    BY <1>1, <1>2, <1>3, <2>1, WrittenBlocks
<1>5. /\ EntryBlocks(x) \in Nat /\ EntryBlocks(old) \in Nat /\ StoreBlocks(st) \in Nat
  BY <1>1, EntryBlocksType, StoreBlocksAre DEF Writes
<1>6. ASSUME old.type # "NONE"
      PROVE  /\ e.at \in DOMAIN st.values /\ e.at \in DOMAIN o.store.values
             /\ st.values[e.at] = old /\ o.store.values[e.at] = x
  <2>1. Found(st, d, e)
    BY <1>1, <1>6 DEF Appended, Writes
  <2> QED
    BY <1>1, <1>3, <2>1 DEF Found, Writes
<1> QED
  BY <1>1, <1>4, <1>5, <1>6 DEF Writes

\* The blocks a call makes and frees are accounted for in the store, or lost by retyping.
Loses(st, o) == o.made - o.freed - (StoreBlocks(o.store) - StoreBlocks(st))

Accounts(st, o) ==
    /\ o.made \in Int /\ o.freed \in Int
    /\ Loses(st, o) >= 0
    /\ Loses(st, o) # 0 =>
          \E i \in DOMAIN st.values :
              /\ i \in DOMAIN o.store.values
              /\ st.values[i].type \in {"STRING", "ARRAY"}
              /\ o.store.values[i].type # st.values[i].type

LEMMA EnsuredAccounts ==
    ASSUME NEW st, GoodStore(st), NEW d \in Name \cup {NoName}, NEW fails,
           NEW e, e = Ensured(st, d, fails),
           NEW o, o.store = e.store, o.made = e.made, o.freed = e.freed
    PROVE  Accounts(st, o)
<1>1. StoreBlocks(e.store) = StoreBlocks(st) + e.made /\ e.freed = 0 /\ e.made \in Nat
      /\ StoreBlocks(st) \in Nat
  BY EnsuredBlocks, StoreBlocksAre
<1>2. Loses(st, o) = 0
  BY <1>1 DEF Loses
<1> QED
  BY <1>1, <1>2 DEF Accounts

\* A call that changes nothing.
LEMMA NothingAccounts ==
    ASSUME NEW st, GoodStore(st), NEW o, o.store = st, o.made = 0, o.freed = 0
    PROVE  Accounts(st, o)
<1>1. StoreBlocks(st) \in Nat
  BY StoreBlocksAre
<1>2. Loses(st, o) = 0
  BY <1>1 DEF Loses
<1> QED
  BY <1>2 DEF Accounts

Losing(e, old, x, o, more, lost) ==
    /\ more \in Nat /\ o.freed \in Nat /\ lost \in Nat
    /\ o.made = e.made + more
    /\ lost = more - o.freed - (EntryBlocks(x) - EntryBlocks(old))
    /\ lost # 0 => old.type \in {"STRING", "ARRAY"} /\ x.type # old.type

LEMMA WritesAccounts ==
    ASSUME NEW st, NEW d, NEW fails, NEW e, NEW old, NEW x, NEW o,
           Writes(st, d, fails, e, old, x, o), NEW more, NEW lost, Losing(e, old, x, o, more, lost)
    PROVE  Accounts(st, o)
<1>1. /\ StoreBlocks(o.store) = StoreBlocks(st) + e.made + EntryBlocks(x) - EntryBlocks(old)
      /\ e.made \in Nat /\ StoreBlocks(st) \in Nat
      /\ EntryBlocks(x) \in Nat /\ EntryBlocks(old) \in Nat
      /\ old.type # "NONE" => /\ e.at \in DOMAIN st.values /\ e.at \in DOMAIN o.store.values
                              /\ st.values[e.at] = old /\ o.store.values[e.at] = x
  BY WritesBlocks
<1>2. Loses(st, o) = lost
  BY <1>1 DEF Loses, Losing
<1> QED
  BY <1>1, <1>2 DEF Accounts, Losing

LEMMA StringSetAccounts ==
    ASSUME NEW st, GoodStore(st), NEW d \in Name \cup {NoName}, NEW s \in Str \cup {NoStr},
           NEW fails, NEW o, o = StringSet(st, d, s, fails)
    PROVE  Accounts(st, o)
<1> DEFINE copy == IF "copy" \in fails THEN NoStr ELSE s
<1>1. PICK e : e = Ensured(st, d, fails)
  OBVIOUS
<1>2. e \in Outcomes
  BY <1>1, EnsuredOutcome
<1>3. CASE ~e.ok
  <2>1. o = e
    BY <1>1, <1>3 DEF StringSet
  <2> QED
    BY <1>1, <2>1, EnsuredAccounts
<1>4. CASE e.ok
  <2>1. PICK old : old = e.store.values[e.at]
    OBVIOUS
  <2> DEFINE x == [name |-> old.name, type |-> "STRING", data |-> StringData(copy)]
             more == IF copy = NoStr THEN 0 ELSE 1
             freed == IF old.type = "STRING" /\ old.data.items # <<NoStr>> THEN 1 ELSE 0
  <2>2. PICK tried : o = [Holding(e, "STRING", StringData(copy))
                          EXCEPT !.tried = tried,
                                 !.made = IF copy = NoStr THEN @ ELSE @ + 1, !.freed = freed]
    BY <1>1, <1>4, <2>1 DEF StringSet
  <2>3. /\ o.store = [e.store EXCEPT !.values = [@ EXCEPT ![e.at] = x]]
        /\ o.made = e.made + more /\ o.freed = freed
    <3>1. PICK c : c = copy
      OBVIOUS
    <3>2. PICK h : h = Holding(e, "STRING", StringData(c))
      OBVIOUS
    <3>3. h \in [DOMAIN e -> {h[i] : i \in DOMAIN e}] /\ h.made = e.made
          /\ h.store = [e.store EXCEPT !.values = [@ EXCEPT ![e.at] =
                           [name |-> old.name, type |-> "STRING", data |-> StringData(c)]]]
      BY <1>2, <2>1, <3>2 DEF Holding, Outcomes, Store
    <3>4. o = [h EXCEPT !.tried = tried, !.made = IF c = NoStr THEN @ ELSE @ + 1, !.freed = freed]
      BY <2>2, <3>1, <3>2
    <3> HIDE DEF freed
    <3>5. o.store = h.store /\ o.freed = freed /\ o.made = IF c = NoStr THEN h.made ELSE h.made + 1
      BY <1>2, <3>3, <3>4 DEF Outcomes
    <3> QED
      BY <1>2, <3>1, <3>3, <3>5 DEF Outcomes
  <2>4. old.name \in Name \cup {NoName} /\ copy \in Str \cup {NoStr}
    BY <1>1, <1>4, <2>1, EnsuredEntry
  <2>5. GoodEntry(x)
    BY <2>4, StringEntry
  <2>6. Writes(st, d, fails, e, old, x, o)
    BY <1>1, <1>4, <2>1, <2>3, <2>5 DEF Writes
  <2>7. EntryBlocks(x) = 1 + (IF old.name = NoName THEN 0 ELSE 1) + more
    <3>1. Strings(x.data.items) = more
      BY <2>4, StringsOfOne DEF StringData, NoData
    <3> QED
      BY <3>1, EntryBlocksAre
  <2>8. GoodEntry(old) /\ EntryBlocks(old) \in Nat
    BY <1>1, <2>1, <2>6, WritesBlocks
  <2> DEFINE strings == IF old.type \in {"STRING", "ARRAY"} THEN Strings(old.data.items) ELSE 0
             array == IF old.type = "ARRAY" THEN 1 ELSE 0
             lost == array + strings - freed
  <2>9. EntryBlocks(old) = 1 + array + (IF old.name = NoName THEN 0 ELSE 1) + strings
    BY EntryBlocksAre
  <2>10. strings \in Nat
    BY <2>8, StringsType DEF GoodEntry, Entry, Data
  <2>11. old.type = "STRING" => strings = freed
    <3> SUFFICES ASSUME old.type = "STRING"
                 PROVE  Strings(old.data.items) = freed
      OBVIOUS
    <3>1. PICK items : items = old.data.items
      OBVIOUS
    <3>2. items \in Seq(Str \cup {NoStr}) /\ Len(items) = 1
      BY <2>8, <3>1 DEF GoodEntry, Entry, Data
    <3>3. items = <<items[1]>> /\ items[1] \in Str \cup {NoStr}
      BY <3>2
    <3>4. Strings(items) = IF items[1] = NoStr THEN 0 ELSE 1
      BY <3>3, StringsOfOne
    <3>5. items # <<NoStr>> <=> items[1] # NoStr
      BY <3>3
    <3> QED
      BY <3>1, <3>4, <3>5
  <2>12. lost \in Nat /\ (lost # 0 => old.type = "ARRAY")
    <3> HIDE DEF strings
    <3>1. CASE old.type = "STRING"
      BY <2>10, <2>11, <3>1
    <3>2. CASE old.type = "ARRAY"
      BY <2>10, <3>2
    <3>3. CASE old.type \notin {"STRING", "ARRAY"}
      BY <3>3 DEF strings
    <3> QED
      BY <3>1, <3>2, <3>3
  <2>13. more \in Nat /\ freed \in Nat /\ x.type = "STRING"
    OBVIOUS
  <2>14. lost = more - freed - (EntryBlocks(x) - EntryBlocks(old))
    <3> HIDE DEF strings, array, more, freed, x
    <3>1. array \in Nat /\ (IF old.name = NoName THEN 0 ELSE 1) \in Nat
      BY DEF array
    <3> QED
      BY <2>7, <2>9, <2>10, <2>13, <3>1
  <2>15. lost # 0 => old.type \in {"STRING", "ARRAY"} /\ x.type # old.type
    BY <2>12, <2>13
  <2> HIDE DEF strings, array, more, freed, x, lost
  <2> QED
    <3>1. Losing(e, old, x, o, more, lost)
      BY <2>3, <2>12, <2>13, <2>14, <2>15 DEF Losing
    <3> QED
      BY <2>6, <3>1, WritesAccounts
<1> QED
  BY <1>3, <1>4

LEMMA NumberSetAccounts ==
    ASSUME NEW st, GoodStore(st), NEW d \in Name \cup {NoName}, NEW type \in NumType,
           NEW k \in Num, NEW fails, NEW o, o = NumberSet(st, d, type, k, fails)
    PROVE  Accounts(st, o)
<1>1. PICK e : e = Ensured(st, d, fails)
  OBVIOUS
<1>2. e \in Outcomes
  BY <1>1, EnsuredOutcome
<1>3. CASE ~e.ok
  <2>1. o = e
    BY <1>1, <1>3 DEF NumberSet
  <2> QED
    BY <1>1, <2>1, EnsuredAccounts
<1>4. CASE e.ok
  <2>1. PICK old : old = e.store.values[e.at]
    OBVIOUS
  <2> DEFINE x == [name |-> old.name, type |-> type, data |-> NumberData(k)]
  <2>2. o = Holding(e, type, NumberData(k))
    BY <1>1, <1>4 DEF NumberSet
  <2>3. /\ o.store = [e.store EXCEPT !.values = [@ EXCEPT ![e.at] = x]]
        /\ o.made = e.made /\ o.freed = e.freed
    BY <1>2, <2>1, <2>2 DEF Holding, Outcomes, Store
  <2>4. old.name \in Name \cup {NoName}
    BY <1>1, <1>4, <2>1, EnsuredEntry
  <2>5. GoodEntry(x)
    BY <2>4, NumberEntry
  <2>6. Writes(st, d, fails, e, old, x, o)
    BY <1>1, <1>4, <2>1, <2>3, <2>5 DEF Writes
  <2>7. x.type \notin {"STRING", "ARRAY"} /\ x.name = old.name
    BY StoreAssumption
  <2>8. EntryBlocks(x) = 1 + (IF old.name = NoName THEN 0 ELSE 1)
    BY <2>7, EntryBlocksAre
  <2>9. GoodEntry(old) /\ e.freed = 0 /\ e.made \in Nat
    BY <2>6, WritesBlocks
  <2> DEFINE strings == IF old.type \in {"STRING", "ARRAY"} THEN Strings(old.data.items) ELSE 0
             array == IF old.type = "ARRAY" THEN 1 ELSE 0
             lost == array + strings
  <2>10. EntryBlocks(old) = 1 + array + (IF old.name = NoName THEN 0 ELSE 1) + strings
    BY EntryBlocksAre
  <2>11. strings \in Nat
    BY <2>9, StringsType DEF GoodEntry, Entry, Data
  <2>12. lost \in Nat /\ (lost # 0 => old.type \in {"STRING", "ARRAY"})
    BY <2>11
  <2>13. Losing(e, old, x, o, 0, lost)
    <3> HIDE DEF strings, array, x
    <3>1. array \in Nat /\ (IF old.name = NoName THEN 0 ELSE 1) \in Nat
      BY DEF array
    <3>2. lost = 0 - o.freed - (EntryBlocks(x) - EntryBlocks(old))
      BY <2>3, <2>8, <2>9, <2>10, <2>11, <3>1
    <3> HIDE DEF lost
    <3>3. lost # 0 => x.type # old.type
      BY <2>7, <2>12
    <3> QED
      BY <2>3, <2>9, <2>12, <3>2, <3>3 DEF Losing
  <2> QED
    BY <2>6, <2>13, WritesAccounts
<1> QED
  BY <1>3, <1>4

LEMMA StringAppendedAccounts ==
    ASSUME NEW st, GoodStore(st), NEW d \in Name \cup {NoName}, NEW s \in Str \cup {NoStr},
           NEW fails, NEW o, o = StringAppended(st, d, s, fails)
    PROVE  Accounts(st, o)
<1>1. PICK e : e = Ensured(st, d, fails)
  OBVIOUS
<1>2. e \in Outcomes /\ GoodStore(e.store)
  BY <1>1, EnsuredOutcome
<1> DEFINE old   == e.store.values[e.at]
           fresh == old.type # "ARRAY"
           full  == ItemsFull(ArrayOf(old))
<1>3. CASE s = NoStr
  <2>1. o = Outcome(st, TRUE, 0)
    BY <1>3 DEF StringAppended
  <2> QED
    BY <2>1, NothingAccounts DEF Outcome
<1>4. CASE s # NoStr /\ ~e.ok
  <2>1. o = e
    BY <1>1, <1>4 DEF StringAppended
  <2> QED
    BY <1>1, <2>1, EnsuredAccounts
<1>5. CASE s # NoStr /\ e.ok /\ fresh /\ "items" \in fails
  <2>1. o = [Outcome(st, FALSE, 0) EXCEPT !.tried = e.tried \cup {"items"}, !.crash = TRUE]
    BY <1>1, <1>5 DEF StringAppended
  <2>2. o.store = st /\ o.made = 0 /\ o.freed = 0
    BY <2>1 DEF Outcome
  <2> QED
    BY <2>2, NothingAccounts
<1>6. CASE s # NoStr /\ e.ok /\ ~fresh /\ full /\ "items" \in fails
  <2>1. o = [e EXCEPT !.tried = @ \cup {"items"}, !.grown = {e.at}, !.ok = FALSE]
    BY <1>1, <1>6 DEF StringAppended
  <2>2. o.store = e.store /\ o.made = e.made /\ o.freed = e.freed
    BY <1>2, <2>1 DEF Outcomes
  <2> QED
    BY <1>1, <2>2, EnsuredAccounts
<1>7. CASE s # NoStr /\ e.ok /\ ~((fresh \/ full) /\ "items" \in fails)
  <2>1. PICK copy \in {s, NoStr} : copy = IF "copy" \in fails THEN NoStr ELSE s
    OBVIOUS
  <2>2. PICK array : array = ArrayOf(old)
    OBVIOUS
  <2>3. PICK data : data = WithItem(array, copy)
    OBVIOUS
  <2> DEFINE x == [name |-> old.name, type |-> "ARRAY", data |-> data]
             more == (IF fresh THEN 1 ELSE 0) + (IF copy = NoStr THEN 0 ELSE 1)
  <2>4. /\ o.store = [e.store EXCEPT !.values = [@ EXCEPT ![e.at] = x]]
        /\ o.made = e.made + more /\ o.freed = e.freed
    <3>1. o = [Holding(e, "ARRAY", data)
               EXCEPT !.tried = @ \cup {"copy"} \cup (IF fresh \/ full THEN {"items"} ELSE {}),
                      !.grown = IF full THEN {e.at} ELSE @,
                      !.made = @ + more]
      BY <1>1, <1>7, <2>1, <2>2, <2>3 DEF StringAppended
    <3>2. PICK h : h = Holding(e, "ARRAY", data)
      OBVIOUS
    <3>3. h \in [DOMAIN e -> {h[i] : i \in DOMAIN e}] /\ h.made = e.made /\ h.freed = e.freed
          /\ h.store = [e.store EXCEPT !.values = [@ EXCEPT ![e.at] = x]]
      BY <1>2, <3>2 DEF Holding, Outcomes, Store
    <3> HIDE DEF more, fresh, full, x
    <3>4. o.store = h.store /\ o.freed = h.freed /\ o.made = h.made + more
      BY <1>2, <3>1, <3>2, <3>3 DEF Outcomes
    <3> QED
      BY <3>3, <3>4
  <2>5. old.name \in Name \cup {NoName} /\ GoodEntry(old)
    BY <1>1, <1>7, EnsuredEntry
  <2>6. array \in Data /\ Len(array.items) <= array.capacity /\ array.capacity >= 1
    BY <2>2, <2>5, ArrayOfGoodEntry
  <2>7. /\ data \in Data /\ data.items = Append(array.items, copy)
        /\ data.capacity >= 1 /\ Len(data.items) <= data.capacity
    BY <2>1, <2>3, <2>6, ItemHasRoom
  <2>8. GoodEntry(x)
    BY <2>5, <2>7 DEF GoodEntry, Entry, ValueType
  <2>9. Writes(st, d, fails, e, old, x, o)
    BY <1>1, <1>7, <2>4, <2>8 DEF Writes
  <2>10. Strings(data.items) = Strings(array.items) + (IF copy = NoStr THEN 0 ELSE 1)
         /\ Strings(array.items) \in Nat
    BY <2>1, <2>6, <2>7, StringsAppended, StringsType DEF Data
  <2>11. fresh => Strings(array.items) = 0
    <3>1. fresh => array.items = << >>
      BY <2>2 DEF ArrayOf, ArrayData, NoData
    <3> QED
      BY <3>1, StringsOfOne
  <2>12. ~fresh => array.items = old.data.items
    BY <2>2 DEF ArrayOf
  <2>13. EntryBlocks(x) = 2 + (IF old.name = NoName THEN 0 ELSE 1) + Strings(data.items)
    <3>1. x.type = "ARRAY" /\ x.name = old.name /\ x.data = data
      OBVIOUS
    <3> HIDE DEF x
    <3>2. Strings(data.items) \in Nat
      BY <2>10
    <3> QED
      BY <3>1, <3>2, EntryBlocksAre
  <2>14. e.freed = 0 /\ e.made \in Nat
    BY <2>9, WritesBlocks
  <2> DEFINE lost == IF old.type = "STRING" THEN Strings(old.data.items) ELSE 0
  <2>15. Strings(old.data.items) \in Nat
    BY <2>5, StringsType DEF GoodEntry, Entry, Data
  <2>16. EntryBlocks(old) = (IF fresh THEN 1 ELSE 2) + (IF old.name = NoName THEN 0 ELSE 1)
                              + (IF fresh THEN lost ELSE Strings(array.items))
    BY <2>12, <2>15, EntryBlocksAre
  <2>17. Losing(e, old, x, o, more, lost)
    <3> DEFINE named == IF old.name = NoName THEN 0 ELSE 1
               copied == IF copy = NoStr THEN 0 ELSE 1
    <3>1. named \in Nat /\ copied \in Nat /\ lost \in Nat /\ more \in Nat
      BY <2>15
    <3>2. x.type = "ARRAY"
      OBVIOUS
    <3>3. ~fresh => lost = 0
      OBVIOUS
    <3>4. more = (IF fresh THEN 1 ELSE 0) + copied
      OBVIOUS
    <3>5. lost # 0 => old.type = "STRING"
      OBVIOUS
    <3> HIDE DEF named, lost, more, fresh, x, copied
    <3>6. /\ EntryBlocks(x) = 2 + named + Strings(array.items) + copied
          /\ EntryBlocks(old) = (IF fresh THEN 1 ELSE 2) + named
                                  + (IF fresh THEN lost ELSE Strings(array.items))
      BY <2>10, <2>13, <2>16, <3>1 DEF named, copied
    <3>7. lost = more - o.freed - (EntryBlocks(x) - EntryBlocks(old))
      BY <2>4, <2>10, <2>11, <2>14, <3>1, <3>3, <3>4, <3>6
    <3> QED
      BY <2>4, <2>14, <3>1, <3>2, <3>5, <3>7 DEF Losing
  <2> QED
    BY <2>9, <2>17, WritesAccounts
<1> QED
  BY <1>3, <1>4, <1>5, <1>6, <1>7

-----------------------------------------------------------------------------
(***************************************************************************)
(* TypeOK and LostOnlyByRetyping.  The counts of live blocks are natural   *)
(* numbers because what the namespaces own is part of them, so that        *)
(* clap_namespace_free never takes away more than there is.                *)
(***************************************************************************)
OwnedBy(stores) == SumOver([n \in NsId |-> StoreBlocks(stores[n])], NsId)

MemoryInv ==
    /\ reallocFn \in Family /\ locked \in BOOLEAN
    /\ ns = [n \in NsId |-> ns[n]]
    /\ live \in [Family -> Nat]
    /\ OwnedBy(ns) <= live[mallocFn]
    /\ crashed \in BOOLEAN
    /\ failures \in 0..MaxFailures

LEMMA OwnedIs ==
    ASSUME NEW stores
    PROVE  MapThenSumSet(LAMBDA n : StoreBlocks(stores[n]), NsId) = OwnedBy(stores)
<1> DEFINE f == [n \in NsId |-> StoreBlocks(stores[n])]
           IsOwned(g) ==
               g = [T \in SUBSET NsId |->
                      IF T = {} THEN 0
                      ELSE StoreBlocks(stores[Chosen(T)]) + g[T \ {Chosen(T)}]]
           owned == CHOOSE g : IsOwned(g)
           iter  == CHOOSE g : IsSum(f, NsId, g)
<1>1. \A T \in SUBSET NsId : T # {} => f[Chosen(T)] = StoreBlocks(stores[Chosen(T)])
  BY ChosenIsMember
<1>2. \A g : IsOwned(g) <=> IsSum(f, NsId, g)
  <2> SUFFICES ASSUME NEW g
               PROVE  IsOwned(g) <=> IsSum(f, NsId, g)
    OBVIOUS
  <2> HIDE DEF f
  <2> DEFINE a == [T \in SUBSET NsId |->
                      IF T = {} THEN 0
                      ELSE StoreBlocks(stores[Chosen(T)]) + g[T \ {Chosen(T)}]]
             b == [T \in SUBSET NsId |->
                      IF T = {} THEN 0 ELSE f[Chosen(T)] + g[T \ {Chosen(T)}]]
  <2>1. a = b
    BY <1>1
  <2> QED
    BY <2>1 DEF IsSum
<1>3. owned = iter
  <2> HIDE DEF IsOwned, f
  <2> QED
    BY <1>2
<1>4. SumOver(f, NsId) = iter[NsId]
  <2> HIDE DEF f
  <2> QED
    BY DEF SumOver, MapThenSumSet, MapThenFoldSet, IsSum, Chosen
<1>5. MapThenSumSet(LAMBDA n : StoreBlocks(stores[n]), NsId) = owned[NsId]
  BY DEF MapThenSumSet, MapThenFoldSet, Chosen
<1>6. SumOver(f, NsId) = OwnedBy(stores)
  BY DEF OwnedBy
<1> HIDE DEF f, owned, iter
<1> QED
  BY <1>3, <1>4, <1>5, <1>6

\* All live blocks are of one family.
LEMMA LiveOfOne ==
    ASSUME NEW l \in [Family -> Int], NEW f \in Family, \A g \in Family : g # f => l[g] = 0
    PROVE  SumOver(l, Family) = l[f]
<1>1. IsFiniteSet(Family)
  <2>1. Family = {"default"} \cup {"client"}
    BY DEF Family
  <2> QED
    BY <2>1, FS_Singleton, FS_Union
<1>2. SumOver(l, Family) = l[f] + SumOver(l, Family \ {f})
  BY <1>1, SumSplit
<1>3. PICK g \in Family : g # f /\ Family \ {f} = {g}
  BY DEF Family
<1>4. IsFiniteSet({g}) /\ {g} \ {g} = {}
  BY FS_Singleton
<1>5. SumOver(l, {g}) = l[g] + SumOver(l, {g} \ {g})
  BY <1>3, <1>4, SumSplit
<1>6. SumOver(l, {g} \ {g}) = 0
  BY <1>4, SumEmpty, Zenon
<1>7. SumOver(l, Family \ {f}) = SumOver(l, {g})
  BY <1>3, Zenon
<1> QED
  BY <1>2, <1>3, <1>5, <1>6, <1>7

LEMMA LostIs ==
    ASSUME FamilyInv, live \in [Family -> Int]
    PROVE  Lost = live[mallocFn] - OwnedBy(ns)
<1>1. Live = SumOver(live, Family)
  BY DEF Live, SumOver
<1>2. SumOver(live, Family) = live[mallocFn]
  BY LiveOfOne DEF FamilyInv, FreeFitsMalloc
<1>3. Lost = Live - OwnedBy(ns)
  BY OwnedIs DEF Lost
<1> QED
  BY <1>1, <1>2, <1>3

LEMMA LostNextIs ==
    ASSUME FamilyInv', live' \in [Family -> Int]
    PROVE  Lost' = live'[mallocFn'] - OwnedBy(ns')
<1>1. Live' = SumOver(live', Family)
  BY DEF Live, SumOver, MapThenSumSet, MapThenFoldSet, Family
<1>2. SumOver(live', Family) = live'[mallocFn']
  BY LiveOfOne DEF FamilyInv, FreeFitsMalloc, Family
<1>3. Lost' = Live' - OwnedBy(ns')
  <2>1. PICK owned : owned = MapThenSumSet(LAMBDA n : StoreBlocks(ns'[n]), NsId)
    OBVIOUS
  <2>2. owned = OwnedBy(ns')
    BY <2>1, OwnedIs
  <2>3. Lost' = Live' - owned
    BY <2>1 DEF Lost, MapThenSumSet, MapThenFoldSet, StoreBlocks, EntryBlocks, Gone
  <2> QED
    BY <2>2, <2>3
<1> QED
  BY <1>1, <1>2, <1>3

LEMMA BlocksOfAll ==
    ASSUME StoreInv
    PROVE  /\ \A n \in NsId : StoreBlocks(ns[n]) \in Nat
           /\ OwnedBy(ns) \in Nat
<1>1. StoreBlocks(Gone) = 0
  BY DEF StoreBlocks
<1>2. \A n \in NsId : StoreBlocks(ns[n]) \in Nat
  BY <1>1, StoreBlocksAre DEF StoreInv, Exists
<1>3. PICK f : f = [n \in NsId |-> StoreBlocks(ns[n])]
  OBVIOUS
<1>4. SumOver(f, NsId) \in Nat
  BY <1>2, <1>3, SumOfNaturals, StoreAssumption
<1> QED
  BY <1>2, <1>3, <1>4 DEF OwnedBy

\* One store changes: so does what the namespaces own, by as much.
LEMMA OwnedChanges ==
    ASSUME StoreInv, NEW n \in NsId, NEW st, StoreBlocks(st) \in Nat, ns' = [ns EXCEPT ![n] = st]
    PROVE  OwnedBy(ns') = OwnedBy(ns) + StoreBlocks(st) - StoreBlocks(ns[n])
<1>1. PICK f, g : /\ f = [m \in NsId |-> StoreBlocks(ns[m])]
                  /\ g = [m \in NsId |-> StoreBlocks(ns'[m])]
  OBVIOUS
<1>2. /\ \A m \in NsId : f[m] \in Int
      /\ \A m \in NsId : m # n => g[m] = f[m]
      /\ g[n] = StoreBlocks(st) /\ g[n] \in Int /\ f[n] = StoreBlocks(ns[n])
  BY <1>1, BlocksOfAll DEF StoreInv
<1>3. SumOver(g, NsId) = SumOver(f, NsId) + g[n] - f[n]
  BY <1>2, SumChange, StoreAssumption
<1> QED
  BY <1>1, <1>2, <1>3 DEF OwnedBy

(***************************************************************************)
(* A step that changes one store, and the live blocks by as many or more.  *)
(***************************************************************************)
LEMMA MemoryStep ==
    ASSUME FamilyInv, FamilyInv', StoreInv, StoreInv', MemoryInv,
           NEW n \in NsId, NEW st, StoreBlocks(st) \in Nat, ns' = [ns EXCEPT ![n] = st],
           live' \in [Family -> Int],
           NEW more \in Int, mallocFn' = mallocFn, live'[mallocFn] = live[mallocFn] + more,
           NEW lost \in Nat, lost = more - (StoreBlocks(st) - StoreBlocks(ns[n]))
    PROVE  /\ live' \in [Family -> Nat] /\ OwnedBy(ns') <= live'[mallocFn']
           /\ Lost' = Lost + lost /\ Lost \in Int
<1>1. /\ OwnedBy(ns') = OwnedBy(ns) + StoreBlocks(st) - StoreBlocks(ns[n])
      /\ StoreBlocks(ns[n]) \in Nat /\ OwnedBy(ns) \in Nat
  BY OwnedChanges, BlocksOfAll
<1>2. OwnedBy(ns') \in Nat
  <2>1. \A m \in NsId : StoreBlocks(ns'[m]) \in Nat
    BY BlocksOfAll DEF StoreInv
  <2>2. PICK f : f = [m \in NsId |-> StoreBlocks(ns'[m])]
    OBVIOUS
  <2>3. SumOver(f, NsId) \in Nat
    BY <2>1, <2>2, SumOfNaturals, StoreAssumption
  <2> QED
    BY <2>2, <2>3 DEF OwnedBy
<1>3. live[mallocFn] \in Nat /\ OwnedBy(ns) <= live[mallocFn]
  BY DEF MemoryInv, FamilyInv
<1>4. OwnedBy(ns') <= live'[mallocFn'] /\ live'[mallocFn'] \in Nat
  BY <1>1, <1>2, <1>3
<1>5. live' \in [Family -> Nat]
  <2>1. \A f \in Family : live'[f] # 0 => f = mallocFn'
    BY DEF FamilyInv, FreeFitsMalloc, Family
  <2>2. \A f \in Family : live'[f] \in Nat
    BY <1>4, <2>1
  <2> QED
    BY <2>2
<1>6. Lost = live[mallocFn] - OwnedBy(ns)
  BY LostIs DEF MemoryInv
<1>7. Lost' = live'[mallocFn'] - OwnedBy(ns')
  BY <1>5, LostNextIs
<1> QED
  BY <1>1, <1>3, <1>4, <1>5, <1>6, <1>7

LostStep ==
    Lost' # Lost => Lost' > Lost /\ \E n \in NsId : \E i \in DOMAIN ns[n].values : Retyped(n, i)

\* A step that concerns no store and no block.
LEMMA MemoryKept ==
    ASSUME FamilyInv, FamilyInv', StoreInv, MemoryInv, ns' = ns, live' = live,
           mallocFn' = mallocFn, reallocFn' \in Family, locked' \in BOOLEAN,
           crashed' \in BOOLEAN, failures' \in 0..MaxFailures
    PROVE  MemoryInv' /\ Lost' = Lost
<1>1. Lost = live[mallocFn] - OwnedBy(ns)
  BY LostIs DEF MemoryInv
<1>2. Lost' = live'[mallocFn'] - OwnedBy(ns')
  BY LostNextIs DEF MemoryInv
<1>3. Lost' = Lost
  BY <1>1, <1>2
<1>4. OwnedBy(ns)' = OwnedBy(ns') /\ OwnedBy(ns') = OwnedBy(ns)
  BY DEF OwnedBy, SumOver, MapThenSumSet, MapThenFoldSet, StoreBlocks, EntryBlocks, Gone
<1> QED
  BY <1>3, <1>4 DEF MemoryInv

LEMMA CalledMemory ==
    ASSUME FamilyInv, FamilyInv', StoreInv, StoreInv', MemoryInv,
           NEW n \in NsId, Exists(n), NEW fails \in SUBSET Allocation,
           NEW o, Called(n, o, fails), GoodStore(o.store), Accounts(ns[n], o)
    PROVE  MemoryInv' /\ LostStep
<1> DEFINE st == ns[n]
           more == o.made - o.freed
           lost == Loses(st, o)
<1>1. /\ ns' = [ns EXCEPT ![n] = o.store]
      /\ live' = [[live EXCEPT ![mallocFn] = @ + o.made] EXCEPT ![freeFn] = @ - o.freed]
      /\ mallocFn' = mallocFn /\ reallocFn' = reallocFn /\ locked' = TRUE
      /\ crashed' \in BOOLEAN
      /\ failures + Cardinality(fails) <= MaxFailures
      /\ failures' = failures + Cardinality(fails)
      /\ freeFn = mallocFn /\ mallocFn \in Family
  BY DEF Called, Allocates, Failing, FamilyInv
<1>2. /\ o.made \in Int /\ o.freed \in Int /\ lost >= 0
      /\ live \in [Family -> Nat] /\ failures \in Nat /\ MaxFailures \in Nat
      /\ Cardinality(fails) \in Nat
  BY NoneFailed, StoreAssumption DEF Accounts, MemoryInv
<1>3. StoreBlocks(o.store) \in Nat /\ StoreBlocks(st) \in Nat
  BY StoreBlocksAre, BlocksOfAll
<1>4. more \in Int /\ lost \in Nat /\ lost = more - (StoreBlocks(o.store) - StoreBlocks(st))
  BY <1>2, <1>3 DEF Loses
<1>5. live'[mallocFn] = live[mallocFn] + more /\ live' \in [Family -> Int]
  <2> DEFINE change(f) == [[live EXCEPT ![mallocFn] = @ + o.made] EXCEPT ![f] = @ - o.freed]
  <2>1. live' = change(mallocFn)
    <3>1. live' = change(freeFn) /\ freeFn = mallocFn
      BY <1>1
    <3> HIDE DEF change
    <3> QED
      BY <3>1
  <2>2. PICK made, freed : made = o.made /\ freed = o.freed /\ made \in Int /\ freed \in Int
    BY <1>2
  <2>3. live' = [[live EXCEPT ![mallocFn] = @ + made] EXCEPT ![mallocFn] = @ - freed]
    BY <2>1, <2>2
  <2>4. live \in [Family -> Nat] /\ mallocFn \in Family
    BY <1>1, <1>2
  <2>5. live'[mallocFn] = (live[mallocFn] + made) - freed /\ live' \in [Family -> Int]
    BY <2>2, <2>3, <2>4
  <2> QED
    BY <2>2, <2>4, <2>5
<1>6. /\ live' \in [Family -> Nat] /\ OwnedBy(ns') <= live'[mallocFn']
      /\ Lost' = Lost + lost /\ Lost \in Int
  <2> HIDE DEF more, lost
  <2> QED
    BY <1>1, <1>3, <1>4, <1>5, MemoryStep DEF st
<1>7. MemoryInv'
  <2>1. failures' \in 0..MaxFailures
    BY <1>1, <1>2
  <2>2. ns' = [m \in NsId |-> ns'[m]]
    BY <1>1 DEF MemoryInv
  <2>3. OwnedBy(ns)' = OwnedBy(ns')
    BY DEF OwnedBy, SumOver, MapThenSumSet, MapThenFoldSet, StoreBlocks, EntryBlocks, Gone
  <2> HIDE DEF more, lost
  <2> QED
    BY <1>1, <1>6, <2>1, <2>2, <2>3 DEF MemoryInv
<1>8. LostStep
  <2> SUFFICES ASSUME Lost' # Lost
               PROVE  /\ Lost' > Lost
                      /\ \E m \in NsId : \E i \in DOMAIN ns[m].values : Retyped(m, i)
    BY DEF LostStep
  <2>1. lost # 0 /\ Lost' > Lost
    <3> HIDE DEF lost
    <3> QED
      BY <1>4, <1>6
  <2>2. PICK i \in DOMAIN st.values :
           /\ i \in DOMAIN o.store.values
           /\ st.values[i].type \in {"STRING", "ARRAY"}
           /\ o.store.values[i].type # st.values[i].type
    BY <2>1 DEF Accounts
  <2>3. ns'[n] = o.store
    BY <1>1 DEF StoreInv
  <2>4. Retyped(n, i)
    BY <2>2, <2>3 DEF Retyped
  <2> QED
    BY <2>1, <2>4
<1> QED
  BY <1>7, <1>8

LEMMA NewMemory ==
    ASSUME FamilyInv, FamilyInv', StoreInv, StoreInv', MemoryInv, NEW n \in NsId, New(n)
    PROVE  MemoryInv' /\ Lost' = Lost
<1>1. PICK fails \in {{}, {"namespace"}, {"values"}} :
         /\ IF fails = {} THEN Allocates(2, 0) ELSE Allocates(0, 0)
         /\ ns' = IF fails = {} THEN [ns EXCEPT ![n] = NewStore] ELSE ns
         /\ failures + Cardinality(fails) <= MaxFailures
         /\ failures' = failures + Cardinality(fails)
  BY DEF New, Failing
<1>2. /\ mallocFn' = mallocFn /\ reallocFn' = reallocFn /\ locked' = TRUE
      /\ crashed' = crashed /\ ~Exists(n) /\ freeFn = mallocFn /\ mallocFn \in Family
  BY <1>1 DEF New, Allocates, FamilyInv
<1>3. Cardinality(fails) \in {0, 1}
  BY FS_EmptySet, FS_Singleton
<1>4. failures' \in 0..MaxFailures
  BY <1>1, <1>3, StoreAssumption DEF MemoryInv
<1>5. live \in [Family -> Nat]
  BY DEF MemoryInv
<1>6. CASE fails # {}
  <2>1. live' = [[live EXCEPT ![mallocFn] = @ + 0] EXCEPT ![mallocFn] = @ - 0]
    BY <1>1, <1>2, <1>6 DEF Allocates
  <2>2. live' = live
    BY <1>2, <1>5, <2>1
  <2> QED
    BY <1>1, <1>2, <1>4, <1>6, <2>2, MemoryKept DEF MemoryInv
<1>7. CASE fails = {}
  <2>1. StoreBlocks(NewStore) = 2 /\ StoreBlocks(ns[n]) = 0
    <3>1. NewStore.values = << >> /\ DOMAIN << >> = {}
      BY DEF NewStore, Gone
    <3>2. StoreBlocks(NewStore) = 2 + SumOver(Blocks(NewStore), DOMAIN NewStore.values)
      BY NewStoreIsGood, StoreBlocksAre
    <3>3. SumOver(Blocks(NewStore), DOMAIN NewStore.values) = 0
      BY <3>1, SumEmpty, Zenon
    <3> QED
      BY <1>2, <3>2, <3>3 DEF StoreBlocks, Exists
  <2>2. live' = [[live EXCEPT ![mallocFn] = @ + 2] EXCEPT ![mallocFn] = @ - 0]
    BY <1>1, <1>2, <1>7 DEF Allocates
  <2>3. live'[mallocFn] = live[mallocFn] + 2 /\ live' \in [Family -> Int]
    BY <1>2, <1>5, <2>2
  <2>4. PICK more, lost, st : more = 2 /\ lost = 0 /\ st = NewStore
    OBVIOUS
  <2>5. /\ more \in Int /\ lost \in Nat /\ StoreBlocks(st) \in Nat
        /\ lost = more - (StoreBlocks(st) - StoreBlocks(ns[n]))
        /\ ns' = [ns EXCEPT ![n] = st]
        /\ live'[mallocFn] = live[mallocFn] + more
    BY <1>1, <1>7, <2>1, <2>3, <2>4
  <2>6. /\ live' \in [Family -> Nat] /\ OwnedBy(ns') <= live'[mallocFn']
        /\ Lost' = Lost + lost /\ Lost \in Int
    BY <1>2, <2>3, <2>5, MemoryStep
  <2>7. OwnedBy(ns)' = OwnedBy(ns')
    BY DEF OwnedBy, SumOver, MapThenSumSet, MapThenFoldSet, StoreBlocks, EntryBlocks, Gone
  <2>8. ns' = [m \in NsId |-> ns'[m]]
    BY <2>5 DEF MemoryInv
  <2> QED
    BY <1>2, <1>4, <2>4, <2>6, <2>7, <2>8 DEF MemoryInv
<1> QED
  BY <1>6, <1>7

LEMMA FreeMemory ==
    ASSUME FamilyInv, FamilyInv', StoreInv, StoreInv', MemoryInv, NEW n \in NsId, Free(n)
    PROVE  MemoryInv' /\ Lost' = Lost
<1>1. /\ live' = [live EXCEPT ![mallocFn] = @ - StoreBlocks(ns[n])]
      /\ ns' = [ns EXCEPT ![n] = Gone]
      /\ crashed' \in BOOLEAN /\ failures' = failures
      /\ mallocFn' = mallocFn /\ reallocFn' = reallocFn /\ locked' = locked
      /\ mallocFn \in Family
  BY DEF Free, FamilyInv
<1>2. live \in [Family -> Nat] /\ StoreBlocks(ns[n]) \in Nat
  BY BlocksOfAll DEF MemoryInv
<1>3. StoreBlocks(Gone) = 0
  BY DEF StoreBlocks
<1>4. PICK more, lost, st : more = 0 - StoreBlocks(ns[n]) /\ lost = 0 /\ st = Gone
  OBVIOUS
<1>5. /\ more \in Int /\ lost \in Nat /\ StoreBlocks(st) \in Nat
      /\ lost = more - (StoreBlocks(st) - StoreBlocks(ns[n]))
      /\ ns' = [ns EXCEPT ![n] = st]
      /\ live'[mallocFn] = live[mallocFn] + more /\ live' \in [Family -> Int]
  BY <1>1, <1>2, <1>3, <1>4
<1>6. /\ live' \in [Family -> Nat] /\ OwnedBy(ns') <= live'[mallocFn']
      /\ Lost' = Lost + lost /\ Lost \in Int
  BY <1>1, <1>5, MemoryStep
<1>7. OwnedBy(ns)' = OwnedBy(ns')
  BY DEF OwnedBy, SumOver, MapThenSumSet, MapThenFoldSet, StoreBlocks, EntryBlocks, Gone
<1>8. ns' = [m \in NsId |-> ns'[m]]
  BY <1>5 DEF MemoryInv
<1> QED
  BY <1>1, <1>4, <1>6, <1>7, <1>8 DEF MemoryInv

\* As long as no namespace exists nothing is owned.
LEMMA NothingOwned ==
    ASSUME NEW stores, \A n \in NsId : stores[n] = Gone
    PROVE  OwnedBy(stores) = 0
<1>1. PICK f, g : f = [n \in NsId |-> StoreBlocks(stores[n])] /\ g = [n \in NsId |-> 0]
  OBVIOUS
<1>2. \A n \in NsId : f[n] = 0 /\ f[n] \in Nat /\ g[n] = 0
  BY <1>1 DEF StoreBlocks
<1>3. SumOver(f, NsId) = 0
  BY <1>2, SumOfZeros, StoreAssumption
<1> QED
  BY <1>1, <1>3 DEF OwnedBy

LEMMA MemoryInit == Init => MemoryInv
<1> SUFFICES ASSUME Init PROVE MemoryInv
  OBVIOUS
<1>1. OwnedBy(ns) = 0
  BY NothingOwned DEF Init
<1>2. ns = [n \in NsId |-> ns[n]]
  BY DEF Init
<1>3. /\ live \in [Family -> Nat] /\ live[mallocFn] = 0 /\ locked \in BOOLEAN
      /\ reallocFn \in Family /\ crashed \in BOOLEAN
  BY DEF Init, AllocatorInit, Family
<1>4. failures \in 0..MaxFailures
  BY StoreAssumption DEF Init
<1> QED
  BY <1>1, <1>2, <1>3, <1>4 DEF MemoryInv

\* The functions are replaced only as long as nothing is allocated.
LEMMA ReplaceMemory ==
    ASSUME FamilyInv, FamilyInv', StoreInv, MemoryInv, ReplaceAllocator
    PROVE  MemoryInv' /\ Lost' = Lost
<1>1. /\ ns' = ns /\ live' = live /\ crashed' = crashed /\ failures' = failures
      /\ locked' = TRUE /\ reallocFn' \in Family
      /\ mallocFn \in Family /\ mallocFn' \in Family
  BY StoreAssumption
     DEF ReplaceAllocator, SetAllocator, OrDefault, Family, FamilyInv
<1>2. /\ \A f \in Family : live[f] = 0
      /\ \A n \in NsId : ns[n] = Gone
  BY DEF ReplaceAllocator, SetAllocator, FamilyInv, Exists
<1>3. OwnedBy(ns) = 0
  BY <1>2, NothingOwned
<1>4. OwnedBy(ns)' = OwnedBy(ns') /\ OwnedBy(ns') = OwnedBy(ns)
  BY <1>1 DEF OwnedBy, SumOver, MapThenSumSet, MapThenFoldSet, StoreBlocks, EntryBlocks, Gone
<1>5. Lost = live[mallocFn] - OwnedBy(ns)
  BY LostIs DEF MemoryInv
<1>6. Lost' = live'[mallocFn'] - OwnedBy(ns')
  BY <1>1, LostNextIs DEF MemoryInv
<1> QED
  BY <1>1, <1>2, <1>3, <1>4, <1>5, <1>6 DEF MemoryInv

LEMMA ClientMemory ==
    ASSUME FamilyInv, FamilyInv', StoreInv, StoreInv', MemoryInv, NEW n \in NsId, NEW d \in Name,
           \/ \E s \in Str : SetString(n, d, s) \/ AppendString(n, d, s)
           \/ \E k \in Num, type \in NumType : SetNumber(n, d, type, k)
    PROVE  MemoryInv' /\ LostStep
<1>1. Exists(n) /\ GoodStore(ns[n])
  BY DEF SetString, AppendString, SetNumber, Storing, StoreInv
<1>2. ASSUME NEW s \in Str, NEW fails \in SUBSET Allocation,
             Called(n, StringSet(ns[n], d, s, fails), fails)
      PROVE  MemoryInv' /\ LostStep
  <2>1. PICK o : o = StringSet(ns[n], d, s, fails)
    OBVIOUS
  <2>2. PICK V : V = {Promise!StringOf(s), Promise!StringOf(NoStr)}
    OBVIOUS
  <2>3. Effect(ns[n], d, o, V) /\ Accounts(ns[n], o) /\ Called(n, o, fails)
    BY <1>1, <1>2, <2>1, <2>2, StringSetEffect, StringSetAccounts
  <2> QED
    BY <1>1, <2>3, CalledMemory DEF Effect
<1>3. ASSUME NEW s \in Str, NEW fails \in SUBSET Allocation,
             Called(n, StringAppended(ns[n], d, s, fails), fails)
      PROVE  MemoryInv' /\ LostStep
  <2>1. PICK o : o = StringAppended(ns[n], d, s, fails)
    OBVIOUS
  <2>2. PICK V : V = {Promise!ArrayWith(Held(ns[n])[d], s), Promise!ArrayWith(Held(ns[n])[d], NoStr)}
    OBVIOUS
  <2>3. Effect(ns[n], d, o, V) /\ Accounts(ns[n], o) /\ Called(n, o, fails)
    BY <1>1, <1>3, <2>1, <2>2, StringAppendedEffect, StringAppendedAccounts
  <2> QED
    BY <1>1, <2>3, CalledMemory DEF Effect
<1>4. ASSUME NEW k \in Num, NEW type \in NumType, NEW fails \in SUBSET Allocation,
             Called(n, NumberSet(ns[n], d, type, k, fails), fails)
      PROVE  MemoryInv' /\ LostStep
  <2>1. PICK o : o = NumberSet(ns[n], d, type, k, fails)
    OBVIOUS
  <2>2. PICK V : V = {Promise!NumberOf(type, k)}
    OBVIOUS
  <2>3. Effect(ns[n], d, o, V) /\ Accounts(ns[n], o) /\ Called(n, o, fails)
    BY <1>1, <1>4, <2>1, <2>2, NumberSetEffect, NumberSetAccounts
  <2> QED
    BY <1>1, <2>3, CalledMemory DEF Effect
<1>5. EnsureAllocation \subseteq Allocation /\ StringAllocation \subseteq Allocation
  BY DEF EnsureAllocation, StringAllocation, Allocation
<1>6. ASSUME NEW s \in Str, SetString(n, d, s) PROVE MemoryInv' /\ LostStep
  BY <1>2, <1>5, <1>6 DEF SetString
<1>7. ASSUME NEW s \in Str, AppendString(n, d, s) PROVE MemoryInv' /\ LostStep
  BY <1>3, <1>7 DEF AppendString
<1>8. ASSUME NEW k \in Num, NEW type \in NumType, SetNumber(n, d, type, k)
      PROVE  MemoryInv' /\ LostStep
  BY <1>4, <1>5, <1>8 DEF SetNumber
<1> QED
  BY <1>6, <1>7, <1>8

LEMMA CopyMemory ==
    ASSUME FamilyInv, FamilyInv', StoreInv, StoreInv', MemoryInv, CopyEntry
    PROVE  MemoryInv' /\ LostStep
<1>1. PICK n, e, d : n \in NsId /\ n = merge.dst /\ e = MergedEntry /\ d = e.name
  BY DEF CopyEntry, AtEntry, Merging, StoreInv, Merges
<1>2. Exists(n) /\ GoodStore(ns[n]) /\ GoodEntry(e) /\ d \in Name \cup {NoName}
  BY <1>1 DEF CopyEntry, AtEntry, Merging, StoreInv, Merges, GoodStore, MergedEntry, GoodEntry, Entry
<1>3. PICK fails \in SUBSET Allocation :
         \/ /\ e.type = "STRING"
            /\ Called(n, StringSet(ns[n], d, e.data.items[1], fails), fails)
         \/ /\ e.type \in {"INT", "FLOAT", "BOOL"}
            /\ Called(n, NumberSet(ns[n], d, e.type, e.data.num, fails), fails)
         \/ /\ e.type = "ARRAY" /\ merge.item \in DOMAIN e.data.items
            /\ Called(n, StringAppended(ns[n], d, e.data.items[merge.item], fails), fails)
  BY <1>1 DEF CopyEntry
<1>4. CASE e.type = "STRING"
  <2>1. PICK s, o : s = e.data.items[1] /\ o = StringSet(ns[n], d, s, fails)
    OBVIOUS
  <2>2. s \in Str \cup {NoStr}
    BY <1>2, <1>4, <2>1 DEF GoodEntry, Entry, Data
  <2>3. PICK V : V = {Promise!StringOf(s), Promise!StringOf(NoStr)}
    OBVIOUS
  <2>4. Effect(ns[n], d, o, V) /\ Accounts(ns[n], o)
    BY <1>2, <2>1, <2>2, <2>3, StringSetEffect, StringSetAccounts
  <2>5. Called(n, o, fails)
    BY <1>3, <1>4, <2>1
  <2> QED
    BY <1>1, <1>2, <2>4, <2>5, CalledMemory DEF Effect
<1>5. CASE e.type \in {"INT", "FLOAT", "BOOL"}
  <2>1. PICK k, o : k = e.data.num /\ o = NumberSet(ns[n], d, e.type, k, fails)
    OBVIOUS
  <2>2. k \in Num /\ e.type \in NumType
    BY <1>2, <1>5, <2>1 DEF GoodEntry, Entry, Data
  <2>3. PICK V : V = {Promise!NumberOf(e.type, k)}
    OBVIOUS
  <2>4. Effect(ns[n], d, o, V) /\ Accounts(ns[n], o)
    BY <1>2, <2>1, <2>2, <2>3, NumberSetEffect, NumberSetAccounts
  <2>5. Called(n, o, fails)
    BY <1>3, <1>5, <2>1
  <2> QED
    BY <1>1, <1>2, <2>4, <2>5, CalledMemory DEF Effect
<1>6. CASE e.type = "ARRAY" /\ merge.item \in DOMAIN e.data.items
  <2>1. PICK s, o : s = e.data.items[merge.item] /\ o = StringAppended(ns[n], d, s, fails)
    OBVIOUS
  <2>2. s \in Str \cup {NoStr}
    BY <1>2, <1>6, <2>1 DEF GoodEntry, Entry, Data
  <2>3. PICK V : V = {Promise!ArrayWith(Held(ns[n])[d], s), Promise!ArrayWith(Held(ns[n])[d], NoStr)}
    OBVIOUS
  <2>4. Effect(ns[n], d, o, V) /\ Accounts(ns[n], o)
    BY <1>2, <2>1, <2>2, <2>3, StringAppendedEffect, StringAppendedAccounts
  <2>5. Called(n, o, fails)
    BY <1>3, <1>6, <2>1
  <2> QED
    BY <1>1, <1>2, <2>4, <2>5, CalledMemory DEF Effect
<1> QED
  BY <1>3, <1>4, <1>5, <1>6

LEMMA MemoryNext ==
    ASSUME FamilyInv, FamilyInv', StoreInv, StoreInv', MemoryInv, [Next]_vars
    PROVE  MemoryInv' /\ LostStep
<1>1. ASSUME MemoryInv' /\ Lost' = Lost
      PROVE  MemoryInv' /\ LostStep
  BY <1>1 DEF LostStep
<1>2. CASE UNCHANGED vars
  BY <1>1, <1>2, MemoryKept DEF vars, allocator, MemoryInv
<1>3. CASE ReplaceAllocator
  BY <1>1, <1>3, ReplaceMemory
<1>4. ASSUME NEW n \in NsId, New(n)
      PROVE  MemoryInv' /\ LostStep
  BY <1>1, <1>4, NewMemory
<1>5. ASSUME NEW n \in NsId, Free(n)
      PROVE  MemoryInv' /\ LostStep
  BY <1>1, <1>5, FreeMemory
<1>6. ASSUME NEW n \in NsId, NEW d \in Name,
             \/ \E s \in Str : SetString(n, d, s) \/ AppendString(n, d, s)
             \/ \E k \in Num, type \in NumType : SetNumber(n, d, type, k)
      PROVE  MemoryInv' /\ LostStep
  BY <1>6, ClientMemory
<1>7. CASE CopyEntry
  BY <1>7, CopyMemory
<1>8. CASE \/ \E dst, src \in NsId : BeginMerge(dst, src)
           \/ MergeCrashes \/ SkipEntry \/ EndMerge \/ Stopped
  <2>1. /\ ns' = ns /\ live' = live /\ mallocFn' = mallocFn /\ reallocFn' = reallocFn
        /\ locked' = locked /\ crashed' \in {crashed, TRUE} /\ failures' = failures
    BY <1>8 DEF BeginMerge, MergeCrashes, SkipEntry, EndMerge, Stopped, vars, allocator
  <2> QED
    BY <1>1, <2>1, MemoryKept DEF MemoryInv
<1> QED
  BY <1>2, <1>3, <1>4, <1>5, <1>6, <1>7, <1>8 DEF Next

\* Every variable has its type.
THEOREM TypeOKAlways == Spec => []TypeOK
<1>1. FamilyInv /\ StoreInv /\ GrownInv /\ MemoryInv => TypeOK
  <2> SUFFICES ASSUME FamilyInv, StoreInv, GrownInv, MemoryInv PROVE TypeOK
    OBVIOUS
  <2>1. AllocatorTypeOK
    BY DEF FamilyInv, MemoryInv, AllocatorTypeOK
  <2>2. Gone \in Store
    BY DEF Gone, Store
  <2>3. ns \in [NsId -> Store]
    BY <2>2 DEF StoreInv, MemoryInv, Exists, GoodStore
  <2>4. merge \in [dst : NsId, src : NsId, entry : Nat, item : Nat] \cup {NoMerge}
    BY DEF StoreInv, Merges
  <2>5. moved \in [NsId -> SUBSET Nat]
    <3>1. \A n \in NsId : \A a \in moved[n] : a = 0 \/ a \in DOMAIN ns[n].values
      BY DEF GrownInv, HasGrown
    <3>2. \A n \in NsId : DOMAIN ns[n].values \subseteq Nat
      BY <2>3 DEF Store
    <3>3. moved = [n \in NsId |-> moved[n]]
      BY DEF FamilyInv
    <3> QED
      BY <3>1, <3>2, <3>3
  <2> QED
    BY <2>1, <2>3, <2>4, <2>5 DEF TypeOK, StoreInv, MemoryInv
<1>2. Init => FamilyInv /\ StoreInv /\ GrownInv /\ MemoryInv
  BY FamilyInit, StoreInit, GrownInit, MemoryInit
<1>3. /\ FamilyInv /\ StoreInv /\ GrownInv /\ MemoryInv /\ [Next]_vars
      => FamilyInv' /\ StoreInv' /\ GrownInv' /\ MemoryInv'
  BY FamilyNext, StoreNext, GrownNext, MemoryNext
<1> QED
  BY <1>1, <1>2, <1>3, PTL DEF Spec

(***************************************************************************)
(* Memory is lost in one way only: by a call that changes the type of an   *)
(* entry that owns a string or an array (clap_namespace.c:95-145).  No     *)
(* failed allocation, no merge and no clap_namespace_free loses a block or *)
(* releases one twice.                                                     *)
(***************************************************************************)
THEOREM LostOnlyByRetypingAlways == Spec => LostOnlyByRetyping
<1>1. Init => FamilyInv /\ StoreInv /\ MemoryInv
  BY FamilyInit, StoreInit, MemoryInit
<1>2. FamilyInv /\ StoreInv /\ MemoryInv /\ [Next]_vars =>
        FamilyInv' /\ StoreInv' /\ MemoryInv' /\ LostStep
  BY FamilyNext, StoreNext, MemoryNext
<1>3. LostStep => [Lost' # Lost => Lost' > Lost /\ \E n \in NsId : \E i \in DOMAIN ns[n].values :
                                                      Retyped(n, i)]_vars
  BY DEF LostStep
<1> QED
  BY <1>1, <1>2, <1>3, PTL DEF Spec, LostOnlyByRetyping
=============================================================================
