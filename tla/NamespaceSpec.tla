--------------------------- MODULE NamespaceSpec ----------------------------
(***************************************************************************)
(* What a namespace of libclap promises its users, who are the parser and  *)
(* the client: a map from keys to tagged values, in which a call concerns  *)
(* the key it names and no other.  A call that says FALSE has changed      *)
(* nothing.  When memory runs out a call may have no effect, whatever it   *)
(* says, or keep a NULL in place of its string; that is all it may do.     *)
(***************************************************************************)
EXTENDS Integers, Sequences

CONSTANTS NsId, Name, Str, NoStr, Num, NumType

VARIABLES
    map,     \* what each namespace holds; the empty function if there is none
    result   \* what the last call returned

Value == [type : {"ABSENT", "STRING", "INT", "FLOAT", "BOOL", "ARRAY"},
          items : Seq(Str \cup {NoStr}), num : Num]

Absent == [type |-> "ABSENT", items |-> << >>, num |-> 0]
StringOf(s) == [type |-> "STRING", items |-> <<s>>, num |-> 0]
NumberOf(type, k) == [type |-> type, items |-> << >>, num |-> k]
ArrayWith(old, s) ==
    [type |-> "ARRAY", num |-> 0,
     items |-> IF old.type = "ARRAY" THEN Append(old.items, s) ELSE <<s>>]

NoMap == << >>
EmptyMap == [d \in Name |-> Absent]

SpecInit == map = [n \in NsId |-> NoMap] /\ result = TRUE

Create(n) ==
    /\ map[n] = NoMap
    /\ \/ map' = [map EXCEPT ![n] = EmptyMap] /\ result' = TRUE
       \/ map' = map /\ result' = FALSE

Destroy(n) ==
    /\ map[n] # NoMap
    /\ map' = [map EXCEPT ![n] = NoMap]
    /\ UNCHANGED result

\* The entry of d becomes one of the given values, or the call has no effect.
Becomes(n, d, values) ==
    /\ map[n] # NoMap
    /\ \/ \E v \in values : map' = [map EXCEPT ![n][d] = v] /\ result' = TRUE
       \/ map' = map /\ result' \in BOOLEAN

PutString(n, d, s) == Becomes(n, d, {StringOf(s), StringOf(NoStr)})
PutNumber(n, d, type, k) == Becomes(n, d, {NumberOf(type, k)})
AppendString(n, d, s) ==
    Becomes(n, d, {ArrayWith(map[n][d], s), ArrayWith(map[n][d], NoStr)})

SpecNext ==
    \E n \in NsId :
        \/ Create(n)
        \/ Destroy(n)
        \/ \E d \in Name :
              \/ \E s \in Str : PutString(n, d, s) \/ AppendString(n, d, s)
              \/ \E k \in Num, type \in NumType : PutNumber(n, d, type, k)

Spec == SpecInit /\ [][SpecNext]_<<map, result>>
=============================================================================
