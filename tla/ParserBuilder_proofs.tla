------------------------ MODULE ParserBuilder_proofs ------------------------
(***************************************************************************)
(* Whatever a client builds, in whatever order and whichever allocations   *)
(* fail: the flags of an argument follow its nargs, the group id of an     *)
(* argument is that of a group which lists it and, unless an id was lost   *)
(* to a failed allocation or set by the client, that group's index; the    *)
(* arrays of options and of positionals list the arguments of the parser   *)
(* in order; no NULL pointer is used unless an allocation has failed; the  *)
(* blocks that are out are those the parser owns, with two ways to lose    *)
(* one; and the help shows every argument.                                 *)
(* These invariants are of the parser alone, so that each call is one      *)
(* lemma about the outcome it computes: what it keeps, and that it pays    *)
(* for what it changes.                                                    *)
(***************************************************************************)
EXTENDS HelpSections, Folds_proofs, SequenceTheorems

-----------------------------------------------------------------------------
(***************************************************************************)
(* The invariant.                                                          *)
(***************************************************************************)
\* The flags of one argument follow its nargs.
FlagsOf(a) ==
    /\ "MULTIPLE" \in a.flags <=> Multiple(a.nargs)
    /\ "POSITIONAL" \in a.flags => ("REQUIRED" \in a.flags <=> ~Omittable(a.nargs))

(***************************************************************************)
(* An id is taken before its group is made, so that there may be more ids  *)
(* than groups, but every group has one that was taken; as long as there   *)
(* are no more, the ids are the places of the groups, and an id that is    *)
(* not the place of its group comes after one that was lost.               *)
(***************************************************************************)
IdsOf(groups, next) ==
    /\ Len(groups) <= next
    /\ \A i \in DOMAIN groups : groups[i].id < next
    /\ next = Len(groups) => \A i \in DOMAIN groups : groups[i].id = i - 1
    /\ next = Len(groups) \/ IdLostBelow(groups, next)
    /\ \A i \in DOMAIN groups : groups[i].id = i - 1 \/ IdLostBelow(groups, groups[i].id)

GroupIds(q) == IdsOf(q.groups["mutex"], q.next["mutex"])

\* parser->arguments has no argument twice and none that was released.
ArgumentsOnce(q) ==
    /\ \A i, j \in DOMAIN q.args : q.args[i] = q.args[j] => i = j
    /\ \A i \in DOMAIN q.args : Usable(q, q.args[i])

\* What holds after any failure.
Safe(q) ==
    /\ q \in Parser
    /\ \A x \in ArgId : Len(q.arg[x].deps) <= MaxDependencies
    /\ \A x \in ArgId : FlagsOf(q.arg[x])
    /\ GroupIds(q)
    /\ ArgumentsOnce(q)

(***************************************************************************)
(* What the memory of a live parser rests on: every argument the client    *)
(* can use is in parser->arguments, whence it will be released, and what   *)
(* clap_add_subparsers sets is not there before it is called.              *)
(***************************************************************************)
Tidy(q) ==
    /\ q.live
    /\ \A x \in ArgId : Usable(q, x) => x \in ToSet(q.args)
    /\ ~q.hasSubparsers => /\ "dest" \notin q.texts /\ "commands" \notin q.arrays
                          /\ ~q.container /\ q.commands = 0

\* No pointer that is used later is NULL.
NoNull(q) ==
    /\ \A x \in ArgId : q.arg[x].choices > 0 => q.arg[x].choiceArray
    /\ \A i \in DOMAIN q.types : q.types[i] # NoName

\* Nothing is indexed that is not there, and what is there is indexed in order.
Indices(q) ==
    /\ \A i \in DOMAIN q.positionals : q.arg[q.positionals[i]].made
    /\ ToSet(q.optionals) = Flagged(q, "OPTIONAL")
    /\ Lists(q, q.optionals, Flagged(q, "OPTIONAL"))
    /\ Lists(q, q.positionals, Flagged(q, "POSITIONAL"))

\* What holds besides as long as no allocation has failed.
Whole(q) == NoNull(q) /\ Indices(q)

(***************************************************************************)
(* What the help rests on, whichever allocations fail: no argument is      *)
(* indexed twice or before it is made, and an argument has the id of a     *)
(* display group exactly if some group lists it.                           *)
(***************************************************************************)
Once(array) == \A i, j \in DOMAIN array : array[i] = array[j] => i = j

IndexedOnce(q) ==
    /\ Once(q.positionals) /\ Once(q.optionals)
    /\ ToSet(q.positionals) \cap ToSet(q.optionals) = {}
    /\ \A x \in ToSet(q.positionals) \cup ToSet(q.optionals) : q.arg[x].made

InDisplayGroup(q, x) ==
    \E i \in DOMAIN q.groups["display"] : x \in ToSet(q.groups["display"][i].args)

Displayed(q) ==
    \A x \in ArgId : /\ q.arg[x].group["display"] = NONE <=> ~InDisplayGroup(q, x)
                     /\ InDisplayGroup(q, x) => q.arg[x].made

Shown(q) == IndexedOnce(q) /\ Displayed(q)

BuilderInv ==
    /\ Safe(p) /\ Shown(p)
    /\ failures \in Nat
    /\ failures = 0 => ~crashed /\ Whole(p)

-----------------------------------------------------------------------------
(***************************************************************************)
(* Operators of the libraries.                                             *)
(***************************************************************************)
\* A sequence with one entry more.
LEMMA AppendEntries ==
    ASSUME NEW S, NEW s \in Seq(S), NEW x \in S
    PROVE  /\ Append(s, x) \in Seq(S)
           /\ Len(s) \in Nat /\ DOMAIN s = 1..Len(s)
           /\ DOMAIN Append(s, x) = 1..(Len(s) + 1)
           /\ \A i \in DOMAIN s : i \in DOMAIN Append(s, x) /\ Append(s, x)[i] = s[i]
           /\ Append(s, x)[Len(s) + 1] = x
           /\ \A i \in DOMAIN Append(s, x) : i = Len(s) + 1 \/ i \in DOMAIN s
           /\ ToSet(Append(s, x)) = ToSet(s) \cup {x}
<1>1. Len(s) \in Nat /\ DOMAIN s = 1..Len(s)
    BY LenProperties
<1>2. /\ Append(s, x) \in Seq(S) /\ DOMAIN Append(s, x) = 1..(Len(s) + 1)
      /\ \A i \in 1..Len(s) : Append(s, x)[i] = s[i]
      /\ Append(s, x)[Len(s) + 1] = x
    BY AppendProperties
<1>3. /\ \A i \in DOMAIN s : i \in DOMAIN Append(s, x)
      /\ \A i \in DOMAIN Append(s, x) : i = Len(s) + 1 \/ i \in DOMAIN s
      /\ Len(s) + 1 \in DOMAIN Append(s, x)
    BY <1>1, <1>2
<1>4. ToSet(Append(s, x)) = ToSet(s) \cup {x}
    BY <1>1, <1>2, <1>3 DEF ToSet
<1> QED
    BY <1>1, <1>2, <1>3, <1>4

\* With another entry at its end a sequence still has no entry twice.
LEMMA AppendedOnce ==
    ASSUME NEW S, NEW s \in Seq(S), NEW x \in S, x \notin ToSet(s), Once(s)
    PROVE  Once(Append(s, x))
<1>1. \A k \in DOMAIN Append(s, x) : \/ k = Len(s) + 1 /\ Append(s, x)[k] = x
                                     \/ /\ k \in DOMAIN s /\ Append(s, x)[k] = s[k]
                                        /\ Append(s, x)[k] # x
    BY AppendEntries DEF ToSet
<1> QED
    BY <1>1 DEF Once

\* A sequence without the entry at one place: the later entries move down by one.
LEMMA RemoveAtEntries ==
    ASSUME NEW S, NEW s \in Seq(S), NEW k \in DOMAIN s
    PROVE  /\ RemoveAt(s, k) \in Seq(S)
           /\ Len(RemoveAt(s, k)) = Len(s) - 1
           /\ \A i \in 1..(Len(s) - 1) : RemoveAt(s, k)[i] = s[IF i < k THEN i ELSE i + 1]
<1> DEFINE front == SubSeq(s, 1, k - 1)
           back == SubSeq(s, k + 1, Len(s))
<1>0. Len(s) \in Nat /\ k \in 1..Len(s) /\ k - 1 \in Nat /\ Len(s) - k \in Nat
    BY LenProperties
<1>1. front \in Seq(S) /\ Len(front) = k - 1 /\ \A i \in 1..(k - 1) : front[i] = s[i]
    BY SubSeqProperties
<1>2. /\ back \in Seq(S) /\ Len(back) = Len(s) - k
      /\ \A i \in 1..(Len(s) - k) : back[i] = s[k + i]
    BY SubSeqProperties
<1>3. RemoveAt(s, k) = front \o back
    BY DEF RemoveAt
<1> HIDE DEF front, back
<1>4. /\ front \o back \in Seq(S)
      /\ Len(front \o back) = Len(s) - 1
      /\ \A i \in 1..(Len(s) - 1) :
            (front \o back)[i] = IF i <= k - 1 THEN front[i] ELSE back[i - (k - 1)]
    <2>1. Len(front) + Len(back) = Len(s) - 1
        BY <1>0, <1>1, <1>2
    <2>2. /\ front \o back \in Seq(S)
          /\ Len(front \o back) = Len(front) + Len(back)
          /\ \A i \in 1..Len(front) + Len(back) :
                (front \o back)[i] = IF i <= Len(front) THEN front[i] ELSE back[i - Len(front)]
        BY <1>1, <1>2, ConcatProperties
    <2> QED
        BY <1>1, <1>2, <2>1, <2>2
<1>5. \A i \in 1..(Len(s) - 1) :
         (front \o back)[i] = s[IF i < k THEN i ELSE i + 1]
    <2> SUFFICES ASSUME NEW i \in 1..(Len(s) - 1)
                 PROVE  (front \o back)[i] = s[IF i < k THEN i ELSE i + 1]
        OBVIOUS
    <2>1. CASE i <= k - 1
        BY <1>0, <1>1, <1>4, <2>1
    <2>2. CASE ~(i <= k - 1)
        <3>1. i - (k - 1) \in 1..(Len(s) - k) /\ k + (i - (k - 1)) = i + 1
            BY <1>0, <2>2
        <3>2. ~(i < k)
            BY <1>0, <2>2
        <3>3. (front \o back)[i] = back[i - (k - 1)]
            BY <1>4, <2>2
        <3> QED
            BY <1>2, <3>1, <3>2, <3>3
    <2> QED
        BY <2>1, <2>2
<1> QED
    BY <1>3, <1>4, <1>5

\* The first place of an entry, if there is one, is the place RemoveFirst removes.
LEMMA RemoveFirstPlace ==
    ASSUME NEW S, NEW s \in Seq(S), NEW e
    PROVE  IF e \in ToSet(s)
           THEN \E k \in DOMAIN s : s[k] = e /\ RemoveFirst(s, e) = RemoveAt(s, k)
           ELSE RemoveFirst(s, e) = s
<1> DEFINE places == {i \in 1..Len(s) : s[i] = e}
<1>1. DOMAIN s = 1..Len(s)
    OBVIOUS
<1>2. CASE e \in ToSet(s)
    <2>1. places # {} /\ places \in SUBSET Nat
        BY <1>1, <1>2 DEF ToSet
    <2>2. SelectInSeq(s, LAMBDA v : v = e) = Min(places)
        BY <2>1 DEF SelectInSeq
    <2>3. RemoveFirst(s, e) = RemoveAt(s, Min(places))
        BY <2>1, <2>2 DEF RemoveFirst
    <2>4. Min(places) \in places
        BY <2>1, MinOfNaturals
    <2> QED
        BY <1>1, <1>2, <2>3, <2>4
<1>3. CASE e \notin ToSet(s)
    <2>1. ~\E i \in 1..Len(s) : s[i] = e
        BY <1>1, <1>3 DEF ToSet
    <2> QED
        BY <1>3, <2>1 DEF RemoveFirst
<1> QED
    BY <1>2, <1>3

-----------------------------------------------------------------------------
(***************************************************************************)
(* The blocks of a parser: the sum of those of its arguments, of its       *)
(* groups, of its types, and its own.                                      *)
(***************************************************************************)
Shows(q) == [i \in DOMAIN q.args |-> ArgumentBlocks(q.arg[q.args[i]])]
Titles(groups) == [i \in DOMAIN groups |-> 2 + One(groups[i].titled)]

ArgumentsBlocks(q) == SumOver(Shows(q), DOMAIN q.args)
TypeBlocks(types) == Cardinality({i \in DOMAIN types : types[i] # NoName})
OwnBlocks(q) == 2 + Cardinality(q.texts) + Cardinality(q.arrays) + q.commands + One(q.container)

LEMMA ArgumentsSum ==
    ASSUME NEW q
    PROVE  MapThenSumSet(LAMBDA i : ArgumentBlocks(q.arg[q.args[i]]), DOMAIN q.args)
           = ArgumentsBlocks(q)
<1> DEFINE D == DOMAIN q.args
           IsBlocks(g) ==
               g = [T \in SUBSET D |->
                      IF T = {} THEN 0
                      ELSE ArgumentBlocks(q.arg[q.args[Chosen(T)]]) + g[T \ {Chosen(T)}]]
           blocks == CHOOSE g : IsBlocks(g)
           iter   == CHOOSE g : IsSum(Shows(q), D, g)
<1>1. \A T \in SUBSET D : T # {} => Shows(q)[Chosen(T)] = ArgumentBlocks(q.arg[q.args[Chosen(T)]])
    BY ChosenIsMember DEF Shows
<1>2. \A g : IsBlocks(g) <=> IsSum(Shows(q), D, g)
    <2> SUFFICES ASSUME NEW g
                 PROVE  IsBlocks(g) <=> IsSum(Shows(q), D, g)
        OBVIOUS
    <2> DEFINE a == [T \in SUBSET D |->
                        IF T = {} THEN 0
                        ELSE ArgumentBlocks(q.arg[q.args[Chosen(T)]]) + g[T \ {Chosen(T)}]]
               b == [T \in SUBSET D |->
                        IF T = {} THEN 0
                        ELSE Shows(q)[Chosen(T)] + g[T \ {Chosen(T)}]]
    <2>1. a = b
        BY <1>1
    <2> QED
        BY <2>1 DEF IsSum
<1>3. blocks = iter
    <2> HIDE DEF IsBlocks
    <2> QED
        BY <1>2
<1>4. SumOver(Shows(q), D) = iter[D]
    BY DEF SumOver, MapThenSumSet, MapThenFoldSet, IsSum, Chosen
<1>5. MapThenSumSet(LAMBDA i : ArgumentBlocks(q.arg[q.args[i]]), D) = blocks[D]
    BY DEF MapThenSumSet, MapThenFoldSet, Chosen
<1>6. ArgumentsBlocks(q) = SumOver(Shows(q), D)
    BY DEF ArgumentsBlocks
<1> HIDE DEF D, blocks, iter
<1> QED
    BY <1>3, <1>4, <1>5, <1>6 DEF D

LEMMA GroupsSum ==
    ASSUME NEW groups
    PROVE  GroupBlocks(groups) = SumOver(Titles(groups), DOMAIN groups)
<1> DEFINE D == DOMAIN groups
           IsBlocks(g) ==
               g = [T \in SUBSET D |->
                      IF T = {} THEN 0
                      ELSE (2 + One(groups[Chosen(T)].titled)) + g[T \ {Chosen(T)}]]
           blocks == CHOOSE g : IsBlocks(g)
           iter   == CHOOSE g : IsSum(Titles(groups), D, g)
<1>1. \A T \in SUBSET D : T # {} => Titles(groups)[Chosen(T)] = 2 + One(groups[Chosen(T)].titled)
    BY ChosenIsMember DEF Titles
<1>2. \A g : IsBlocks(g) <=> IsSum(Titles(groups), D, g)
    <2> SUFFICES ASSUME NEW g
                 PROVE  IsBlocks(g) <=> IsSum(Titles(groups), D, g)
        OBVIOUS
    <2> DEFINE a == [T \in SUBSET D |->
                        IF T = {} THEN 0
                        ELSE (2 + One(groups[Chosen(T)].titled)) + g[T \ {Chosen(T)}]]
               b == [T \in SUBSET D |->
                        IF T = {} THEN 0
                        ELSE Titles(groups)[Chosen(T)] + g[T \ {Chosen(T)}]]
    <2>1. a = b
        BY <1>1
    <2> QED
        BY <2>1 DEF IsSum
<1>3. blocks = iter
    <2> HIDE DEF IsBlocks
    <2> QED
        BY <1>2
<1>4. SumOver(Titles(groups), D) = iter[D]
    BY DEF SumOver, MapThenSumSet, MapThenFoldSet, IsSum, Chosen
<1>5. GroupBlocks(groups) = blocks[D]
    BY DEF GroupBlocks, MapThenSumSet, MapThenFoldSet, Chosen
<1> HIDE DEF D, blocks, iter
<1> QED
    BY <1>3, <1>4, <1>5 DEF D

\* The number of members of a set of strings.
LEMMA SmallSets ==
    ASSUME NEW q \in Parser
    PROVE  /\ IsFiniteSet(q.texts) /\ Cardinality(q.texts) \in Nat
           /\ IsFiniteSet(q.arrays) /\ Cardinality(q.arrays) \in Nat
           /\ \A x \in ArgId : IsFiniteSet(q.arg[x].texts) /\ Cardinality(q.arg[x].texts) \in Nat
<1>1. /\ q.texts \in SUBSET {"prog", "dest"} /\ q.arrays \in SUBSET Array
      /\ \A x \in ArgId : q.arg[x] \in Argument
    BY DEF Parser
<1>2. IsFiniteSet({"prog", "dest"})
    <2>1. IsFiniteSet({"prog"}) /\ {"prog", "dest"} = {"prog"} \cup {"dest"}
        BY FS_Singleton
    <2> QED
        BY <2>1, FS_AddElement
<1>3. IsFiniteSet(Array)
    <2>1. Array = (((({"positionals"} \cup {"optionals"}) \cup {"mutex"}) \cup {"display"})
                     \cup {"types"}) \cup {"commands"}
        BY DEF Array
    <2>2. IsFiniteSet({"positionals"}) /\ IsFiniteSet({"positionals"} \cup {"optionals"})
        BY FS_Singleton, FS_AddElement
    <2>3. IsFiniteSet(({"positionals"} \cup {"optionals"}) \cup {"mutex"})
        BY <2>2, FS_AddElement
    <2>4. IsFiniteSet((({"positionals"} \cup {"optionals"}) \cup {"mutex"}) \cup {"display"})
        BY <2>3, FS_AddElement
    <2>5. IsFiniteSet(((({"positionals"} \cup {"optionals"}) \cup {"mutex"}) \cup {"display"})
                        \cup {"types"})
        BY <2>4, FS_AddElement
    <2> QED
        BY <2>1, <2>5, FS_AddElement
<1>4. IsFiniteSet(Owned)
    <2>1. Owned = (((Text \cup {"name"}) \cup {"dest"}) \cup {"type"}) \cup {"deprecated"}
        BY DEF Owned
    <2>2. IsFiniteSet(Text \cup {"name"})
        BY BuilderAssumption, FS_AddElement
    <2>3. IsFiniteSet((Text \cup {"name"}) \cup {"dest"})
        BY <2>2, FS_AddElement
    <2>4. IsFiniteSet(((Text \cup {"name"}) \cup {"dest"}) \cup {"type"})
        BY <2>3, FS_AddElement
    <2> QED
        BY <2>1, <2>4, FS_AddElement
<1>5. \A x \in ArgId : q.arg[x].texts \in SUBSET Owned
    BY <1>1 DEF Argument
<1>6. \A S, F : IsFiniteSet(F) /\ S \in SUBSET F => IsFiniteSet(S) /\ Cardinality(S) \in Nat
    BY FS_Subset, FS_CardinalityType
<1> QED
    BY <1>1, <1>2, <1>3, <1>4, <1>5, <1>6

LEMMA ArgumentBlocksType ==
    ASSUME NEW q \in Parser, NEW x \in ArgId
    PROVE  ArgumentBlocks(q.arg[x]) \in Nat
<1>1. /\ q.arg[x] \in Argument /\ Cardinality(q.arg[x].texts) \in Nat
      /\ Len(q.arg[x].deps) \in Nat
    <2>1. q.arg[x] \in Argument
        BY DEF Parser
    <2> QED
        BY <2>1, SmallSets, LenProperties DEF Argument
<1>2. /\ q.arg[x].strings \in Nat /\ q.arg[x].choices \in Nat
      /\ q.arg[x].choiceArray \in BOOLEAN /\ q.arg[x].depArray \in BOOLEAN
    BY <1>1 DEF Argument
<1>3. PICK a : a = q.arg[x]
    OBVIOUS
<1>4. ArgumentBlocks(a) \in Nat
    <2>1. PICK t, c, d :
              /\ c \in Nat /\ d \in Nat /\ t = Cardinality(a.texts) /\ d = One(a.depArray)
              /\ c = IF a.choiceArray THEN 1 + a.choices ELSE 0
        BY <1>2, <1>3 DEF One
    <2>2. t \in Nat /\ a.strings \in Nat /\ Len(a.deps) \in Nat
        BY <1>1, <1>2, <1>3, <2>1, Zenon
    <2>3. ArgumentBlocks(a) = 2 + a.strings + t + c + d + 2 * Len(a.deps)
        BY <2>1 DEF ArgumentBlocks
    <2>4. PICK n, l : n = a.strings /\ l = Len(a.deps)
        OBVIOUS
    <2>5. n \in Nat /\ l \in Nat /\ t \in Nat /\ c \in Nat /\ d \in Nat
        BY <2>1, <2>2, <2>4, Zenon
    <2>6. 2 + n + t + c + d + 2 * l \in Nat
        BY <2>5
    <2> QED
        BY <2>3, <2>4, <2>6, Zenon
<1> QED
    BY <1>3, <1>4

\* Every part of the bill is a natural number, over a finite set of places.
LEMMA PartsType ==
    ASSUME NEW q \in Parser
    PROVE  /\ OwnBlocks(q) \in Nat
           /\ IsFiniteSet(DOMAIN q.args) /\ \A i \in DOMAIN q.args : Shows(q)[i] \in Nat
           /\ ArgumentsBlocks(q) \in Nat
           /\ \A k \in Kind : GroupBlocks(q.groups[k]) \in Nat
           /\ IsFiniteSet(DOMAIN q.types) /\ TypeBlocks(q.types) \in Nat
<1>1. OwnBlocks(q) \in Nat
    <2>1. q.commands \in Nat /\ One(q.container) \in Nat
        BY DEF Parser, One
    <2>2. Cardinality(q.texts) \in Nat /\ Cardinality(q.arrays) \in Nat
        BY SmallSets
    <2> QED
        BY <2>1, <2>2 DEF OwnBlocks
<1>2. \A S, s : s \in Seq(S) => DOMAIN s = 1..Len(s) /\ IsFiniteSet(DOMAIN s)
    BY LenProperties, FS_Interval
<1>3. q.args \in Seq(ArgId) /\ q.types \in Seq(ToSet(Builtin) \cup TypeName \cup {NoName})
      /\ \A k \in Kind : q.groups[k] \in Seq(Group)
    BY DEF Parser
<1>4. IsFiniteSet(DOMAIN q.args) /\ \A i \in DOMAIN q.args : Shows(q)[i] \in Nat
    <2>1. \A i \in DOMAIN q.args : q.args[i] \in ArgId
        BY <1>3
    <2> QED
        BY <1>2, <1>3, <2>1, ArgumentBlocksType DEF Shows
<1>5. ArgumentsBlocks(q) \in Nat
    <2>1. PICK f, D : f = Shows(q) /\ D = DOMAIN q.args
        OBVIOUS
    <2>2. IsFiniteSet(D) /\ \A i \in D : f[i] \in Nat
        BY <1>4, <2>1
    <2>3. SumOver(f, D) \in Nat
        BY <2>2, SumOfNaturals
    <2> QED
        BY <2>1, <2>3 DEF ArgumentsBlocks
<1>6. \A k \in Kind : GroupBlocks(q.groups[k]) \in Nat
    <2> SUFFICES ASSUME NEW k \in Kind
                 PROVE  GroupBlocks(q.groups[k]) \in Nat
        OBVIOUS
    <2>1. PICK f, D : f = Titles(q.groups[k]) /\ D = DOMAIN q.groups[k]
        OBVIOUS
    <2>2. IsFiniteSet(D) /\ \A i \in D : f[i] \in Nat
        BY <1>2, <1>3, <2>1 DEF Titles, One
    <2>3. SumOver(f, D) \in Nat
        BY <2>2, SumOfNaturals
    <2> QED
        BY <2>1, <2>3, GroupsSum
<1>7. IsFiniteSet(DOMAIN q.types) /\ TypeBlocks(q.types) \in Nat
    <2>1. IsFiniteSet(DOMAIN q.types)
        BY <1>2, <1>3
    <2>2. {i \in DOMAIN q.types : q.types[i] # NoName} \in SUBSET DOMAIN q.types
        OBVIOUS
    <2> QED
        BY <2>1, <2>2, FS_Subset, FS_CardinalityType DEF TypeBlocks
<1> QED
    BY <1>1, <1>4, <1>5, <1>6, <1>7

LEMMA PartsSum ==
    ASSUME NEW q \in Parser, q.live
    PROVE  ParserBlocks(q) = OwnBlocks(q) + ArgumentsBlocks(q) + GroupBlocks(q.groups["mutex"])
                             + GroupBlocks(q.groups["display"]) + TypeBlocks(q.types)
<1>1. PICK n : n = MapThenSumSet(LAMBDA i : ArgumentBlocks(q.arg[q.args[i]]), DOMAIN q.args)
    OBVIOUS
<1>2. ParserBlocks(q) = 2 + Cardinality(q.texts) + Cardinality(q.arrays) + n
                        + GroupBlocks(q.groups["mutex"]) + GroupBlocks(q.groups["display"])
                        + TypeBlocks(q.types) + q.commands + One(q.container)
    BY <1>1 DEF ParserBlocks, TypeBlocks
<1>3. n = ArgumentsBlocks(q) /\ n \in Nat
    BY <1>1, ArgumentsSum, PartsType
<1>4. /\ Cardinality(q.texts) \in Nat /\ Cardinality(q.arrays) \in Nat /\ TypeBlocks(q.types) \in Nat
      /\ GroupBlocks(q.groups["mutex"]) \in Nat /\ GroupBlocks(q.groups["display"]) \in Nat
      /\ q.commands \in Nat /\ One(q.container) \in Nat
    BY SmallSets, PartsType DEF Parser, One, Kind
<1> QED
    BY <1>2, <1>3, <1>4 DEF OwnBlocks

\* A set with one member more, or without one.
LEMMA CountChange ==
    ASSUME NEW S, IsFiniteSet(S), NEW e
    PROVE  /\ Cardinality(S) \in Nat
           /\ IsFiniteSet(S \cup {e}) /\ Cardinality(S \cup {e}) = Cardinality(S) + One(e \notin S)
           /\ IsFiniteSet(S \ {e}) /\ Cardinality(S \ {e}) = Cardinality(S) - One(e \in S)
<1>1. Cardinality(S) \in Nat
    BY FS_CardinalityType
<1>2. CASE e \in S
    <2>1. S \cup {e} = S /\ Cardinality(S \ {e}) = Cardinality(S) - 1 /\ IsFiniteSet(S \ {e})
        BY <1>2, FS_RemoveElement
    <2>2. One(e \in S) = 1 /\ One(e \notin S) = 0
        BY <1>2 DEF One
    <2>3. Cardinality(S \cup {e}) = Cardinality(S) /\ IsFiniteSet(S \cup {e})
        BY <2>1, Zenon
    <2>4. PICK a, b : a = S \cup {e} /\ b = S \ {e}
        OBVIOUS
    <2>5. /\ Cardinality(a) = Cardinality(S) + One(e \notin S) /\ IsFiniteSet(a)
          /\ Cardinality(b) = Cardinality(S) - One(e \in S) /\ IsFiniteSet(b)
        BY <1>1, <2>1, <2>2, <2>3, <2>4
    <2> QED
        BY <1>1, <2>4, <2>5
<1>3. CASE e \notin S
    <2>1. S \ {e} = S /\ Cardinality(S \cup {e}) = Cardinality(S) + 1 /\ IsFiniteSet(S \cup {e})
        BY <1>3, FS_AddElement
    <2>2. One(e \in S) = 0 /\ One(e \notin S) = 1
        BY <1>3 DEF One
    <2>3. Cardinality(S \ {e}) = Cardinality(S) /\ IsFiniteSet(S \ {e})
        BY <2>1, Zenon
    <2>4. PICK a, b : a = S \cup {e} /\ b = S \ {e}
        OBVIOUS
    <2>5. /\ Cardinality(a) = Cardinality(S) + One(e \notin S) /\ IsFiniteSet(a)
          /\ Cardinality(b) = Cardinality(S) - One(e \in S) /\ IsFiniteSet(b)
        BY <1>1, <2>1, <2>2, <2>3, <2>4
    <2> QED
        BY <1>1, <2>4, <2>5
<1> QED
    BY <1>2, <1>3

\* The sum of the arguments depends on the arguments alone.
LEMMA ArgumentsSame ==
    ASSUME NEW q, NEW r, r.arg = q.arg, r.args = q.args
    PROVE  ArgumentsBlocks(r) = ArgumentsBlocks(q)
<1>1. Shows(r) = Shows(q)
    BY DEF Shows
<1> QED
    BY <1>1 DEF ArgumentsBlocks

\* The numbers of f and g are the same, but at k.
DifferAt(D, f, g, k) ==
    /\ IsFiniteSet(D) /\ k \in D /\ g[k] \in Int
    /\ \A i \in D : f[i] \in Int
    /\ \A i \in D : i # k => g[i] = f[i]

LEMMA SumsDiffer ==
    \A D, f, g, k : DifferAt(D, f, g, k) => SumOver(g, D) = SumOver(f, D) + g[k] - f[k]
BY SumChange DEF DifferAt

\* Another state of one of the arguments.
LEMMA ArgumentsChanged ==
    ASSUME NEW q \in Parser, NEW r \in Parser, ArgumentsOnce(q), NEW x \in ToSet(q.args),
           r.args = q.args, \A y \in ArgId : y # x => r.arg[y] = q.arg[y]
    PROVE  ArgumentsBlocks(r) = ArgumentsBlocks(q) + ArgumentBlocks(r.arg[x])
                                - ArgumentBlocks(q.arg[x])
<1>1. PICK k \in DOMAIN q.args : q.args[k] = x
    BY DEF ToSet
<1>2. PICK f, g, D : f = Shows(q) /\ g = Shows(r) /\ D = DOMAIN q.args
    OBVIOUS
<1>3. /\ IsFiniteSet(D) /\ k \in D /\ g[k] \in Int
      /\ \A i \in D : f[i] \in Int
    <2>1. IsFiniteSet(DOMAIN q.args) /\ \A i \in DOMAIN q.args : Shows(q)[i] \in Nat
        BY PartsType
    <2>2. \A i \in DOMAIN r.args : Shows(r)[i] \in Nat
        BY PartsType
    <2> QED
        BY <1>2, <2>1, <2>2
<1>4. \A i \in D : q.args[i] \in ArgId /\ (i # k => q.args[i] # x)
    BY <1>1, <1>2 DEF ArgumentsOnce, Parser
<1>5. \A i \in D : i # k => g[i] = f[i]
    BY <1>2, <1>4 DEF Shows
<1>6. SumOver(g, D) = SumOver(f, D) + g[k] - f[k]
    <2>1. DifferAt(D, f, g, k)
        BY <1>3, <1>5 DEF DifferAt
    <2> QED
        BY <2>1, SumsDiffer
<1> QED
    BY <1>1, <1>2, <1>6 DEF ArgumentsBlocks, Shows

\* One more argument, behind the others.
LEMMA ArgumentsAppended ==
    ASSUME NEW q \in Parser, NEW r \in Parser, NEW x \in ArgId, x \notin ToSet(q.args),
           r.args = Append(q.args, x), \A y \in ArgId : y # x => r.arg[y] = q.arg[y]
    PROVE  ArgumentsBlocks(r) = ArgumentsBlocks(q) + ArgumentBlocks(r.arg[x])
<1>1. q.args \in Seq(ArgId)
    BY DEF Parser
<1>2. PICK f, e, D, E, d :
          f = Shows(q) /\ e = Shows(r) /\ D = DOMAIN q.args /\ E = DOMAIN r.args
          /\ d = Len(q.args) + 1
    OBVIOUS
<1>3. d \notin D /\ E = D \cup {d} /\ d \in E
    <2>1. Len(q.args) \in Nat /\ D = 1..Len(q.args) /\ E = 1..(Len(q.args) + 1)
        BY <1>1, <1>2, AppendEntries
    <2> QED
        BY <1>2, <2>1
<1>4. IsFiniteSet(D) /\ (\A i \in D : f[i] \in Int) /\ e[d] \in Int
    BY <1>2, <1>3, PartsType
<1>5. \A i \in D : q.args[i] \in ArgId /\ q.args[i] # x /\ r.args[i] = q.args[i] /\ i \in E
    BY <1>1, <1>2, AppendEntries DEF ToSet
<1>6. \A i \in D : e[i] = f[i]
    BY <1>2, <1>5 DEF Shows
<1>7. SumOver(e, E) = SumOver(f, D) + e[d]
    BY <1>3, <1>4, <1>6, SumAdd
<1>8. e[d] = ArgumentBlocks(r.arg[x])
    BY <1>1, <1>2, <1>3, AppendEntries DEF Shows
<1> QED
    BY <1>2, <1>7, <1>8 DEF ArgumentsBlocks

\* One argument less, wherever it was.
LEMMA ArgumentsRemoved ==
    ASSUME NEW q \in Parser, NEW r \in Parser, ArgumentsOnce(q), NEW k \in DOMAIN q.args,
           r.args = RemoveAt(q.args, k), \A y \in ArgId : y # q.args[k] => r.arg[y] = q.arg[y]
    PROVE  ArgumentsBlocks(r) = ArgumentsBlocks(q) - ArgumentBlocks(q.arg[q.args[k]])
<1>1. q.args \in Seq(ArgId)
    BY DEF Parser
<1>2. PICK n : n = Len(q.args)
    OBVIOUS
<1>3. n \in Nat \ {0} /\ DOMAIN q.args = 1..n /\ k \in 1..n
    BY <1>1, <1>2, LenProperties
<1>4. /\ r.args \in Seq(ArgId) /\ DOMAIN r.args = 1..(n - 1)
      /\ \A i \in 1..(n - 1) : r.args[i] = q.args[IF i < k THEN i ELSE i + 1]
    <2>1. PICK s : s = RemoveAt(q.args, k)
        OBVIOUS
    <2>2. /\ s \in Seq(ArgId) /\ Len(s) = n - 1
          /\ \A i \in 1..(n - 1) : s[i] = q.args[IF i < k THEN i ELSE i + 1]
        BY <1>1, <1>2, <2>1, RemoveAtEntries
    <2>3. DOMAIN s = 1..Len(s)
        BY <2>2, LenProperties
    <2> QED
        BY <2>1, <2>2, <2>3
<1>5. PICK f, e : f = Shows(q) /\ e = Shows(r)
    OBVIOUS
<1>6. \A i \in 1..n : f[i] \in Int
    BY <1>3, <1>5, PartsType
<1>7. \A i \in 1..(n - 1) : e[i] = IF i < k THEN f[i] ELSE f[i + 1]
    <2> SUFFICES ASSUME NEW i \in 1..(n - 1)
                 PROVE  e[i] = IF i < k THEN f[i] ELSE f[i + 1]
        OBVIOUS
    <2>1. PICK j : j = IF i < k THEN i ELSE i + 1
        OBVIOUS
    <2>2. j \in 1..n /\ j # k
        BY <1>3, <2>1
    <2>3. q.args[j] \in ArgId /\ q.args[j] # q.args[k]
        BY <1>1, <1>3, <2>2 DEF ArgumentsOnce
    <2>4. e[i] = ArgumentBlocks(q.arg[q.args[j]])
        BY <1>4, <1>5, <2>1, <2>3 DEF Shows
    <2>5. f[j] = ArgumentBlocks(q.arg[q.args[j]])
        BY <1>3, <1>5, <2>2 DEF Shows
    <2> QED
        BY <2>1, <2>4, <2>5
<1>8. SumOver(e, 1..(n - 1)) = SumOver(f, 1..n) - f[k]
    BY <1>3, <1>6, <1>7, SumWithout
<1>9. f[k] = ArgumentBlocks(q.arg[q.args[k]])
    BY <1>5 DEF Shows
<1> QED
    BY <1>3, <1>4, <1>5, <1>8, <1>9 DEF ArgumentsBlocks

\* Groups with the same titles.
LEMMA GroupsSame ==
    ASSUME NEW old, NEW new, DOMAIN new = DOMAIN old,
           \A i \in DOMAIN old : new[i].titled = old[i].titled
    PROVE  GroupBlocks(new) = GroupBlocks(old)
<1>1. Titles(new) = Titles(old)
    BY DEF Titles
<1> QED
    BY <1>1, GroupsSum

\* One more group, behind the others.
LEMMA GroupsAppended ==
    ASSUME NEW old \in Seq(Group), NEW g \in Group
    PROVE  GroupBlocks(Append(old, g)) = GroupBlocks(old) + 2 + One(g.titled)
<1>1. PICK new : new = Append(old, g)
    OBVIOUS
<1>2. PICK f, e, D, E, d :
          f = Titles(old) /\ e = Titles(new) /\ D = DOMAIN old /\ E = DOMAIN new
          /\ d = Len(old) + 1
    OBVIOUS
<1>3. Len(old) \in Nat /\ D = 1..Len(old) /\ E = 1..(Len(old) + 1) /\ IsFiniteSet(D)
    BY <1>1, <1>2, AppendEntries, FS_Interval
<1>4. d \notin D /\ E = D \cup {d} /\ d \in E
    BY <1>2, <1>3
<1>5. new[d] = g /\ \A i \in D : i \in E /\ new[i] = old[i] /\ old[i] \in Group
    BY <1>1, <1>2, AppendEntries
<1>6. (\A i \in D : f[i] \in Int /\ e[i] = f[i]) /\ e[d] = 2 + One(g.titled) /\ e[d] \in Int
    BY <1>2, <1>4, <1>5 DEF Titles, One
<1>7. SumOver(e, E) = SumOver(f, D) + e[d]
    BY <1>3, <1>4, <1>6, SumAdd
<1>8. SumOver(f, D) \in Int
    BY <1>3, <1>6, SumType
<1>9. GroupBlocks(new) = SumOver(e, E) /\ GroupBlocks(old) = SumOver(f, D)
    BY <1>2, GroupsSum
<1>10. One(g.titled) \in Int
    BY DEF One
<1> QED
    BY <1>1, <1>6, <1>7, <1>8, <1>9, <1>10

\* One more type, whose name was copied or not.
LEMMA TypesAppended ==
    ASSUME NEW S, NEW types \in Seq(S), NEW name \in S
    PROVE  TypeBlocks(Append(types, name)) = TypeBlocks(types) + One(name # NoName)
<1> DEFINE new == Append(types, name)
           old == {i \in DOMAIN types : types[i] # NoName}
           d == Len(types) + 1
<1>1. /\ Len(types) \in Nat /\ DOMAIN types = 1..Len(types) /\ DOMAIN new = 1..d
      /\ (\A i \in DOMAIN types : new[i] = types[i]) /\ new[d] = name
    BY AppendEntries
<1>2. d \notin DOMAIN types /\ d \in Nat /\ DOMAIN new = DOMAIN types \cup {d}
    BY <1>1
<1>3. IsFiniteSet(old) /\ d \notin old
    <2>1. IsFiniteSet(DOMAIN types)
        BY <1>1, FS_Interval
    <2> QED
        BY <1>2, <2>1, FS_Subset
<1> HIDE DEF d, new
<1>4. {i \in DOMAIN new : new[i] # NoName} = IF name # NoName THEN old \cup {d} ELSE old
    BY <1>1, <1>2
<1>40. PICK set : set = {i \in DOMAIN new : new[i] # NoName}
    OBVIOUS
<1>41. TypeBlocks(new) = Cardinality(set)
    BY <1>40 DEF TypeBlocks
<1> HIDE DEF old
<1>5. Cardinality(old) \in Nat /\ Cardinality(old \cup {d}) = Cardinality(old) + 1
    BY <1>3, FS_AddElement, FS_CardinalityType
<1>6. TypeBlocks(new) = Cardinality(old) + One(name # NoName)
    <2>1. CASE name # NoName
        <3>1. One(name # NoName) = 1
            BY <2>1 DEF One
        <3> QED
            BY <1>4, <1>40, <1>41, <1>5, <2>1, <3>1
    <2>2. CASE ~(name # NoName)
        <3>1. One(name # NoName) = 0
            BY <2>2 DEF One
        <3>2. set = old
            BY <1>4, <1>40, <2>2, Zenon
        <3> QED
            BY <1>41, <1>5, <3>1, <3>2
    <2> QED
        BY <2>1, <2>2
<1> QED
    BY <1>6 DEF TypeBlocks, new, old

-----------------------------------------------------------------------------
(***************************************************************************)
(* What a call keeps, and what it costs.                                   *)
(***************************************************************************)
\* What the parser owns besides its arguments, groups and types.
SameOwn(q, r) ==
    /\ r.live = q.live /\ r.texts = q.texts /\ r.arrays = q.arrays
    /\ r.hasSubparsers = q.hasSubparsers /\ r.container = q.container /\ r.commands = q.commands

\* A call has an answer, and has crashed or not.
Answers(o) == o.ok \in BOOLEAN /\ o.crash \in BOOLEAN

(***************************************************************************)
(* A call changes the blocks of the parser by those it makes and releases, *)
(* or loses some: when an allocation of it fails, which leaves the         *)
(* arguments as they were, or when it is a second clap_add_subparsers.     *)
(***************************************************************************)
Pays(q, o, fails) ==
    /\ Answers(o) /\ o.made \in Nat /\ o.freed \in Nat
    /\ Tidy(o.p)
    /\ ParserBlocks(o.p) <= ParserBlocks(q) + o.made - o.freed
    /\ ParserBlocks(o.p) # ParserBlocks(q) + o.made - o.freed =>
         \/ fails # {} /\ o.p.args = q.args
         \/ q.hasSubparsers /\ o.p.hasSubparsers /\ o.p.commands = 0

\* The second part is kept if no allocation of the call fails, the others always.
Keeps(q, o, fails) ==
    /\ Safe(o.p)
    /\ fails = {} /\ Whole(q) => Whole(o.p) /\ ~o.crash
    /\ Shown(q) => Shown(o.p)
    /\ Tidy(q) /\ fails \subseteq o.tried => Pays(q, o, fails)

-----------------------------------------------------------------------------
(***************************************************************************)
(* Calls that change one argument.                                         *)
(***************************************************************************)
\* Nothing changes that the help rests on.
SameShown(q, r) ==
    /\ r.positionals = q.positionals /\ r.optionals = q.optionals
    /\ \A x \in ArgId : /\ InDisplayGroup(r, x) <=> InDisplayGroup(q, x)
                       /\ r.arg[x].made = q.arg[x].made
                       /\ r.arg[x].group["display"] = q.arg[x].group["display"]

LEMMA ShownStays ==
    ASSUME NEW q \in Parser, NEW r, SameShown(q, r), Shown(q)
    PROVE  Shown(r)
<1>1. \A x \in ToSet(q.positionals) \cup ToSet(q.optionals) : x \in ArgId
    BY DEF Parser, ToSet
<1>2. IndexedOnce(r)
    BY <1>1 DEF Shown, SameShown, IndexedOnce
<1>3. Displayed(r)
    BY DEF Shown, SameShown, Displayed
<1> QED
    BY <1>2, <1>3 DEF Shown

\* The parser with another state of the argument x.
With(q, x, a) == [q EXCEPT !.arg = [q.arg EXCEPT ![x] = a]]

\* What is left as it is.
LEMMA WithFields ==
    ASSUME NEW q \in Parser, NEW x \in ArgId, NEW a \in Argument
    PROVE  /\ With(q, x, a) \in Parser
           /\ \A y \in ArgId : With(q, x, a).arg[y] = IF y = x THEN a ELSE q.arg[y]
           /\ With(q, x, a).args = q.args
           /\ With(q, x, a).positionals = q.positionals
           /\ With(q, x, a).optionals = q.optionals
           /\ With(q, x, a).groups = q.groups
           /\ With(q, x, a).next = q.next
           /\ With(q, x, a).types = q.types
           /\ SameOwn(q, With(q, x, a))
<1>1. [q.arg EXCEPT ![x] = a] \in [ArgId -> Argument]
    BY DEF Parser
<1>2. \A y \in ArgId : [q.arg EXCEPT ![x] = a][y] = IF y = x THEN a ELSE q.arg[y]
    BY DEF Parser
<1> HIDE DEF Argument
<1> QED
    BY <1>1, <1>2 DEF Parser, With, SameOwn

\* A setting leaves an argument what it was made as.
Sound(q, x, a) ==
    /\ a \in Argument
    /\ a.made = q.arg[x].made /\ a.freed = q.arg[x].freed
    /\ "POSITIONAL" \in a.flags <=> "POSITIONAL" \in q.arg[x].flags
    /\ "OPTIONAL" \in a.flags <=> "OPTIONAL" \in q.arg[x].flags
    /\ Len(a.deps) <= MaxDependencies
    /\ FlagsOf(a)

\* And in the display group it was in, unless it is put into one.
Setting(q, x, a) == Sound(q, x, a) /\ a.group["display"] = q.arg[x].group["display"]

LEMMA SettingIsSafe ==
    ASSUME NEW q, NEW x \in ArgId, NEW a, Safe(q), Sound(q, x, a)
    PROVE  Safe(With(q, x, a))
<1> DEFINE r == With(q, x, a)
<1>1. q \in Parser /\ a \in Argument
    BY DEF Safe, Sound
<1>2. /\ r \in Parser
      /\ \A y \in ArgId : r.arg[y] = IF y = x THEN a ELSE q.arg[y]
      /\ r.args = q.args /\ r.groups = q.groups /\ r.next = q.next
    BY <1>1, WithFields
<1> HIDE DEF r
<1>3. \A y \in ArgId : Len(r.arg[y].deps) <= MaxDependencies
    BY <1>2 DEF Safe, Sound
<1>4. \A y \in ArgId : FlagsOf(r.arg[y])
    BY <1>2 DEF Safe, Sound
<1>5. GroupIds(r)
    BY <1>2 DEF Safe, Sound, GroupIds
<1>6. ArgumentsOnce(r)
    <2>1. \A i \in DOMAIN q.args : q.args[i] \in ArgId
        BY <1>1 DEF Parser
    <2> QED
        BY <1>2, <2>1 DEF Safe, Sound, ArgumentsOnce, Usable
<1> QED
    BY <1>2, <1>3, <1>4, <1>5, <1>6 DEF Safe, r

LEMMA SettingIsWhole ==
    ASSUME NEW q, NEW x \in ArgId, NEW a, Safe(q), Whole(q), Sound(q, x, a),
           a.choices > 0 => a.choiceArray
    PROVE  Whole(With(q, x, a))
<1> DEFINE r == With(q, x, a)
<1>1. q \in Parser /\ a \in Argument
    BY DEF Safe, Sound
<1>2. /\ \A y \in ArgId : r.arg[y] = IF y = x THEN a ELSE q.arg[y]
      /\ r.args = q.args /\ r.types = q.types
      /\ r.optionals = q.optionals /\ r.positionals = q.positionals
    BY <1>1, WithFields
<1>3. /\ \A i \in DOMAIN q.args : q.args[i] \in ArgId
      /\ \A i \in DOMAIN q.optionals : q.optionals[i] \in ArgId
      /\ \A i \in DOMAIN q.positionals : q.positionals[i] \in ArgId
    BY <1>1 DEF Parser
<1> HIDE DEF r
<1>4. \A y \in ArgId : /\ Usable(r, y) <=> Usable(q, y)
                       /\ r.arg[y].made = q.arg[y].made
                       /\ "POSITIONAL" \in r.arg[y].flags <=> "POSITIONAL" \in q.arg[y].flags
                       /\ "OPTIONAL" \in r.arg[y].flags <=> "OPTIONAL" \in q.arg[y].flags
    BY <1>2 DEF Sound, Usable
<1>5. NoNull(r)
    BY <1>2 DEF Whole, NoNull
<1>6. /\ Flagged(r, "OPTIONAL") = Flagged(q, "OPTIONAL")
      /\ Flagged(r, "POSITIONAL") = Flagged(q, "POSITIONAL")
    BY <1>2, <1>3, <1>4 DEF Flagged, ToSet
<1>7. \A y, z : Before(r, y, z) <=> Before(q, y, z)
    BY <1>2 DEF Before
<1>8. /\ {y \in ToSet(q.optionals) : Usable(r, y)} = {y \in ToSet(q.optionals) : Usable(q, y)}
      /\ {y \in ToSet(q.positionals) : Usable(r, y)} = {y \in ToSet(q.positionals) : Usable(q, y)}
    BY <1>3, <1>4 DEF ToSet
<1>9. Indices(r)
    BY <1>2, <1>3, <1>4, <1>6, <1>7, <1>8 DEF Whole, Indices, Lists
<1> QED
    BY <1>5, <1>9 DEF Whole, r

\* The blocks of the argument change by those the call makes and releases.
Paid(q, x, a, o, fails) ==
    /\ Answers(o) /\ o.made \in Nat /\ o.freed \in Nat
    /\ fails \subseteq o.tried =>
         ArgumentBlocks(a) = ArgumentBlocks(q.arg[x]) + o.made - o.freed

LEMMA SettingBlocks ==
    ASSUME NEW q, NEW x \in ArgId, NEW a, Safe(q), Tidy(q), Usable(q, x), Sound(q, x, a)
    PROVE  /\ Tidy(With(q, x, a))
           /\ ParserBlocks(With(q, x, a)) = ParserBlocks(q) + ArgumentBlocks(a)
                                            - ArgumentBlocks(q.arg[x])
           /\ ParserBlocks(q) \in Nat /\ ArgumentBlocks(q.arg[x]) \in Nat
           /\ ArgumentBlocks(a) \in Nat
<1> DEFINE r == With(q, x, a)
<1>1. q \in Parser /\ a \in Argument /\ q.live /\ x \in ToSet(q.args) /\ ArgumentsOnce(q)
    BY DEF Safe, Sound, Tidy
<1>2. /\ r \in Parser
      /\ \A y \in ArgId : r.arg[y] = IF y = x THEN a ELSE q.arg[y]
      /\ r.args = q.args /\ r.groups = q.groups /\ r.types = q.types
      /\ SameOwn(q, r)
    BY <1>1, WithFields
<1> HIDE DEF r
<1>3. ArgumentsBlocks(r) = ArgumentsBlocks(q) + ArgumentBlocks(a) - ArgumentBlocks(q.arg[x])
    BY <1>1, <1>2, ArgumentsChanged
<1>4. OwnBlocks(r) = OwnBlocks(q) /\ r.live
    BY <1>1, <1>2 DEF SameOwn, OwnBlocks
<1>5. /\ ArgumentBlocks(q.arg[x]) \in Nat /\ ArgumentBlocks(r.arg[x]) \in Nat
      /\ OwnBlocks(q) \in Nat /\ ArgumentsBlocks(q) \in Nat /\ TypeBlocks(q.types) \in Nat
      /\ GroupBlocks(q.groups["mutex"]) \in Nat /\ GroupBlocks(q.groups["display"]) \in Nat
    BY <1>1, <1>2, ArgumentBlocksType, PartsType DEF Kind
<1>6. ArgumentBlocks(a) \in Nat
    BY <1>2, <1>5
<1>7. /\ ParserBlocks(r) = ParserBlocks(q) + ArgumentBlocks(a) - ArgumentBlocks(q.arg[x])
      /\ ParserBlocks(q) \in Nat
    BY <1>1, <1>2, <1>3, <1>4, <1>5, <1>6, PartsSum
<1>8. Tidy(r)
    <2>1. \A y \in ArgId : Usable(r, y) => Usable(q, y)
        BY <1>2 DEF Usable, Sound
    <2> QED
        BY <1>2, <2>1 DEF Tidy, SameOwn
<1> QED
    BY <1>5, <1>6, <1>7, <1>8 DEF r

LEMMA SettingPays ==
    ASSUME NEW q, NEW x \in ArgId, NEW a, NEW o, NEW fails, fails \subseteq o.tried,
           Safe(q), Tidy(q), Usable(q, x), Sound(q, x, a), o.p = With(q, x, a),
           Paid(q, x, a, o, fails)
    PROVE  Pays(q, o, fails)
<1>1. /\ ArgumentBlocks(a) = ArgumentBlocks(q.arg[x]) + o.made - o.freed
      /\ o.made \in Nat /\ o.freed \in Nat /\ Answers(o)
    BY DEF Paid
<1>2. ParserBlocks(o.p) = ParserBlocks(q) + o.made - o.freed /\ ParserBlocks(o.p) \in Int
    BY <1>1, SettingBlocks
<1>3. Tidy(o.p)
    BY SettingBlocks
<1> QED
    BY <1>1, <1>2, <1>3 DEF Pays

LEMMA SettingKeeps ==
    ASSUME NEW q, NEW x \in ArgId, NEW a, NEW o, NEW fails,
           Safe(q), Usable(q, x), Setting(q, x, a), o.p = With(q, x, a),
           fails = {} /\ NoNull(q) => (a.choices > 0 => a.choiceArray) /\ ~o.crash,
           Paid(q, x, a, o, fails)
    PROVE  Keeps(q, o, fails)
<1>1. fails = {} /\ Whole(q) => Whole(o.p) /\ ~o.crash
    BY SettingIsWhole DEF Whole, Setting
<1>2. Tidy(q) /\ fails \subseteq o.tried => Pays(q, o, fails)
    BY SettingPays DEF Setting
<1>3. Shown(q) => Shown(o.p)
    <2>1. q \in Parser /\ a \in Argument
        BY DEF Safe, Setting, Sound
    <2>2. SameShown(q, With(q, x, a))
        BY <2>1, WithFields DEF SameShown, Setting, Sound, InDisplayGroup
    <2> QED
        BY <2>1, <2>2, ShownStays
<1>4. Safe(o.p)
    BY SettingIsSafe DEF Setting
<1> QED
    BY <1>1, <1>2, <1>3, <1>4 DEF Keeps

\* Nothing the argument owns changes.
SameBlocks(a, b) ==
    /\ b.strings = a.strings /\ b.texts = a.texts /\ b.choices = a.choices
    /\ b.choiceArray = a.choiceArray /\ b.depArray = a.depArray /\ b.deps = a.deps

LEMMA NothingPaid ==
    ASSUME NEW q \in Parser, NEW x \in ArgId, NEW a, NEW r, NEW fails,
           SameBlocks(q.arg[x], a)
    PROVE  LET o == Outcome(r, TRUE)
           IN  /\ Paid(q, x, a, o, fails)
               /\ o.p = r /\ o.crash = FALSE
<1>1. ArgumentBlocks(a) = ArgumentBlocks(q.arg[x])
    BY DEF SameBlocks, ArgumentBlocks
<1>2. ArgumentBlocks(q.arg[x]) \in Nat
    BY ArgumentBlocksType
<1>3. PICK o : o = Outcome(r, TRUE)
    OBVIOUS
<1>4. o.p = r /\ o.ok = TRUE /\ o.crash = FALSE /\ o.made = 0 /\ o.freed = 0
    BY <1>3 DEF Outcome
<1>5. ArgumentBlocks(a) = ArgumentBlocks(q.arg[x]) + o.made - o.freed
    BY <1>1, <1>2, <1>4
<1>6. Answers(o)
    BY <1>4, Zenon DEF Answers
<1>7. Paid(q, x, a, o, fails)
    BY <1>4, <1>5, <1>6 DEF Paid
<1> QED
    BY <1>3, <1>4, <1>7

\* What a setting may use of the argument it changes.
LEMMA ArgumentFields ==
    ASSUME NEW q, NEW x \in ArgId, Safe(q)
    PROVE  /\ q \in Parser /\ q.arg[x] \in Argument
           /\ Setting(q, x, q.arg[x])
           /\ NoNull(q) => (q.arg[x].choices > 0 => q.arg[x].choiceArray)
<1>1. q \in Parser /\ q.arg[x] \in Argument
    BY DEF Safe, Parser
<1> QED
    BY <1>1 DEF Safe, Setting, Sound, NoNull

\* Nothing it owns changes but its texts.
SameButTexts(a, b) ==
    /\ b.strings = a.strings /\ b.choices = a.choices
    /\ b.choiceArray = a.choiceArray /\ b.depArray = a.depArray /\ b.deps = a.deps

LEMMA TextsPaid ==
    ASSUME NEW q \in Parser, NEW x \in ArgId, NEW a, NEW o, NEW fails,
           SameButTexts(q.arg[x], a), o.ok = TRUE, o.crash = FALSE, o.made \in Nat, o.freed \in Nat,
           fails \subseteq o.tried =>
               Cardinality(a.texts) = Cardinality(q.arg[x].texts) + o.made - o.freed
    PROVE  Paid(q, x, a, o, fails)
<1>1. PICK b, c, d, m : /\ b = q.arg[x] /\ d = One(b.depArray) /\ m = 2 * Len(b.deps)
                        /\ c = IF b.choiceArray THEN 1 + b.choices ELSE 0
    OBVIOUS
<1>2. b.strings \in Nat /\ Cardinality(b.texts) \in Nat /\ c \in Nat /\ d \in Nat /\ m \in Nat
    <2>1. b \in Argument
        BY <1>1 DEF Parser
    <2>2. Len(b.deps) \in Nat
        BY <2>1, LenProperties DEF Argument
    <2>3. Cardinality(b.texts) \in Nat
        BY <1>1, SmallSets
    <2>4. b.strings \in Nat /\ b.choices \in Nat /\ b.choiceArray \in BOOLEAN
        BY <2>1 DEF Argument
    <2>5. c \in Nat
        BY <1>1, <2>4
    <2>6. d \in Nat
        BY <1>1 DEF One
    <2>7. m \in Nat
        BY <1>1, <2>2
    <2> QED
        BY <2>3, <2>4, <2>5, <2>6, <2>7
<1>3. /\ ArgumentBlocks(b) = 2 + b.strings + Cardinality(b.texts) + c + d + m
      /\ ArgumentBlocks(a) = 2 + b.strings + Cardinality(a.texts) + c + d + m
    BY <1>1 DEF ArgumentBlocks, SameButTexts
<1>5. Answers(o)
    BY Zenon DEF Answers
<1>4. fails \subseteq o.tried => ArgumentBlocks(a) = ArgumentBlocks(b) + o.made - o.freed
    <2> SUFFICES ASSUME fails \subseteq o.tried
                 PROVE  ArgumentBlocks(a) = ArgumentBlocks(b) + o.made - o.freed
        OBVIOUS
    <2>1. Cardinality(a.texts) = Cardinality(b.texts) + o.made - o.freed
        BY <1>1
    <2> QED
        BY <1>2, <1>3, <2>1
<1> QED
    BY <1>1, <1>4, <1>5 DEF Paid

\* A text takes the place of the one there was, or of none; its copy may fail.
LEMMA TextReplaced ==
    ASSUME NEW S, IsFiniteSet(S), NEW e, NEW fails, fails \subseteq {e}
    PROVE  Cardinality((S \cup {e}) \ fails) = Cardinality(S) + One(e \notin fails) - One(e \in S)
<1>1. PICK T : T = S \cup {e}
    OBVIOUS
<1>2. /\ Cardinality(S) \in Nat
      /\ IsFiniteSet(T) /\ Cardinality(T) = Cardinality(S) + One(e \notin S)
    BY <1>1, CountChange
<1>3. /\ One(e \notin S) = 1 - One(e \in S) /\ One(e \in S) \in Nat
    BY DEF One
<1>4. CASE fails = {}
    <2>1. (S \cup {e}) \ fails = T /\ One(e \notin fails) = 1
        BY <1>1, <1>4 DEF One
    <2>2. Cardinality((S \cup {e}) \ fails) = Cardinality(T)
        BY <2>1, Zenon
    <2> QED
        BY <1>2, <1>3, <2>1, <2>2
<1>5. CASE fails = {e}
    <2>1. (S \cup {e}) \ fails = T \ {e} /\ One(e \notin fails) = 0 /\ One(e \in T) = 1
        BY <1>1, <1>5 DEF One
    <2>2. Cardinality(T \ {e}) = Cardinality(T) - One(e \in T)
        BY <1>2, CountChange
    <2>3. Cardinality((S \cup {e}) \ fails) = Cardinality(T \ {e})
        BY <2>1, Zenon
    <2> QED
        BY <1>2, <1>3, <2>1, <2>2, <2>3
<1> QED
    BY <1>4, <1>5

LEMMA TextSetKeeps ==
    ASSUME NEW q, NEW x \in ArgId, NEW text \in Text, NEW fails, Safe(q),
           Usable(q, x)
    PROVE  Keeps(q, TextSet(q, x, text, fails), fails)
<1> DEFINE a == [q.arg[x] EXCEPT !.texts = (@ \cup {text}) \ fails]
           o == TextSet(q, x, text, fails)
<1>1. q \in Parser /\ q.arg[x] \in Argument /\ Setting(q, x, q.arg[x])
    BY ArgumentFields
<1>2. /\ o.p = With(q, x, a) /\ o.crash = FALSE /\ o.ok = TRUE /\ o.tried = {text}
      /\ o.made = One(text \notin fails) /\ o.freed = One(text \in q.arg[x].texts)
    BY <1>1 DEF TextSet, Outcome, With, Parser
<1>3. a \in Argument
    BY <1>1 DEF Argument, Owned
<1>4. Setting(q, x, a)
    BY <1>1, <1>3 DEF Setting, Sound, FlagsOf, Argument
<1>5. a.choices = q.arg[x].choices /\ a.choiceArray = q.arg[x].choiceArray
    BY <1>1 DEF Argument
<1>6. SameButTexts(q.arg[x], a) /\ a.texts = (q.arg[x].texts \cup {text}) \ fails
    BY <1>1 DEF Argument, SameButTexts
<1> HIDE DEF a, o
<1>7. Paid(q, x, a, o, fails)
    <2>1. fails \subseteq o.tried =>
              Cardinality(a.texts) = Cardinality(q.arg[x].texts) + o.made - o.freed
        BY <1>1, <1>2, <1>6, SmallSets, TextReplaced
    <2>2. o.made \in Nat /\ o.freed \in Nat
        BY <1>2 DEF One
    <2> QED
        BY <1>1, <1>2, <1>6, <2>1, <2>2, TextsPaid
<1> QED
    BY <1>2, <1>4, <1>5, <1>7, SettingKeeps, ArgumentFields DEF o

LEMMA DeprecatedKeeps ==
    ASSUME NEW q, NEW x \in ArgId, NEW message \in BOOLEAN, NEW fails, Safe(q),
           Usable(q, x)
    PROVE  Keeps(q, Deprecated(q, x, message, fails), fails)
<1> DEFINE text == IF message THEN {"deprecated"} \ fails ELSE {}
           a == [q.arg[x] EXCEPT !.flags = @ \cup {"DEPRECATED"},
                                 !.texts = (@ \ {"deprecated"}) \cup text]
           o == Deprecated(q, x, message, fails)
<1>1. q \in Parser /\ q.arg[x] \in Argument /\ Setting(q, x, q.arg[x])
    BY ArgumentFields
<1>2. /\ o.p = With(q, x, a) /\ o.crash = FALSE /\ o.ok = TRUE
      /\ o.made = Cardinality(text) /\ o.freed = One("deprecated" \in q.arg[x].texts)
    BY <1>1 DEF Deprecated, Outcome, With, Parser
<1>3. a \in Argument
    BY <1>1 DEF Argument, Owned, Flag
<1>4. Setting(q, x, a)
    BY <1>1, <1>3 DEF Setting, Sound, FlagsOf, Argument
<1>5. a.choices = q.arg[x].choices /\ a.choiceArray = q.arg[x].choiceArray
    BY <1>1 DEF Argument
<1>6. SameButTexts(q.arg[x], a) /\ a.texts = (q.arg[x].texts \ {"deprecated"}) \cup text
    BY <1>1 DEF Argument, SameButTexts
<1>7. text = {} \/ text = {"deprecated"}
    OBVIOUS
<1> HIDE DEF a, o, text
<1>8. Paid(q, x, a, o, fails)
    <2>1. IsFiniteSet(q.arg[x].texts)
        BY <1>1, SmallSets
    <2>2. PICK S : S = q.arg[x].texts \ {"deprecated"}
        OBVIOUS
    <2>3. /\ IsFiniteSet(S) /\ "deprecated" \notin S /\ Cardinality(S) \in Nat
          /\ Cardinality(S) = Cardinality(q.arg[x].texts) - o.freed
          /\ Cardinality(q.arg[x].texts) \in Nat
        BY <1>2, <2>1, <2>2, CountChange
    <2>4. o.freed \in Nat
        BY <1>2 DEF One
    <2>5. Cardinality(a.texts) = Cardinality(S) + o.made /\ o.made \in Nat
        <3>1. CASE text = {}
            <4>1. a.texts = S
                BY <1>6, <2>2, <3>1
            <4>2. o.made = 0
                BY <1>2, <3>1, FS_EmptySet
            <4> QED
                BY <2>3, <4>1, <4>2
        <3>2. CASE text = {"deprecated"}
            <4>1. a.texts = S \cup {"deprecated"}
                BY <1>6, <2>2, <3>2
            <4>2. o.made = 1
                BY <1>2, <3>2, FS_Singleton
            <4>3. Cardinality(S \cup {"deprecated"}) = Cardinality(S) + 1
                BY <2>3, FS_AddElement
            <4>4. Cardinality(a.texts) = Cardinality(S \cup {"deprecated"})
                BY <4>1, Zenon
            <4> QED
                BY <4>2, <4>3, <4>4
        <3> QED
            BY <1>7, <3>1, <3>2
    <2>6. Cardinality(a.texts) = Cardinality(q.arg[x].texts) + o.made - o.freed
        BY <2>3, <2>4, <2>5
    <2> QED
        BY <1>1, <1>2, <1>6, <2>4, <2>5, <2>6, TextsPaid
<1> QED
    BY <1>2, <1>4, <1>5, <1>8, SettingKeeps, ArgumentFields DEF o

\* A positional is left alone: whether it is required follows from its nargs.
LEMMA RequiredSetKeeps ==
    ASSUME NEW q, NEW x \in ArgId, NEW required \in BOOLEAN, Safe(q),
           Usable(q, x)
    PROVE  Keeps(q, Outcome(RequiredSet(q, x, required), TRUE), {})
<1> DEFINE a == [q.arg[x] EXCEPT !.flags = IF required THEN @ \cup {"REQUIRED"}
                                           ELSE @ \ {"REQUIRED"}]
           o == Outcome(RequiredSet(q, x, required), TRUE)
<1>1. q \in Parser /\ q.arg[x] \in Argument /\ Setting(q, x, q.arg[x])
    BY ArgumentFields
<1>2. CASE "POSITIONAL" \in q.arg[x].flags
    <2>1. o.p = q /\ o.crash = FALSE
        BY <1>2 DEF RequiredSet, Outcome
    <2> QED
        <3>1. With(q, x, q.arg[x]) = q
            BY <1>1 DEF With, Parser
        <3>2. SameBlocks(q.arg[x], q.arg[x])
            BY DEF SameBlocks
        <3>3. Paid(q, x, q.arg[x], o, {})
            BY <1>1, <3>2, NothingPaid
        <3> HIDE DEF o
        <3> QED
            BY <1>1, <2>1, <3>1, <3>3, SettingKeeps, ArgumentFields DEF o
<1>3. CASE "POSITIONAL" \notin q.arg[x].flags
    <2>1. o.p = With(q, x, a) /\ o.crash = FALSE
        BY <1>1, <1>3 DEF RequiredSet, Outcome, With, Parser
    <2>2. a \in Argument
        BY <1>1 DEF Argument, Flag
    <2>3. Setting(q, x, a)
        BY <1>1, <1>3, <2>2 DEF Setting, Sound, FlagsOf, Argument
    <2>4. a.choices = q.arg[x].choices /\ a.choiceArray = q.arg[x].choiceArray
        BY <1>1 DEF Argument
    <2>5. SameBlocks(q.arg[x], a)
        BY <1>1 DEF SameBlocks, Argument
    <2>6. Paid(q, x, a, o, {})
        BY <1>1, <2>5, NothingPaid
    <2> HIDE DEF a, o
    <2> QED
        BY <2>1, <2>3, <2>4, <2>6, SettingKeeps, ArgumentFields DEF o
<1> QED
    BY <1>2, <1>3

LEMMA NargsSetKeeps ==
    ASSUME NEW q, NEW x \in ArgId, NEW n \in Nargs, Safe(q),
           Usable(q, x)
    PROVE  Keeps(q, Outcome(NargsSet(q, x, n), TRUE), {})
<1> DEFINE flags == q.arg[x].flags
           multiple == IF Multiple(n) THEN flags \cup {"MULTIPLE"} ELSE flags \ {"MULTIPLE"}
           new == IF "POSITIONAL" \notin flags THEN multiple
                  ELSE IF Omittable(n) THEN multiple \ {"REQUIRED"}
                  ELSE multiple \cup {"REQUIRED"}
           action == IF n > 1 /\ q.arg[x].action = "STORE" THEN "APPEND" ELSE q.arg[x].action
           a == [q.arg[x] EXCEPT !.nargs = n, !.action = action, !.flags = new]
           o == Outcome(NargsSet(q, x, n), TRUE)
<1>1. q \in Parser /\ q.arg[x] \in Argument /\ Setting(q, x, q.arg[x])
    BY ArgumentFields
<1>2. NargsSet(q, x, n) = [q EXCEPT !.arg[x].nargs = n, !.arg[x].action = action,
                                   !.arg[x].flags = new]
    BY DEF NargsSet
<1>3. new \in SUBSET Flag /\ action \in Action /\ n \in Int
    BY <1>1, BuilderAssumption DEF Argument, Flag
<1>4. /\ "MULTIPLE" \in new <=> Multiple(n)
      /\ "POSITIONAL" \in new <=> "POSITIONAL" \in flags
      /\ "OPTIONAL" \in new <=> "OPTIONAL" \in flags
      /\ "POSITIONAL" \in new => ("REQUIRED" \in new <=> ~Omittable(n))
    OBVIOUS
<1> HIDE DEF new, action
<1>8. o.p = With(q, x, a) /\ o.crash = FALSE
    <2> DEFINE r == [q EXCEPT !.arg[x].nargs = n, !.arg[x].action = action]
               b == [q.arg[x] EXCEPT !.nargs = n, !.action = action]
    <2>1. r = With(q, x, b)
        BY <1>1 DEF With, Parser
    <2>2. NargsSet(q, x, n) = [r EXCEPT !.arg[x].flags = new]
        BY <1>2
    <2> HIDE DEF r, b
    <2>3. [r EXCEPT !.arg[x].flags = new] = With(q, x, [b EXCEPT !.flags = new])
        BY <1>1, <2>1 DEF With, Parser
    <2>4. [b EXCEPT !.flags = new] = a
        BY <1>1 DEF b
    <2> QED
        BY <2>2, <2>3, <2>4 DEF Outcome
<1>5. a \in Argument
    BY <1>1, <1>3 DEF Argument
<1>6. Setting(q, x, a)
    BY <1>1, <1>4, <1>5 DEF Setting, Sound, FlagsOf, Argument
<1>7. a.choices = q.arg[x].choices /\ a.choiceArray = q.arg[x].choiceArray
    BY <1>1 DEF Argument
<1>9. SameBlocks(q.arg[x], a)
    BY <1>1 DEF SameBlocks, Argument
<1>10. Paid(q, x, a, o, {})
    BY <1>1, <1>9, NothingPaid
<1> HIDE DEF a, o
<1> QED
    BY <1>8, <1>6, <1>7, <1>10, SettingKeeps, ArgumentFields DEF o

LEMMA ActionSetKeeps ==
    ASSUME NEW q, NEW x \in ArgId, NEW action \in Action, Safe(q),
           Usable(q, x)
    PROVE  Keeps(q, Outcome([q EXCEPT !.arg[x].action = action], TRUE), {})
<1> DEFINE a == [q.arg[x] EXCEPT !.action = action]
           o == Outcome([q EXCEPT !.arg[x].action = action], TRUE)
<1>1. q \in Parser /\ q.arg[x] \in Argument /\ Setting(q, x, q.arg[x])
    BY ArgumentFields
<1>2. o.p = With(q, x, a) /\ o.crash = FALSE
    BY <1>1 DEF Outcome, With, Parser
<1>3. a \in Argument
    BY <1>1 DEF Argument
<1>4. Setting(q, x, a)
    BY <1>1, <1>3 DEF Setting, Sound, FlagsOf, Argument
<1>5. a.choices = q.arg[x].choices /\ a.choiceArray = q.arg[x].choiceArray
    BY <1>1 DEF Argument
<1>9. SameBlocks(q.arg[x], a)
    BY <1>1 DEF SameBlocks, Argument
<1>10. Paid(q, x, a, o, {})
    BY <1>1, <1>9, NothingPaid
<1> HIDE DEF a, o
<1> QED
    BY <1>2, <1>4, <1>5, <1>10, SettingKeeps, ArgumentFields DEF o

\* An argument may be given any id.
LEMMA MutexGroupSetKeeps ==
    ASSUME NEW q, NEW x \in ArgId, NEW id \in Int, Safe(q), Usable(q, x)
    PROVE  Keeps(q, Outcome([q EXCEPT !.arg[x].group["mutex"] = id], TRUE), {})
<1> DEFINE group == [q.arg[x].group EXCEPT !["mutex"] = id]
           a == [q.arg[x] EXCEPT !.group = group]
           o == Outcome([q EXCEPT !.arg[x].group["mutex"] = id], TRUE)
<1>1. q \in Parser /\ q.arg[x] \in Argument /\ Setting(q, x, q.arg[x])
    BY ArgumentFields
<1>2. o.p = With(q, x, a) /\ o.crash = FALSE
    BY <1>1 DEF Outcome, With, Parser, Argument
<1>4. /\ group \in [Kind -> Int] /\ group["mutex"] = id
      /\ group["display"] = q.arg[x].group["display"]
    BY <1>1 DEF Argument, Kind
<1> HIDE DEF group
<1>5. a \in Argument
    BY <1>1, <1>4 DEF Argument
<1>6. Setting(q, x, a)
    BY <1>1, <1>4, <1>5 DEF Setting, Sound, FlagsOf, Argument
<1>7. a.choices = q.arg[x].choices /\ a.choiceArray = q.arg[x].choiceArray
    BY <1>1 DEF Argument
<1>9. SameBlocks(q.arg[x], a)
    BY <1>1 DEF SameBlocks, Argument
<1>10. Paid(q, x, a, o, {})
    BY <1>1, <1>9, NothingPaid
<1> HIDE DEF a, o
<1> QED
    BY <1>2, <1>6, <1>7, <1>10, SettingKeeps, ArgumentFields DEF o

\* An argument has choices and no array for them only after an allocation has failed.
LEMMA ChoicesSetKeeps ==
    ASSUME NEW q, NEW x \in ArgId, NEW n \in 1..2, NEW fails, Safe(q),
           Usable(q, x)
    PROVE  Keeps(q, ChoicesSet(q, x, n, fails), fails)
<1> DEFINE ok == "choices" \notin fails
           number == IF ok THEN n ELSE q.arg[x].choices
           a == [q.arg[x] EXCEPT !.choices = number, !.choiceArray = ok]
           o == ChoicesSet(q, x, n, fails)
<1>1. q \in Parser /\ q.arg[x] \in Argument /\ Setting(q, x, q.arg[x])
    BY ArgumentFields
<1>2. number \in Nat
    BY <1>1 DEF Argument
<1>3. /\ o.p = With(q, x, a) /\ o.crash = (q.arg[x].choices > 0 /\ ~q.arg[x].choiceArray)
      /\ o.ok = TRUE /\ o.made = IF ok THEN 1 + n ELSE 0
      /\ o.freed = IF q.arg[x].choiceArray THEN q.arg[x].choices + 1 ELSE 0
    BY <1>1 DEF ChoicesSet, Outcome, With, Parser
<1>4. ok \in BOOLEAN /\ (fails = {} => ok)
    OBVIOUS
<1> HIDE DEF number, ok
<1>5. a \in Argument
    BY <1>1, <1>2, <1>4 DEF Argument
<1>6. Setting(q, x, a)
    BY <1>1, <1>5 DEF Setting, Sound, FlagsOf, Argument
<1>7. a.choiceArray = ok
    BY <1>1 DEF Argument
<1>8. /\ a.strings = q.arg[x].strings /\ a.texts = q.arg[x].texts
      /\ a.depArray = q.arg[x].depArray /\ a.deps = q.arg[x].deps
      /\ a.choices = number /\ a.choiceArray = ok
    BY <1>1, <1>4 DEF Argument
<1>9. ok => number = n
    BY DEF number
<1> HIDE DEF a, o
<1>10. Paid(q, x, a, o, fails)
    <2>1. /\ q.arg[x].strings \in Nat /\ q.arg[x].choices \in Nat /\ n \in Nat
          /\ Cardinality(q.arg[x].texts) \in Nat /\ Len(q.arg[x].deps) \in Nat
          /\ One(q.arg[x].depArray) \in Nat /\ q.arg[x].choiceArray \in BOOLEAN
        BY <1>1, SmallSets, LenProperties DEF Argument, One
    <2>2. PICK c \in Nat : c = 2 + q.arg[x].strings + Cardinality(q.arg[x].texts)
        BY <2>1
    <2>3. PICK d \in Nat : d = One(q.arg[x].depArray) /\ d = One(a.depArray)
        BY <1>8, <2>1
    <2>4. PICK m \in Nat : m = 2 * Len(q.arg[x].deps) /\ m = 2 * Len(a.deps)
        BY <1>8, <2>1
    <2>5. /\ ArgumentBlocks(a) = c + (IF ok THEN 1 + number ELSE 0) + d + m
          /\ ArgumentBlocks(q.arg[x]) =
                c + (IF q.arg[x].choiceArray THEN 1 + q.arg[x].choices ELSE 0) + d + m
        BY <1>8, <2>2, <2>3, <2>4 DEF ArgumentBlocks
    <2>6. o.made \in Nat /\ o.freed \in Nat
        BY <1>3, <2>1
    <2>60. o.ok \in BOOLEAN
        BY <1>3, Zenon
    <2>61. o.crash \in BOOLEAN
        BY <1>3
    <2>7. ArgumentBlocks(a) = ArgumentBlocks(q.arg[x]) + o.made - o.freed
        <3>1. PICK choices : choices = q.arg[x].choices /\ choices \in Nat
            BY <2>1
        <3>2. ArgumentBlocks(q.arg[x]) = c + o.freed + d + m
            BY <1>3, <2>1, <2>5, <3>1
        <3>3. ArgumentBlocks(a) = c + o.made + d + m
            BY <1>3, <1>9, <2>5
        <3> QED
            BY <2>6, <3>2, <3>3
    <2> QED
        BY <2>6, <2>60, <2>61, <2>7 DEF Paid, Answers
<1> QED
    BY <1>3, <1>4, <1>6, <1>7, <1>10, SettingKeeps, ArgumentFields DEF o

(***************************************************************************)
(* The array of targets is missing only if an allocation of this very call *)
(* fails; the array of dependencies is never written past its end.         *)
(***************************************************************************)
LEMMA DependencyAddedKeeps ==
    ASSUME NEW q, NEW x \in ArgId, NEW y \in ArgId, NEW type \in {"REQUIRES", "CONFLICTS"},
           NEW fails, Safe(q), Usable(q, x)
    PROVE  Keeps(q, DependencyAdded(q, x, type, y, fails), fails)
<1> DEFINE dependency == [type |-> type, target |-> y]
           a == [q.arg[x] EXCEPT !.depArray = TRUE]
           b == [a EXCEPT !.deps = Append(@, dependency)]
           o == DependencyAdded(q, x, type, y, fails)
<1>1. q \in Parser /\ q.arg[x] \in Argument /\ Setting(q, x, q.arg[x])
    BY ArgumentFields
<1>2. \/ o.p = q /\ o.crash = FALSE /\ o.ok = FALSE /\ o.made = 0 /\ o.freed = 0
      \/ /\ o.p = [q EXCEPT !.arg[x].depArray = TRUE] /\ o.crash = FALSE /\ o.ok = FALSE
         /\ o.made = One(~q.arg[x].depArray) /\ o.freed = 0
      \/ /\ DependencyRoom(q.arg[x])
         /\ o.p = [[q EXCEPT !.arg[x].depArray = TRUE] EXCEPT
                   !.arg[x].deps = Append(@, dependency)]
         /\ o.crash = ("targets" \in fails) /\ o.ok = TRUE
         /\ o.made = 2 + One(~q.arg[x].depArray) /\ o.freed = 0
    <2>1. CASE ~DependencyRoom(q.arg[x])
        BY <2>1 DEF DependencyAdded, Outcome
    <2>2. CASE /\ DependencyRoom(q.arg[x])
               /\ ~q.arg[x].depArray /\ "dependencies" \in fails
        BY <2>2 DEF DependencyAdded, Outcome
    <2>3. CASE /\ DependencyRoom(q.arg[x]) /\ ~(~q.arg[x].depArray /\ "dependencies" \in fails)
               /\ "dependencies" \notin fails /\ "dependency" \in fails
        BY <2>3 DEF DependencyAdded, Outcome
    <2>4. CASE /\ DependencyRoom(q.arg[x]) /\ ~(~q.arg[x].depArray /\ "dependencies" \in fails)
               /\ ~("dependencies" \notin fails /\ "dependency" \in fails)
        BY <2>4 DEF DependencyAdded, Outcome
    <2> QED
        BY <2>1, <2>2, <2>3, <2>4
<1>3. [q EXCEPT !.arg[x].depArray = TRUE] = With(q, x, a)
    BY <1>1 DEF With, Parser
<1>4. [[q EXCEPT !.arg[x].depArray = TRUE] EXCEPT !.arg[x].deps = Append(@, dependency)]
      = With(q, x, b)
    <2>1. With(q, x, a) = [q EXCEPT !.arg = [q.arg EXCEPT ![x] = a]]
        BY DEF With
    <2> HIDE DEF a
    <2>2. [With(q, x, a) EXCEPT !.arg[x].deps = Append(@, dependency)] = With(q, x, b)
        BY <1>1, <2>1 DEF With, Parser
    <2> QED
        BY <1>3, <2>2
<1>5. a \in Argument /\ Setting(q, x, a)
    BY <1>1 DEF Setting, Sound, FlagsOf, Argument
<1>6. a.choices = q.arg[x].choices /\ a.choiceArray = q.arg[x].choiceArray
    BY <1>1 DEF Argument
<1>61. PICK c, m : /\ c = 2 + q.arg[x].strings + Cardinality(q.arg[x].texts)
                       + (IF q.arg[x].choiceArray THEN 1 + q.arg[x].choices ELSE 0)
                  /\ m = Len(q.arg[x].deps)
    OBVIOUS
<1>62. c \in Nat /\ m \in Nat
    <2>1. /\ q.arg[x].strings \in Nat /\ q.arg[x].choices \in Nat
          /\ q.arg[x].choiceArray \in BOOLEAN /\ Len(q.arg[x].deps) \in Nat
        BY <1>1, LenProperties DEF Argument
    <2>2. Cardinality(q.arg[x].texts) \in Nat
        BY <1>1, SmallSets
    <2> QED
        BY <1>61, <2>1, <2>2
<1>63. /\ ArgumentBlocks(q.arg[x]) = c + One(q.arg[x].depArray) + 2 * m
       /\ ArgumentBlocks(a) = c + 1 + 2 * m
    <2>1. /\ a.strings = q.arg[x].strings /\ a.texts = q.arg[x].texts
          /\ a.depArray = TRUE /\ a.deps = q.arg[x].deps
        BY <1>1 DEF Argument
    <2> HIDE DEF a
    <2> QED
        BY <1>6, <1>61, <2>1 DEF ArgumentBlocks, One
<1>64. One(q.arg[x].depArray) = 1 - One(~q.arg[x].depArray) /\ One(~q.arg[x].depArray) \in Nat
    BY <1>1 DEF Argument, One
<1>7. CASE o.p = q /\ o.crash = FALSE /\ o.ok = FALSE /\ o.made = 0 /\ o.freed = 0
    <2> HIDE DEF a, o
    <2>1. With(q, x, q.arg[x]) = q
        BY <1>1 DEF With, Parser
    <2>2. Paid(q, x, q.arg[x], o, fails)
        <3>1. ArgumentBlocks(q.arg[x]) = ArgumentBlocks(q.arg[x]) + o.made - o.freed
            BY <1>7, <1>62, <1>63, <1>64
        <3>2. o.made \in Nat /\ o.freed \in Nat
            BY <1>7
        <3>3. Answers(o)
            BY <1>7, Zenon DEF Answers
        <3> QED
            BY <3>1, <3>2, <3>3 DEF Paid
    <2> QED
        BY <1>1, <1>7, <2>1, <2>2, SettingKeeps, ArgumentFields DEF o
<1>8. CASE /\ o.p = [q EXCEPT !.arg[x].depArray = TRUE] /\ o.crash = FALSE /\ o.ok = FALSE
           /\ o.made = One(~q.arg[x].depArray) /\ o.freed = 0
    <2> HIDE DEF a, o
    <2>1. Paid(q, x, a, o, fails)
        <3>1. ArgumentBlocks(a) = ArgumentBlocks(q.arg[x]) + o.made - o.freed
            BY <1>8, <1>62, <1>63, <1>64
        <3>2. o.made \in Nat /\ o.freed \in Nat
            BY <1>8, <1>64
        <3>3. Answers(o)
            BY <1>8, Zenon DEF Answers
        <3> QED
            BY <3>1, <3>2, <3>3 DEF Paid
    <2> QED
        BY <1>3, <1>5, <1>6, <1>8, <2>1, SettingKeeps, ArgumentFields DEF o
<1>9. CASE /\ DependencyRoom(q.arg[x])
           /\ o.p = [[q EXCEPT !.arg[x].depArray = TRUE] EXCEPT
                     !.arg[x].deps = Append(@, dependency)]
           /\ o.crash = ("targets" \in fails) /\ o.ok = TRUE
           /\ o.made = 2 + One(~q.arg[x].depArray) /\ o.freed = 0
    <2>1. a.deps = q.arg[x].deps /\ Len(a.deps) < MaxDependencies
        BY <1>1, <1>9 DEF DependencyRoom, Argument
    <2>2. dependency \in [type : {"REQUIRES", "CONFLICTS"}, target : ArgId]
        OBVIOUS
    <2> HIDE DEF a, o, dependency
    <2>3. /\ Append(a.deps, dependency) \in Seq([type : {"REQUIRES", "CONFLICTS"}, target : ArgId])
          /\ Len(Append(a.deps, dependency)) <= MaxDependencies
        <3>1. a.deps \in Seq([type : {"REQUIRES", "CONFLICTS"}, target : ArgId])
            BY <1>5 DEF Argument
        <3> QED
            BY <2>1, <2>2, <3>1, BuilderAssumption
    <2>4. b \in Argument
        BY <1>5, <2>3 DEF Argument
    <2>5. Setting(q, x, b)
        BY <1>5, <2>3, <2>4 DEF Setting, Sound, FlagsOf, Argument
    <2>6. b.choices = q.arg[x].choices /\ b.choiceArray = q.arg[x].choiceArray
        BY <1>5, <1>6 DEF Argument
    <2>7. ArgumentBlocks(b) = c + 1 + 2 * (m + 1)
        <3>1. /\ b.strings = a.strings /\ b.texts = a.texts /\ b.depArray = TRUE
              /\ b.deps = Append(a.deps, dependency) /\ a.strings = q.arg[x].strings
              /\ a.texts = q.arg[x].texts
            BY <1>1, <1>5 DEF Argument, a
        <3>2. Len(b.deps) = m + 1
            <4>1. a.deps \in Seq([type : {"REQUIRES", "CONFLICTS"}, target : ArgId])
                BY <1>5 DEF Argument
            <4> QED
                BY <1>61, <2>1, <2>2, <3>1, <4>1
        <3> HIDE DEF b
        <3> QED
            BY <1>61, <2>6, <3>1, <3>2 DEF ArgumentBlocks, One
    <2>8. Paid(q, x, b, o, fails)
        <3>1. ArgumentBlocks(b) = ArgumentBlocks(q.arg[x]) + o.made - o.freed
            BY <1>9, <1>62, <1>63, <1>64, <2>7
        <3>2. o.made \in Nat /\ o.freed \in Nat
            BY <1>9, <1>64
        <3>3. o.ok \in BOOLEAN
            BY <1>9, Zenon
        <3>4. o.crash \in BOOLEAN
            BY <1>9
        <3> QED
            BY <3>1, <3>2, <3>3, <3>4 DEF Paid, Answers
    <2> HIDE DEF b
    <2> QED
        BY <1>4, <1>9, <2>5, <2>6, <2>8, SettingKeeps, ArgumentFields DEF o
<1> QED
    BY <1>2, <1>7, <1>8, <1>9

-----------------------------------------------------------------------------
(***************************************************************************)
(* Calls that change nothing the invariant reads.                          *)
(***************************************************************************)
Alike(q, r) ==
    /\ r \in Parser
    /\ r.arg = q.arg /\ r.args = q.args
    /\ r.positionals = q.positionals /\ r.optionals = q.optionals
    /\ r.groups = q.groups /\ r.next = q.next /\ r.types = q.types

LEMMA AlikeKeeps ==
    ASSUME NEW q, NEW r, Safe(q), Alike(q, r)
    PROVE  Safe(r) /\ (Whole(q) => Whole(r)) /\ (Shown(q) => Shown(r))
<1>1. Safe(r)
    BY DEF Safe, Alike, GroupIds, ArgumentsOnce, Usable
<1>2. \A x, y : Before(r, x, y) <=> Before(q, x, y)
    BY DEF Alike, Before
<1>3. \A x : Usable(r, x) <=> Usable(q, x)
    BY DEF Alike, Usable
<1>4. \A flag : Flagged(r, flag) = Flagged(q, flag)
    BY DEF Alike, Flagged
<1>5. Whole(q) => Whole(r)
    BY <1>2, <1>3, <1>4 DEF Alike, Whole, NoNull, Indices, Lists
<1>6. q \in Parser /\ SameShown(q, r)
    BY DEF Safe, Alike, SameShown, InDisplayGroup
<1> QED
    BY <1>1, <1>5, <1>6, ShownStays

\* An array the parser is given is none of these.
LEMMA ArrayOfAlike ==
    ASSUME NEW q \in Parser, NEW array \in Array
    PROVE  Alike(q, ArrayOf(q, array))
BY DEF Alike, ArrayOf, Parser

\* A call that changes nothing costs nothing.
LEMMA NothingKeeps ==
    ASSUME NEW q, NEW o, NEW fails, Safe(q), o.p = q, Answers(o),
           fails = {} /\ Whole(q) => ~o.crash, o.made = 0, o.freed = 0
    PROVE  Keeps(q, o, fails)
<1>1. Tidy(q) => ParserBlocks(q) \in Int
    <2> SUFFICES ASSUME Tidy(q)
                 PROVE  ParserBlocks(q) \in Int
        OBVIOUS
    <2>1. q \in Parser /\ q.live
        BY DEF Safe, Tidy
    <2> QED
        BY <2>1, PartsSum, PartsType DEF Kind
<1>2. Tidy(q) => Pays(q, o, fails)
    BY <1>1 DEF Pays
<1> QED
    BY <1>2 DEF Keeps

\* If the rest is alike, the blocks the parser itself owns make the difference.
LEMMA OwnDiffers ==
    ASSUME NEW q, NEW r, Safe(q), Alike(q, r), q.live, r.live
    PROVE  /\ ParserBlocks(r) = ParserBlocks(q) + OwnBlocks(r) - OwnBlocks(q)
           /\ ParserBlocks(q) \in Nat /\ OwnBlocks(r) \in Nat /\ OwnBlocks(q) \in Nat
<1>1. q \in Parser /\ r \in Parser
    BY DEF Safe, Alike
<1>2. ArgumentsBlocks(r) = ArgumentsBlocks(q)
    BY ArgumentsSame DEF Alike
<1>3. r.groups = q.groups /\ r.types = q.types
    BY DEF Alike
<1>4. /\ OwnBlocks(q) \in Nat /\ ArgumentsBlocks(q) \in Nat /\ TypeBlocks(q.types) \in Nat
      /\ GroupBlocks(q.groups["mutex"]) \in Nat /\ GroupBlocks(q.groups["display"]) \in Nat
      /\ OwnBlocks(r) \in Nat
    BY <1>1, PartsType DEF Kind
<1> QED
    BY <1>1, <1>2, <1>3, <1>4, PartsSum

\* The call leaves the parser r, at the cost of so many blocks.
Leaves(o, r, made) ==
    o.p = r /\ Answers(o) /\ o.crash = FALSE /\ o.made = made /\ o.freed = 0

LEMMA OutcomeIs ==
    \A r, o, tried, made :
        \/ o = Outcome(r, FALSE) /\ made = 0
        \/ o = Outcome(r, TRUE) /\ made = 0
        \/ o = [Outcome(r, FALSE) EXCEPT !.tried = tried] /\ made = 0
        \/ o = [Outcome(r, TRUE) EXCEPT !.tried = tried] /\ made = 0
        \/ o = [Outcome(r, FALSE) EXCEPT !.tried = tried, !.made = made]
        \/ o = [Outcome(r, TRUE) EXCEPT !.tried = tried, !.made = made]
        => Leaves(o, r, made)
<1> SUFFICES ASSUME NEW r, NEW o, NEW tried, NEW made,
                    \/ o = Outcome(r, FALSE) /\ made = 0
                    \/ o = Outcome(r, TRUE) /\ made = 0
                    \/ o = [Outcome(r, FALSE) EXCEPT !.tried = tried] /\ made = 0
                    \/ o = [Outcome(r, TRUE) EXCEPT !.tried = tried] /\ made = 0
                    \/ o = [Outcome(r, FALSE) EXCEPT !.tried = tried, !.made = made]
                    \/ o = [Outcome(r, TRUE) EXCEPT !.tried = tried, !.made = made]
             PROVE  Leaves(o, r, made)
    OBVIOUS
<1>1. PICK t, ok : /\ o = [p |-> r, ok |-> ok, tried |-> t, made |-> made, freed |-> 0, crash |-> FALSE]
                   /\ ok \in BOOLEAN
    <2>1. CASE o = Outcome(r, FALSE) /\ made = 0
        BY <2>1 DEF Outcome
    <2>2. CASE o = [Outcome(r, FALSE) EXCEPT !.tried = tried] /\ made = 0
        BY <2>2 DEF Outcome
    <2>3. CASE o = [Outcome(r, FALSE) EXCEPT !.tried = tried, !.made = made]
        BY <2>3 DEF Outcome
    <2>4. CASE o = [Outcome(r, TRUE) EXCEPT !.tried = tried, !.made = made]
        BY <2>4 DEF Outcome
    <2>5. CASE o = [Outcome(r, TRUE) EXCEPT !.tried = tried] /\ made = 0
        BY <2>5 DEF Outcome
    <2>6. CASE o = Outcome(r, TRUE) /\ made = 0
        BY <2>6 DEF Outcome
    <2> QED
        BY <2>1, <2>2, <2>3, <2>4, <2>5, <2>6
<1>2. o.p = r /\ o.ok = ok /\ o.crash = FALSE /\ o.made = made /\ o.freed = 0
    BY <1>1
<1>3. o.ok \in BOOLEAN /\ o.crash \in BOOLEAN
    BY <1>1, <1>2, Zenon
<1> QED
    BY <1>2, <1>3 DEF Answers, Leaves

\* An array that a clap_realloc gives the parser.
LEMMA OwnOfArray ==
    ASSUME NEW q \in Parser, NEW r, NEW array,
           r.arrays = q.arrays \cup {array}, r.texts = q.texts, r.container = q.container,
           r.commands = q.commands
    PROVE  /\ OwnBlocks(r) = OwnBlocks(q) + NewArray(q, array)
           /\ OwnBlocks(q) \in Nat /\ NewArray(q, array) \in Nat
<1>1. PICK t, n, e, c : /\ t = Cardinality(q.texts) /\ n = Cardinality(q.arrays)
                        /\ e = One(array \notin q.arrays) /\ c = One(q.container)
    OBVIOUS
<1>2. t \in Nat /\ n \in Nat /\ e \in Nat /\ c \in Nat /\ q.commands \in Nat
    BY <1>1, SmallSets DEF One, Parser
<1>3. Cardinality(r.arrays) = n + e
    <2>1. Cardinality(q.arrays \cup {array}) = n + e
        BY <1>1, SmallSets, CountChange
    <2>2. Cardinality(r.arrays) = Cardinality(q.arrays \cup {array})
        BY Zenon
    <2> QED
        BY <2>1, <2>2
<1>4. /\ OwnBlocks(q) = 2 + t + n + q.commands + c
      /\ OwnBlocks(r) = 2 + t + (n + e) + q.commands + c
    BY <1>1, <1>3 DEF OwnBlocks
<1> QED
    BY <1>1, <1>2, <1>4 DEF NewArray

\* A parser with the same blocks.
LEMMA PartsSame ==
    ASSUME NEW q \in Parser, NEW r \in Parser, Tidy(q), SameOwn(q, r),
           r.arg = q.arg, r.args = q.args, r.types = q.types,
           \A k \in Kind : GroupBlocks(r.groups[k]) = GroupBlocks(q.groups[k])
    PROVE  Tidy(r) /\ ParserBlocks(r) = ParserBlocks(q) /\ ParserBlocks(q) \in Nat
<1>1. q.live /\ r.live /\ Tidy(r)
    BY DEF Tidy, SameOwn, Usable
<1>2. OwnBlocks(r) = OwnBlocks(q) /\ ArgumentsBlocks(r) = ArgumentsBlocks(q)
    BY ArgumentsSame DEF SameOwn, OwnBlocks
<1>3. /\ GroupBlocks(r.groups["mutex"]) = GroupBlocks(q.groups["mutex"])
      /\ GroupBlocks(r.groups["display"]) = GroupBlocks(q.groups["display"])
    BY DEF Kind
<1>4. /\ OwnBlocks(q) \in Nat /\ ArgumentsBlocks(q) \in Nat /\ TypeBlocks(q.types) \in Nat
      /\ GroupBlocks(q.groups["mutex"]) \in Nat /\ GroupBlocks(q.groups["display"]) \in Nat
    BY PartsType DEF Kind
<1> QED
    BY <1>1, <1>2, <1>3, <1>4, PartsSum

\* Such a parser, at no cost.
LEMMA PartsKept ==
    ASSUME NEW q, NEW r, NEW o, NEW fails, Safe(q), Safe(r), Whole(q) => Whole(r),
           Shown(q) => Shown(r),
           Leaves(o, r, 0), SameOwn(q, r),
           r.arg = q.arg, r.args = q.args, r.types = q.types,
           \A k \in Kind : GroupBlocks(r.groups[k]) = GroupBlocks(q.groups[k])
    PROVE  Keeps(q, o, fails)
<1>1. q \in Parser /\ r \in Parser
    BY DEF Safe
<1>2. o.p = r /\ Answers(o) /\ ~o.crash /\ o.made = 0 /\ o.freed = 0
    BY DEF Leaves
<1>3. Tidy(q) => Pays(q, o, fails)
    <2> SUFFICES ASSUME Tidy(q)
                 PROVE  Pays(q, o, fails)
        OBVIOUS
    <2>1. Tidy(r) /\ ParserBlocks(r) = ParserBlocks(q) /\ ParserBlocks(q) \in Nat
        BY <1>1, PartsSame
    <2> QED
        BY <1>2, <2>1 DEF Pays
<1> QED
    BY <1>2, <1>3 DEF Keeps

LEMMA SubparsersAddedKeeps ==
    ASSUME NEW q, NEW fails, Safe(q)
    PROVE  Keeps(q, SubparsersAdded(q, fails), fails)
<1> DEFINE texts == (q.texts \cup {"dest"}) \ (fails \cap {"dest"})
           named == [q EXCEPT !.hasSubparsers = TRUE, !.texts = texts]
           new == [named EXCEPT !.container = TRUE, !.commands = 0, !.arrays = @ \ {"commands"}]
           dest == One("dest" \notin fails)
           o == SubparsersAdded(q, fails)
<1>1. q \in Parser
    BY DEF Safe
<1>2. texts \in SUBSET {"prog", "dest"}
    BY <1>1 DEF Parser
<1>3. /\ o.crash = FALSE /\ o.freed = 0
      /\ \/ o.p = named /\ o.ok = FALSE /\ o.made = dest /\ "container" \in fails
         \/ o.p = new /\ o.ok = TRUE /\ o.made = dest + 1
    BY DEF SubparsersAdded, Outcome
<1>30. Cardinality(texts) = Cardinality(q.texts) + dest - One("dest" \in q.texts)
    <2>1. PICK failed : failed = fails \cap {"dest"}
        OBVIOUS
    <2>2. failed \subseteq {"dest"} /\ IsFiniteSet(q.texts)
        BY <1>1, <2>1, SmallSets
    <2>3. Cardinality((q.texts \cup {"dest"}) \ failed)
          = Cardinality(q.texts) + One("dest" \notin failed) - One("dest" \in q.texts)
        BY <2>2, TextReplaced
    <2>4. One("dest" \notin failed) = dest
        BY <2>1 DEF One
    <2> QED
        BY <2>1, <2>3, <2>4
<1>31. dest \in Nat /\ One("dest" \in q.texts) \in {0, 1}
       /\ ("dest" \in q.texts <=> One("dest" \in q.texts) = 1)
    BY DEF One
<1>32. /\ named.live = q.live /\ named.texts = texts /\ named.arrays = q.arrays
       /\ named.hasSubparsers = TRUE /\ named.container = q.container
       /\ named.commands = q.commands /\ named.args = q.args /\ named.arg = q.arg
    BY <1>1 DEF Parser
<1>33. Answers(o)
    BY <1>3, Zenon DEF Answers
<1> HIDE DEF texts, o, dest
<1>4. Alike(q, named)
    BY <1>1, <1>2 DEF Alike, Parser
<1> HIDE DEF named
<1>5. Alike(q, new)
    BY <1>4 DEF Alike, Parser
<1>50. /\ new.live = q.live /\ new.texts = texts /\ new.arrays = q.arrays \ {"commands"}
       /\ new.hasSubparsers = TRUE /\ new.container = TRUE
       /\ new.commands = 0 /\ new.args = q.args /\ new.arg = q.arg
    BY <1>4, <1>32 DEF Alike, Parser
<1> HIDE DEF new
<1>6. ASSUME Tidy(q)
      PROVE  Pays(q, o, fails)
    <2>1. q.live /\ named.live /\ new.live /\ Tidy(named) /\ Tidy(new)
        BY <1>6, <1>32, <1>50 DEF Tidy, Usable
    <2>2. /\ Cardinality(q.texts) \in Nat /\ Cardinality(q.arrays) \in Nat
          /\ q.commands \in Nat /\ q.container \in BOOLEAN
          /\ Cardinality(q.arrays \ {"commands"})
             = Cardinality(q.arrays) - One("commands" \in q.arrays)
        BY <1>1, SmallSets, CountChange DEF Parser
    <2>3. PICK t, a, d, e, c : /\ t = Cardinality(q.texts) /\ a = Cardinality(q.arrays)
                               /\ d = One("dest" \in q.texts) /\ e = One("commands" \in q.arrays)
                               /\ c = One(q.container)
        OBVIOUS
    <2>4. /\ t \in Nat /\ a \in Nat /\ d \in {0, 1} /\ e \in {0, 1} /\ c \in {0, 1}
          /\ (d = 1 => "dest" \in q.texts) /\ (e = 1 => "commands" \in q.arrays)
          /\ (c = 1 => q.container)
        BY <2>2, <2>3 DEF One
    <2>5. /\ OwnBlocks(q) = 2 + t + a + q.commands + c
          /\ OwnBlocks(named) = 2 + (t + dest - d) + a + q.commands + c
          /\ OwnBlocks(new) = 2 + (t + dest - d) + (a - e) + 0 + 1
        <3>1. One(TRUE) = 1
            BY DEF One
        <3> QED
            BY <1>30, <1>32, <1>50, <2>2, <2>3, <3>1 DEF OwnBlocks
    <2>6. /\ ParserBlocks(named) = ParserBlocks(q) + OwnBlocks(named) - OwnBlocks(q)
          /\ ParserBlocks(new) = ParserBlocks(q) + OwnBlocks(new) - OwnBlocks(q)
          /\ ParserBlocks(q) \in Nat
        BY <1>4, <1>5, <2>1, OwnDiffers
    <2>7. d + e + c + q.commands # 0 => q.hasSubparsers
        BY <1>6, <2>2, <2>4 DEF Tidy
    <2>8. CASE o.p = named /\ o.ok = FALSE /\ o.made = dest /\ "container" \in fails
        <3>1. ParserBlocks(o.p) = ParserBlocks(q) + o.made - o.freed - d
            BY <1>3, <1>31, <2>2, <2>4, <2>5, <2>6, <2>8
        <3>2. fails # {} /\ o.p.args = q.args
            BY <1>32, <2>8
        <3>3. ParserBlocks(o.p) <= ParserBlocks(q) + o.made - o.freed
            BY <1>3, <1>31, <2>4, <2>6, <2>8, <3>1
        <3> QED
            BY <1>3, <1>31, <1>33, <2>1, <2>8, <3>2, <3>3 DEF Pays
    <2>9. CASE o.p = new /\ o.ok = TRUE /\ o.made = dest + 1
        <3>1. ParserBlocks(o.p) = ParserBlocks(q) + o.made - o.freed - (d + e + c + q.commands)
            BY <1>3, <1>31, <2>2, <2>4, <2>5, <2>6, <2>9
        <3>2. /\ ParserBlocks(o.p) <= ParserBlocks(q) + o.made - o.freed
              /\ ParserBlocks(o.p) # ParserBlocks(q) + o.made - o.freed =>
                    d + e + c + q.commands # 0
            BY <1>3, <1>31, <2>2, <2>4, <2>6, <2>9, <3>1
        <3>3. o.p.hasSubparsers /\ o.p.commands = 0
            BY <1>50, <2>9
        <3> QED
            BY <1>3, <1>31, <1>33, <2>1, <2>7, <2>9, <3>2, <3>3 DEF Pays
    <2> QED
        BY <1>3, <2>8, <2>9
<1> QED
    BY <1>3, <1>4, <1>5, <1>6, AlikeKeeps DEF Keeps, o

LEMMA CommandAddedKeeps ==
    ASSUME NEW q, NEW fails, Safe(q), q.container
    PROVE  Keeps(q, CommandAdded(q, fails), fails)
<1> DEFINE r == ArrayOf(q, "commands")
           new == [r EXCEPT !.commands = @ + 1]
           o == CommandAdded(q, fails)
<1>1. q \in Parser
    BY DEF Safe
<1>2. /\ o.crash = FALSE /\ o.freed = 0
      /\ \/ o.p = q /\ o.ok = FALSE /\ o.made = 0
         \/ o.p = new /\ o.ok = TRUE /\ o.made = 1 + NewArray(q, "commands")
    BY DEF CommandAdded, Outcome
<1>21. Answers(o)
    BY <1>2, Zenon DEF Answers
<1>22. ~o.crash
    BY <1>2
<1>20. /\ r.arrays = q.arrays \cup {"commands"}
       /\ r.args = q.args /\ r.arg = q.arg /\ r.live = q.live /\ r.texts = q.texts
       /\ r.hasSubparsers = q.hasSubparsers /\ r.container = q.container
       /\ r.commands = q.commands
    BY <1>1 DEF Parser, ArrayOf
<1>3. Alike(q, r)
    BY <1>1, ArrayOfAlike DEF Array
<1> HIDE DEF r, o
<1>4. Alike(q, new)
    <2>1. PICK n \in Nat : n = r.commands + 1
        BY <1>3 DEF Alike, Parser
    <2>2. new = [r EXCEPT !.commands = n]
        BY <2>1
    <2> HIDE DEF new
    <2> QED
        BY <1>3, <2>2 DEF Alike, Parser
<1>5. /\ new.live = q.live /\ new.texts = q.texts /\ new.arrays = q.arrays \cup {"commands"}
      /\ new.hasSubparsers = q.hasSubparsers /\ new.container = q.container
      /\ new.commands = q.commands + 1 /\ new.args = q.args /\ new.arg = q.arg
    BY <1>3, <1>20 DEF Alike, Parser
<1> HIDE DEF new
<1>6. ASSUME Tidy(q), o.p = new, o.ok = TRUE, o.made = 1 + NewArray(q, "commands")
      PROVE  Pays(q, o, fails)
    <2>1. q.live /\ new.live /\ q.hasSubparsers /\ Tidy(new)
        BY <1>5, <1>6 DEF Tidy, Usable
    <2>2. PICK t, a, e, c : /\ t = Cardinality(q.texts) /\ a = Cardinality(q.arrays)
                            /\ e = One("commands" \notin q.arrays) /\ c = One(q.container)
        OBVIOUS
    <2>3. t \in Nat /\ a \in Nat /\ e \in Nat /\ c \in Nat /\ q.commands \in Nat
        BY <1>1, <2>2, SmallSets DEF One, Parser
    <2>4. Cardinality(new.arrays) = a + e
        <3>1. Cardinality(q.arrays \cup {"commands"}) = a + e
            BY <1>1, <2>2, SmallSets, CountChange
        <3>2. Cardinality(new.arrays) = Cardinality(q.arrays \cup {"commands"})
            BY <1>5, Zenon
        <3> QED
            BY <3>1, <3>2
    <2>5. OwnBlocks(q) = 2 + t + a + q.commands + c
          /\ OwnBlocks(new) = 2 + t + (a + e) + (q.commands + 1) + c
        BY <1>5, <2>2, <2>4 DEF OwnBlocks
    <2>6. /\ ParserBlocks(new) = ParserBlocks(q) + OwnBlocks(new) - OwnBlocks(q)
          /\ ParserBlocks(q) \in Nat
        BY <1>4, <2>1, OwnDiffers
    <2>7. o.made = 1 + e /\ o.made \in Nat
        BY <1>6, <2>2, <2>3 DEF NewArray
    <2>8. ParserBlocks(new) = ParserBlocks(q) + o.made - o.freed
        BY <1>2, <2>3, <2>5, <2>6, <2>7
    <2> QED
        BY <1>2, <1>6, <1>21, <2>1, <2>6, <2>7, <2>8 DEF Pays
<1>7. ASSUME o.p = q /\ o.ok = FALSE /\ o.made = 0
      PROVE  Keeps(q, o, fails)
    BY <1>2, <1>7, <1>21, <1>22, NothingKeeps
<1>8. ASSUME o.p = new /\ o.ok = TRUE /\ o.made = 1 + NewArray(q, "commands")
      PROVE  Keeps(q, o, fails)
    <2>1. Safe(o.p) /\ (Whole(q) => Whole(o.p))
        BY <1>4, <1>8, AlikeKeeps
    <2>2. Tidy(q) => Pays(q, o, fails)
        BY <1>6, <1>8
    <2>3. Shown(q) => Shown(o.p)
        BY <1>4, <1>8, AlikeKeeps
    <2> QED
        BY <1>22, <2>1, <2>2, <2>3 DEF Keeps
<1> QED
    BY <1>2, <1>7, <1>8 DEF o

-----------------------------------------------------------------------------
(***************************************************************************)
(* Types.                                                                  *)
(***************************************************************************)
\* A name that could not be copied is there only after an allocation has failed.
LEMMA TypeRegisteredKeeps ==
    ASSUME NEW q, NEW name \in TypeName, NEW fails, Safe(q)
    PROVE  Keeps(q, TypeRegistered(q, name, fails), fails)
<1> DEFINE same == {i \in DOMAIN q.types : q.types[i] = name}
           null == \E i \in DOMAIN q.types : q.types[i] = NoName /\ \A j \in same : i < j
           full == Len(q.types) \in {0} \cup {4 * 2^i : i \in 0..Len(q.types)}
           copy == IF "name" \in fails THEN NoName ELSE name
           a == ArrayOf(q, "types")
           r == [a EXCEPT !.types = Append(@, copy)]
           o == TypeRegistered(q, name, fails)
<1>1. q \in Parser
    BY DEF Safe
<1>2. /\ o.freed = 0 /\ Answers(o)
      /\ \/ o.p = q /\ (o.crash => null) /\ o.made = 0
         \/ o.p = r /\ o.crash = FALSE /\ o.made = One(copy # NoName) + NewArray(q, "types")
    <2>1. \/ null /\ o = [Outcome(q, FALSE) EXCEPT !.crash = TRUE]
          \/ o = Outcome(q, FALSE)
          \/ o = [Outcome(q, FALSE) EXCEPT !.tried = {"types"}]
          \/ \E tried, made : /\ o = [Outcome(r, TRUE) EXCEPT !.tried = tried, !.made = made]
                              /\ made = One(copy # NoName) + NewArray(q, "types")
        <3>1. CASE null
            BY <3>1 DEF TypeRegistered
        <3>2. CASE ~null /\ same # {}
            <4> HIDE DEF null
            <4> QED
                BY <3>2 DEF TypeRegistered, null
        <3>3. CASE ~null /\ same = {} /\ full /\ "types" \in fails
            BY <3>3 DEF TypeRegistered
        <3>4. CASE ~null /\ same = {} /\ ~(full /\ "types" \in fails)
            BY <3>4 DEF TypeRegistered
        <3> QED
            BY <3>1, <3>2, <3>3, <3>4
    <2> HIDE DEF null, o, r, copy
    <2>2. CASE null /\ o = [Outcome(q, FALSE) EXCEPT !.crash = TRUE]
        BY <2>2 DEF Outcome, Answers
    <2>3. CASE o = Outcome(q, FALSE)
        <3>1. Leaves(o, q, 0)
            BY <2>3, OutcomeIs, Zenon
        <3> QED
            BY <3>1 DEF Leaves
    <2>4. CASE o = [Outcome(q, FALSE) EXCEPT !.tried = {"types"}]
        <3>1. Leaves(o, q, 0)
            BY <2>4, OutcomeIs, Zenon
        <3> QED
            BY <3>1 DEF Leaves
    <2>5. ASSUME NEW tried, NEW made, made = One(copy # NoName) + NewArray(q, "types"),
                 o = [Outcome(r, TRUE) EXCEPT !.tried = tried, !.made = made]
          PROVE  /\ o.freed = 0 /\ Answers(o) /\ o.p = r /\ o.crash = FALSE
                 /\ o.made = One(copy # NoName) + NewArray(q, "types")
        <3>1. Leaves(o, r, made)
            BY <2>5, OutcomeIs, Zenon
        <3> QED
            BY <2>5, <3>1 DEF Leaves
    <2> QED
        BY <2>1, <2>2, <2>3, <2>4, <2>5 DEF o
<1>3. NoNull(q) => ~null
    BY DEF NoNull
<1>4. copy \in TypeName \cup {NoName} /\ (fails = {} => copy # NoName)
    BY BuilderAssumption
<1>5. Alike(q, a)
    BY <1>1, ArrayOfAlike DEF Array
<1>6. Safe(a) /\ (Whole(q) => Whole(a))
    BY <1>5, AlikeKeeps
<1>7. a.types \in Seq(ToSet(Builtin) \cup TypeName \cup {NoName})
    BY <1>5 DEF Alike, Parser
<1> HIDE DEF copy, o, null
<1>8. /\ Append(a.types, copy) \in Seq(ToSet(Builtin) \cup TypeName \cup {NoName})
      /\ DOMAIN Append(a.types, copy) = 1..(Len(a.types) + 1)
      /\ \A i \in 1..(Len(a.types) + 1) :
            Append(a.types, copy)[i] = IF i = Len(a.types) + 1 THEN copy ELSE a.types[i]
    BY <1>4, <1>7, AppendProperties
<1>9. /\ r \in Parser
      /\ r.arg = a.arg /\ r.args = a.args
      /\ r.positionals = a.positionals /\ r.optionals = a.optionals
      /\ r.groups = a.groups /\ r.next = a.next
      /\ r.types = Append(a.types, copy)
    <2> HIDE DEF a
    <2> QED
        BY <1>5, <1>8 DEF Alike, Parser
<1>90. SameOwn([q EXCEPT !.arrays = @ \cup {"types"}], r)
    <2>1. SameOwn([q EXCEPT !.arrays = @ \cup {"types"}], a)
        BY <1>1 DEF SameOwn, ArrayOf
    <2> HIDE DEF a
    <2> QED
        BY <1>5, <2>1 DEF SameOwn, Alike, Parser
<1> HIDE DEF a, r
<1>10. Safe(r)
    BY <1>6, <1>9 DEF Safe, GroupIds, ArgumentsOnce, Usable
<1>11. /\ \A x, y : Before(r, x, y) <=> Before(a, x, y)
       /\ \A x : Usable(r, x) <=> Usable(a, x)
       /\ \A flag : Flagged(r, flag) = Flagged(a, flag)
    BY <1>9 DEF Before, Usable, Flagged
<1>12. Indices(a) => Indices(r)
    BY <1>9, <1>11 DEF Indices, Lists
<1>13. NoNull(a) /\ copy # NoName => NoNull(r)
    <2> SUFFICES ASSUME NoNull(a), copy # NoName
                 PROVE  NoNull(r)
        OBVIOUS
    <2>1. \A i \in DOMAIN r.types : r.types[i] # NoName
        <3> SUFFICES ASSUME NEW i \in 1..(Len(a.types) + 1)
                     PROVE  r.types[i] # NoName
            BY <1>8, <1>9
        <3>1. i # Len(a.types) + 1 => i \in DOMAIN a.types
            BY <1>7, LenProperties
        <3> QED
            BY <1>8, <1>9, <3>1 DEF NoNull
    <2> QED
        BY <1>9, <2>1 DEF NoNull
<1>140. Shown(q) => Shown(r)
    <2>1. q \in Parser /\ SameShown(q, r)
        BY <1>1, <1>5, <1>9 DEF Alike, SameShown, InDisplayGroup
    <2> QED
        BY <2>1, ShownStays
<1>14. ASSUME Tidy(q), o.p = r, o.made = One(copy # NoName) + NewArray(q, "types")
       PROVE  Pays(q, o, fails)
    <2>1. /\ r.live = q.live /\ r.texts = q.texts /\ r.arrays = q.arrays \cup {"types"}
          /\ r.hasSubparsers = q.hasSubparsers /\ r.container = q.container
          /\ r.commands = q.commands
        BY <1>1, <1>90 DEF SameOwn, Parser
    <2>2. r.args = q.args /\ r.arg = q.arg /\ r.groups = q.groups /\ r.types = Append(q.types, copy)
        BY <1>5, <1>9 DEF Alike
    <2>3. q.live /\ r.live /\ Tidy(r)
        BY <1>14, <2>1, <2>2 DEF Tidy, Usable
    <2>4. ArgumentsBlocks(r) = ArgumentsBlocks(q)
        BY <2>2, ArgumentsSame
    <2>5. TypeBlocks(r.types) = TypeBlocks(q.types) + One(copy # NoName)
        <3>1. q.types \in Seq(ToSet(Builtin) \cup TypeName \cup {NoName})
            BY <1>1 DEF Parser
        <3> QED
            BY <1>4, <2>2, <3>1, TypesAppended
    <2>6. PICK t, e, n, c : /\ t = Cardinality(q.texts) /\ n = Cardinality(q.arrays)
                            /\ e = One("types" \notin q.arrays) /\ c = One(q.container)
        OBVIOUS
    <2>7. t \in Nat /\ n \in Nat /\ e \in Nat /\ c \in Nat /\ q.commands \in Nat
        BY <1>1, <2>6, SmallSets DEF One, Parser
    <2>8. Cardinality(r.arrays) = n + e
        <3>1. Cardinality(q.arrays \cup {"types"}) = n + e
            BY <1>1, <2>6, SmallSets, CountChange
        <3>2. Cardinality(r.arrays) = Cardinality(q.arrays \cup {"types"})
            BY <2>1, Zenon
        <3> QED
            BY <3>1, <3>2
    <2>9. /\ OwnBlocks(q) = 2 + t + n + q.commands + c
          /\ OwnBlocks(r) = 2 + t + (n + e) + q.commands + c
        BY <2>1, <2>6, <2>8 DEF OwnBlocks
    <2>10. PICK d : d = One(copy # NoName) /\ d \in Nat
        BY DEF One
    <2>11. o.made = d + e /\ o.made \in Nat /\ o.freed = 0
        BY <1>2, <1>14, <2>6, <2>7, <2>10 DEF NewArray
    <2>12. /\ ArgumentsBlocks(q) \in Nat /\ TypeBlocks(q.types) \in Nat
           /\ GroupBlocks(q.groups["mutex"]) \in Nat /\ GroupBlocks(q.groups["display"]) \in Nat
        BY <1>1, PartsType DEF Kind
    <2>13. ParserBlocks(r) = ParserBlocks(q) + o.made - o.freed /\ ParserBlocks(r) \in Int
        <3>1. /\ ParserBlocks(q) = OwnBlocks(q) + ArgumentsBlocks(q) + GroupBlocks(q.groups["mutex"])
                                  + GroupBlocks(q.groups["display"]) + TypeBlocks(q.types)
              /\ ParserBlocks(r) = OwnBlocks(r) + ArgumentsBlocks(q) + GroupBlocks(q.groups["mutex"])
                                  + GroupBlocks(q.groups["display"]) + (TypeBlocks(q.types) + d)
            BY <1>1, <1>9, <2>2, <2>3, <2>4, <2>5, <2>10, PartsSum
        <3> QED
            BY <2>7, <2>9, <2>10, <2>11, <2>12, <3>1
    <2> QED
        BY <1>2, <1>14, <2>3, <2>11, <2>13 DEF Pays
<1>15. ASSUME o.p = q, o.made = 0, o.crash => null
       PROVE  Keeps(q, o, fails)
    <2>1. Whole(q) => ~o.crash
        BY <1>3, <1>15 DEF Whole
    <2> QED
        BY <1>2, <1>15, <2>1, NothingKeeps
<1>16. ASSUME o.p = r, o.crash = FALSE, o.made = One(copy # NoName) + NewArray(q, "types")
       PROVE  Keeps(q, o, fails)
    <2>1. fails = {} /\ Whole(q) => Whole(r)
        BY <1>4, <1>6, <1>12, <1>13 DEF Whole
    <2>2. ~o.crash
        BY <1>16
    <2> QED
        BY <1>10, <1>14, <1>140, <1>16, <2>1, <2>2 DEF Keeps
<1> QED
    BY <1>2, <1>15, <1>16 DEF o

-----------------------------------------------------------------------------
(***************************************************************************)
(* Groups.                                                                 *)
(***************************************************************************)
\* Only the groups and their ids change.
Regrouped(q, r) ==
    /\ r \in Parser
    /\ r.arg = q.arg /\ r.args = q.args
    /\ r.positionals = q.positionals /\ r.optionals = q.optionals
    /\ r.types = q.types

LEMMA RegroupedKeeps ==
    ASSUME NEW q, NEW r, Safe(q), Regrouped(q, r), GroupIds(r)
    PROVE  /\ Safe(r) /\ (Whole(q) => Whole(r))
           /\ (\A x \in ArgId : InDisplayGroup(r, x) <=> InDisplayGroup(q, x)) =>
                  (Shown(q) => Shown(r))
<1>1. Safe(r)
    BY DEF Safe, Regrouped, ArgumentsOnce, Usable
<1>2. \A x, y : Before(r, x, y) <=> Before(q, x, y)
    BY DEF Regrouped, Before
<1>3. \A x : Usable(r, x) <=> Usable(q, x)
    BY DEF Regrouped, Usable
<1>4. \A flag : Flagged(r, flag) = Flagged(q, flag)
    BY DEF Regrouped, Flagged
<1>5. Whole(q) => Whole(r)
    BY <1>2, <1>3, <1>4 DEF Regrouped, Whole, NoNull, Indices, Lists
<1>6. ASSUME \A x \in ArgId : InDisplayGroup(r, x) <=> InDisplayGroup(q, x)
      PROVE  Shown(q) => Shown(r)
    <2>1. q \in Parser /\ SameShown(q, r)
        BY <1>6 DEF Safe, Regrouped, SameShown
    <2> QED
        BY <2>1, ShownStays
<1> QED
    BY <1>1, <1>5, <1>6

\* The groups are those that have their ids, whoever their members are.
LEMMA IdsStay ==
    ASSUME NEW old, NEW new, NEW next, IdsOf(old, next),
           Len(new) = Len(old), DOMAIN new = DOMAIN old,
           \A i \in DOMAIN old : new[i].id = old[i].id
    PROVE  IdsOf(new, next)
<1>1. \A id : IdLostBelow(old, id) => IdLostBelow(new, id)
    BY DEF IdLostBelow
<1> QED
    BY <1>1 DEF IdsOf

\* An id that is taken and has no group is lost.
LEMMA IdTaken ==
    ASSUME NEW groups \in Seq(Group), NEW next \in Nat, IdsOf(groups, next)
    PROVE  IdsOf(groups, next + 1)
<1>1. Len(groups) \in Nat /\ \A i \in DOMAIN groups : groups[i].id \in Nat
    <2>1. \A i \in DOMAIN groups : groups[i] \in Group
        OBVIOUS
    <2> QED
        BY <2>1, LenProperties DEF Group
<1>2. IdLostBelow(groups, next + 1)
    <2>1. next \in 0..((next + 1) - 1) /\ \A i \in DOMAIN groups : groups[i].id # next
        BY <1>1 DEF IdsOf
    <2> QED
        BY <2>1 DEF IdLostBelow
<1> QED
    BY <1>1, <1>2 DEF IdsOf

\* An id that is taken and has a group is at its place, or comes after one that was lost.
LEMMA GroupsIdAppended ==
    ASSUME NEW groups \in Seq(Group), NEW next \in Nat, IdsOf(groups, next),
           NEW g \in Group, g.id = next
    PROVE  IdsOf(Append(groups, g), next + 1)
<1> DEFINE new == Append(groups, g)
<1>1. /\ Len(groups) \in Nat /\ DOMAIN groups = 1..Len(groups)
      /\ Len(new) = Len(groups) + 1 /\ DOMAIN new = 1..(Len(groups) + 1)
      /\ \A i \in 1..(Len(groups) + 1) :
            new[i] = IF i = Len(groups) + 1 THEN g ELSE groups[i]
    BY AppendProperties, LenProperties
<1>2. \A i \in DOMAIN groups : groups[i].id \in Nat /\ groups[i].id < next
    <2>1. \A i \in DOMAIN groups : groups[i] \in Group
        OBVIOUS
    <2> QED
        BY <2>1 DEF Group, IdsOf
<1> HIDE DEF new
<1>11. PICK m \in Nat : m = Len(groups) /\ Len(new) = m + 1 /\ m <= next
    BY <1>1 DEF IdsOf
<1>3. /\ \A i \in DOMAIN groups : new[i].id = groups[i].id /\ new[i].id \in Nat /\ new[i].id < next
      /\ new[Len(groups) + 1].id = next
      /\ \A i \in DOMAIN new : i \in DOMAIN groups \/ i = Len(groups) + 1
    BY <1>1, <1>2
<1>4. ASSUME NEW id \in Nat, id <= next, IdLostBelow(groups, id)
      PROVE  IdLostBelow(new, id)
    <2>1. PICK lost \in 0..(id - 1) : \A i \in DOMAIN groups : groups[i].id # lost
        BY <1>4 DEF IdLostBelow
    <2>2. lost # next
        BY <1>4, <2>1
    <2>3. \A i \in DOMAIN new : new[i].id # lost
        BY <1>3, <2>1, <2>2
    <2> QED
        BY <2>1, <2>3 DEF IdLostBelow
<1>5. next = Len(groups) \/ IdLostBelow(new, next)
    BY <1>4 DEF IdsOf
<1>6. next + 1 = Len(new) \/ IdLostBelow(new, next + 1)
    <2>1. ASSUME IdLostBelow(new, next)
          PROVE  IdLostBelow(new, next + 1)
        <3>1. PICK lost \in 0..(next - 1) : \A i \in DOMAIN new : new[i].id # lost
            BY <2>1 DEF IdLostBelow
        <3>2. lost \in 0..((next + 1) - 1)
            BY <3>1
        <3> QED
            BY <3>1, <3>2 DEF IdLostBelow
    <2> QED
        BY <1>1, <1>5, <2>1
<1>7. ASSUME NEW i \in DOMAIN new
      PROVE  /\ new[i].id < next + 1
             /\ new[i].id = i - 1 \/ IdLostBelow(new, new[i].id)
    <2>1. CASE i = Len(groups) + 1
        BY <1>1, <1>3, <1>5, <2>1
    <2>2. CASE i \in DOMAIN groups
        <3>1. new[i].id = groups[i].id /\ groups[i].id \in Nat /\ groups[i].id < next
            BY <1>2, <1>3, <2>2
        <3>2. groups[i].id = i - 1 \/ IdLostBelow(groups, groups[i].id)
            BY <2>2 DEF IdsOf
        <3> QED
            BY <1>4, <3>1, <3>2
    <2> QED
        BY <1>3, <2>1, <2>2
<1>8. next + 1 = Len(new) => \A i \in DOMAIN new : new[i].id = i - 1
    <2> SUFFICES ASSUME next + 1 = Len(new), NEW i \in DOMAIN new
                 PROVE  new[i].id = i - 1
        OBVIOUS
    <2>1. next = m
        BY <1>11
    <2>2. i \in DOMAIN groups => groups[i].id = i - 1
        BY <1>11, <2>1 DEF IdsOf
    <2> QED
        BY <1>1, <1>3, <1>11, <2>1, <2>2
<1>9. Len(new) <= next + 1
    BY <1>11
<1> QED
    BY <1>6, <1>7, <1>8, <1>9 DEF IdsOf, new

\* A group that could not be made leaves an id that is not used again.
LEMMA GroupAddedKeeps ==
    ASSUME NEW q, NEW kind \in Kind, NEW fails, Safe(q)
    PROVE  Keeps(q, GroupAdded(q, kind, fails), fails)
<1> DEFINE next == [q.next EXCEPT ![kind] = @ + 1]
           taken == [q EXCEPT !.next = next]
           titled == kind = "display" /\ "title" \notin fails
           group == [id |-> q.next[kind], args |-> << >>, titled |-> titled,
                     capacity |-> GroupCapacity]
           b == ArrayOf(taken, kind)
           groups == [b.groups EXCEPT ![kind] = Append(@, group)]
           r == [b EXCEPT !.groups = groups]
           o == GroupAdded(q, kind, fails)
<1>1. q \in Parser /\ q.next \in [Kind -> Nat] /\ q.groups \in [Kind -> Seq(Group)]
    BY DEF Safe, Parser
<1>2. taken = [q EXCEPT !.next[kind] = @ + 1]
    BY <1>1 DEF Parser
<1>3. r = [b EXCEPT !.groups[kind] = Append(@, group)]
    BY DEF r
<1>4. \/ Leaves(o, q, 0)
      \/ Leaves(o, taken, 0)
      \/ Leaves(o, r, 2 + One(titled) + NewArray(q, kind))
    <2>1. \/ \E tried : o = [Outcome(q, FALSE) EXCEPT !.tried = tried]
          \/ \E tried : o = [Outcome(taken, FALSE) EXCEPT !.tried = tried]
          \/ \E tried : o = [Outcome(r, TRUE) EXCEPT !.tried = tried,
                                                    !.made = 2 + One(titled) + NewArray(q, kind)]
        <3> HIDE DEF taken, r
        <3>1. CASE "group" \in fails
            BY <3>1 DEF GroupAdded
        <3>2. CASE "group" \notin fails /\ "members" \in fails
            BY <1>2, <3>2 DEF GroupAdded
        <3>3. CASE fails \cap {"group", "members"} = {} /\ "groups" \in fails
            BY <1>2, <3>3 DEF GroupAdded
        <3>4. CASE fails \cap {"group", "members"} = {} /\ "groups" \notin fails
            BY <1>2, <1>3, <3>4 DEF GroupAdded
        <3> QED
            BY <3>1, <3>2, <3>3, <3>4
    <2> HIDE DEF taken, r, o, titled
    <2> QED
        BY <2>1, OutcomeIs, Zenon
<1>5. /\ next \in [Kind -> Nat]
      /\ next[kind] = q.next[kind] + 1
      /\ \A k \in Kind : k # kind => next[k] = q.next[k]
    BY <1>1
<1> HIDE DEF next, o, titled
<1>6. taken \in Parser /\ taken.next = next /\ taken.groups = q.groups /\ Regrouped(q, taken)
    BY <1>1, <1>5 DEF Parser, Regrouped
<1>60. SameOwn(q, taken)
    BY <1>1 DEF Parser, SameOwn
<1> HIDE DEF taken
<1>7. b \in Parser /\ Alike(taken, b)
    BY <1>6, ArrayOfAlike DEF Alike, Array, Kind
<1>70. /\ b.arrays = q.arrays \cup {kind} /\ b.live = q.live /\ b.texts = q.texts
       /\ b.hasSubparsers = q.hasSubparsers /\ b.container = q.container
       /\ b.commands = q.commands
    BY <1>6, <1>60 DEF SameOwn, ArrayOf, Parser
<1>8. group \in Group /\ group.id = q.next[kind] /\ group.titled = titled
    <2>1. titled \in BOOLEAN /\ GroupCapacity \in Nat
        BY BuilderAssumption DEF titled
    <2>2. << >> \in Seq(ArgId)
        OBVIOUS
    <2> HIDE DEF titled
    <2> QED
        BY <1>1, <2>1, <2>2 DEF Group
<1> HIDE DEF b, group
<1>9. b.groups = q.groups
    BY <1>6, <1>7 DEF Alike
<1>10. /\ groups \in [Kind -> Seq(Group)]
       /\ groups[kind] = Append(q.groups[kind], group)
       /\ \A k \in Kind : k # kind => groups[k] = q.groups[k]
    BY <1>1, <1>8, <1>9
<1> HIDE DEF groups
<1>11. /\ r \in Parser /\ r.groups = groups /\ r.next = next /\ r.arg = q.arg
       /\ Regrouped(q, r)
    BY <1>6, <1>7, <1>10 DEF Parser, Alike, Regrouped
<1>110. /\ r.arrays = q.arrays \cup {kind} /\ r.live = q.live /\ r.texts = q.texts
        /\ r.hasSubparsers = q.hasSubparsers /\ r.container = q.container
        /\ r.commands = q.commands
    BY <1>7, <1>70 DEF Parser
<1> HIDE DEF r
<1>12. q.next["mutex"] \in Nat /\ q.groups["mutex"] \in Seq(Group) /\ "mutex" \in Kind
    BY <1>1 DEF Kind
<1>120. IdsOf(q.groups["mutex"], q.next["mutex"])
    BY DEF Safe, GroupIds
<1>13. GroupIds(taken)
    <2>1. next["mutex"] = q.next["mutex"] \/ next["mutex"] = q.next["mutex"] + 1
        BY <1>5, <1>12
    <2>2. IdsOf(q.groups["mutex"], next["mutex"])
        BY <1>12, <1>120, <2>1, IdTaken
    <2> QED
        BY <1>6, <2>2 DEF GroupIds
<1>14. GroupIds(r)
    <2>1. CASE kind = "display"
        <3>1. next["mutex"] = q.next["mutex"] /\ groups["mutex"] = q.groups["mutex"]
            BY <1>5, <1>10, <1>12, <2>1
        <3> QED
            BY <1>11, <1>120, <3>1 DEF GroupIds
    <2>2. CASE kind = "mutex"
        <3>1. /\ next["mutex"] = q.next["mutex"] + 1 /\ group.id = q.next["mutex"]
              /\ groups["mutex"] = Append(q.groups["mutex"], group)
            BY <1>5, <1>8, <1>10, <2>2
        <3>2. IdsOf(groups["mutex"], next["mutex"])
            BY <1>8, <1>12, <1>120, <3>1, GroupsIdAppended
        <3> QED
            BY <1>11, <3>2 DEF GroupIds
    <2> QED
        BY <2>1, <2>2 DEF Kind
<1>15. Safe(taken) /\ Safe(r) /\ (Whole(q) => Whole(taken)) /\ (Whole(q) => Whole(r))
    BY <1>6, <1>11, <1>13, <1>14, RegroupedKeeps
<1>150. (Shown(q) => Shown(taken)) /\ (Shown(q) => Shown(r))
    <2>1. \A y \in ArgId : InDisplayGroup(taken, y) <=> InDisplayGroup(q, y)
        BY <1>6 DEF InDisplayGroup
    <2>2. \A y \in ArgId : InDisplayGroup(r, y) <=> InDisplayGroup(q, y)
        <3>1. CASE kind = "mutex"
            <4>1. groups["display"] = q.groups["display"]
                BY <1>10, <3>1 DEF Kind
            <4> QED
                BY <1>11, <4>1 DEF InDisplayGroup
        <3>2. CASE kind = "display"
            <4> DEFINE old == q.groups["display"]
                       new == groups["display"]
            <4>1. old \in Seq(Group) /\ new = Append(old, group)
                BY <1>1, <1>10, <3>2
            <4>2. group.args = << >> /\ ToSet(<< >>) = {}
                BY DEF group, ToSet
            <4> HIDE DEF old, new
            <4>3. /\ \A i \in DOMAIN old : i \in DOMAIN new /\ new[i] = old[i]
                  /\ \A i \in DOMAIN new : new[i] = group \/ (i \in DOMAIN old /\ new[i] = old[i])
                BY <1>8, <4>1, AppendEntries
            <4>4. \A y : (\E i \in DOMAIN new : y \in ToSet(new[i].args))
                          <=> (\E i \in DOMAIN old : y \in ToSet(old[i].args))
                BY <4>2, <4>3
            <4> QED
                BY <1>11, <4>4 DEF InDisplayGroup, old, new
        <3> QED
            BY <3>1, <3>2 DEF Kind
    <2> QED
        BY <1>6, <1>11, <1>13, <1>14, <2>1, <2>2, RegroupedKeeps
<1>16. ASSUME Leaves(o, q, 0)
       PROVE  Keeps(q, o, fails)
    BY <1>16, NothingKeeps DEF Leaves
<1>17. ASSUME Leaves(o, taken, 0)
       PROVE  Keeps(q, o, fails)
    BY <1>6, <1>15, <1>150, <1>17, <1>60, PartsKept DEF Regrouped
<1>18. ASSUME Leaves(o, r, 2 + One(titled) + NewArray(q, kind))
       PROVE  Keeps(q, o, fails)
    <2>1. ASSUME Tidy(q)
          PROVE  Pays(q, o, fails)
        <3>1. r.args = q.args /\ r.arg = q.arg /\ r.types = q.types /\ q.live /\ r.live /\ Tidy(r)
            BY <1>11, <1>110, <2>1 DEF Tidy, Usable, Regrouped, Kind
        <3>2. ArgumentsBlocks(r) = ArgumentsBlocks(q)
            BY <3>1, ArgumentsSame
        <3>3. /\ OwnBlocks(r) = OwnBlocks(q) + NewArray(q, kind)
              /\ OwnBlocks(q) \in Nat /\ NewArray(q, kind) \in Nat
            BY <1>1, <1>110, OwnOfArray
        <3>4. PICK d : d = One(titled) /\ d \in Nat
            BY DEF One
        <3>5. GroupBlocks(r.groups[kind]) = GroupBlocks(q.groups[kind]) + 2 + d
            BY <1>1, <1>8, <1>10, <1>11, <3>4, GroupsAppended
        <3>6. \A k \in Kind : k # kind => GroupBlocks(r.groups[k]) = GroupBlocks(q.groups[k])
            BY <1>10, <1>11
        <3>7. /\ ArgumentsBlocks(q) \in Nat /\ TypeBlocks(q.types) \in Nat
              /\ GroupBlocks(q.groups["mutex"]) \in Nat /\ GroupBlocks(q.groups["display"]) \in Nat
            BY <1>1, PartsType DEF Kind
        <3>8. GroupBlocks(r.groups["mutex"]) + GroupBlocks(r.groups["display"])
              = GroupBlocks(q.groups["mutex"]) + GroupBlocks(q.groups["display"]) + 2 + d
            <4>1. CASE kind = "mutex"
                BY <3>4, <3>5, <3>6, <3>7, <4>1 DEF Kind
            <4>2. CASE kind = "display"
                BY <3>4, <3>5, <3>6, <3>7, <4>2 DEF Kind
            <4> QED
                BY <4>1, <4>2 DEF Kind
        <3>9. /\ GroupBlocks(r.groups["mutex"]) \in Nat /\ GroupBlocks(r.groups["display"]) \in Nat
            BY <1>11, PartsType DEF Kind
        <3>10. o.p = r /\ Answers(o) /\ o.made = 2 + d + NewArray(q, kind) /\ o.freed = 0
            BY <1>18, <3>4 DEF Leaves
        <3>11. /\ ParserBlocks(q) = OwnBlocks(q) + ArgumentsBlocks(q) + GroupBlocks(q.groups["mutex"])
                                    + GroupBlocks(q.groups["display"]) + TypeBlocks(q.types)
               /\ ParserBlocks(r) = OwnBlocks(r) + ArgumentsBlocks(r) + GroupBlocks(r.groups["mutex"])
                                    + GroupBlocks(r.groups["display"]) + TypeBlocks(r.types)
            BY <1>1, <1>11, <3>1, PartsSum
        <3>12. ParserBlocks(r) = ParserBlocks(q) + o.made - o.freed /\ ParserBlocks(r) \in Int
            <4>1. d \in Nat /\ o.made = 2 + d + NewArray(q, kind) /\ o.freed = 0
                BY <3>4, <3>10
            <4>2. TypeBlocks(r.types) = TypeBlocks(q.types)
                BY <3>1
            <4>3. PICK own, new, gm, gd, gn, ge, args, types :
                     /\ own = OwnBlocks(q) /\ new = NewArray(q, kind)
                     /\ gm = GroupBlocks(q.groups["mutex"]) /\ gd = GroupBlocks(q.groups["display"])
                     /\ gn = GroupBlocks(r.groups["mutex"]) /\ ge = GroupBlocks(r.groups["display"])
                     /\ args = ArgumentsBlocks(q) /\ types = TypeBlocks(q.types)
                OBVIOUS
            <4>4. /\ own \in Nat /\ new \in Nat /\ gm \in Nat /\ gd \in Nat /\ gn \in Nat
                  /\ ge \in Nat /\ args \in Nat /\ types \in Nat
                BY <3>3, <3>7, <3>9, <4>3
            <4>5. ParserBlocks(q) = own + args + gm + gd + types
                BY <3>11, <4>3
            <4>6. ParserBlocks(r) = (own + new) + args + gn + ge + types
                BY <3>2, <3>3, <3>11, <4>2, <4>3
            <4>7. gn + ge = gm + gd + 2 + d
                BY <3>8, <4>3
            <4>8. o.made = 2 + d + new
                BY <4>1, <4>3
            <4> QED
                BY <4>1, <4>4, <4>5, <4>6, <4>7, <4>8
        <3>13. o.made \in Nat /\ o.freed \in Nat
            BY <3>3, <3>4, <3>10
        <3> QED
            BY <3>1, <3>10, <3>12, <3>13 DEF Pays
    <2> QED
        BY <1>15, <1>150, <1>18, <2>1 DEF Keeps, Leaves
<1> QED
    BY <1>4, <1>16, <1>17, <1>18 DEF o

\* An argument is put into a group there is.
LEMMA GroupJoinedKeeps ==
    ASSUME NEW q, NEW kind \in Kind, NEW id \in Nat, NEW x \in ArgId, NEW fails, Safe(q),
           Usable(q, x)
    PROVE  Keeps(q, GroupJoined(q, kind, id, x, fails), fails)
<1> DEFINE found == {i \in DOMAIN q.groups[kind] : q.groups[kind][i].id = id}
           m == Min(found)
           g == q.groups[kind][m]
           full == Len(g.args) >= g.capacity
           new == [g EXCEPT !.args = Append(@, x), !.capacity = IF full THEN 2 * @ ELSE @]
           o == GroupJoined(q, kind, id, x, fails)
           result0 == [q EXCEPT !.groups[kind][m] = new, !.arg[x].group[kind] = id]
<1>1. /\ q \in Parser /\ q.groups \in [Kind -> Seq(Group)] /\ q.arg[x] \in Argument
      /\ Setting(q, x, q.arg[x])
    <2>1. q \in Parser /\ q.arg[x] \in Argument /\ Setting(q, x, q.arg[x])
        BY ArgumentFields
    <2> QED
        BY <2>1 DEF Parser
<1>2. Leaves(o, q, 0) \/ (found # {} /\ Leaves(o, result0, 0))
    <2>1. \/ o = Outcome(q, FALSE)
          \/ o = [Outcome(q, FALSE) EXCEPT !.tried = {"members"}]
          \/ found # {} /\ \E tried : o = [Outcome(result0, TRUE) EXCEPT !.tried = tried]
        BY DEF GroupJoined
    <2> HIDE DEF o, found, result0
    <2> QED
        BY <2>1, OutcomeIs, Zenon
<1>3. ASSUME found # {}, Leaves(o, result0, 0)
      PROVE  Keeps(q, o, fails)
    <2> HIDE DEF o
    <2>1. m \in DOMAIN q.groups[kind] /\ g.id = id
        <3>1. found \in SUBSET Nat
            BY <1>1
        <3>2. m \in found
            BY <1>3, <3>1, MinOfNaturals
        <3> QED
            BY <3>2
    <2> HIDE DEF m, found
    <2>2. g \in Group
        BY <1>1, <2>1
    <2>3. /\ new \in Group /\ new.id = g.id /\ new.titled = g.titled
          /\ ToSet(new.args) = ToSet(g.args) \cup {x}
        <3>1. PICK c \in Nat : c = IF full THEN 2 * g.capacity ELSE g.capacity
            BY <2>2 DEF Group
        <3>2. Append(g.args, x) \in Seq(ArgId)
            BY <2>2 DEF Group
        <3>3. new = [g EXCEPT !.args = Append(g.args, x), !.capacity = c]
            BY <2>2, <3>1 DEF Group
        <3> HIDE DEF new, g
        <3>4. g.args \in Seq(ArgId)
            BY <2>2 DEF Group
        <3>5. new \in Group /\ new.id = g.id /\ new.titled = g.titled /\ new.args = Append(g.args, x)
            BY <2>2, <3>2, <3>3 DEF Group
        <3> QED
            BY <3>4, <3>5, AppendEntries
    <2> DEFINE old == q.groups[kind]
               members == [old EXCEPT ![m] = new]
               groups == [q.groups EXCEPT ![kind] = members]
               r == [q EXCEPT !.groups = groups]
               group == [q.arg[x].group EXCEPT ![kind] = id]
               a == [q.arg[x] EXCEPT !.group = group]
    <2>4. /\ members \in Seq(Group) /\ Len(members) = Len(old) /\ DOMAIN members = DOMAIN old
          /\ \A i \in DOMAIN old : members[i].id = old[i].id /\ members[i].titled = old[i].titled
        <3> HIDE DEF new
        <3>1. old \in Seq(Group) /\ m \in 1..Len(old)
            BY <1>1, <2>1
        <3>2. members \in Seq(Group) /\ Len(members) = Len(old)
            BY <2>3, <3>1, ExceptSeq
        <3>3. \A i \in DOMAIN old : members[i].id = old[i].id /\ members[i].titled = old[i].titled
            BY <2>3, <3>1
        <3> QED
            BY <3>2, <3>3
    <2>5. result0 = With(r, x, a)
        <3> HIDE DEF new
        <3>1. [q EXCEPT !.groups[kind][m] = new] = r
            BY <1>1, <2>1
        <3>2. result0 = [r EXCEPT !.arg[x].group[kind] = id]
            BY <3>1
        <3>3. r.arg = q.arg
            BY <1>1 DEF Parser
        <3> HIDE DEF r
        <3> QED
            BY <1>1, <3>2, <3>3 DEF With, Argument, Parser
    <2>6. /\ groups \in [Kind -> Seq(Group)]
          /\ Len(groups["mutex"]) = Len(q.groups["mutex"])
          /\ DOMAIN groups["mutex"] = DOMAIN q.groups["mutex"]
          /\ \A i \in DOMAIN q.groups["mutex"] :
                groups["mutex"][i].id = q.groups["mutex"][i].id
          /\ \A k \in Kind : GroupBlocks(groups[k]) = GroupBlocks(q.groups[k])
        <3>1. GroupBlocks(members) = GroupBlocks(old)
            BY <2>4, GroupsSame
        <3> HIDE DEF members
        <3> QED
            BY <1>1, <2>4, <3>1 DEF Kind
    <2> HIDE DEF groups, members
    <2>7. r.groups = groups /\ r.next = q.next /\ r.arg = q.arg /\ Regrouped(q, r)
        BY <1>1, <2>6 DEF Parser, Regrouped
    <2>70. SameOwn(q, r)
        BY <1>1 DEF Parser, SameOwn
    <2> HIDE DEF r
    <2>8. GroupIds(r)
        <3>1. IdsOf(groups["mutex"], q.next["mutex"])
            BY <2>6, IdsStay DEF Safe, GroupIds
        <3> QED
            BY <2>7, <3>1 DEF GroupIds
    <2>9. Safe(r) /\ (Whole(q) => Whole(r))
        BY <2>7, <2>8, RegroupedKeeps
    <2>10. group \in [Kind -> Int]
        BY <1>1 DEF Argument, Kind
    <2> HIDE DEF group
    <2>11. a \in Argument
        BY <1>1, <2>10 DEF Argument
    <2>12. Sound(r, x, a)
        BY <1>1, <2>7, <2>10, <2>11 DEF Setting, Sound, FlagsOf, Argument
    <2>13. SameBlocks(q.arg[x], a)
        BY <1>1 DEF Argument, SameBlocks
    <2>130. a.made /\ a.group = group
        BY <1>1 DEF Argument, Usable
    <2> HIDE DEF a, result0
    <2>131. ASSUME Shown(q)
            PROVE  Shown(With(r, x, a))
        <3> DEFINE w == With(r, x, a)
        <3>1. /\ w.positionals = q.positionals /\ w.optionals = q.optionals /\ w.groups = groups
              /\ \A y \in ArgId : w.arg[y] = IF y = x THEN a ELSE q.arg[y]
            BY <2>7, <2>11, WithFields DEF Regrouped
        <3>2. q.arg[x].made = TRUE
            BY <1>1 DEF Usable, Argument
        <3> HIDE DEF w
        <3>3. \A y \in ArgId : w.arg[y].made = q.arg[y].made
            BY <2>130, <3>1, <3>2
        <3>4. IndexedOnce(w)
            <4>1. \A y \in ToSet(q.positionals) \cup ToSet(q.optionals) : y \in ArgId
                BY <1>1 DEF Parser, ToSet
            <4> QED
                BY <2>131, <3>1, <3>3, <4>1 DEF Shown, IndexedOnce
        <3>5. ASSUME kind = "mutex"
              PROVE  Shown(w)
            <4>1. groups["display"] = q.groups["display"] /\ group["display"] = q.arg[x].group["display"]
                BY <1>1, <3>5 DEF groups, group, Kind, Argument
            <4>2. Displayed(w)
                BY <2>130, <2>131, <3>1, <3>3, <4>1 DEF Shown, Displayed, InDisplayGroup
            <4> QED
                BY <3>4, <4>2 DEF Shown
        <3>6. ASSUME kind = "display"
              PROVE  Shown(w)
            <4>1. groups["display"] = members /\ group["display"] = id /\ old = q.groups["display"]
                BY <1>1, <3>6 DEF groups, group, Kind, Argument
            <4>2. \A i \in DOMAIN old : members[i] = IF i = m THEN new ELSE old[i]
                BY <1>1, <2>1 DEF members
            <4>3. DOMAIN members = DOMAIN old /\ m \in DOMAIN old /\ old[m] = g
                BY <2>1, <2>4
            <4>4. \A y : (\E i \in DOMAIN members : y \in ToSet(members[i].args))
                          <=> y = x \/ \E i \in DOMAIN old : y \in ToSet(old[i].args)
                <5> HIDE DEF new, g, old
                <5> QED
                    BY <2>3, <4>2, <4>3
            <4>5. \A y \in ArgId : InDisplayGroup(w, y) <=> y = x \/ InDisplayGroup(q, y)
                BY <3>1, <4>1, <4>4 DEF InDisplayGroup
            <4>6. w.arg[x].group["display"] # NONE /\ w.arg[x].made
                BY <2>130, <3>1, <4>1 DEF NONE
            <4>7. Displayed(w)
                BY <2>131, <3>1, <3>3, <4>5, <4>6 DEF Shown, Displayed
            <4> QED
                BY <3>4, <4>7 DEF Shown
        <3> QED
            BY <3>5, <3>6 DEF Kind, w
    <2>14. Safe(With(r, x, a))
        BY <2>9, <2>12, SettingIsSafe
    <2>15. Whole(q) => Whole(With(r, x, a))
        BY <2>9, <2>12, <2>13, SettingIsWhole DEF Whole, NoNull, SameBlocks
    <2>16. o.p = With(r, x, a) /\ Answers(o) /\ ~o.crash /\ o.made = 0 /\ o.freed = 0
        BY <1>3, <2>5 DEF Leaves
    <2>17. Paid(r, x, a, o, fails)
        <3>1. ArgumentBlocks(a) = ArgumentBlocks(q.arg[x]) /\ ArgumentBlocks(q.arg[x]) \in Nat
            BY <1>1, <2>13, ArgumentBlocksType DEF SameBlocks, ArgumentBlocks
        <3> QED
            BY <2>7, <2>16, <3>1 DEF Paid
    <2>18. ASSUME Tidy(q), fails \subseteq o.tried
           PROVE  Pays(q, o, fails)
        <3>1. \A k \in Kind : GroupBlocks(r.groups[k]) = GroupBlocks(q.groups[k])
            BY <2>6, <2>7
        <3>2. Tidy(r) /\ ParserBlocks(r) = ParserBlocks(q)
            BY <1>1, <2>7, <2>18, <2>70, <3>1, PartsSame DEF Regrouped
        <3>3. Usable(r, x)
            BY <2>7 DEF Usable
        <3>4. Pays(r, o, fails)
            BY <2>9, <2>12, <2>16, <2>17, <2>18, <3>2, <3>3, SettingPays
        <3>5. r.args = q.args /\ r.hasSubparsers = q.hasSubparsers
            BY <2>7, <2>70 DEF Regrouped, SameOwn
        <3> QED
            BY <3>2, <3>4, <3>5 DEF Pays
    <2> QED
        BY <2>131, <2>14, <2>15, <2>16, <2>18 DEF Keeps
<1>4. ASSUME Leaves(o, q, 0)
      PROVE  Keeps(q, o, fails)
    BY <1>4, NothingKeeps DEF Leaves
<1> HIDE DEF found, result0, o
<1> QED
    BY <1>2, <1>3, <1>4 DEF o

-----------------------------------------------------------------------------
(***************************************************************************)
(* A new argument.                                                         *)
(***************************************************************************)
\* The parser r has the arguments of q and, behind them, x.
Extends(q, r, x) ==
    /\ q.args \in Seq(ArgId) /\ x \in ArgId
    /\ r.args = Append(q.args, x)
    /\ Usable(r, x) /\ \A y \in ArgId : y # x => (Usable(r, y) <=> Usable(q, y))

\* An array that lists a set still does, and with x at its end lists x besides.
LEMMA ListsExtended ==
    ASSUME NEW q, NEW r, NEW x, NEW array \in Seq(ArgId), NEW S, Extends(q, r, x),
           Lists(q, array, S), S \subseteq ToSet(q.args), x \notin ToSet(array)
    PROVE  Lists(r, array, S) /\ Lists(r, Append(array, x), S \cup {x})
<1>1. /\ x \in ArgId /\ q.args \in Seq(ArgId) /\ r.args = Append(q.args, x)
    BY DEF Extends
<1>2. \A y, z : Before(q, y, z) => Before(r, y, z)
    BY <1>1, AppendEntries DEF Before
<1>3. \A y \in S : Before(r, y, x)
    <2> SUFFICES ASSUME NEW y \in S
                 PROVE  Before(r, y, x)
        OBVIOUS
    <2>1. PICK k \in DOMAIN q.args : q.args[k] = y
        BY DEF ToSet
    <2>2. /\ k \in DOMAIN r.args /\ r.args[k] = y
          /\ Len(q.args) + 1 \in DOMAIN r.args /\ r.args[Len(q.args) + 1] = x
          /\ k < Len(q.args) + 1
        BY <1>1, <2>1, AppendEntries
    <2> QED
        BY <2>2 DEF Before
<1>4. \A i \in DOMAIN array : array[i] \in ArgId /\ array[i] # x
    BY DEF ToSet
<1>5. S = {y \in ToSet(array) : Usable(r, y)} /\ x \notin S
    BY <1>4 DEF Lists, Extends, ToSet
<1>6. Lists(r, array, S)
    BY <1>2, <1>5 DEF Lists
<1>7. S \cup {x} = {y \in ToSet(Append(array, x)) : Usable(r, y)}
    <2>1. ToSet(Append(array, x)) = ToSet(array) \cup {x}
        BY <1>1, AppendEntries
    <2> QED
        BY <1>5, <2>1 DEF Extends
<1>8. ASSUME NEW i \in DOMAIN Append(array, x), NEW j \in DOMAIN Append(array, x), i < j,
             {Append(array, x)[i], Append(array, x)[j]} \subseteq S \cup {x}
      PROVE  Before(r, Append(array, x)[i], Append(array, x)[j])
    <2>1. i \in DOMAIN array /\ Append(array, x)[i] = array[i] /\ array[i] \in S
        <3>1. i \in DOMAIN array
            BY <1>1, <1>8, AppendEntries
        <3>2. Append(array, x)[i] = array[i]
            BY <1>1, <3>1, AppendEntries
        <3> QED
            BY <1>4, <1>8, <3>1, <3>2
    <2>2. CASE j = Len(array) + 1
        <3>1. Append(array, x)[j] = x
            BY <1>1, <2>2, AppendEntries
        <3> QED
            BY <1>3, <2>1, <3>1
    <2>3. CASE j # Len(array) + 1
        <3>1. j \in DOMAIN array
            BY <1>1, <2>3, AppendEntries
        <3>2. Append(array, x)[j] = array[j]
            BY <1>1, <3>1, AppendEntries
        <3>3. array[j] \in S
            BY <1>4, <1>8, <3>1, <3>2
        <3> QED
            BY <1>2, <1>8, <2>1, <3>1, <3>2, <3>3 DEF Lists
    <2> QED
        BY <2>2, <2>3
<1> QED
    BY <1>6, <1>7, <1>8 DEF Lists

\* The argument x is made, as a, and put behind the others; nothing is said of the indices.
Makes(q, r, x, a) ==
    /\ r \in Parser
    /\ r.arg = [q.arg EXCEPT ![x] = a] /\ r.args = Append(q.args, x)
    /\ r.groups = q.groups /\ r.next = q.next /\ r.types = q.types

\* A new argument is one the client can use, in no group and without dependencies.
Fresh(a) ==
    /\ a \in Argument /\ a.made /\ ~a.freed
    /\ a.group["mutex"] = NONE /\ a.group["display"] = NONE /\ a.deps = << >> /\ FlagsOf(a)

LEMMA MakesSafe ==
    ASSUME NEW q, NEW r, NEW x \in ArgId, NEW a, Safe(q), ~q.arg[x].made,
           Makes(q, r, x, a), Fresh(a)
    PROVE  Safe(r) /\ Extends(q, r, x) /\ \A y \in ArgId : r.arg[y] = IF y = x THEN a ELSE q.arg[y]
<1>1. q \in Parser /\ q.args \in Seq(ArgId) /\ q.arg \in [ArgId -> Argument]
    BY DEF Safe, Parser
<1>2. \A y \in ArgId : r.arg[y] = IF y = x THEN a ELSE q.arg[y]
    BY <1>1 DEF Makes
<1>3. Extends(q, r, x)
    BY <1>1, <1>2 DEF Extends, Makes, Fresh, Usable
<1>4. \A y \in ArgId : Len(r.arg[y].deps) <= MaxDependencies
    <2>1. Len(a.deps) <= MaxDependencies
        BY BuilderAssumption, EmptySeq DEF Fresh
    <2> QED
        BY <1>2, <2>1 DEF Safe
<1>5. \A y \in ArgId : FlagsOf(r.arg[y])
    BY <1>2 DEF Safe, Fresh
<1>6. GroupIds(r)
    BY DEF Makes, Safe, GroupIds
<1>7. ArgumentsOnce(r)
    <2>1. \A i \in DOMAIN q.args : q.args[i] \in ArgId /\ Usable(q, q.args[i]) /\ q.args[i] # x
        BY <1>1 DEF Safe, ArgumentsOnce, Usable
    <2>2. r.args = Append(q.args, x)
        BY DEF Makes
    <2>3. \A i \in DOMAIN r.args : Usable(r, r.args[i])
        BY <1>1, <1>3, <2>1, <2>2, AppendEntries DEF Extends
    <2>4. ASSUME NEW i \in DOMAIN r.args, NEW j \in DOMAIN r.args, r.args[i] = r.args[j]
          PROVE  i = j
        <3>1. CASE i \in DOMAIN q.args /\ j \in DOMAIN q.args
            <4>1. r.args[i] = q.args[i] /\ r.args[j] = q.args[j]
                BY <1>1, <2>2, <3>1, AppendEntries
            <4> QED
                BY <2>4, <3>1, <4>1 DEF Safe, ArgumentsOnce
        <3>2. CASE ~(i \in DOMAIN q.args /\ j \in DOMAIN q.args)
            <4>1. \A k \in DOMAIN r.args :
                     \/ k = Len(q.args) + 1 /\ r.args[k] = x
                     \/ k \in DOMAIN q.args /\ r.args[k] # x
                BY <1>1, <2>1, <2>2, AppendEntries
            <4> QED
                BY <2>4, <3>2, <4>1
        <3> QED
            BY <3>1, <3>2
    <2> QED
        BY <2>3, <2>4 DEF ArgumentsOnce
<1> QED
    BY <1>2, <1>3, <1>4, <1>5, <1>6, <1>7 DEF Safe, Makes

\* The new argument is indexed by its flag, at the end of one array.
LEMMA MakesWhole ==
    ASSUME NEW q, NEW r, NEW x \in ArgId, NEW a, Safe(q), Whole(q), ~q.arg[x].made,
           Makes(q, r, x, a), Fresh(a), a.choices = 0,
           \/ /\ "POSITIONAL" \in a.flags /\ "OPTIONAL" \notin a.flags
              /\ r.positionals = Append(q.positionals, x) /\ r.optionals = q.optionals
           \/ /\ "OPTIONAL" \in a.flags /\ "POSITIONAL" \notin a.flags
              /\ r.optionals = Append(q.optionals, x) /\ r.positionals = q.positionals
    PROVE  Whole(r)
<1>1. /\ q \in Parser /\ q.args \in Seq(ArgId)
      /\ q.positionals \in Seq(ArgId) /\ q.optionals \in Seq(ArgId)
    BY DEF Safe, Parser
<1>2. Extends(q, r, x) /\ \A y \in ArgId : r.arg[y] = IF y = x THEN a ELSE q.arg[y]
    BY MakesSafe
<1>3. NoNull(r)
    BY <1>2 DEF Whole, NoNull, Makes
<1>4. /\ x \notin ToSet(q.args)
      /\ \A i \in DOMAIN q.args : q.args[i] \in ArgId
    BY <1>1 DEF Safe, ArgumentsOnce, Usable, ToSet
<1>5. x \notin ToSet(q.positionals) /\ \A i \in DOMAIN q.positionals : q.positionals[i] \in ArgId
    BY <1>1 DEF Whole, Indices, ToSet
<1>6. x \notin ToSet(q.optionals)
    BY <1>4 DEF Whole, Indices, Flagged
<1>7. \A flag : Flagged(r, flag) = IF flag \in a.flags THEN Flagged(q, flag) \cup {x}
                                   ELSE Flagged(q, flag)
    <2>1. ToSet(r.args) = ToSet(q.args) \cup {x}
        BY <1>1, AppendEntries DEF Makes
    <2>2. \A y \in ToSet(q.args) : y \in ArgId /\ y # x
        BY <1>4 DEF ToSet
    <2> QED
        BY <1>2, <2>1, <2>2 DEF Flagged
<1>8. \A flag : Flagged(q, flag) \subseteq ToSet(q.args)
    BY DEF Flagged
<1>9. /\ Lists(r, q.optionals, Flagged(q, "OPTIONAL"))
      /\ Lists(r, Append(q.optionals, x), Flagged(q, "OPTIONAL") \cup {x})
    BY <1>1, <1>2, <1>6, <1>8, ListsExtended DEF Whole, Indices
<1>10. /\ Lists(r, q.positionals, Flagged(q, "POSITIONAL"))
       /\ Lists(r, Append(q.positionals, x), Flagged(q, "POSITIONAL") \cup {x})
    BY <1>1, <1>2, <1>5, <1>8, ListsExtended DEF Whole, Indices
<1>11. \A i \in DOMAIN r.positionals : r.arg[r.positionals[i]].made
    <2>1. \A i \in DOMAIN q.positionals : r.arg[q.positionals[i]].made
        BY <1>2, <1>5 DEF Whole, Indices, Fresh
    <2>2. r.arg[x].made
        BY <1>2 DEF Fresh
    <2>3. CASE r.positionals = q.positionals
        BY <2>1, <2>3
    <2>4. CASE r.positionals = Append(q.positionals, x)
        BY <1>1, <2>1, <2>2, <2>4, AppendEntries
    <2> QED
        BY <2>3, <2>4
<1>12. ToSet(r.optionals) = Flagged(r, "OPTIONAL")
    <2>1. ToSet(Append(q.optionals, x)) = ToSet(q.optionals) \cup {x}
        BY <1>1, AppendEntries
    <2> QED
        BY <1>7, <2>1 DEF Whole, Indices
<1> QED
    BY <1>3, <1>7, <1>9, <1>10, <1>11, <1>12 DEF Whole, Indices

\* It is in one array at most, in which it was not before, and in no display group.
LEMMA MakesShown ==
    ASSUME NEW q, NEW r, NEW x \in ArgId, NEW a, Safe(q), Shown(q), ~q.arg[x].made,
           Makes(q, r, x, a), Fresh(a),
           \/ r.positionals = Append(q.positionals, x) /\ r.optionals = q.optionals
           \/ r.optionals = Append(q.optionals, x) /\ r.positionals = q.positionals
           \/ r.optionals = q.optionals /\ r.positionals = q.positionals
    PROVE  Shown(r)
<1>1. /\ q \in Parser /\ q.positionals \in Seq(ArgId) /\ q.optionals \in Seq(ArgId)
      /\ \A y \in ToSet(q.positionals) \cup ToSet(q.optionals) : y \in ArgId /\ q.arg[y].made
    BY DEF Safe, Parser, ToSet, Shown, IndexedOnce
<1>2. \A y \in ArgId : r.arg[y] = IF y = x THEN a ELSE q.arg[y]
    BY <1>1 DEF Makes, Parser
<1>3. x \notin ToSet(q.positionals) /\ x \notin ToSet(q.optionals)
    BY <1>1
<1>4. Displayed(r)
    <2>1. r.groups = q.groups
        BY DEF Makes
    <2>2. \A y \in ArgId : InDisplayGroup(r, y) <=> InDisplayGroup(q, y)
        BY <2>1 DEF InDisplayGroup
    <2>3. ~InDisplayGroup(q, x) /\ a.group["display"] = NONE
        BY DEF Shown, Displayed, Fresh
    <2> QED
        BY <1>2, <2>2, <2>3 DEF Shown, Displayed
<1>5. /\ ToSet(Append(q.positionals, x)) = ToSet(q.positionals) \cup {x}
      /\ ToSet(Append(q.optionals, x)) = ToSet(q.optionals) \cup {x}
    BY <1>1, AppendEntries
<1>6. Once(Append(q.positionals, x)) /\ Once(Append(q.optionals, x))
    BY <1>1, <1>3, AppendedOnce DEF Shown, IndexedOnce
<1>7. x \in ArgId /\ r.arg[x].made
    BY <1>2 DEF Fresh
<1>8. \A y \in ToSet(q.positionals) \cup ToSet(q.optionals) : r.arg[y].made
    BY <1>1, <1>2, <1>7
<1>9. IndexedOnce(r)
    <2>1. Once(q.positionals) /\ Once(q.optionals)
          /\ ToSet(q.positionals) \cap ToSet(q.optionals) = {}
        BY DEF Shown, IndexedOnce
    <2>2. CASE r.positionals = Append(q.positionals, x) /\ r.optionals = q.optionals
        BY <1>3, <1>5, <1>6, <1>7, <1>8, <2>1, <2>2 DEF IndexedOnce
    <2>3. CASE r.optionals = Append(q.optionals, x) /\ r.positionals = q.positionals
        BY <1>3, <1>5, <1>6, <1>7, <1>8, <2>1, <2>3 DEF IndexedOnce
    <2>4. CASE r.optionals = q.optionals /\ r.positionals = q.positionals
        BY <1>8, <2>1, <2>4 DEF IndexedOnce
    <2> QED
        BY <2>2, <2>3, <2>4
<1> QED
    BY <1>4, <1>9 DEF Shown

LEMMA ParsedIsFresh ==
    ASSUME NEW spec \in Name, NEW fails
    PROVE  LET a == Parsed(spec, fails)
           IN  /\ Fresh(a) /\ a.choices = 0
               /\ ArgumentBlocks(a) = 2 + a.strings + Cardinality(a.texts)
               /\ a.texts = {"name", "dest", "type"} \ fails
               /\ spec.positional => "POSITIONAL" \in a.flags /\ "OPTIONAL" \notin a.flags
               /\ ~spec.positional => "OPTIONAL" \in a.flags /\ "POSITIONAL" \notin a.flags
<1> DEFINE flags == IF spec.positional THEN {"POSITIONAL", "REQUIRED"} ELSE {"OPTIONAL"}
           strings == IF spec.positional THEN One("option" \notin fails) ELSE spec.parts
           texts == {"name", "dest", "type"} \ fails
           groups == [k \in Kind |-> NONE]
           a == [flags |-> flags, nargs |-> 1, action |-> "STORE", group |-> groups,
                 texts |-> texts, strings |-> strings, choices |-> 0, choiceArray |-> FALSE,
                 deps |-> << >>, depArray |-> FALSE, made |-> TRUE, freed |-> FALSE]
<1>1. Parsed(spec, fails) = a
    <2> DEFINE n == [flags |-> {}, nargs |-> 1, action |-> "STORE", group |-> groups,
                     texts |-> {}, strings |-> 0, choices |-> 0, choiceArray |-> FALSE,
                     deps |-> << >>, depArray |-> FALSE, made |-> FALSE, freed |-> FALSE]
    <2>1. NoArgument = n
        BY DEF NoArgument
    <2>2. Parsed(spec, fails) = [n EXCEPT !.made = TRUE, !.flags = flags, !.strings = strings,
                                          !.texts = texts]
        BY <2>1 DEF Parsed
    <2> HIDE DEF flags, strings, texts, groups
    <2> QED
        BY <2>2
<1>2. /\ flags \in SUBSET Flag /\ strings \in Nat /\ texts \in SUBSET Owned
      /\ groups \in [Kind -> Int] /\ groups["mutex"] = NONE /\ groups["display"] = NONE
    BY DEF Flag, Owned, Name, One, NONE, Kind
<1>3. /\ "MULTIPLE" \notin flags
      /\ "POSITIONAL" \in flags => "REQUIRED" \in flags
      /\ spec.positional => "POSITIONAL" \in flags /\ "OPTIONAL" \notin flags
      /\ ~spec.positional => "OPTIONAL" \in flags /\ "POSITIONAL" \notin flags
    OBVIOUS
<1>4. ~Multiple(1) /\ ~Omittable(1)
    BY DEF Multiple, Omittable, ZERO_OR_ONE, ZERO_OR_MORE, ONE_OR_MORE, REMAINDER
<1>5. "STORE" \in Action
    BY BuilderAssumption
<1> HIDE DEF flags, strings, texts, groups
<1>6. << >> \in Seq([type : {"REQUIRES", "CONFLICTS"}, target : ArgId])
    OBVIOUS
<1>7. a \in Argument
    BY <1>2, <1>5, <1>6 DEF Argument
<1>8. FlagsOf(a)
    BY <1>3, <1>4 DEF FlagsOf
<1>9. ArgumentBlocks(a) = 2 + a.strings + Cardinality(a.texts)
    <2>1. a.strings \in Nat
        BY <1>2
    <2>2. Cardinality(a.texts) \in Nat
        <3>1. IsFiniteSet({"name"}) /\ {"name", "dest"} = {"name"} \cup {"dest"}
            BY FS_Singleton
        <3>2. IsFiniteSet({"name", "dest"}) /\ {"name", "dest", "type"} = {"name", "dest"} \cup {"type"}
            BY <3>1, FS_AddElement
        <3>3. IsFiniteSet({"name", "dest", "type"})
            BY <3>2, FS_AddElement
        <3>4. a.texts \subseteq {"name", "dest", "type"}
            BY DEF texts
        <3> QED
            BY <3>3, <3>4, FS_Subset, FS_CardinalityType
    <2>3. /\ One(a.depArray) = 0 /\ Len(a.deps) = 0 /\ a.choiceArray = FALSE
        BY EmptySeq DEF One
    <2> HIDE DEF a
    <2> QED
        BY <2>1, <2>2, <2>3 DEF ArgumentBlocks
<1> QED
    BY <1>1, <1>2, <1>3, <1>7, <1>8, <1>9 DEF Fresh, texts

\* An outcome is a record of six fields.
IsOutcome(o) == o = [p |-> o.p, ok |-> o.ok, tried |-> o.tried, made |-> o.made,
                     freed |-> o.freed, crash |-> o.crash]

\* A new argument is the last of the positionals, or of the options.
IndexedIn(q, r, x, spec) ==
    IF spec.positional
    THEN r.positionals = Append(q.positionals, x) /\ r.optionals = q.optionals
    ELSE r.optionals = Append(q.optionals, x) /\ r.positionals = q.positionals

\* Unless it could not be indexed.
IndexedUnless(q, r, x, spec, failed) ==
    \/ IndexedIn(q, r, x, spec)
    \/ failed /\ r.positionals = q.positionals /\ r.optionals = q.optionals

\* What the parser owns besides the argument is the same, up to an array for the index.
GrownOwn(q, r) ==
    /\ r.live = q.live /\ r.texts = q.texts /\ r.hasSubparsers = q.hasSubparsers
    /\ r.container = q.container /\ r.commands = q.commands
    /\ "commands" \in r.arrays => "commands" \in q.arrays

\* Such a parser, at the cost of so many blocks besides.
Grows(q, r, made, blocks) ==
    /\ GrownOwn(q, r)
    /\ \E n \in Nat : OwnBlocks(r) = OwnBlocks(q) + n /\ made = blocks + n

(***************************************************************************)
(* What clap_add_argument leaves: nothing new but room, though option      *)
(* strings may be lost for want of memory; or the argument, and it makes   *)
(* no block that the parser does not own.                                  *)
(***************************************************************************)
LEMMA AddedOutcomes ==
    ASSUME NEW q, NEW x \in ArgId, NEW spec \in Name, NEW fails, q \in Parser,
           NEW o \in Added(q, x, spec, fails)
    PROVE  /\ o.crash = FALSE /\ IsOutcome(o) /\ Answers(o) /\ o.freed = 0
           /\ \/ /\ o.ok = FALSE /\ Alike(q, o.p) /\ SameOwn(q, o.p)
                 /\ o.made \in Nat /\ (o.made # 0 => fails # {})
              \/ /\ o.ok = TRUE /\ Makes(q, o.p, x, Parsed(spec, fails))
                 /\ IndexedUnless(q, o.p, x, spec, fails # {})
                 /\ Grows(q, o.p, o.made, ArgumentBlocks(Parsed(spec, fails)))
<1> DEFINE full == Len(q.args) >= q.capacity
           grown == [q EXCEPT !.capacity = 2 * @]
           room == IF full THEN grown ELSE q
           a == Parsed(spec, fails)
           kept == [room EXCEPT !.arg[x] = a, !.args = Append(@, x)]
           new == IF "index" \in fails THEN kept ELSE Indexed(kept, x, spec)
           array == IF spec.positional THEN "positionals" ELSE "optionals"
           extra == IF "index" \in fails THEN 0 ELSE NewArray(q, array)
           owned == 2 + a.strings + Cardinality(a.texts)
<1>1. Alike(q, room) /\ SameOwn(q, room)
    <2>1. PICK c \in Nat : c = 2 * q.capacity
        BY DEF Parser
    <2>2. grown = [q EXCEPT !.capacity = c]
        BY <2>1
    <2> HIDE DEF grown
    <2>3. Alike(q, grown) /\ SameOwn(q, grown)
        BY <2>2 DEF Alike, Parser, SameOwn
    <2>4. Alike(q, q) /\ SameOwn(q, q)
        BY DEF Alike, SameOwn
    <2> QED
        BY <2>3, <2>4
<1>2. a \in Argument
    BY ParsedIsFresh DEF Fresh
<1>20. ArgumentBlocks(a) = owned /\ owned \in Nat
    <2>1. ArgumentBlocks(a) = owned /\ a.texts = {"name", "dest", "type"} \ fails
        BY ParsedIsFresh
    <2> HIDE DEF a
    <2>2. IsFiniteSet(a.texts)
        <3>1. IsFiniteSet({"name"}) /\ {"name", "dest"} = {"name"} \cup {"dest"}
            BY FS_Singleton
        <3>2. IsFiniteSet({"name", "dest"}) /\ {"name", "dest", "type"} = {"name", "dest"} \cup {"type"}
            BY <3>1, FS_AddElement
        <3>3. IsFiniteSet({"name", "dest", "type"})
            BY <3>2, FS_AddElement
        <3> QED
            BY <2>1, <3>3, FS_Subset
    <2>3. Cardinality(a.texts) \in Nat /\ a.strings \in Nat
        BY <1>2, <2>2, FS_CardinalityType DEF Argument
    <2> QED
        BY <2>1, <2>3
<1> HIDE DEF a, grown
<1>3. /\ Makes(q, kept, x, a) /\ kept.positionals = q.positionals /\ kept.optionals = q.optionals
      /\ SameOwn(q, kept)
    <2> HIDE DEF room
    <2>1. /\ [room.arg EXCEPT ![x] = a] \in [ArgId -> Argument]
          /\ Append(room.args, x) \in Seq(ArgId)
        BY <1>1, <1>2 DEF Alike, Parser
    <2> DEFINE arg == [room.arg EXCEPT ![x] = a]
               args == Append(room.args, x)
    <2>2. kept = [room EXCEPT !.arg = arg, !.args = args]
        BY <1>1 DEF Alike, Parser
    <2>3. arg = [q.arg EXCEPT ![x] = a] /\ args = Append(q.args, x)
        BY <1>1 DEF Alike
    <2> HIDE DEF arg, args, kept
    <2> QED
        BY <1>1, <2>1, <2>2, <2>3 DEF Alike, Parser, Makes, arg, args, SameOwn
<1>4. /\ Makes(q, new, x, a)
      /\ IndexedUnless(q, new, x, spec, fails # {})
      /\ Grows(q, new, owned + extra, owned)
    <2>0. owned \in Nat
        BY <1>20
    <2>1. CASE "index" \in fails
        <3>1. extra = 0 /\ OwnBlocks(kept) = OwnBlocks(q) /\ OwnBlocks(q) \in Nat
            BY <1>3, <2>1, PartsType DEF SameOwn, OwnBlocks
        <3>2. Grows(q, kept, owned + extra, owned)
            <4> HIDE DEF kept, extra, owned
            <4>1. OwnBlocks(kept) = OwnBlocks(q) + 0 /\ owned + extra = owned + 0 /\ 0 \in Nat
                BY <3>1
            <4>2. GrownOwn(q, kept)
                BY <1>3 DEF SameOwn, GrownOwn
            <4> QED
                BY <4>1, <4>2 DEF Grows
        <3> QED
            BY <1>3, <2>1, <3>2 DEF IndexedUnless
    <2>2. CASE "index" \notin fails /\ spec.positional
        <3> DEFINE b == ArrayOf(kept, "positionals")
        <3>1. Alike(kept, b)
            BY <1>3, ArrayOfAlike DEF Makes, Array
        <3>2. new = [b EXCEPT !.positionals = Append(@, x)]
            BY <2>2 DEF Indexed
        <3> HIDE DEF kept, b, new
        <3>3. Append(b.positionals, x) \in Seq(ArgId)
            BY <3>1 DEF Alike, Parser
        <3>4. /\ b.arrays = q.arrays \cup {"positionals"} /\ b.live = q.live /\ b.texts = q.texts
              /\ b.hasSubparsers = q.hasSubparsers /\ b.container = q.container
              /\ b.commands = q.commands
            BY <1>3 DEF SameOwn, ArrayOf, Parser, b, Makes
        <3>5. /\ new.arrays = q.arrays \cup {"positionals"} /\ new.live = q.live /\ new.texts = q.texts
              /\ new.hasSubparsers = q.hasSubparsers /\ new.container = q.container
              /\ new.commands = q.commands
            BY <3>1, <3>2, <3>4 DEF Alike, Parser
        <3>6. Grows(q, new, owned + extra, owned)
            <4>1. extra = NewArray(q, "positionals")
                BY <2>2
            <4>2. OwnBlocks(new) = OwnBlocks(q) + extra /\ extra \in Nat
                BY <3>5, <4>1, OwnOfArray
            <4>3. GrownOwn(q, new)
                BY <3>5 DEF GrownOwn
            <4> HIDE DEF extra, owned
            <4> QED
                BY <4>2, <4>3 DEF Grows
        <3> QED
            BY <1>3, <2>2, <3>1, <3>2, <3>3, <3>6
               DEF Alike, Parser, Makes, IndexedIn, IndexedUnless
    <2>3. CASE "index" \notin fails /\ ~spec.positional
        <3> DEFINE b == ArrayOf(kept, "optionals")
        <3>1. Alike(kept, b)
            BY <1>3, ArrayOfAlike DEF Makes, Array
        <3>2. new = [b EXCEPT !.optionals = Append(@, x)]
            BY <2>3 DEF Indexed
        <3> HIDE DEF kept, b, new
        <3>3. Append(b.optionals, x) \in Seq(ArgId)
            BY <3>1 DEF Alike, Parser
        <3>4. /\ b.arrays = q.arrays \cup {"optionals"} /\ b.live = q.live /\ b.texts = q.texts
              /\ b.hasSubparsers = q.hasSubparsers /\ b.container = q.container
              /\ b.commands = q.commands
            BY <1>3 DEF SameOwn, ArrayOf, Parser, b, Makes
        <3>5. /\ new.arrays = q.arrays \cup {"optionals"} /\ new.live = q.live /\ new.texts = q.texts
              /\ new.hasSubparsers = q.hasSubparsers /\ new.container = q.container
              /\ new.commands = q.commands
            BY <3>1, <3>2, <3>4 DEF Alike, Parser
        <3>6. Grows(q, new, owned + extra, owned)
            <4>1. extra = NewArray(q, "optionals")
                BY <2>3
            <4>2. OwnBlocks(new) = OwnBlocks(q) + extra /\ extra \in Nat
                BY <3>5, <4>1, OwnOfArray
            <4>3. GrownOwn(q, new)
                BY <3>5 DEF GrownOwn
            <4> HIDE DEF extra, owned
            <4> QED
                BY <4>2, <4>3 DEF Grows
        <3> QED
            BY <1>3, <2>3, <3>1, <3>2, <3>3, <3>6
               DEF Alike, Parser, Makes, IndexedIn, IndexedUnless
    <2> QED
        BY <2>1, <2>2, <2>3
<1>5. \/ o = [Outcome(q, FALSE) EXCEPT !.tried = {"room"}]
      \/ \E tried : o = [Outcome(room, FALSE) EXCEPT !.tried = tried]
      \/ \E tried : \E made \in Nat :
            o = [Outcome(room, FALSE) EXCEPT !.tried = tried, !.made = made] /\ fails # {}
      \/ \E tried : o = [Outcome(new, TRUE) EXCEPT !.tried = tried, !.made = owned + extra]
    <2> DEFINE tried == {"argument", "type"} \cup (IF full THEN {"room"} ELSE {})
               lost == {1 + i : i \in 0..(spec.parts - 1)}
               made == owned + extra
               tried1 == tried \ {"type"}
               tried2 == tried \cup {"strings"}
               tried3 == tried \cup {"strings", "option"}
               tried4 == tried \cup {"strings", "option", "name", "dest", "index"}
    <2>1. Added(q, x, spec, fails) =
          CASE full /\ "room" \in fails -> {[Outcome(q, FALSE) EXCEPT !.tried = {"room"}]}
            [] ~(full /\ "room" \in fails) /\ "argument" \in fails ->
                   {[Outcome(room, FALSE) EXCEPT !.tried = tried1]}
            [] fails \cap {"room", "argument"} = {} /\ spec.parts = 0 ->
                   {[Outcome(room, FALSE) EXCEPT !.tried = tried]}
            [] fails \cap {"room", "argument"} = {} /\ spec.parts > 0 /\ "strings" \in fails ->
                   {[Outcome(room, FALSE) EXCEPT !.tried = tried2]}
            [] fails \cap {"room", "argument", "strings"} = {} /\ spec.parts > 0
               /\ ~spec.positional /\ "option" \in fails ->
                   {[Outcome(room, FALSE) EXCEPT !.tried = tried3, !.made = n] : n \in lost}
            [] OTHER -> {[Outcome(new, TRUE) EXCEPT !.tried = tried4, !.made = made]}
        BY Zenon DEF Added, a, grown
    <2> HIDE DEF room, new, full, tried, tried1, tried2, tried3, tried4, lost, made
    <2>2. CASE full /\ "room" \in fails
        BY <2>1, <2>2
    <2>3. CASE ~(full /\ "room" \in fails) /\ "argument" \in fails
        BY <2>1, <2>3
    <2>4. CASE fails \cap {"room", "argument"} = {} /\ spec.parts = 0
        <3>1. ~(spec.parts > 0) /\ "room" \notin fails /\ "argument" \notin fails
            BY <2>4
        <3>2. Added(q, x, spec, fails) = {[Outcome(room, FALSE) EXCEPT !.tried = tried]}
            BY <2>1, <2>4, <3>1
        <3> QED
            BY <3>2
    <2>5. CASE fails \cap {"room", "argument"} = {} /\ spec.parts > 0 /\ "strings" \in fails
        <3>1. spec.parts # 0
            BY <2>5 DEF Name
        <3> QED
            <4>1. ~(full /\ "room" \in fails) /\ "argument" \notin fails
                BY <2>5
            <4>2. Added(q, x, spec, fails) = {[Outcome(room, FALSE) EXCEPT !.tried = tried2]}
                BY <2>1, <2>5, <3>1, <4>1
            <4> QED
                BY <4>2
    <2>6. CASE /\ fails \cap {"room", "argument", "strings"} = {} /\ spec.parts > 0
               /\ ~spec.positional /\ "option" \in fails
        <3>1. spec.parts # 0
            BY <2>6 DEF Name
        <3>2. fails \cap {"room", "argument"} = {} /\ "strings" \notin fails
            BY <2>6
        <3>3. Added(q, x, spec, fails)
              = {[Outcome(room, FALSE) EXCEPT !.tried = tried3, !.made = n] : n \in lost}
            BY <2>1, <2>6, <3>1, <3>2
        <3>4. PICK n \in lost : o = [Outcome(room, FALSE) EXCEPT !.tried = tried3, !.made = n]
            BY <3>3
        <3>5. n \in Nat /\ fails # {}
            BY <2>6 DEF lost, Name
        <3> QED
            BY <3>4, <3>5
    <2>7. CASE /\ ~(full /\ "room" \in fails) /\ ~(~(full /\ "room" \in fails) /\ "argument" \in fails)
               /\ ~(fails \cap {"room", "argument"} = {} /\ spec.parts = 0)
               /\ ~(fails \cap {"room", "argument"} = {} /\ spec.parts > 0 /\ "strings" \in fails)
               /\ ~(/\ fails \cap {"room", "argument", "strings"} = {} /\ spec.parts > 0
                    /\ ~spec.positional /\ "option" \in fails)
        BY <2>1, <2>7 DEF made
    <2> QED
        BY <2>2, <2>3, <2>4, <2>5, <2>6, <2>7
<1> HIDE DEF room, new, owned, extra
<1>6. \/ /\ o.ok = FALSE
         /\ \/ Leaves(o, q, 0)
            \/ Leaves(o, room, 0)
            \/ \E made \in Nat : Leaves(o, room, made) /\ fails # {}
      \/ o.ok = TRUE /\ Leaves(o, new, owned + extra)
    <2>1. CASE o = [Outcome(q, FALSE) EXCEPT !.tried = {"room"}]
        <3>1. Leaves(o, q, 0)
            BY <2>1, OutcomeIs, Zenon
        <3> QED
            BY <2>1, <3>1 DEF Outcome
    <2>2. ASSUME NEW tried, o = [Outcome(room, FALSE) EXCEPT !.tried = tried]
          PROVE  o.ok = FALSE /\ Leaves(o, room, 0)
        <3>1. Leaves(o, room, 0)
            BY <2>2, OutcomeIs, Zenon
        <3> QED
            BY <2>2, <3>1 DEF Outcome
    <2>3. ASSUME NEW tried, NEW made,
                 o = [Outcome(room, FALSE) EXCEPT !.tried = tried, !.made = made]
          PROVE  o.ok = FALSE /\ Leaves(o, room, made)
        <3>1. Leaves(o, room, made)
            BY <2>3, OutcomeIs, Zenon
        <3> QED
            BY <2>3, <3>1 DEF Outcome
    <2>4. ASSUME NEW tried, o = [Outcome(new, TRUE) EXCEPT !.tried = tried, !.made = owned + extra]
          PROVE  o.ok = TRUE /\ Leaves(o, new, owned + extra)
        <3>1. Leaves(o, new, owned + extra)
            BY <2>4, OutcomeIs, Zenon
        <3> QED
            BY <2>4, <3>1 DEF Outcome
    <2> QED
        BY <1>5, <2>1, <2>2, <2>3, <2>4
<1>7. IsOutcome(o)
    BY <1>5 DEF Outcome, IsOutcome
<1>8. Alike(q, q) /\ SameOwn(q, q)
    BY DEF Alike, SameOwn
<1>9. CASE /\ o.ok = FALSE
           /\ \/ Leaves(o, q, 0)
              \/ Leaves(o, room, 0)
              \/ \E made \in Nat : Leaves(o, room, made) /\ fails # {}
    <2>1. CASE Leaves(o, q, 0)
        BY <1>7, <1>8, <1>9, <2>1 DEF Leaves
    <2>2. CASE Leaves(o, room, 0)
        BY <1>1, <1>7, <1>9, <2>2 DEF Leaves
    <2>3. CASE \E made \in Nat : Leaves(o, room, made) /\ fails # {}
        BY <1>1, <1>7, <1>9, <2>3 DEF Leaves
    <2> QED
        BY <1>9, <2>1, <2>2, <2>3
<1>10. CASE o.ok = TRUE /\ Leaves(o, new, owned + extra)
    <2>2. o.p = new /\ o.made = owned + extra /\ Answers(o) /\ o.crash = FALSE /\ o.freed = 0
        BY <1>10 DEF Leaves
    <2>3. Grows(q, o.p, o.made, ArgumentBlocks(a))
        BY <1>4, <1>20, <2>2
    <2> QED
        BY <1>4, <1>7, <1>10, <2>2, <2>3 DEF a
<1> QED
    BY <1>6, <1>9, <1>10

\* The blocks of the parser grow by those of the argument and of the array.
LEMMA MakesBlocks ==
    ASSUME NEW q, NEW r, NEW x \in ArgId, NEW a, NEW made, Safe(q), Tidy(q), ~q.arg[x].made,
           Makes(q, r, x, a), Fresh(a), Grows(q, r, made, ArgumentBlocks(a))
    PROVE  /\ Tidy(r) /\ ParserBlocks(r) = ParserBlocks(q) + made
           /\ made \in Nat /\ ParserBlocks(q) \in Nat
<1>1. q \in Parser /\ r \in Parser /\ q.live /\ q.args \in Seq(ArgId)
    BY DEF Safe, Makes, Tidy, Parser
<1>2. Extends(q, r, x) /\ \A y \in ArgId : r.arg[y] = IF y = x THEN a ELSE q.arg[y]
    BY MakesSafe
<1>3. x \notin ToSet(q.args)
    BY <1>1 DEF Safe, ArgumentsOnce, Usable, ToSet
<1>4. ArgumentsBlocks(r) = ArgumentsBlocks(q) + ArgumentBlocks(a)
    <2>1. ArgumentsBlocks(r) = ArgumentsBlocks(q) + ArgumentBlocks(r.arg[x])
        BY <1>1, <1>2, <1>3, ArgumentsAppended DEF Makes
    <2> QED
        BY <1>2, <2>1
<1>5. PICK n \in Nat : OwnBlocks(r) = OwnBlocks(q) + n /\ made = ArgumentBlocks(a) + n
    BY DEF Grows
<1>6. /\ ArgumentBlocks(r.arg[x]) \in Nat
      /\ OwnBlocks(q) \in Nat /\ ArgumentsBlocks(q) \in Nat /\ TypeBlocks(q.types) \in Nat
      /\ GroupBlocks(q.groups["mutex"]) \in Nat /\ GroupBlocks(q.groups["display"]) \in Nat
    BY <1>1, ArgumentBlocksType, PartsType DEF Kind
<1>7. ArgumentBlocks(a) \in Nat
    BY <1>2, <1>6
<1>8. r.live /\ r.groups = q.groups /\ r.types = q.types
    BY <1>1 DEF Makes, Grows, GrownOwn
<1>9. ParserBlocks(r) = ParserBlocks(q) + made /\ made \in Nat /\ ParserBlocks(q) \in Nat
    <2>1. ParserBlocks(q) = OwnBlocks(q) + ArgumentsBlocks(q) + GroupBlocks(q.groups["mutex"])
                            + GroupBlocks(q.groups["display"]) + TypeBlocks(q.types)
        BY <1>1, PartsSum
    <2>2. ParserBlocks(r) = OwnBlocks(r) + ArgumentsBlocks(r) + GroupBlocks(q.groups["mutex"])
                            + GroupBlocks(q.groups["display"]) + TypeBlocks(q.types)
        BY <1>1, <1>8, PartsSum
    <2> QED
        BY <1>4, <1>5, <1>6, <1>7, <2>1, <2>2
<1>10. Tidy(r)
    <2>1. \A y \in ToSet(q.args) \cup {x} : y \in ToSet(r.args)
        <3>1. r.args = Append(q.args, x)
            BY DEF Makes
        <3> QED
            BY <1>1, <3>1, AppendEntries
    <2>2. \A y \in ArgId : Usable(r, y) => y \in ToSet(r.args)
        BY <1>2, <2>1 DEF Extends, Tidy
    <2> QED
        BY <1>8, <2>2 DEF Tidy, Grows, GrownOwn
<1> QED
    BY <1>9, <1>10

LEMMA AddedKeeps ==
    ASSUME NEW q, NEW x \in ArgId, NEW spec \in Name, NEW fails, Safe(q), ~q.arg[x].made,
           NEW o \in Added(q, x, spec, fails)
    PROVE  Keeps(q, o, fails) /\ (Tidy(q) => Pays(q, o, fails))
<1>1. q \in Parser
    BY DEF Safe
<1>2. o.crash = FALSE /\ ~o.crash /\ Answers(o) /\ o.freed = 0
    BY <1>1, AddedOutcomes
<1>3. ASSUME Alike(q, o.p), SameOwn(q, o.p), o.made \in Nat, o.made # 0 => fails # {}
      PROVE  Keeps(q, o, fails) /\ (Tidy(q) => Pays(q, o, fails))
    <2>1. Safe(o.p) /\ (Whole(q) => Whole(o.p)) /\ (Shown(q) => Shown(o.p))
        BY <1>3, AlikeKeeps
    <2>2. ASSUME Tidy(q)
          PROVE  Pays(q, o, fails)
        <3>1. /\ Tidy(o.p) /\ ParserBlocks(o.p) = ParserBlocks(q)
              /\ ParserBlocks(q) \in Nat /\ o.p.args = q.args
            BY <1>1, <1>3, <2>2, PartsSame DEF Alike
        <3> QED
            BY <1>2, <1>3, <3>1 DEF Pays
    <2> QED
        BY <1>2, <2>1, <2>2 DEF Keeps
<1>4. ASSUME Makes(q, o.p, x, Parsed(spec, fails)),
             IndexedUnless(q, o.p, x, spec, fails # {}),
             Grows(q, o.p, o.made, ArgumentBlocks(Parsed(spec, fails)))
      PROVE  Keeps(q, o, fails) /\ (Tidy(q) => Pays(q, o, fails))
    <2>0. Fresh(Parsed(spec, fails))
        BY ParsedIsFresh
    <2>1. Safe(o.p)
        BY <1>4, <2>0, MakesSafe
    <2>2. fails = {} /\ Whole(q) => Whole(o.p)
        BY <1>4, ParsedIsFresh, MakesWhole DEF IndexedIn, IndexedUnless
    <2>3. ASSUME Tidy(q)
          PROVE  Pays(q, o, fails)
        <3>1. /\ Tidy(o.p) /\ ParserBlocks(o.p) = ParserBlocks(q) + o.made
              /\ o.made \in Nat /\ ParserBlocks(q) \in Nat
            BY <1>4, <2>0, <2>3, MakesBlocks
        <3> QED
            BY <1>2, <3>1 DEF Pays
    <2>4. Shown(q) => Shown(o.p)
        <3>1. \/ o.p.positionals = Append(q.positionals, x) /\ o.p.optionals = q.optionals
              \/ o.p.optionals = Append(q.optionals, x) /\ o.p.positionals = q.positionals
              \/ o.p.optionals = q.optionals /\ o.p.positionals = q.positionals
            BY <1>4 DEF IndexedUnless, IndexedIn
        <3> QED
            BY <1>4, <2>0, <3>1, MakesShown
    <2> QED
        BY <1>2, <2>1, <2>2, <2>3, <2>4 DEF Keeps
<1> QED
    BY <1>1, <1>3, <1>4, AddedOutcomes

\* The help option is an argument like the others, with an action and a text.
LEMMA HelpAddedKeeps ==
    ASSUME NEW q, NEW x \in ArgId, NEW fails, Safe(q), ~q.arg[x].made,
           NEW h \in HelpAdded(q, x, fails)
    PROVE  Keeps(q, h, fails) /\ IsOutcome(h) /\ (Tidy(q) => Pays(q, h, fails))
<1>1. HelpName \in Name
    BY DEF HelpName, Name
<1>2. PICK o \in Added(q, x, HelpName, fails) :
          h = IF ~o.ok THEN o
              ELSE [o EXCEPT !.p.arg[x].action = "HELP",
                             !.p.arg[x].texts = @ \cup ({"help"} \ fails),
                             !.tried = @ \cup {"help"},
                             !.made = @ + One("help" \notin fails)]
    BY DEF HelpAdded
<1>3. /\ Keeps(q, o, fails) /\ o.crash = FALSE /\ Safe(o.p) /\ IsOutcome(o)
      /\ (Tidy(q) => Pays(q, o, fails)) /\ Answers(o) /\ o.freed = 0
    <2>1. q \in Parser
        BY DEF Safe
    <2> QED
        BY <1>1, <2>1, AddedKeeps, AddedOutcomes DEF Keeps
<1>4. CASE ~o.ok
    BY <1>2, <1>3, <1>4
<1>5. CASE o.ok
    <2> DEFINE r == o.p
               b == r.arg[x]
               texts == b.texts \cup ({"help"} \ fails)
               a == [b EXCEPT !.action = "HELP", !.texts = texts]
    <2>1. r \in Parser /\ b \in Argument /\ Setting(r, x, b)
        BY <1>3, ArgumentFields
    <2>2. /\ h.p = With(r, x, a) /\ h.crash = FALSE /\ IsOutcome(h) /\ h.freed = 0
          /\ h.made = o.made + One("help" \notin fails) /\ Answers(h)
        <3>1. PICK tried, made :
                  /\ h = [o EXCEPT !.p.arg[x].action = "HELP",
                                   !.p.arg[x].texts = @ \cup ({"help"} \ fails),
                                   !.tried = tried, !.made = made]
                  /\ made = o.made + One("help" \notin fails)
            BY <1>2, <1>5
        <3>2. [r EXCEPT !.arg[x].action = "HELP", !.arg[x].texts = @ \cup ({"help"} \ fails)]
              = With(r, x, a)
            BY <2>1 DEF With, Parser
        <3>3. /\ h.p = [r EXCEPT !.arg[x].action = "HELP",
                                 !.arg[x].texts = @ \cup ({"help"} \ fails)]
              /\ h.crash = o.crash /\ IsOutcome(h) /\ h.ok = o.ok
              /\ h.freed = o.freed /\ h.made = made
            BY <1>3, <3>1 DEF IsOutcome
        <3>4. Answers(h)
            BY <1>3, <3>3, Zenon DEF Answers
        <3> QED
            BY <1>3, <3>1, <3>2, <3>3, <3>4
    <2>3. a \in Argument
        BY <2>1, BuilderAssumption DEF Argument, Owned
    <2>4. Setting(r, x, a)
        BY <2>1, <2>3 DEF Setting, Sound, FlagsOf, Argument
    <2>5. SameButTexts(b, a) /\ a.texts = texts
        BY <2>1 DEF Argument, SameButTexts
    <2>6. Safe(With(r, x, a))
        BY <1>3, <2>4, SettingIsSafe DEF Setting
    <2>7. Whole(r) => Whole(With(r, x, a))
        BY <1>3, <2>4, <2>5, SettingIsWhole, ArgumentFields DEF Whole, SameButTexts, Setting
    <2>70. Shown(q) => Shown(With(r, x, a))
        <3> HIDE DEF a
        <3>1. PICK w : w = With(r, x, a)
            OBVIOUS
        <3>2. /\ w.positionals = r.positionals /\ w.optionals = r.optionals
              /\ w.groups = r.groups
              /\ \A y \in ArgId : w.arg[y] = IF y = x THEN a ELSE r.arg[y]
            BY <2>1, <2>3, <3>1, WithFields
        <3>3. a.made = r.arg[x].made /\ a.group["display"] = r.arg[x].group["display"]
            BY <2>4 DEF Setting, Sound
        <3>4. SameShown(r, w)
            BY <3>2, <3>3 DEF SameShown, InDisplayGroup
        <3>5. Shown(q) => Shown(r)
            BY <1>3 DEF Keeps
        <3> QED
            BY <2>1, <3>1, <3>4, <3>5, ShownStays
    <2>8. /\ b = Parsed(HelpName, fails) /\ Fresh(b) /\ Usable(r, x)
          /\ b.texts = {"name", "dest", "type"} \ fails
          /\ ArgumentBlocks(b) = 2 + b.strings + Cardinality(b.texts)
        <3>1. Makes(q, r, x, Parsed(HelpName, fails))
            <4>1. q \in Parser
                BY DEF Safe
            <4> QED
                BY <1>1, <1>5, <4>1, AddedOutcomes
        <3>2. /\ Fresh(Parsed(HelpName, fails))
              /\ LET c == Parsed(HelpName, fails)
                 IN  /\ ArgumentBlocks(c) = 2 + c.strings + Cardinality(c.texts)
                     /\ c.texts = {"name", "dest", "type"} \ fails
            BY <1>1, ParsedIsFresh
        <3>3. b = Parsed(HelpName, fails)
            <4>1. Fresh(Parsed(HelpName, fails))
                BY <3>2
            <4>2. \A y \in ArgId : r.arg[y] = IF y = x THEN Parsed(HelpName, fails) ELSE q.arg[y]
                BY <3>1, <4>1, MakesSafe
            <4> QED
                BY <4>2
        <3>4. Fresh(b)
            BY <3>2, <3>3
        <3>5. Usable(r, x)
            BY <3>4 DEF Fresh, Usable
        <3> QED
            BY <3>2, <3>3, <3>4, <3>5
    <2>9. /\ Cardinality(texts) = Cardinality(b.texts) + One("help" \notin fails)
          /\ Cardinality(b.texts) \in Nat /\ One("help" \notin fails) \in Nat
        <3>1. IsFiniteSet(b.texts) /\ Cardinality(b.texts) \in Nat
            BY <2>1, SmallSets
        <3>2. "help" \notin b.texts
            BY <2>8
        <3>3. CASE "help" \in fails
            <4>1. texts = b.texts /\ One("help" \notin fails) = 0
                BY <3>3 DEF One
            <4>2. Cardinality(texts) = Cardinality(b.texts)
                BY <4>1, Zenon
            <4> QED
                BY <3>1, <4>1, <4>2
        <3>4. CASE "help" \notin fails
            <4>1. texts = b.texts \cup {"help"} /\ One("help" \notin fails) = 1
                BY <3>4 DEF One
            <4>2. Cardinality(texts) = Cardinality(b.texts \cup {"help"})
                BY <4>1, Zenon
            <4>3. Cardinality(b.texts \cup {"help"}) = Cardinality(b.texts) + 1
                BY <3>1, <3>2, FS_AddElement
            <4> QED
                BY <3>1, <4>1, <4>2, <4>3
        <3> QED
            BY <3>3, <3>4
    <2> HIDE DEF a, b, texts
    <2>10. ASSUME Tidy(q)
           PROVE  Pays(q, h, fails)
        <3>1. Pays(q, o, fails) /\ Tidy(r)
            BY <1>3, <2>10 DEF Pays
        <3>2. PICK e : e = One("help" \notin fails) /\ e \in Nat
            BY <2>9
        <3>3. ParserBlocks(h.p) = ParserBlocks(r) + e /\ ParserBlocks(r) \in Nat
            <4>1. /\ Tidy(h.p)
                  /\ ParserBlocks(h.p) = ParserBlocks(r) + ArgumentBlocks(a) - ArgumentBlocks(b)
                  /\ ParserBlocks(r) \in Nat /\ ArgumentBlocks(a) \in Nat /\ ArgumentBlocks(b) \in Nat
                BY <1>3, <2>2, <2>4, <2>8, <3>1, SettingBlocks DEF b, Setting
            <4>2. ArgumentBlocks(a) = ArgumentBlocks(b) + e
                <5>1. b.strings \in Nat
                    BY <2>1 DEF Argument
                <5>2. PICK c, d, m : /\ d = One(b.depArray) /\ m = 2 * Len(b.deps)
                                     /\ c = IF b.choiceArray THEN 1 + b.choices ELSE 0
                    OBVIOUS
                <5>3. c \in Nat /\ d \in Nat /\ m \in Nat
                    <6>1. Len(b.deps) \in Nat
                        BY <2>1, LenProperties DEF Argument
                    <6>2. b.choices \in Nat /\ b.choiceArray \in BOOLEAN
                        BY <2>1 DEF Argument
                    <6> QED
                        BY <5>2, <6>1, <6>2 DEF One
                <5>4. /\ ArgumentBlocks(b) = 2 + b.strings + Cardinality(b.texts) + c + d + m
                      /\ ArgumentBlocks(a) = 2 + b.strings + Cardinality(texts) + c + d + m
                    BY <2>5, <5>2 DEF ArgumentBlocks, SameButTexts
                <5>5. Cardinality(texts) = Cardinality(b.texts) + e /\ Cardinality(b.texts) \in Nat
                    BY <2>9, <3>2
                <5> QED
                    BY <3>2, <5>1, <5>3, <5>4, <5>5
            <4> QED
                BY <3>2, <4>1, <4>2
        <3>4. Tidy(h.p)
            BY <1>3, <2>2, <2>4, <2>8, <3>1, SettingBlocks DEF Setting
        <3>5. h.p.args = r.args /\ h.p.hasSubparsers = r.hasSubparsers /\ h.p.commands = r.commands
            BY <2>1, <2>2, <2>3, WithFields DEF SameOwn
        <3>6. h.made = o.made + e /\ o.made \in Nat /\ h.made \in Nat /\ o.freed = 0 /\ h.freed = 0
            BY <1>3, <2>2, <3>1, <3>2 DEF Pays
        <3>7. ParserBlocks(q) \in Nat
            <4>1. q \in Parser /\ q.live
                BY <2>10 DEF Safe, Tidy
            <4>2. SameOwn(q, q)
                BY DEF SameOwn
            <4> QED
                BY <2>10, <4>1, <4>2, PartsSame
        <3>8. ParserBlocks(r) <= ParserBlocks(q) + o.made - o.freed
            BY <3>1 DEF Pays
        <3>9. ParserBlocks(r) # ParserBlocks(q) + o.made - o.freed =>
                \/ fails # {} /\ r.args = q.args
                \/ q.hasSubparsers /\ r.hasSubparsers /\ r.commands = 0
            BY <3>1 DEF Pays
        <3>10. ParserBlocks(h.p) <= ParserBlocks(q) + h.made - h.freed
            BY <3>2, <3>3, <3>6, <3>7, <3>8
        <3>11. ParserBlocks(h.p) # ParserBlocks(q) + h.made - h.freed =>
                   ParserBlocks(r) # ParserBlocks(q) + o.made - o.freed
            BY <3>2, <3>3, <3>6, <3>7
        <3> QED
            BY <2>2, <3>4, <3>5, <3>6, <3>9, <3>10, <3>11 DEF Pays
    <2> QED
        BY <1>3, <2>2, <2>6, <2>7, <2>70, <2>10 DEF Keeps
<1> QED
    BY <1>4, <1>5

-----------------------------------------------------------------------------
(***************************************************************************)
(* An argument that is taken out and released.                             *)
(***************************************************************************)
\* Where an entry was before the one at place k was removed, and where it went.
Shift(k, i) == IF i < k THEN i ELSE i + 1
Unshift(k, j) == IF j < k THEN j ELSE j - 1

LEMMA RemoveAtShifts ==
    ASSUME NEW S, NEW s \in Seq(S), NEW k \in DOMAIN s, NEW r, r = RemoveAt(s, k)
    PROVE  /\ r \in Seq(S)
           /\ \A i \in DOMAIN r : /\ Shift(k, i) \in DOMAIN s /\ Shift(k, i) # k
                                  /\ r[i] = s[Shift(k, i)]
           /\ \A i, j \in DOMAIN r : i < j => Shift(k, i) < Shift(k, j)
           /\ \A i, j \in DOMAIN r : Shift(k, i) = Shift(k, j) => i = j
           /\ \A j \in DOMAIN s : j # k => /\ Unshift(k, j) \in DOMAIN r
                                           /\ r[Unshift(k, j)] = s[j]
           /\ \A i, j \in DOMAIN s : i # k /\ j # k /\ i < j => Unshift(k, i) < Unshift(k, j)
<1>1. /\ r \in Seq(S) /\ Len(r) = Len(s) - 1
      /\ \A i \in 1..(Len(s) - 1) : r[i] = s[IF i < k THEN i ELSE i + 1]
    BY RemoveAtEntries
<1>2. /\ Len(s) \in Nat /\ DOMAIN s = 1..Len(s) /\ k \in 1..Len(s)
      /\ DOMAIN r = 1..(Len(s) - 1)
    <2>1. DOMAIN r = 1..Len(r) /\ DOMAIN s = 1..Len(s) /\ Len(s) \in Nat
        BY <1>1, LenProperties
    <2> QED
        BY <1>1, <2>1
<1>3. \A i \in DOMAIN r : /\ Shift(k, i) \in DOMAIN s /\ Shift(k, i) # k
                          /\ r[i] = s[Shift(k, i)]
    BY <1>1, <1>2 DEF Shift
<1>4. \A i, j \in DOMAIN r : i < j => Shift(k, i) < Shift(k, j)
    BY <1>2 DEF Shift
<1>5. \A i, j \in DOMAIN r : Shift(k, i) = Shift(k, j) => i = j
    BY <1>2 DEF Shift
<1>6. \A j \in DOMAIN s : j # k => Unshift(k, j) \in DOMAIN r /\ Shift(k, Unshift(k, j)) = j
    BY <1>2 DEF Shift, Unshift
<1>7. \A i, j \in DOMAIN s : i # k /\ j # k /\ i < j => Unshift(k, i) < Unshift(k, j)
    BY <1>2 DEF Unshift
<1> QED
    BY <1>1, <1>3, <1>4, <1>5, <1>6, <1>7

\* The argument at one place of parser->arguments goes, and is released.
Removes(q, r, k) ==
    LET x == q.args[k]
    IN  /\ k \in DOMAIN q.args
        /\ r \in Parser
        /\ r.arg = [q.arg EXCEPT ![x] = [q.arg[x] EXCEPT !.freed = TRUE]]
        /\ r.args = RemoveAt(q.args, k) /\ r.optionals = RemoveFirst(q.optionals, x)
        /\ r.positionals = q.positionals
        /\ r.groups = q.groups /\ r.next = q.next /\ r.types = q.types

LEMMA RemovesFields ==
    ASSUME NEW q, NEW r, NEW k, Safe(q), Removes(q, r, k)
    PROVE  LET x == q.args[k]
           IN  /\ q \in Parser /\ q.args \in Seq(ArgId) /\ x \in ArgId
               /\ \A y \in ArgId :
                     r.arg[y] = IF y = x THEN [q.arg[y] EXCEPT !.freed = TRUE] ELSE q.arg[y]
               /\ \A y \in ArgId : Usable(r, y) <=> Usable(q, y) /\ y # x
               /\ \A i \in DOMAIN q.args : q.args[i] = x => i = k
<1> DEFINE x == q.args[k]
<1>1. q \in Parser /\ q.args \in Seq(ArgId) /\ x \in ArgId /\ q.arg \in [ArgId -> Argument]
    BY DEF Safe, Parser, Removes
<1>2. \A y \in ArgId : r.arg[y] = IF y = x THEN [q.arg[y] EXCEPT !.freed = TRUE] ELSE q.arg[y]
    BY <1>1 DEF Removes
<1>3. \A y \in ArgId : r.arg[y].made = q.arg[y].made
    BY <1>1, <1>2 DEF Argument
<1>4. \A y \in ArgId : r.arg[y].freed <=> (y = x \/ q.arg[y].freed)
    BY <1>1, <1>2 DEF Argument
<1>5. \A i \in DOMAIN q.args : q.args[i] = x => i = k
    BY DEF Safe, ArgumentsOnce, Removes
<1> QED
    BY <1>1, <1>2, <1>3, <1>4, <1>5 DEF Usable

LEMMA RemovesSafe ==
    ASSUME NEW q, NEW r, NEW k, Safe(q), Removes(q, r, k)
    PROVE  Safe(r)
<1> DEFINE x == q.args[k]
<1>1. /\ q \in Parser /\ q.args \in Seq(ArgId) /\ x \in ArgId
      /\ \A y \in ArgId :
            r.arg[y] = IF y = x THEN [q.arg[y] EXCEPT !.freed = TRUE] ELSE q.arg[y]
      /\ \A y \in ArgId : Usable(r, y) <=> Usable(q, y) /\ y # x
      /\ \A i \in DOMAIN q.args : q.args[i] = x => i = k
    BY RemovesFields
<1>2. /\ k \in DOMAIN q.args /\ r.args = RemoveAt(q.args, k)
      /\ r \in Parser /\ r.groups = q.groups /\ r.next = q.next
    BY DEF Removes
<1>3. \A y \in ArgId : q.arg[y] \in Argument
    BY <1>1 DEF Parser
<1>4. \A y \in ArgId : /\ r.arg[y].deps = q.arg[y].deps /\ r.arg[y].flags = q.arg[y].flags
                       /\ r.arg[y].nargs = q.arg[y].nargs /\ r.arg[y].group = q.arg[y].group
    BY <1>1, <1>3 DEF Argument
<1>5. \A i \in DOMAIN r.args : /\ Shift(k, i) \in DOMAIN q.args /\ Shift(k, i) # k
                               /\ r.args[i] = q.args[Shift(k, i)]
    BY <1>1, <1>2, RemoveAtShifts
<1>6. \A i, j \in DOMAIN r.args : Shift(k, i) = Shift(k, j) => i = j
    BY <1>1, <1>2, RemoveAtShifts
<1>7. ArgumentsOnce(r)
    <2>1. \A i, j \in DOMAIN r.args : r.args[i] = r.args[j] => i = j
        BY <1>5, <1>6 DEF Safe, ArgumentsOnce
    <2>2. \A i \in DOMAIN r.args : r.args[i] \in ArgId
        BY <1>1, <1>5
    <2>3. \A i \in DOMAIN r.args : Usable(r, r.args[i])
        BY <1>1, <1>5, <2>2 DEF Safe, ArgumentsOnce
    <2> QED
        BY <2>1, <2>3 DEF ArgumentsOnce
<1>8. \A y \in ArgId : Len(r.arg[y].deps) <= MaxDependencies /\ FlagsOf(r.arg[y])
    BY <1>4 DEF Safe, FlagsOf
<1>9. GroupIds(r)
    BY <1>2, <1>4 DEF Safe, GroupIds
<1> QED
    BY <1>2, <1>7, <1>8, <1>9 DEF Safe

LEMMA RemovesWhole ==
    ASSUME NEW q, NEW r, NEW k, Safe(q), Whole(q), Removes(q, r, k)
    PROVE  Whole(r)
<1> DEFINE x == q.args[k]
<1>1. /\ q \in Parser /\ q.args \in Seq(ArgId) /\ x \in ArgId
      /\ \A y \in ArgId :
            r.arg[y] = IF y = x THEN [q.arg[y] EXCEPT !.freed = TRUE] ELSE q.arg[y]
      /\ \A y \in ArgId : Usable(r, y) <=> Usable(q, y) /\ y # x
      /\ \A i \in DOMAIN q.args : q.args[i] = x => i = k
    BY RemovesFields
<1>2. /\ k \in DOMAIN q.args /\ r.args = RemoveAt(q.args, k)
      /\ r.optionals = RemoveFirst(q.optionals, x) /\ r.positionals = q.positionals
      /\ r.types = q.types
    BY DEF Removes
<1>3. \A y \in ArgId : q.arg[y] \in Argument
    BY <1>1 DEF Parser
<1>4. \A y \in ArgId : /\ r.arg[y].choices = q.arg[y].choices
                       /\ r.arg[y].choiceArray = q.arg[y].choiceArray
                       /\ r.arg[y].flags = q.arg[y].flags
                       /\ r.arg[y].made = q.arg[y].made
    BY <1>1, <1>3 DEF Argument
<1>5. q.optionals \in Seq(ArgId) /\ q.positionals \in Seq(ArgId)
    BY <1>1 DEF Parser
<1>6. NoNull(r)
    BY <1>2, <1>4 DEF Whole, NoNull
<1>7. \A flag : Flagged(r, flag) = Flagged(q, flag) \ {x}
    <2>1. ToSet(r.args) = ToSet(q.args) \ {x}
        <3>1. ASSUME NEW y \in ToSet(r.args)
              PROVE  y \in ToSet(q.args) \ {x}
            <4>1. PICK i \in DOMAIN r.args : r.args[i] = y
                BY DEF ToSet
            <4>2. /\ Shift(k, i) \in DOMAIN q.args /\ Shift(k, i) # k
                  /\ r.args[i] = q.args[Shift(k, i)]
                BY <1>1, <1>2, RemoveAtShifts
            <4> QED
                BY <1>1, <4>1, <4>2 DEF ToSet
        <3>2. ASSUME NEW y \in ToSet(q.args), y # x
              PROVE  y \in ToSet(r.args)
            <4>1. PICK j \in DOMAIN q.args : q.args[j] = y
                BY DEF ToSet
            <4>2. Unshift(k, j) \in DOMAIN r.args /\ r.args[Unshift(k, j)] = q.args[j]
                BY <1>1, <1>2, <3>2, <4>1, RemoveAtShifts
            <4> QED
                BY <4>1, <4>2 DEF ToSet
        <3> QED
            BY <3>1, <3>2
    <2>2. \A y \in ToSet(q.args) : y \in ArgId
        BY <1>1 DEF ToSet
    <2> QED
        BY <1>4, <2>1, <2>2 DEF Flagged
<1>8. ASSUME NEW y, NEW z, y # x, z # x, Before(q, y, z)
      PROVE  Before(r, y, z)
    <2>1. PICK i \in DOMAIN q.args, j \in DOMAIN q.args :
              i < j /\ q.args[i] = y /\ q.args[j] = z
        BY <1>8 DEF Before
    <2>2. /\ Unshift(k, i) \in DOMAIN r.args /\ r.args[Unshift(k, i)] = y
          /\ Unshift(k, j) \in DOMAIN r.args /\ r.args[Unshift(k, j)] = z
          /\ Unshift(k, i) < Unshift(k, j)
        <3>1. i # k /\ j # k
            BY <1>8, <2>1
        <3>2. /\ \A n \in DOMAIN q.args : n # k => /\ Unshift(k, n) \in DOMAIN r.args
                                                 /\ r.args[Unshift(k, n)] = q.args[n]
              /\ \A n, l \in DOMAIN q.args :
                    n # k /\ l # k /\ n < l => Unshift(k, n) < Unshift(k, l)
            <4>1. q.args \in Seq(ArgId) /\ k \in DOMAIN q.args /\ r.args = RemoveAt(q.args, k)
                BY <1>1, <1>2
            <4>2. PICK s \in Seq(ArgId) : s = q.args
                BY <4>1
            <4>3. PICK t : t = r.args
                OBVIOUS
            <4>4. k \in DOMAIN s /\ t = RemoveAt(s, k)
                BY <4>1, <4>2, <4>3
            <4>5. /\ \A n \in DOMAIN s : n # k => Unshift(k, n) \in DOMAIN t /\ t[Unshift(k, n)] = s[n]
                  /\ \A n, l \in DOMAIN s :
                        n # k /\ l # k /\ n < l => Unshift(k, n) < Unshift(k, l)
                BY <4>4, RemoveAtShifts
            <4> QED
                BY <4>2, <4>3, <4>5
        <3> QED
            BY <2>1, <3>1, <3>2
    <2> QED
        BY <2>2 DEF Before
<1>9. ASSUME NEW array \in Seq(ArgId), NEW S, Lists(q, array, S)
      PROVE  Lists(r, array, S \ {x})
    <2>1. \A y \in ToSet(array) : y \in ArgId
        BY DEF ToSet
    <2>2. S \ {x} = {y \in ToSet(array) : Usable(r, y)}
        BY <1>1, <1>9, <2>1 DEF Lists
    <2>3. ASSUME NEW i \in DOMAIN array, NEW j \in DOMAIN array, i < j,
                 {array[i], array[j]} \subseteq S \ {x}
          PROVE  Before(r, array[i], array[j])
        BY <1>8, <1>9, <2>3 DEF Lists
    <2> QED
        BY <2>2, <2>3 DEF Lists
<1>10. /\ Lists(r, r.optionals, Flagged(r, "OPTIONAL"))
       /\ ToSet(r.optionals) = Flagged(r, "OPTIONAL")
    <2> DEFINE S == Flagged(q, "OPTIONAL")
               s == q.optionals
    <2>1. Lists(q, s, S) /\ ToSet(s) = S
        BY DEF Whole, Indices
    <2>2. CASE x \notin ToSet(s)
        <3>1. r.optionals = s
            BY <1>2, <1>5, <2>2, RemoveFirstPlace
        <3> QED
            BY <1>5, <1>7, <1>9, <2>1, <2>2, <3>1
    <2>3. CASE x \in ToSet(s)
        <3>1. PICK c \in DOMAIN s : s[c] = x /\ r.optionals = RemoveAt(s, c)
            BY <1>2, <1>5, <2>3, RemoveFirstPlace
        <3>2. \A i \in DOMAIN s : s[i] = x => i = c
            <4> SUFFICES ASSUME NEW i \in DOMAIN s, s[i] = x, i # c
                         PROVE  FALSE
                OBVIOUS
            <4>1. Before(q, x, x)
                <5>1. x \in S
                    BY <2>1, <2>3
                <5>2. i \in Nat /\ c \in Nat
                    BY <1>5
                <5>3. i < c \/ c < i
                    BY <5>2
                <5> QED
                    BY <2>1, <3>1, <5>1, <5>3 DEF Lists
            <4> QED
                BY <1>1, <4>1 DEF Before
        <3>3. /\ \A i \in DOMAIN r.optionals :
                    /\ Shift(c, i) \in DOMAIN s /\ Shift(c, i) # c
                    /\ r.optionals[i] = s[Shift(c, i)]
              /\ \A i, j \in DOMAIN r.optionals : i < j => Shift(c, i) < Shift(c, j)
              /\ \A j \in DOMAIN s : j # c => /\ Unshift(c, j) \in DOMAIN r.optionals
                                              /\ r.optionals[Unshift(c, j)] = s[j]
            BY <1>5, <3>1, RemoveAtShifts
        <3>4. ToSet(r.optionals) = S \ {x}
            <4>1. \A i \in DOMAIN r.optionals : r.optionals[i] \in S \ {x}
                BY <2>1, <3>2, <3>3 DEF ToSet
            <4>2. ASSUME NEW y \in S \ {x}
                  PROVE  y \in ToSet(r.optionals)
                <5>1. PICK j \in DOMAIN s : s[j] = y
                    BY <2>1 DEF ToSet
                <5> QED
                    BY <3>1, <3>3, <5>1 DEF ToSet
            <4> QED
                BY <4>1, <4>2 DEF ToSet
        <3>5. Lists(r, s, S \ {x})
            BY <1>5, <1>9, <2>1
        <3>6. Lists(r, r.optionals, S \ {x})
            <4>1. S \ {x} = {y \in ToSet(r.optionals) : Usable(r, y)}
                BY <3>4, <3>5 DEF Lists
            <4>2. ASSUME NEW i \in DOMAIN r.optionals, NEW j \in DOMAIN r.optionals, i < j,
                         {r.optionals[i], r.optionals[j]} \subseteq S \ {x}
                  PROVE  Before(r, r.optionals[i], r.optionals[j])
                BY <3>3, <3>5, <4>2 DEF Lists
            <4> QED
                BY <4>1, <4>2 DEF Lists
        <3> QED
            BY <1>7, <3>4, <3>6
    <2> QED
        BY <2>2, <2>3
<1>11. Lists(r, r.positionals, Flagged(r, "POSITIONAL"))
    BY <1>2, <1>5, <1>7, <1>9 DEF Whole, Indices
<1>12. \A i \in DOMAIN r.positionals : r.arg[r.positionals[i]].made
    BY <1>2, <1>4, <1>5 DEF Whole, Indices
<1> QED
    BY <1>6, <1>10, <1>11, <1>12 DEF Whole, Indices

\* It leaves one array, and the groups as they are.
LEMMA RemovesShown ==
    ASSUME NEW q, NEW r, NEW k, Safe(q), Shown(q), Removes(q, r, k)
    PROVE  Shown(r)
<1> DEFINE x == q.args[k]
<1>1. /\ q \in Parser /\ x \in ArgId
      /\ \A y \in ArgId :
            r.arg[y] = IF y = x THEN [q.arg[y] EXCEPT !.freed = TRUE] ELSE q.arg[y]
    BY RemovesFields
<1>2. /\ r.optionals = RemoveFirst(q.optionals, x) /\ r.positionals = q.positionals
      /\ r.groups = q.groups
    BY DEF Removes
<1>3. \A y \in ArgId : r.arg[y].made = q.arg[y].made /\ r.arg[y].group = q.arg[y].group
    BY <1>1 DEF Parser, Argument
<1>4. Displayed(r)
    <2>1. \A y \in ArgId : InDisplayGroup(r, y) <=> InDisplayGroup(q, y)
        BY <1>2 DEF InDisplayGroup
    <2> QED
        BY <1>3, <2>1 DEF Shown, Displayed
<1>5. q.optionals \in Seq(ArgId) /\ Once(q.optionals)
    BY <1>1 DEF Parser, Shown, IndexedOnce
<1>6. Once(r.optionals) /\ ToSet(r.optionals) \subseteq ToSet(q.optionals)
    <2>1. CASE r.optionals = q.optionals
        BY <1>5, <2>1
    <2>2. ASSUME NEW i \in DOMAIN q.optionals, r.optionals = RemoveAt(q.optionals, i)
          PROVE  Once(r.optionals) /\ ToSet(r.optionals) \subseteq ToSet(q.optionals)
        <3>1. PICK s, t : s = q.optionals /\ t = r.optionals
            OBVIOUS
        <3>2. s \in Seq(ArgId) /\ i \in DOMAIN s /\ t = RemoveAt(s, i) /\ Once(s)
            BY <1>5, <2>2, <3>1
        <3>3. /\ \A m \in DOMAIN t : Shift(i, m) \in DOMAIN s /\ t[m] = s[Shift(i, m)]
              /\ \A m, n \in DOMAIN t : Shift(i, m) = Shift(i, n) => m = n
            BY <3>2, RemoveAtShifts
        <3>4. Once(t)
            BY <3>2, <3>3 DEF Once
        <3>5. ToSet(t) \subseteq ToSet(s)
            BY <3>3 DEF ToSet
        <3> QED
            BY <3>1, <3>4, <3>5
    <2> QED
        BY <1>2, <1>5, <2>1, <2>2, RemoveFirstPlace
<1>7. \A y \in ToSet(q.positionals) \cup ToSet(q.optionals) : y \in ArgId
    BY <1>1 DEF Parser, ToSet
<1>8. IndexedOnce(r)
    BY <1>2, <1>3, <1>6, <1>7 DEF Shown, IndexedOnce
<1> QED
    BY <1>4, <1>8 DEF Shown

\* The blocks of the parser are fewer by those of the argument.
LEMMA RemovesBlocks ==
    ASSUME NEW q, NEW r, NEW k, Safe(q), Tidy(q), Removes(q, r, k), SameOwn(q, r)
    PROVE  /\ Tidy(r) /\ ParserBlocks(r) = ParserBlocks(q) - ArgumentBlocks(q.arg[q.args[k]])
           /\ ParserBlocks(r) \in Nat /\ ArgumentBlocks(q.arg[q.args[k]]) \in Nat
<1> DEFINE x == q.args[k]
<1>1. /\ q \in Parser /\ q.args \in Seq(ArgId) /\ x \in ArgId /\ ArgumentsOnce(q)
      /\ \A y \in ArgId :
            r.arg[y] = IF y = x THEN [q.arg[y] EXCEPT !.freed = TRUE] ELSE q.arg[y]
      /\ \A y \in ArgId : Usable(r, y) <=> Usable(q, y) /\ y # x
    BY RemovesFields DEF Safe
<1>2. /\ k \in DOMAIN q.args /\ r.args = RemoveAt(q.args, k)
      /\ r \in Parser /\ r.groups = q.groups /\ r.types = q.types
    BY DEF Removes
<1>3. \A j \in DOMAIN q.args : j # k => \E i \in DOMAIN r.args : r.args[i] = q.args[j]
    BY <1>1, <1>2, RemoveAtShifts
<1>4. q.live /\ r.live /\ Tidy(r)
    <2>1. \A y \in ArgId : Usable(r, y) => y \in ToSet(r.args)
        <3> SUFFICES ASSUME NEW y \in ArgId, Usable(r, y)
                     PROVE  y \in ToSet(r.args)
            OBVIOUS
        <3>1. y \in ToSet(q.args) /\ y # x
            BY <1>1 DEF Tidy
        <3>2. PICK j \in DOMAIN q.args : q.args[j] = y
            BY <3>1 DEF ToSet
        <3>3. j # k
            BY <3>1, <3>2
        <3>4. PICK i \in DOMAIN r.args : r.args[i] = y
            BY <1>3, <3>2, <3>3
        <3> QED
            BY <3>4 DEF ToSet
    <2> QED
        BY <2>1 DEF Tidy, SameOwn
<1>5. ArgumentsBlocks(r) = ArgumentsBlocks(q) - ArgumentBlocks(q.arg[x])
    <2>1. \A y \in ArgId : y # q.args[k] => r.arg[y] = q.arg[y]
        BY <1>1
    <2> QED
        BY <1>1, <1>2, <2>1, ArgumentsRemoved
<1>6. OwnBlocks(r) = OwnBlocks(q)
    BY DEF SameOwn, OwnBlocks
<1>7. /\ ArgumentBlocks(q.arg[x]) \in Nat /\ ArgumentsBlocks(r) \in Nat
      /\ OwnBlocks(q) \in Nat /\ ArgumentsBlocks(q) \in Nat /\ TypeBlocks(q.types) \in Nat
      /\ GroupBlocks(q.groups["mutex"]) \in Nat /\ GroupBlocks(q.groups["display"]) \in Nat
    BY <1>1, <1>2, ArgumentBlocksType, PartsType DEF Kind
<1>8. ParserBlocks(q) = OwnBlocks(q) + ArgumentsBlocks(q) + GroupBlocks(q.groups["mutex"])
                        + GroupBlocks(q.groups["display"]) + TypeBlocks(q.types)
    BY <1>1, <1>4, PartsSum
<1>9. ParserBlocks(r) = OwnBlocks(r) + ArgumentsBlocks(r) + GroupBlocks(q.groups["mutex"])
                        + GroupBlocks(q.groups["display"]) + TypeBlocks(q.types)
    BY <1>2, <1>4, PartsSum
<1> QED
    BY <1>4, <1>5, <1>6, <1>7, <1>8, <1>9

\* clap_parser_set_add_help takes the first help option there is, or adds one.
LEMMA AddHelpSetKeeps ==
    ASSUME NEW q, NEW add \in BOOLEAN, NEW new \in ArgId, NEW fails, Safe(q), ~q.arg[new].made,
           NEW o \in AddHelpSet(q, add, new, fails)
    PROVE  Keeps(q, o, fails)
<1> DEFINE r == [q EXCEPT !.addHelp = add]
           helps == {i \in DOMAIN q.args : q.arg[q.args[i]].action = "HELP"}
           k == Min(helps)
           x == q.args[k]
           f == Forgotten(r, k)
           gone == [f EXCEPT !.arg[x].freed = TRUE]
<1>1. q \in Parser /\ q.args \in Seq(ArgId)
    BY DEF Safe, Parser
<1>2. Alike(q, r) /\ SameOwn(q, r)
    BY <1>1 DEF Alike, SameOwn, Parser
<1>3. Safe(r) /\ (Whole(q) => Whole(r)) /\ (Shown(q) => Shown(r))
    BY <1>2, AlikeKeeps
<1>30. Tidy(q) => Tidy(r) /\ ParserBlocks(r) = ParserBlocks(q) /\ ParserBlocks(q) \in Nat
    BY <1>1, <1>2, PartsSame DEF Alike
<1>4. \/ o = Outcome(r, TRUE)
      \/ add /\ \E h \in HelpAdded(r, new, fails) : o = [h EXCEPT !.ok = TRUE]
      \/ /\ helps # {}
         /\ o = [Outcome(gone, TRUE) EXCEPT !.freed = ArgumentBlocks(q.arg[x]),
                                           !.crash = FreeCrashes(q.arg[x])]
    <2>1. CASE add = (helps # {})
        BY <2>1 DEF AddHelpSet
    <2>2. CASE add /\ helps = {}
        BY <2>2 DEF AddHelpSet
    <2>3. CASE ~add /\ helps # {}
        BY <2>3 DEF AddHelpSet
    <2> QED
        BY <2>1, <2>2, <2>3
<1> HIDE DEF r, helps, k, gone
<1>5. CASE o = Outcome(r, TRUE)
    <2>1. Leaves(o, r, 0)
        BY <1>5, OutcomeIs, Zenon
    <2> QED
        BY <1>2, <1>3, <2>1, PartsKept DEF Alike
<1>6. CASE add /\ \E h \in HelpAdded(r, new, fails) : o = [h EXCEPT !.ok = TRUE]
    <2>1. PICK h \in HelpAdded(r, new, fails) : o = [h EXCEPT !.ok = TRUE]
        BY <1>6
    <2>2. ~r.arg[new].made
        BY <1>2 DEF Alike
    <2>3. Keeps(r, h, fails) /\ IsOutcome(h) /\ (Tidy(r) => Pays(r, h, fails))
        BY <1>3, <2>2, HelpAddedKeeps
    <2>4. /\ o.p = h.p /\ o.crash = h.crash /\ o.made = h.made /\ o.freed = h.freed
          /\ o.ok = TRUE
        BY <2>1, <2>3 DEF IsOutcome
    <2>5. ASSUME Tidy(q)
          PROVE  Pays(q, o, fails)
        <3>1. Pays(r, h, fails) /\ ParserBlocks(r) = ParserBlocks(q)
            BY <1>30, <2>3, <2>5
        <3>2. r.args = q.args /\ r.hasSubparsers = q.hasSubparsers
            BY <1>2 DEF Alike, SameOwn
        <3>3. Answers(o)
            <4>1. h.crash \in BOOLEAN
                BY <3>1 DEF Pays, Answers
            <4> QED
                BY <2>4, <4>1, Zenon DEF Answers
        <3> QED
            BY <2>4, <3>1, <3>2, <3>3 DEF Pays
    <2> QED
        BY <1>3, <2>3, <2>4, <2>5 DEF Keeps
<1>7. CASE /\ helps # {}
           /\ o = [Outcome(gone, TRUE) EXCEPT !.freed = ArgumentBlocks(q.arg[x]),
                                             !.crash = FreeCrashes(q.arg[x])]
    <2>1. k \in DOMAIN q.args
        <3>1. helps \in SUBSET Nat /\ \A i \in helps : i \in DOMAIN q.args
            BY <1>1 DEF helps
        <3> QED
            BY <1>7, <3>1, MinOfNaturals DEF k
    <2>2. x \in ArgId
        BY <1>1, <2>1
    <2>3. /\ o.p = gone /\ o.crash = FreeCrashes(q.arg[x]) /\ o.ok = TRUE /\ o.made = 0
          /\ o.freed = ArgumentBlocks(q.arg[x])
        BY <1>7 DEF Outcome
    <2>4. Removes(r, gone, k) /\ SameOwn(r, gone)
        <3>1. r \in Parser /\ r.args = q.args /\ r.arg = q.arg
            BY <1>2 DEF Alike
        <3>2. RemoveAt(r.args, k) \in Seq(ArgId)
            BY <1>1, <2>1, <3>1, RemoveAtEntries
        <3>3. RemoveFirst(r.optionals, x) \in Seq(ArgId)
            <4>1. r.optionals \in Seq(ArgId)
                BY <3>1 DEF Parser
            <4> QED
                BY <4>1, RemoveFirstPlace, RemoveAtEntries
        <3>4. PICK args, optionals : args = RemoveAt(r.args, k) /\ optionals = RemoveFirst(r.optionals, x)
            OBVIOUS
        <3>5. f = [r EXCEPT !.args = args, !.optionals = optionals]
            BY <3>1, <3>4 DEF Forgotten
        <3>6. PICK a : a = [r.arg[x] EXCEPT !.freed = TRUE]
            OBVIOUS
        <3>7. a \in Argument
            <4>1. r.arg[x] \in Argument
                BY <2>2, <3>1 DEF Parser
            <4> QED
                BY <3>6, <4>1 DEF Argument
        <3>8. PICK arg : arg = [r.arg EXCEPT ![x] = a]
            OBVIOUS
        <3>9. arg \in [ArgId -> Argument]
            BY <3>1, <3>7, <3>8 DEF Parser
        <3>10. gone = [r EXCEPT !.args = args, !.optionals = optionals, !.arg = arg]
            <4>1. f.arg = r.arg
                BY <3>1, <3>5 DEF Parser
            <4>2. gone = [f EXCEPT !.arg = arg]
                BY <3>6, <3>8, <4>1 DEF gone
            <4> QED
                BY <3>5, <4>2
        <3> HIDE DEF f
        <3> QED
            BY <2>1, <3>1, <3>2, <3>3, <3>4, <3>6, <3>8, <3>9, <3>10 DEF Removes, Parser, SameOwn
    <2>5. NoNull(q) => ~FreeCrashes(q.arg[x])
        BY <2>2 DEF NoNull, FreeCrashes
    <2>6. Safe(gone) /\ (Whole(r) => Whole(gone)) /\ (Shown(r) => Shown(gone))
        BY <1>3, <2>4, RemovesSafe, RemovesWhole, RemovesShown
    <2>7. ASSUME Tidy(q)
          PROVE  Pays(q, o, fails)
        <3>1. r.args = q.args /\ r.arg = q.arg
            BY <1>2 DEF Alike
        <3>2. /\ Tidy(gone) /\ ParserBlocks(gone) = ParserBlocks(r) - ArgumentBlocks(q.arg[x])
              /\ ParserBlocks(gone) \in Nat /\ ArgumentBlocks(q.arg[x]) \in Nat
            BY <1>3, <1>30, <2>4, <2>7, <3>1, RemovesBlocks
        <3>3. Answers(o)
            <4>1. FreeCrashes(q.arg[x]) \in BOOLEAN
                BY DEF FreeCrashes
            <4> QED
                BY <2>3, <4>1, Zenon DEF Answers
        <3>4. ParserBlocks(r) = ParserBlocks(q) /\ ParserBlocks(q) \in Nat
            BY <1>30, <2>7
        <3> QED
            BY <2>3, <3>2, <3>3, <3>4 DEF Pays
    <2> QED
        BY <1>3, <2>3, <2>5, <2>6, <2>7 DEF Keeps, Whole
<1> QED
    BY <1>4, <1>5, <1>6, <1>7

-----------------------------------------------------------------------------
(***************************************************************************)
(* A new parser.                                                           *)
(***************************************************************************)
LEMMA EmptyIsWhole ==
    ASSUME NEW q \in Parser, q.arg = [x \in ArgId |-> NoArgument],
           q.args = << >>, q.positionals = << >>, q.optionals = << >>,
           q.groups = [k \in Kind |-> << >>], q.next = [k \in Kind |-> 0],
           q.types \in {<< >>, Builtin}
    PROVE  Safe(q) /\ Whole(q) /\ Shown(q) /\ \A x \in ArgId : ~q.arg[x].made
<1>1. /\ \A x \in ArgId : q.arg[x] = NoArgument
      /\ NoArgument.flags = {} /\ NoArgument.nargs = 1 /\ NoArgument.deps = << >>
      /\ NoArgument.choices = 0 /\ NoArgument.made = FALSE
      /\ NoArgument.group = [k \in Kind |-> NONE]
    BY DEF NoArgument
<1>2. "mutex" \in Kind
    BY DEF Kind
<1>3. /\ Len(<< >>) = 0 /\ DOMAIN << >> = {} /\ ToSet(<< >>) = {}
    BY DEF ToSet
<1>4. \A x \in ArgId : FlagsOf(q.arg[x])
    BY <1>1 DEF FlagsOf, Multiple, ZERO_OR_MORE, ONE_OR_MORE
<1>5. \A x \in ArgId : Len(q.arg[x].deps) <= MaxDependencies
    BY <1>1, <1>3, BuilderAssumption
<1>6. GroupIds(q)
    <2>1. q.groups["mutex"] = << >> /\ q.next["mutex"] = 0
        BY <1>2
    <2> QED
        BY <1>3, <2>1 DEF GroupIds, IdsOf
<1>7. ArgumentsOnce(q)
    BY <1>3 DEF ArgumentsOnce
<1>8. NoNull(q)
    <2>1. \A i \in DOMAIN Builtin : Builtin[i] \in {"string", "int", "float", "bool"}
        BY DEF Builtin
    <2> QED
        BY <1>1, <1>3, <2>1, BuilderAssumption DEF NoNull
<1>9. Indices(q)
    BY <1>3 DEF Indices, Flagged, Lists
<1>10. Shown(q)
    <2>1. "display" \in Kind /\ q.groups["display"] = << >>
        BY DEF Kind
    <2>2. \A x \in ArgId : ~InDisplayGroup(q, x) /\ q.arg[x].group["display"] = NONE
        BY <1>1, <1>3, <2>1 DEF InDisplayGroup
    <2>3. IndexedOnce(q)
        BY <1>3 DEF IndexedOnce, Once
    <2> QED
        BY <2>2, <2>3 DEF Shown, Displayed
<1> QED
    BY <1>1, <1>4, <1>5, <1>6, <1>7, <1>8, <1>9, <1>10 DEF Safe, Whole

LEMMA NoParserIsWhole ==
    NoParser \in Parser /\ Safe(NoParser) /\ Whole(NoParser) /\ Shown(NoParser)
<1>1. NoArgument \in Argument
    <2>1. [k \in Kind |-> NONE] \in [Kind -> Int] /\ {} \in SUBSET Owned /\ {} \in SUBSET Flag
        BY DEF NONE
    <2>2. << >> \in Seq([type : {"REQUIRES", "CONFLICTS"}, target : ArgId])
        OBVIOUS
    <2>3. "STORE" \in Action
        BY BuilderAssumption
    <2>4. PICK group : group = [k \in Kind |-> NONE]
        OBVIOUS
    <2>5. NoArgument = [flags |-> {}, nargs |-> 1, action |-> "STORE", group |-> group,
                        texts |-> {}, strings |-> 0, choices |-> 0, choiceArray |-> FALSE,
                        deps |-> << >>, depArray |-> FALSE, made |-> FALSE, freed |-> FALSE]
        BY <2>4 DEF NoArgument
    <2> QED
        BY <2>1, <2>2, <2>3, <2>4, <2>5 DEF Argument
<1>2. NoParser \in Parser
    <2>1. PICK arg : arg = [x \in ArgId |-> NoArgument]
        OBVIOUS
    <2>2. PICK groups : groups = [k \in Kind |-> << >>]
        OBVIOUS
    <2>3. PICK next : next = [k \in Kind |-> 0]
        OBVIOUS
    <2>4. /\ arg \in [ArgId -> Argument] /\ groups \in [Kind -> Seq(Group)]
          /\ next \in [Kind -> Nat] /\ << >> \in Seq(ArgId)
          /\ << >> \in Seq(ToSet(Builtin) \cup TypeName \cup {NoName})
        BY <1>1, <2>1, <2>2, <2>3
    <2>5. NoParser =
            [live |-> FALSE, arg |-> arg, args |-> << >>, capacity |-> 0,
             positionals |-> << >>, optionals |-> << >>, addHelp |-> TRUE,
             groups |-> groups, next |-> next, types |-> << >>, arrays |-> {}, texts |-> {},
             hasSubparsers |-> FALSE, container |-> FALSE, commands |-> 0]
        BY <2>1, <2>2, <2>3 DEF NoParser
    <2> QED
        BY <2>4, <2>5 DEF Parser
<1> QED
    BY <1>2, EmptyIsWhole DEF NoParser

LEMMA NewIsParser ==
    ASSUME NEW fails
    PROVE  [NoParser EXCEPT !.live = TRUE, !.capacity = ArgCapacity, !.types = Builtin,
                            !.arrays = {"types"}, !.texts = {"prog"} \ fails] \in Parser
<1> DEFINE q == [NoParser EXCEPT !.live = TRUE, !.capacity = ArgCapacity, !.types = Builtin,
                                 !.arrays = {"types"}, !.texts = {"prog"} \ fails]
<1>1. PICK texts \in SUBSET {"prog", "dest"} : texts = {"prog"} \ fails
    OBVIOUS
<1>2. Builtin \in Seq(ToSet(Builtin) \cup TypeName \cup {NoName})
    <2>1. \A i \in 1..4 : Builtin[i] \in ToSet(Builtin)
        BY DEF Builtin, ToSet
    <2>2. Builtin = [i \in 1..4 |-> Builtin[i]]
        BY DEF Builtin
    <2> HIDE DEF Builtin
    <2> QED
        BY <2>1, <2>2, SeqDef
<1>3. ArgCapacity \in Nat
    BY BuilderAssumption
<1>4. q = [NoParser EXCEPT !.live = TRUE, !.capacity = ArgCapacity, !.types = Builtin,
                           !.arrays = {"types"}, !.texts = texts]
    BY <1>1
<1>5. {"types"} \in SUBSET Array
    BY DEF Array
<1> HIDE DEF q
<1> QED
    BY <1>2, <1>3, <1>4, <1>5, NoParserIsWhole DEF Parser

\* What clap_parser_new makes, the parser owns, up to the help option's strings.
FirstPays(o, fails) ==
    /\ Answers(o) /\ o.made \in Nat /\ o.freed = 0
    /\ o.p = NoParser \/ Tidy(o.p)
    /\ ParserBlocks(o.p) <= o.made
    /\ ParserBlocks(o.p) # o.made => fails # {} /\ o.p.args = << >>

LEMMA NewParserKeeps ==
    ASSUME NEW fails, NEW o \in NewParser(fails)
    PROVE  Keeps(NoParser, o, fails) /\ FirstPays(o, fails)
<1> DEFINE q == [NoParser EXCEPT !.live = TRUE, !.capacity = ArgCapacity, !.types = Builtin,
                                 !.arrays = {"types"}, !.texts = {"prog"} \ fails]
           own == {"parser", "prog", "arguments"}
<1>1. q \in Parser
    BY NewIsParser
<1>2. Safe(q) /\ Whole(q) /\ Shown(q) /\ \A x \in ArgId : ~q.arg[x].made
    <2>1. /\ q.arg = [x \in ArgId |-> NoArgument]
          /\ q.args = << >> /\ q.positionals = << >> /\ q.optionals = << >>
          /\ q.groups = [k \in Kind |-> << >>] /\ q.next = [k \in Kind |-> 0]
          /\ q.types = Builtin
        BY DEF NoParser
    <2> HIDE DEF q
    <2> QED
        BY <1>1, <2>1, EmptyIsWhole
<1>20. ~Tidy(NoParser) /\ ParserBlocks(NoParser) = 0
    BY DEF Tidy, NoParser, ParserBlocks
<1>21. /\ Tidy(q) /\ q.args = << >> /\ ~q.hasSubparsers
       /\ ParserBlocks(q) = 3 + Len(Builtin) + Cardinality(q.texts)
       /\ Cardinality(q.texts) \in Nat
    <2>1. /\ q.live = TRUE /\ q.texts = {"prog"} \ fails /\ q.arrays = {"types"} /\ q.args = << >>
          /\ q.hasSubparsers = FALSE /\ q.container = FALSE /\ q.commands = 0
          /\ q.types = Builtin /\ q.groups = [k \in Kind |-> << >>]
        BY DEF NoParser
    <2> HIDE DEF q
    <2>2. Tidy(q)
        BY <1>2, <2>1 DEF Tidy, Usable
    <2>3. Cardinality(q.texts) \in Nat
        BY <1>1, SmallSets
    <2>4. OwnBlocks(q) = 3 + Cardinality(q.texts)
        <3>1. Cardinality({"types"}) = 1 /\ One(q.container) = 0
            BY <2>1, FS_Singleton DEF One
        <3>2. Cardinality(q.arrays) = Cardinality({"types"})
            BY <2>1, Zenon
        <3> QED
            BY <2>1, <2>3, <3>1, <3>2 DEF OwnBlocks
    <2>5. ArgumentsBlocks(q) = 0
        <3>1. DOMAIN q.args = {}
            BY <2>1
        <3>2. IsFiniteSet({})
            BY FS_EmptySet
        <3>3. PICK f : f = Shows(q)
            OBVIOUS
        <3>4. ArgumentsBlocks(q) = SumOver(f, {})
            BY <3>1, <3>3, Zenon DEF ArgumentsBlocks
        <3> QED
            BY <3>4, SumEmpty
    <2>6. GroupBlocks(<< >>) = 0
        <3>1. DOMAIN << >> = {}
            OBVIOUS
        <3>2. PICK f : f = Titles(<< >>)
            OBVIOUS
        <3>3. GroupBlocks(<< >>) = SumOver(f, {})
            BY <3>1, <3>2, GroupsSum, Zenon
        <3> QED
            BY <3>3, SumEmpty
    <2>7. q.groups["mutex"] = << >> /\ q.groups["display"] = << >>
        BY <2>1 DEF Kind
    <2>8. TypeBlocks(q.types) = Len(Builtin) /\ Len(Builtin) \in Nat
        <3>1. {i \in DOMAIN Builtin : Builtin[i] # NoName} = 1..4
            BY BuilderAssumption DEF Builtin
        <3>2. Cardinality(1..4) = 4
            <4>1. PICK a, b : a = 1 /\ b = 4
                OBVIOUS
            <4>2. a \in Int /\ b \in Int
                BY <4>1
            <4>3. Cardinality(a..b) = IF a > b THEN 0 ELSE b - a + 1
                BY <4>2, FS_Interval
            <4>4. Cardinality(a..b) = Cardinality(1..4)
                BY <4>1, Zenon
            <4> QED
                BY <4>1, <4>3, <4>4
        <3>3. TypeBlocks(Builtin) = Cardinality(1..4)
            BY <3>1, Zenon DEF TypeBlocks
        <3>4. Len(Builtin) = 4
            BY DEF Builtin
        <3> QED
            BY <2>1, <3>2, <3>3, <3>4
    <2>9. ParserBlocks(q) = OwnBlocks(q) + ArgumentsBlocks(q) + GroupBlocks(q.groups["mutex"])
                            + GroupBlocks(q.groups["display"]) + TypeBlocks(q.types)
        BY <1>1, <2>1, PartsSum
    <2> QED
        BY <2>1, <2>2, <2>3, <2>4, <2>5, <2>6, <2>7, <2>8, <2>9
<1>3. CASE fails \cap {"parser", "arguments"} # {}
    <2>1. o = [Outcome(NoParser, FALSE) EXCEPT !.tried = own]
        BY <1>3 DEF NewParser
    <2>2. Leaves(o, NoParser, 0)
        BY <2>1, OutcomeIs, Zenon
    <2>3. o.p = NoParser /\ Answers(o) /\ ~o.crash /\ o.made = 0 /\ o.freed = 0
        BY <2>2 DEF Leaves
    <2>4. Keeps(NoParser, o, fails)
        BY <1>20, <2>3, NoParserIsWhole DEF Keeps
    <2>5. FirstPays(o, fails)
        BY <1>20, <2>3 DEF FirstPays
    <2> QED
        BY <2>4, <2>5
<1>4. CASE fails \cap {"parser", "arguments"} = {}
    <2>1. PICK h, tried, made :
              /\ h \in HelpAdded(q, Help, fails)
              /\ o = [h EXCEPT !.ok = TRUE, !.tried = tried, !.made = made]
              /\ made = h.made + 3 + Len(Builtin) + Cardinality(q.texts)
        BY <1>4 DEF NewParser
    <2>2. Help \in ArgId
        BY BuilderAssumption
    <2> HIDE DEF q
    <2>3. Keeps(q, h, fails) /\ IsOutcome(h) /\ Pays(q, h, fails)
        BY <1>2, <1>21, <2>1, <2>2, HelpAddedKeeps
    <2>4. /\ o.p = h.p /\ o.crash = h.crash /\ o.ok = TRUE /\ o.freed = h.freed
          /\ o.made = h.made + 3 + Len(Builtin) + Cardinality(q.texts)
        BY <2>1, <2>3 DEF IsOutcome
    <2>5. Answers(o)
        <3>1. h.crash \in BOOLEAN
            BY <2>3 DEF Pays, Answers
        <3> QED
            BY <2>4, <3>1, Zenon DEF Answers
    <2>6. h.freed = 0
        <3>1. PICK a \in Added(q, Help, HelpName, fails) :
                  h = IF ~a.ok THEN a
                      ELSE [a EXCEPT !.p.arg[Help].action = "HELP",
                                     !.p.arg[Help].texts = @ \cup ({"help"} \ fails),
                                     !.tried = @ \cup {"help"},
                                     !.made = @ + One("help" \notin fails)]
            BY <2>1 DEF HelpAdded
        <3>2. a.freed = 0 /\ IsOutcome(a)
            <4>1. HelpName \in Name
                BY DEF HelpName, Name
            <4> QED
                BY <1>1, <2>2, <4>1, AddedOutcomes
        <3> QED
            BY <3>1, <3>2 DEF IsOutcome
    <2>7. Len(Builtin) = 4
        BY DEF Builtin
    <2>8. /\ h.made \in Nat /\ Tidy(h.p)
          /\ ParserBlocks(h.p) <= ParserBlocks(q) + h.made - h.freed
          /\ ParserBlocks(h.p) # ParserBlocks(q) + h.made - h.freed => fails # {} /\ h.p.args = << >>
        BY <1>21, <2>3 DEF Pays
    <2>9. ParserBlocks(q) + h.made - h.freed = o.made /\ o.made \in Nat
        BY <1>21, <2>4, <2>6, <2>7, <2>8
    <2>10. FirstPays(o, fails)
        BY <2>4, <2>5, <2>6, <2>8, <2>9 DEF FirstPays
    <2>11. Keeps(NoParser, o, fails)
        BY <1>2, <1>20, <2>3, <2>4 DEF Keeps
    <2> QED
        BY <2>10, <2>11
<1> QED
    BY <1>3, <1>4

-----------------------------------------------------------------------------
(***************************************************************************)
(* The steps.                                                              *)
(***************************************************************************)
\* If no allocation has failed after a call, none had before, and none of the call did.
LEMMA NoneFailed ==
    ASSUME failures \in Nat, NEW fails \in Failing, NEW o, Called(o, fails)
    PROVE  failures' \in Nat /\ (failures' = 0 => failures = 0 /\ fails = {})
<1>1. failures' = failures + Cardinality(fails)
    BY DEF Called
<1>2. Cardinality(fails) \in Nat /\ (Cardinality(fails) = 0 => fails = {})
    <2>1. fails = {} \/ \E a : fails = {a}
        BY DEF Failing
    <2>2. CASE fails = {}
        BY <2>2, FS_EmptySet
    <2>3. CASE \E a : fails = {a}
        <3>1. Cardinality(fails) = 1
            BY <2>3, FS_Singleton
        <3> QED
            BY <3>1
    <2> QED
        BY <2>1, <2>2, <2>3
<1> QED
    BY <1>1, <1>2

\* A call that keeps what an outcome has to keep preserves the invariant.
LEMMA CalledPreserves ==
    ASSUME BuilderInv, NEW fails \in Failing, NEW o, NEW q, Keeps(q, o, fails),
           Shown(q), failures = 0 => Whole(q), Called(o, fails)
    PROVE  BuilderInv'
<1>1. failures \in Nat
    BY DEF BuilderInv
<1>2. p' = o.p /\ crashed' = o.crash
    BY DEF Called
<1>3. failures' \in Nat /\ (failures' = 0 => failures = 0 /\ fails = {})
    BY <1>1, NoneFailed
<1>4. Safe(o.p) /\ Shown(o.p) /\ (failures' = 0 => Whole(o.p) /\ ~o.crash)
    BY <1>3 DEF Keeps
<1> QED
    BY <1>2, <1>3, <1>4 DEF BuilderInv

LEMMA FreeParserPreserves ==
    ASSUME BuilderInv, FreeParser
    PROVE  BuilderInv'
<1>1. p' = NoParser /\ failures' = failures
    BY DEF FreeParser
<1>2. Safe(p') /\ Whole(p') /\ Shown(p')
    BY <1>1, NoParserIsWhole
<1>3. failures = 0 => ~crashed'
    <2> SUFFICES ASSUME failures = 0, NEW x \in ToSet(p.args)
                 PROVE  ~FreeCrashes(p.arg[x])
        BY DEF FreeParser
    <2>1. x \in ArgId
        BY DEF BuilderInv, Safe, Parser, ToSet
    <2> QED
        BY <2>1 DEF BuilderInv, Whole, NoNull, FreeCrashes
<1> QED
    BY <1>1, <1>2, <1>3 DEF BuilderInv

\* No parser there is, and nothing has failed.
LEMMA InitEstablishes ==
    ASSUME Init
    PROVE  BuilderInv
BY NoParserIsWhole DEF Init, BuilderInv

\* A call of the client, and the first one, which makes the parser.
LawfulCall == \E fails \in Failing : \E o : Called(o, fails) /\ Keeps(p, o, fails)
FirstCall == \E fails \in Failing : \E o : Called(o, fails) /\ Keeps(NoParser, o, fails)
                                          /\ FirstPays(o, fails)

\* Every step is a call that keeps what its outcome has to keep, or releases the parser.
LEMMA StepIsCall ==
    ASSUME BuilderInv, Next
    PROVE  \/ calls = 0 /\ FirstCall
           \/ Building /\ LawfulCall
           \/ FreeParser
           \/ Stopped
<1>1. Safe(p) /\ p \in Parser
    BY DEF BuilderInv, Safe
<1>2. \A x \in Arguments : x \in ArgId /\ Usable(p, x)
    BY DEF Arguments
<1>3. {} \in Failing
    BY DEF Failing
<1>4. CASE New
    <2>1. PICK fails \in Failing : \E o \in NewParser(fails) : Called(o, fails)
        BY <1>4 DEF New
    <2>2. PICK o \in NewParser(fails) : Called(o, fails)
        BY <2>1
    <2>3. Keeps(NoParser, o, fails) /\ FirstPays(o, fails)
        BY <2>2, NewParserKeeps
    <2> QED
        BY <1>4, <2>2, <2>3 DEF FirstCall, New
<1>5. CASE AddArgument
    <2>1. PICK x \in Unused, name \in Name, fails \in Failing :
              \E o \in Added(p, x, name, fails) : Called(o, fails)
        BY <1>5 DEF AddArgument
    <2>2. PICK o \in Added(p, x, name, fails) : Called(o, fails)
        BY <2>1
    <2>3. x \in ArgId /\ ~p.arg[x].made
        BY DEF Unused
    <2>4. Keeps(p, o, fails)
        BY <1>1, <2>2, <2>3, AddedKeeps
    <2> QED
        BY <1>5, <2>2, <2>4 DEF LawfulCall, AddArgument
<1>6. CASE SetText
    <2>1. PICK x \in Arguments, text \in Text, fails \in Failing :
              Called(TextSet(p, x, text, fails), fails)
        BY <1>6 DEF SetText
    <2>2. Keeps(p, TextSet(p, x, text, fails), fails)
        BY <1>1, <1>2, <2>1, TextSetKeeps
    <2> QED
        BY <1>6, <2>1, <2>2 DEF LawfulCall, SetText
<1>7. CASE SetDeprecated
    <2>1. PICK x \in Arguments, message \in BOOLEAN, fails \in Failing :
              Called(Deprecated(p, x, message, fails), fails)
        BY <1>7 DEF SetDeprecated
    <2>2. Keeps(p, Deprecated(p, x, message, fails), fails)
        BY <1>1, <1>2, <2>1, DeprecatedKeeps
    <2> QED
        BY <1>7, <2>1, <2>2 DEF LawfulCall, SetDeprecated
<1>8. CASE SetRequired
    <2>1. PICK x \in Arguments, required \in BOOLEAN :
              Called(Outcome(RequiredSet(p, x, required), TRUE), {})
        BY <1>8 DEF SetRequired
    <2>2. Keeps(p, Outcome(RequiredSet(p, x, required), TRUE), {})
        BY <1>1, <1>2, <2>1, RequiredSetKeeps
    <2> QED
        BY <1>3, <1>8, <2>1, <2>2 DEF LawfulCall, SetRequired
<1>9. CASE SetNargs
    <2>1. PICK x \in Arguments, n \in Nargs : Called(Outcome(NargsSet(p, x, n), TRUE), {})
        BY <1>9 DEF SetNargs
    <2>2. Keeps(p, Outcome(NargsSet(p, x, n), TRUE), {})
        BY <1>1, <1>2, <2>1, NargsSetKeeps
    <2> QED
        BY <1>3, <1>9, <2>1, <2>2 DEF LawfulCall, SetNargs
<1>10. CASE SetAction
    <2>1. PICK x \in Arguments, action \in Action :
              Called(Outcome([p EXCEPT !.arg[x].action = action], TRUE), {})
        BY <1>10 DEF SetAction
    <2>2. Keeps(p, Outcome([p EXCEPT !.arg[x].action = action], TRUE), {})
        BY <1>1, <1>2, <2>1, ActionSetKeeps
    <2> QED
        BY <1>3, <1>10, <2>1, <2>2 DEF LawfulCall, SetAction
<1>11. CASE SetChoices
    <2>1. PICK x \in Arguments, n \in 1..2, fails \in Failing :
              Called(ChoicesSet(p, x, n, fails), fails)
        BY <1>11 DEF SetChoices
    <2>2. Keeps(p, ChoicesSet(p, x, n, fails), fails)
        BY <1>1, <1>2, <2>1, ChoicesSetKeeps
    <2> QED
        BY <1>11, <2>1, <2>2 DEF LawfulCall, SetChoices
<1>12. CASE AddDependency
    <2>1. PICK x \in Arguments, y \in Arguments, type \in {"REQUIRES", "CONFLICTS"},
               fails \in Failing : Called(DependencyAdded(p, x, type, y, fails), fails)
        BY <1>12 DEF AddDependency
    <2>2. Keeps(p, DependencyAdded(p, x, type, y, fails), fails)
        BY <1>1, <1>2, <2>1, DependencyAddedKeeps
    <2> QED
        BY <1>12, <2>1, <2>2 DEF LawfulCall, AddDependency
<1>13. CASE AddGroup
    <2>1. PICK kind \in Kind, fails \in Failing : Called(GroupAdded(p, kind, fails), fails)
        BY <1>13 DEF AddGroup
    <2>2. Keeps(p, GroupAdded(p, kind, fails), fails)
        BY <1>1, <2>1, GroupAddedKeeps
    <2> QED
        BY <1>13, <2>1, <2>2 DEF LawfulCall, AddGroup
<1>14. CASE JoinGroup
    <2>1. PICK kind \in Kind, x \in Arguments, fails \in Failing :
              \E id \in 0..p.next[kind] : Called(GroupJoined(p, kind, id, x, fails), fails)
        BY <1>14 DEF JoinGroup
    <2>2. PICK id \in 0..p.next[kind] : Called(GroupJoined(p, kind, id, x, fails), fails)
        BY <2>1
    <2>3. p.next[kind] \in Nat
        BY <1>1 DEF Parser
    <2>4. id \in Nat
        BY <2>2, <2>3
    <2>5. Keeps(p, GroupJoined(p, kind, id, x, fails), fails)
        BY <1>1, <1>2, <2>2, <2>4, GroupJoinedKeeps
    <2> QED
        BY <1>14, <2>2, <2>5 DEF LawfulCall, JoinGroup
<1>15. CASE SetMutexGroup
    <2>1. PICK x \in Arguments, id \in MutexId :
              Called(Outcome([p EXCEPT !.arg[x].group["mutex"] = id], TRUE), {})
        BY <1>15 DEF SetMutexGroup
    <2>2. Keeps(p, Outcome([p EXCEPT !.arg[x].group["mutex"] = id], TRUE), {})
        BY <1>1, <1>2, <2>1, MutexGroupSetKeeps, BuilderAssumption
    <2> QED
        BY <1>3, <1>15, <2>1, <2>2 DEF LawfulCall, SetMutexGroup
<1>16. CASE RegisterType
    <2>1. PICK name \in TypeName, fails \in Failing :
              Called(TypeRegistered(p, name, fails), fails)
        BY <1>16 DEF RegisterType
    <2>2. Keeps(p, TypeRegistered(p, name, fails), fails)
        BY <1>1, <2>1, TypeRegisteredKeeps
    <2> QED
        BY <1>16, <2>1, <2>2 DEF LawfulCall, RegisterType
<1>17. CASE SetAddHelp
    <2>1. PICK add \in BOOLEAN, fails \in Failing, new \in Unused :
              \E o \in AddHelpSet(p, add, new, fails) : Called(o, fails)
        BY <1>17 DEF SetAddHelp
    <2>2. PICK o \in AddHelpSet(p, add, new, fails) : Called(o, fails)
        BY <2>1
    <2>3. new \in ArgId /\ ~p.arg[new].made
        BY DEF Unused
    <2>4. Keeps(p, o, fails)
        BY <1>1, <2>2, <2>3, AddHelpSetKeeps
    <2> QED
        BY <1>17, <2>2, <2>4 DEF LawfulCall, SetAddHelp
<1>18. CASE AddSubparsers
    <2>1. PICK fails \in Failing : Called(SubparsersAdded(p, fails), fails)
        BY <1>18 DEF AddSubparsers
    <2>2. Keeps(p, SubparsersAdded(p, fails), fails)
        BY <1>1, <2>1, SubparsersAddedKeeps
    <2> QED
        BY <1>18, <2>1, <2>2 DEF LawfulCall, AddSubparsers
<1>19. CASE AddCommand
    <2>1. PICK fails \in Failing : Called(CommandAdded(p, fails), fails)
        BY <1>19 DEF AddCommand
    <2>2. Keeps(p, CommandAdded(p, fails), fails)
        BY <1>1, <1>19, <2>1, CommandAddedKeeps DEF AddCommand
    <2> QED
        BY <1>19, <2>1, <2>2 DEF LawfulCall, AddCommand
<1> QED
    BY <1>4, <1>5, <1>6, <1>7, <1>8, <1>9, <1>10, <1>11, <1>12, <1>13, <1>14, <1>15, <1>16,
       <1>17, <1>18, <1>19 DEF Next

LEMMA NextPreserves ==
    ASSUME BuilderInv, [Next]_vars
    PROVE  BuilderInv'
<1>1. CASE FirstCall
    BY <1>1, NoParserIsWhole, CalledPreserves DEF FirstCall
<1>2. CASE LawfulCall
    BY <1>2, CalledPreserves DEF LawfulCall, BuilderInv
<1>3. CASE FreeParser
    BY <1>3, FreeParserPreserves
<1>4. CASE Stopped \/ UNCHANGED vars
    BY <1>4 DEF Stopped, vars, BuilderInv
<1> QED
    BY <1>1, <1>2, <1>3, <1>4, StepIsCall

-----------------------------------------------------------------------------
(***************************************************************************)
(* The memory.  Nobody replaces the allocator while a parser is built, so  *)
(* that all blocks are of one family.  The parser never owns more blocks   *)
(* than are live: that is why the count of live blocks is never negative,  *)
(* which TypeOK says.                                                      *)
(***************************************************************************)
OneAllocator ==
    /\ mallocFn = "default" /\ freeFn = "default" /\ reallocFn = "default" /\ locked \in BOOLEAN
    /\ live \in [Family -> Nat] /\ live["client"] = 0

MemoryInv ==
    /\ OneAllocator
    /\ ParserBlocks(p) <= live["default"]
    /\ p = NoParser \/ Tidy(p)
    /\ calls = 0 => p = NoParser
    /\ result \in BOOLEAN /\ crashed \in BOOLEAN
    /\ calls \in 0..MaxCalls /\ failures \in 0..MaxFailures

\* What a step may do to the blocks that nothing points to: LostOnlyTwoWays, as a formula.
LostStep ==
    Lost' # Lost /\ ~crashed' =>
        /\ Lost' > Lost
        /\ \/ failures' > failures /\ p'.args = p.args
           \/ p.hasSubparsers /\ p'.hasSubparsers /\ p'.commands = 0

LEMMA LiveOfOne ==
    ASSUME NEW l \in [Family -> Nat], l["client"] = 0
    PROVE  SumOver(l, Family) = l["default"]
<1>1. Family = {"default"} \cup {"client"} /\ IsFiniteSet(Family)
  <2>1. Family = {"default"} \cup {"client"}
    BY DEF Family
  <2> QED
    BY <2>1, FS_Singleton, FS_Union
<1>2. PICK D : D = {"client"}
    OBVIOUS
<1>3. IsFiniteSet(D) /\ Family \ {"default"} = D /\ "client" \in D /\ D \ {"client"} = {}
    BY <1>1, <1>2, FS_Singleton
<1>4. \A f \in Family : l[f] \in Int
    OBVIOUS
<1>5. SumOver(l, Family) = l["default"] + SumOver(l, Family \ {"default"})
    BY <1>1, <1>4, SumSplit
<1>6. SumOver(l, D) = l["client"] + SumOver(l, D \ {"client"})
    BY <1>1, <1>2, <1>3, <1>4, SumSplit
<1>7. SumOver(l, D \ {"client"}) = 0 /\ SumOver(l, Family \ {"default"}) = SumOver(l, D)
    <2>1. SumOver(l, {}) = 0
        BY SumEmpty
    <2> QED
        BY <1>3, <2>1, Zenon
<1>8. l["default"] \in Nat
    BY DEF Family
<1> QED
    BY <1>5, <1>6, <1>7, <1>8

LEMMA LostIs ==
    ASSUME OneAllocator
    PROVE  Lost = live["default"] - ParserBlocks(p)
<1>1. Live = live["default"]
    <2>1. Live = SumOver(live, Family)
        BY DEF Live, SumOver
    <2> QED
        BY <2>1, LiveOfOne DEF OneAllocator
<1> QED
    BY <1>1 DEF Lost

LEMMA LostNextIs ==
    ASSUME OneAllocator'
    PROVE  Lost' = live'["default"] - ParserBlocks(p')
<1>1. Live' = SumOver(live', Family)
    BY DEF Live, SumOver, MapThenSumSet, MapThenFoldSet, Family
<1>2. SumOver(live', Family) = live'["default"]
    BY LiveOfOne DEF OneAllocator, Family
<1> QED
    BY <1>1, <1>2 DEF Lost

\* The blocks of any parser that is safe.
LEMMA BlocksAreNatural ==
    ASSUME NEW q, Safe(q), q = NoParser \/ Tidy(q)
    PROVE  ParserBlocks(q) \in Nat
<1>1. CASE q = NoParser
    <2>1. ~NoParser.live
        BY DEF NoParser
    <2> QED
        BY <1>1, <2>1 DEF ParserBlocks
<1>2. CASE Tidy(q)
    <2>1. q \in Parser /\ SameOwn(q, q)
        BY DEF Safe, SameOwn
    <2> QED
        BY <1>2, <2>1, PartsSame
<1> QED
    BY <1>1, <1>2

\* What a call costs, the first one included.
Costs(o, fails) ==
    /\ Answers(o) /\ o.made \in Nat /\ o.freed \in Nat
    /\ Safe(o.p) /\ (o.p = NoParser \/ Tidy(o.p))
    /\ ParserBlocks(o.p) <= ParserBlocks(p) + o.made - o.freed
    /\ ParserBlocks(o.p) # ParserBlocks(p) + o.made - o.freed =>
         \/ fails # {} /\ o.p.args = p.args
         \/ p.hasSubparsers /\ o.p.hasSubparsers /\ o.p.commands = 0

LEMMA FailingFew ==
    ASSUME NEW fails \in Failing, failures \in 0..MaxFailures
    PROVE  /\ Cardinality(fails) \in Nat /\ failures + Cardinality(fails) \in 0..MaxFailures
           /\ fails # {} => Cardinality(fails) = 1
<1>1. MaxFailures \in Nat /\ failures \in Nat
    BY BuilderAssumption
<1>2. CASE fails = {}
    <2>1. Cardinality(fails) = 0
        BY <1>2, FS_EmptySet
    <2> QED
        BY <1>1, <1>2, <2>1
<1>3. CASE fails # {}
    <2>1. failures < MaxFailures /\ \E a : fails = {a}
        BY <1>3 DEF Failing
    <2>2. Cardinality(fails) = 1
        BY <2>1, FS_Singleton
    <2> QED
        BY <1>1, <2>1, <2>2
<1> QED
    BY <1>2, <1>3

LEMMA CallKeepsMemory ==
    ASSUME BuilderInv, MemoryInv, calls < MaxCalls, NEW fails \in Failing, NEW o,
           Called(o, fails), Costs(o, fails)
    PROVE  MemoryInv' /\ LostStep
<1>1. /\ p' = o.p /\ result' = o.ok /\ crashed' = o.crash /\ calls' = calls + 1
      /\ failures' = failures + Cardinality(fails) /\ Allocates(o.made, o.freed)
    BY DEF Called
<1>2. ParserBlocks(p) \in Nat /\ ParserBlocks(o.p) \in Nat
    BY BlocksAreNatural DEF BuilderInv, MemoryInv, Costs
<1>3. PICK made \in Nat, freed \in Nat : made = o.made /\ freed = o.freed
    BY DEF Costs
<1>4. /\ live \in [Family -> Nat] /\ live["client"] = 0 /\ live["default"] \in Nat
      /\ ParserBlocks(p) <= live["default"]
    BY DEF MemoryInv, OneAllocator, Family
<1>5. ParserBlocks(o.p) <= ParserBlocks(p) + made - freed
    BY <1>3 DEF Costs
<1>6. live["default"] + made - freed \in Nat
    BY <1>2, <1>4, <1>5
<1>8. /\ live' \in [Family -> Nat] /\ live'["client"] = 0
      /\ live'["default"] = live["default"] + made - freed
    <2>1. live' = [[live EXCEPT !["default"] = @ + made] EXCEPT !["default"] = @ - freed]
        BY <1>1, <1>3 DEF Allocates, MemoryInv, OneAllocator
    <2>2. PICK l : l = [live EXCEPT !["default"] = live["default"] + made]
        OBVIOUS
    <2>3. /\ l["default"] = live["default"] + made /\ l["client"] = 0
          /\ l \in [Family -> Nat]
        BY <1>3, <1>4, <2>2 DEF Family
    <2>4. PICK n \in Nat : n = live["default"] + made - freed
        BY <1>6
    <2>5. live' = [l EXCEPT !["default"] = n]
        <3>1. live' = [l EXCEPT !["default"] = l["default"] - freed]
            BY <2>1, <2>2
        <3>2. l["default"] - freed = n
            BY <1>4, <2>3, <2>4
        <3> QED
            BY <3>1, <3>2
    <2> QED
        BY <2>3, <2>4, <2>5 DEF Family
<1>9. OneAllocator'
    BY <1>1, <1>8 DEF OneAllocator, Allocates, MemoryInv
<1>10. ParserBlocks(p') <= live'["default"]
    BY <1>1, <1>2, <1>4, <1>5, <1>8
<1>11. p' = NoParser \/ Tidy(p')
    BY <1>1 DEF Costs
<1>12. calls' \in 0..MaxCalls /\ calls' # 0
    <2>1. calls \in Nat /\ MaxCalls \in Nat
        BY BuilderAssumption DEF MemoryInv
    <2> QED
        BY <1>1, <2>1
<1>13. result' \in BOOLEAN /\ crashed' \in BOOLEAN
    <2>1. o.ok \in BOOLEAN /\ o.crash \in BOOLEAN
        BY DEF Costs, Answers
    <2> QED
        BY <1>1, <2>1, Zenon
<1>14. failures' \in 0..MaxFailures /\ (fails # {} => failures' > failures)
    <2>1. failures \in 0..MaxFailures
        BY DEF MemoryInv
    <2> QED
        BY <1>1, <2>1, FailingFew
<1>15. MemoryInv'
    BY <1>9, <1>10, <1>11, <1>12, <1>13, <1>14 DEF MemoryInv
<1>16. Lost' = Lost + (ParserBlocks(p) + made - freed) - ParserBlocks(o.p) /\ Lost \in Int
    <2>1. Lost = live["default"] - ParserBlocks(p)
        BY LostIs DEF MemoryInv
    <2>2. Lost' = live'["default"] - ParserBlocks(o.p)
        BY <1>1, <1>9, LostNextIs
    <2> QED
        BY <1>2, <1>4, <1>8, <2>1, <2>2
<1>17. LostStep
    <2> SUFFICES ASSUME Lost' # Lost
                 PROVE  /\ Lost' > Lost
                        /\ \/ failures' > failures /\ p'.args = p.args
                           \/ p.hasSubparsers /\ p'.hasSubparsers /\ p'.commands = 0
        BY DEF LostStep
    <2>1. ParserBlocks(o.p) # ParserBlocks(p) + made - freed
        BY <1>2, <1>16
    <2>2. Lost' > Lost
        BY <1>2, <1>5, <1>16, <2>1
    <2> QED
        BY <1>1, <1>3, <1>14, <2>1, <2>2 DEF Costs
<1> QED
    BY <1>15, <1>17

\* clap_parser_free releases exactly what the parser owns.
LEMMA FreeKeepsMemory ==
    ASSUME BuilderInv, MemoryInv, FreeParser
    PROVE  MemoryInv' /\ LostStep
<1>1. /\ p' = NoParser /\ live' = [live EXCEPT ![freeFn] = @ - ParserBlocks(p)]
      /\ UNCHANGED <<result, calls, failures, mallocFn, freeFn, reallocFn, locked>>
    BY DEF FreeParser
<1>2. ParserBlocks(p) \in Nat /\ ParserBlocks(p') = 0
    <2>1. ParserBlocks(p) \in Nat
        BY BlocksAreNatural DEF BuilderInv, MemoryInv
    <2> QED
        BY <1>1, <2>1 DEF ParserBlocks, NoParser
<1>3. /\ live \in [Family -> Nat] /\ live["client"] = 0 /\ live["default"] \in Nat
      /\ ParserBlocks(p) <= live["default"] /\ freeFn = "default"
    BY DEF MemoryInv, OneAllocator, Family
<1>4. live["default"] - ParserBlocks(p) \in Nat
    BY <1>2, <1>3
<1>5. /\ live' \in [Family -> Nat] /\ live'["client"] = 0
      /\ live'["default"] = live["default"] - ParserBlocks(p)
    BY <1>1, <1>3, <1>4 DEF Family
<1>6. OneAllocator'
    BY <1>1, <1>5 DEF OneAllocator, MemoryInv
<1>7. crashed' \in BOOLEAN
    BY DEF FreeParser
<1>8. MemoryInv'
    BY <1>1, <1>2, <1>4, <1>5, <1>6, <1>7 DEF MemoryInv
<1>9. Lost' = Lost
    <2>1. Lost = live["default"] - ParserBlocks(p)
        BY LostIs DEF MemoryInv
    <2>2. Lost' = live'["default"] - ParserBlocks(p')
        BY <1>6, LostNextIs
    <2> QED
        BY <1>2, <1>3, <1>5, <2>1, <2>2
<1> QED
    BY <1>8, <1>9 DEF LostStep

LEMMA StepKeepsMemory ==
    ASSUME BuilderInv, MemoryInv, [Next]_vars
    PROVE  MemoryInv' /\ LostStep
<1>1. CASE calls = 0 /\ FirstCall
    <2>0. PICK fails \in Failing : \E o : /\ Called(o, fails) /\ Keeps(NoParser, o, fails)
                                         /\ FirstPays(o, fails)
        BY <1>1 DEF FirstCall
    <2>1. PICK o : Called(o, fails) /\ Keeps(NoParser, o, fails) /\ FirstPays(o, fails)
        BY <2>0
    <2>2. p = NoParser /\ calls < MaxCalls
        BY <1>1, BuilderAssumption DEF MemoryInv
    <2>3. ParserBlocks(p) = 0 /\ p.args = << >>
        BY <2>2 DEF ParserBlocks, NoParser
    <2>4. Costs(o, fails)
        <3>1. o.made \in Nat /\ o.freed = 0 /\ ParserBlocks(p) + o.made - o.freed = o.made
            BY <2>1, <2>3 DEF FirstPays
        <3> QED
            BY <2>1, <2>3, <3>1 DEF Costs, FirstPays, Keeps
    <2> QED
        BY <2>1, <2>2, <2>4, CallKeepsMemory
<1>2. CASE Building /\ LawfulCall
    <2>0. PICK fails \in Failing : \E o : Called(o, fails) /\ Keeps(p, o, fails)
        BY <1>2 DEF LawfulCall
    <2>1. PICK o : Called(o, fails) /\ Keeps(p, o, fails)
        BY <2>0
    <2>2. p.live /\ calls < MaxCalls
        BY <1>2 DEF Building
    <2>3. Tidy(p)
        <3>1. ~NoParser.live
            BY DEF NoParser
        <3> QED
            BY <2>2, <3>1 DEF MemoryInv
    <2>4. Pays(p, o, fails)
        BY <2>1, <2>3 DEF Keeps, Called
    <2>5. Costs(o, fails)
        BY <2>1, <2>4 DEF Costs, Pays, Keeps
    <2> QED
        BY <2>1, <2>2, <2>5, CallKeepsMemory
<1>3. CASE FreeParser
    BY <1>3, FreeKeepsMemory
<1>4. CASE UNCHANGED vars
    <2>1. /\ p' = p /\ result' = result /\ crashed' = crashed /\ calls' = calls
          /\ failures' = failures /\ live' = live /\ mallocFn' = mallocFn /\ freeFn' = freeFn
          /\ reallocFn' = reallocFn /\ locked' = locked
        BY <1>4 DEF vars, allocator
    <2>2. MemoryInv'
        BY <2>1 DEF MemoryInv, OneAllocator
    <2>3. Lost' = Lost
        <3>1. Lost = live["default"] - ParserBlocks(p)
            BY LostIs DEF MemoryInv
        <3>2. Lost' = live'["default"] - ParserBlocks(p')
            BY <2>2, LostNextIs DEF MemoryInv
        <3> QED
            BY <2>1, <3>1, <3>2
    <2> QED
        BY <2>2, <2>3 DEF LostStep
<1> QED
    BY <1>1, <1>2, <1>3, <1>4, StepIsCall DEF Stopped

LEMMA InitEstablishesMemory ==
    ASSUME Init
    PROVE  MemoryInv
<1>1. /\ live = [f \in Family |-> 0] /\ mallocFn = "default" /\ freeFn = "default"
      /\ reallocFn = "default" /\ locked = FALSE
      /\ p = NoParser /\ result = TRUE /\ crashed = FALSE /\ calls = 0 /\ failures = 0
    BY DEF Init, AllocatorInit
<1>2. live \in [Family -> Nat] /\ live["client"] = 0 /\ live["default"] = 0
    BY <1>1 DEF Family
<1>3. ParserBlocks(p) = 0
    BY <1>1 DEF ParserBlocks, NoParser
<1>4. MaxCalls \in Nat /\ MaxFailures \in Nat
    BY BuilderAssumption
<1>5. OneAllocator
    BY <1>1, <1>2 DEF OneAllocator
<1>6. result \in BOOLEAN /\ crashed \in BOOLEAN
    BY <1>1, Zenon
<1>7. calls \in 0..MaxCalls /\ failures \in 0..MaxFailures
    BY <1>1, <1>4
<1>8. ParserBlocks(p) <= live["default"]
    BY <1>2, <1>3
<1> QED
    BY <1>1, <1>5, <1>6, <1>7, <1>8 DEF MemoryInv

-----------------------------------------------------------------------------
(***************************************************************************)
(* The mutex group an argument is in.  Only the groups module and the      *)
(* setter write the id of one, and no call takes an argument out of the    *)
(* group that lists it.                                                    *)
(***************************************************************************)
\* A group with this id lists the argument.
InMutexGroup(groups, x, id) ==
    \E i \in DOMAIN groups : groups[i].id = id /\ x \in ToSet(groups[i].args)

\* So it is with every argument whose id the client did not set.
Members(q, c) ==
    \A x \in ArgId \ c : q.arg[x].group["mutex"] # NONE =>
        InMutexGroup(q.groups["mutex"], x, q.arg[x].group["mutex"])

NoIdLost(q) == q.next["mutex"] = Len(q.groups["mutex"])

MembershipInv == Members(p, chosen) /\ (failures = 0 => NoIdLost(p))

\* The groups stay as they are, and an argument in its group, unless it leaves it.
Unmoved(q, r) ==
    /\ r.groups["mutex"] = q.groups["mutex"] /\ r.next["mutex"] = q.next["mutex"]
    /\ \A x \in ArgId : r.arg[x].group["mutex"] \in {NONE, q.arg[x].group["mutex"]}

LEMMA UnmovedKeeps ==
    ASSUME NEW q, NEW r, NEW c, Unmoved(q, r)
    PROVE  (Members(q, c) => Members(r, c)) /\ (NoIdLost(q) => NoIdLost(r))
BY DEF Unmoved, Members, NoIdLost

LEMMA AlikeUnmoved ==
    ASSUME NEW q, NEW r, Alike(q, r)
    PROVE  Unmoved(q, r)
BY DEF Alike, Unmoved

LEMMA WithUnmoved ==
    ASSUME NEW q \in Parser, NEW x \in ArgId, NEW a, a.group = q.arg[x].group
    PROVE  Unmoved(q, With(q, x, a))
<1> PICK r : r = With(q, x, a)
    OBVIOUS
<1>1. /\ r.groups = q.groups /\ r.next = q.next
      /\ \A y \in ArgId : r.arg[y] = IF y = x THEN a ELSE q.arg[y]
    BY DEF With, Parser
<1> QED
    BY <1>1 DEF Unmoved

\* The settings but clap_argument_mutex_group leave an argument in its group.
LEMMA SettingsUnmoved ==
    ASSUME NEW q \in Parser, NEW x \in ArgId, NEW y, NEW fails
    PROVE  /\ \A text : Unmoved(q, TextSet(q, x, text, fails).p)
           /\ \A message : Unmoved(q, Deprecated(q, x, message, fails).p)
           /\ \A required : Unmoved(q, RequiredSet(q, x, required))
           /\ \A n : Unmoved(q, NargsSet(q, x, n))
           /\ \A action : Unmoved(q, [q EXCEPT !.arg[x].action = action])
           /\ \A n : Unmoved(q, ChoicesSet(q, x, n, fails).p)
           /\ \A type : Unmoved(q, DependencyAdded(q, x, type, y, fails).p)
<1>0. q.arg[x] \in Argument /\ Unmoved(q, q)
    BY DEF Parser, Unmoved
<1>1. ASSUME NEW texts
      PROVE  Unmoved(q, [q EXCEPT !.arg[x].texts = texts])
    <2>1. [q EXCEPT !.arg[x].texts = texts] = With(q, x, [q.arg[x] EXCEPT !.texts = texts])
        BY DEF With
    <2> QED
        BY <1>0, <2>1, WithUnmoved DEF Argument
<1>2. ASSUME NEW flags
      PROVE  Unmoved(q, [q EXCEPT !.arg[x].flags = flags])
    <2>1. [q EXCEPT !.arg[x].flags = flags] = With(q, x, [q.arg[x] EXCEPT !.flags = flags])
        BY DEF With
    <2> QED
        BY <1>0, <2>1, WithUnmoved DEF Argument
<1>3. ASSUME NEW text
      PROVE  Unmoved(q, TextSet(q, x, text, fails).p)
    <2>1. PICK texts : TextSet(q, x, text, fails).p = [q EXCEPT !.arg[x].texts = texts]
        BY DEF TextSet, Outcome
    <2> QED
        BY <1>1, <2>1
<1>4. ASSUME NEW message
      PROVE  Unmoved(q, Deprecated(q, x, message, fails).p)
    <2>1. PICK flags, texts : Deprecated(q, x, message, fails).p
                              = [q EXCEPT !.arg[x].flags = flags, !.arg[x].texts = texts]
        BY DEF Deprecated, Outcome
    <2> DEFINE a == [q.arg[x] EXCEPT !.flags = flags, !.texts = texts]
    <2>2. [q EXCEPT !.arg[x].flags = flags, !.arg[x].texts = texts]
          = With(q, x, a)
        BY DEF With, Parser
    <2>3. a.group = q.arg[x].group
        BY <1>0 DEF Argument
    <2> HIDE DEF a
    <2>4. Unmoved(q, With(q, x, a))
        BY <2>3, WithUnmoved
    <2> QED
        BY <2>1, <2>2, <2>4
<1>5. ASSUME NEW required
      PROVE  Unmoved(q, RequiredSet(q, x, required))
    BY <1>0, <1>2 DEF RequiredSet
<1>6. ASSUME NEW n
      PROVE  Unmoved(q, NargsSet(q, x, n))
    <2>1. PICK action, flags : NargsSet(q, x, n) = [q EXCEPT !.arg[x].nargs = n,
                                   !.arg[x].action = action, !.arg[x].flags = flags]
        BY DEF NargsSet
    <2> DEFINE a == [q.arg[x] EXCEPT !.nargs = n, !.action = action, !.flags = flags]
    <2>2. [q EXCEPT !.arg[x].nargs = n, !.arg[x].action = action, !.arg[x].flags = flags]
          = With(q, x, a)
        BY DEF With, Parser
    <2>3. a.group = q.arg[x].group
        BY <1>0 DEF Argument
    <2> HIDE DEF a
    <2>4. Unmoved(q, With(q, x, a))
        BY <2>3, WithUnmoved
    <2> QED
        BY <2>1, <2>2, <2>4
<1>7. ASSUME NEW action
      PROVE  Unmoved(q, [q EXCEPT !.arg[x].action = action])
    <2>1. [q EXCEPT !.arg[x].action = action] = With(q, x, [q.arg[x] EXCEPT !.action = action])
        BY DEF With
    <2> QED
        BY <1>0, <2>1, WithUnmoved DEF Argument
<1>8. ASSUME NEW n
      PROVE  Unmoved(q, ChoicesSet(q, x, n, fails).p)
    <2>1. PICK number, ok : ChoicesSet(q, x, n, fails).p
                            = [q EXCEPT !.arg[x].choices = number, !.arg[x].choiceArray = ok]
        BY DEF ChoicesSet, Outcome
    <2> DEFINE a == [q.arg[x] EXCEPT !.choices = number, !.choiceArray = ok]
    <2>2. [q EXCEPT !.arg[x].choices = number, !.arg[x].choiceArray = ok]
          = With(q, x, a)
        BY DEF With, Parser
    <2>3. a.group = q.arg[x].group
        BY <1>0 DEF Argument
    <2> HIDE DEF a
    <2>4. Unmoved(q, With(q, x, a))
        BY <2>3, WithUnmoved
    <2> QED
        BY <2>1, <2>2, <2>4
<1>9. ASSUME NEW type
      PROVE  Unmoved(q, DependencyAdded(q, x, type, y, fails).p)
    <2> DEFINE a == [q.arg[x] EXCEPT !.depArray = TRUE]
               dependency == [type |-> type, target |-> y]
               b == [a EXCEPT !.deps = Append(@, dependency)]
               array == [q EXCEPT !.arg[x].depArray = TRUE]
    <2>1. \/ DependencyAdded(q, x, type, y, fails).p = q
          \/ DependencyAdded(q, x, type, y, fails).p = array
          \/ DependencyAdded(q, x, type, y, fails).p
             = [array EXCEPT !.arg[x].deps = Append(@, dependency)]
        BY DEF DependencyAdded, Outcome
    <2>2. array = With(q, x, a)
        BY DEF With
    <2>3. [array EXCEPT !.arg[x].deps = Append(@, dependency)] = With(q, x, b)
        <3>1. With(q, x, a) = [q EXCEPT !.arg = [q.arg EXCEPT ![x] = a]]
            BY DEF With
        <3> HIDE DEF a, array
        <3>2. [With(q, x, a) EXCEPT !.arg[x].deps = Append(@, dependency)] = With(q, x, b)
            BY <3>1 DEF With, Parser
        <3> QED
            BY <2>2, <3>2
    <2>4. a.group = q.arg[x].group /\ b.group = q.arg[x].group
        BY <1>0 DEF Argument
    <2> HIDE DEF a, b
    <2>5. Unmoved(q, With(q, x, a)) /\ Unmoved(q, With(q, x, b))
        BY <2>4, WithUnmoved
    <2> HIDE DEF array
    <2> QED
        BY <1>0, <2>1, <2>2, <2>3, <2>5
<1> QED
    BY <1>3, <1>4, <1>5, <1>6, <1>7, <1>8, <1>9

\* A new argument is in no group.
LEMMA AddedUnmoved ==
    ASSUME NEW q \in Parser, NEW x \in ArgId, NEW spec \in Name, NEW fails,
           NEW o \in Added(q, x, spec, fails)
    PROVE  Unmoved(q, o.p)
<1>1. CASE Alike(q, o.p)
    BY <1>1, AlikeUnmoved
<1>2. CASE Makes(q, o.p, x, Parsed(spec, fails))
    <2>1. PICK a : a = Parsed(spec, fails) /\ a.group["mutex"] = NONE
        BY ParsedIsFresh DEF Fresh
    <2>2. /\ o.p.groups = q.groups /\ o.p.next = q.next
          /\ \A y \in ArgId : o.p.arg[y] = IF y = x THEN a ELSE q.arg[y]
        BY <1>2, <2>1 DEF Makes, Parser
    <2> QED
        BY <2>1, <2>2 DEF Unmoved
<1> QED
    BY <1>1, <1>2, AddedOutcomes

\* Nor is the help option.
LEMMA HelpAddedUnmoved ==
    ASSUME NEW q \in Parser, NEW x \in ArgId, NEW fails, NEW h \in HelpAdded(q, x, fails)
    PROVE  Unmoved(q, h.p) /\ IsOutcome(h)
<1>1. HelpName \in Name
    BY DEF HelpName, Name
<1>2. PICK o \in Added(q, x, HelpName, fails) :
          h = IF ~o.ok THEN o
              ELSE [o EXCEPT !.p.arg[x].action = "HELP",
                             !.p.arg[x].texts = @ \cup ({"help"} \ fails),
                             !.tried = @ \cup {"help"},
                             !.made = @ + One("help" \notin fails)]
    BY DEF HelpAdded
<1>3. Unmoved(q, o.p) /\ IsOutcome(o)
    BY <1>1, AddedUnmoved, AddedOutcomes
<1>4. CASE ~o.ok
    BY <1>2, <1>3, <1>4
<1>5. CASE o.ok
    <2>1. PICK texts, tried, made :
              h = [o EXCEPT !.p.arg[x].action = "HELP", !.p.arg[x].texts = texts,
                            !.tried = tried, !.made = made]
        BY <1>2, <1>5
    <2>2. PICK r : r = o.p
        OBVIOUS
    <2>3. h.p = [r EXCEPT !.arg[x].action = "HELP", !.arg[x].texts = texts] /\ IsOutcome(h)
        BY <1>3, <2>1, <2>2 DEF IsOutcome
    <2>4. r \in Parser
        BY <1>1, <2>2, AddedOutcomes DEF Alike, Makes
    <2>5. r.arg[x] \in Argument
        BY <2>4 DEF Parser
    <2>6. h.p = With(r, x, [r.arg[x] EXCEPT !.action = "HELP", !.texts = texts])
        BY <2>3, <2>4 DEF With, Parser
    <2>7. Unmoved(r, h.p)
        BY <2>4, <2>5, <2>6, WithUnmoved DEF Argument
    <2> QED
        BY <1>3, <2>2, <2>3, <2>7 DEF Unmoved
<1> QED
    BY <1>4, <1>5

LEMMA AddHelpSetUnmoved ==
    ASSUME NEW q \in Parser, NEW add \in BOOLEAN, NEW new \in ArgId, NEW fails,
           NEW o \in AddHelpSet(q, add, new, fails)
    PROVE  Unmoved(q, o.p)
<1> DEFINE r == [q EXCEPT !.addHelp = add]
           helps == {i \in DOMAIN q.args : q.arg[q.args[i]].action = "HELP"}
           x == q.args[Min(helps)]
           f == Forgotten(r, Min(helps))
           gone == [f EXCEPT !.arg[x].freed = TRUE]
<1>1. r \in Parser /\ Unmoved(q, r)
    BY DEF Parser, Unmoved
<1>2. \/ o = Outcome(r, TRUE)
      \/ \E h \in HelpAdded(r, new, fails) : o = [h EXCEPT !.ok = TRUE]
      \/ /\ helps # {}
         /\ o = [Outcome(gone, TRUE) EXCEPT !.freed = ArgumentBlocks(q.arg[x]),
                                           !.crash = FreeCrashes(q.arg[x])]
    <2>1. CASE add = (helps # {})
        BY <2>1 DEF AddHelpSet
    <2>2. CASE add /\ helps = {}
        BY <2>2 DEF AddHelpSet
    <2>3. CASE ~add /\ helps # {}
        BY <2>3 DEF AddHelpSet
    <2> QED
        BY <2>1, <2>2, <2>3
<1>3. ASSUME helps # {}
      PROVE  Unmoved(q, gone)
    <2>1. x \in ArgId
        <3>1. q.args \in Seq(ArgId)
            BY DEF Parser
        <3>2. helps \in SUBSET Nat /\ \A i \in helps : i \in DOMAIN q.args
            BY <3>1
        <3> HIDE DEF helps
        <3>3. PICK k : k = Min(helps) /\ k \in helps
            BY <1>3, <3>2, MinOfNaturals
        <3> QED
            BY <3>1, <3>2, <3>3
    <2>2. PICK args, optionals : f = [r EXCEPT !.args = args, !.optionals = optionals]
        BY DEF Forgotten
    <2>3. f.groups = q.groups /\ f.next = q.next /\ f.arg = q.arg
        BY <2>2 DEF Parser
    <2> HIDE DEF r, f, x
    <2>4. gone.groups = f.groups /\ gone.next = f.next
          /\ gone.arg = [f.arg EXCEPT ![x] = [f.arg[x] EXCEPT !.freed = TRUE]]
        BY <1>1, <2>2 DEF Parser
    <2>5. \A y \in ArgId : gone.arg[y].group = q.arg[y].group
        BY <2>1, <2>3, <2>4 DEF Parser, Argument
    <2> QED
        BY <2>3, <2>4, <2>5 DEF Unmoved
<1> HIDE DEF r, helps, gone
<1>4. CASE o = Outcome(r, TRUE)
    BY <1>1, <1>4 DEF Outcome
<1>5. CASE \E h \in HelpAdded(r, new, fails) : o = [h EXCEPT !.ok = TRUE]
    <2>1. PICK h \in HelpAdded(r, new, fails) : o = [h EXCEPT !.ok = TRUE]
        BY <1>5
    <2>2. Unmoved(r, h.p) /\ IsOutcome(h)
        BY <1>1, HelpAddedUnmoved
    <2>3. o.p = h.p
        BY <2>1, <2>2 DEF IsOutcome
    <2> QED
        BY <1>1, <2>2, <2>3 DEF Unmoved
<1>6. CASE /\ helps # {}
           /\ o = [Outcome(gone, TRUE) EXCEPT !.freed = ArgumentBlocks(q.arg[x]),
                                             !.crash = FreeCrashes(q.arg[x])]
    BY <1>3, <1>6 DEF Outcome
<1> QED
    BY <1>2, <1>4, <1>5, <1>6

\* A new parser has no groups.
LEMMA NewParserUnmoved ==
    ASSUME NEW fails, NEW o \in NewParser(fails)
    PROVE  Unmoved(NoParser, o.p)
<1> DEFINE q == [NoParser EXCEPT !.live = TRUE, !.capacity = ArgCapacity, !.types = Builtin,
                                 !.arrays = {"types"}, !.texts = {"prog"} \ fails]
<1>1. q.groups = NoParser.groups /\ q.next = NoParser.next /\ q.arg = NoParser.arg
    BY DEF NoParser
<1>2. q \in Parser
    BY NewIsParser
<1>3. CASE fails \cap {"parser", "arguments"} # {}
    BY <1>3 DEF NewParser, Outcome, Unmoved
<1>4. CASE fails \cap {"parser", "arguments"} = {}
    <2>1. PICK h, tried, made :
              /\ h \in HelpAdded(q, Help, fails)
              /\ o = [h EXCEPT !.ok = TRUE, !.tried = tried, !.made = made]
        BY <1>4 DEF NewParser
    <2> HIDE DEF q
    <2>2. Unmoved(q, h.p) /\ IsOutcome(h)
        BY <1>2, <2>1, HelpAddedUnmoved, BuilderAssumption
    <2>3. o.p = h.p
        BY <2>1, <2>2 DEF IsOutcome
    <2> QED
        BY <1>1, <2>2, <2>3 DEF Unmoved
<1> QED
    BY <1>3, <1>4

\* What is registered besides arguments and groups touches neither.
LEMMA RegistryUnmoved ==
    ASSUME NEW q \in Parser, NEW fails
    PROVE  /\ \A name : Unmoved(q, TypeRegistered(q, name, fails).p)
           /\ Unmoved(q, SubparsersAdded(q, fails).p)
           /\ Unmoved(q, CommandAdded(q, fails).p)
<1>1. Unmoved(q, q)
    BY DEF Unmoved
<1>2. ASSUME NEW name
      PROVE  Unmoved(q, TypeRegistered(q, name, fails).p)
    <2> DEFINE copy == IF "name" \in fails THEN NoName ELSE name
               r == [ArrayOf(q, "types") EXCEPT !.types = Append(@, copy)]
    <2>1. TypeRegistered(q, name, fails).p = q \/ TypeRegistered(q, name, fails).p = r
        BY DEF TypeRegistered, Outcome
    <2>2. r.groups = q.groups /\ r.next = q.next /\ r.arg = q.arg
        BY DEF ArrayOf, Parser
    <2> QED
        BY <1>1, <2>1, <2>2 DEF Unmoved
<1>3. Unmoved(q, SubparsersAdded(q, fails).p)
    <2>1. PICK r : r = SubparsersAdded(q, fails).p
        OBVIOUS
    <2>2. r.groups = q.groups /\ r.next = q.next /\ r.arg = q.arg
        BY <2>1 DEF SubparsersAdded, Outcome, Parser
    <2> QED
        BY <2>1, <2>2 DEF Unmoved
<1>4. Unmoved(q, CommandAdded(q, fails).p)
    <2>1. PICK r : r = CommandAdded(q, fails).p
        OBVIOUS
    <2>2. r.groups = q.groups /\ r.next = q.next /\ r.arg = q.arg
        BY <2>1 DEF CommandAdded, ArrayOf, Outcome, Parser
    <2> QED
        BY <2>1, <2>2 DEF Unmoved
<1> QED
    BY <1>2, <1>3, <1>4

(***************************************************************************)
(* A new group is behind the others, with the id that was taken for it; a  *)
(* call that takes an id and makes no group has failed for want of memory. *)
(***************************************************************************)
LEMMA GroupAddedMembers ==
    ASSUME NEW q \in Parser, NEW kind \in Kind, NEW fails, NEW c, Members(q, c)
    PROVE  LET r == GroupAdded(q, kind, fails).p
           IN  Members(r, c) /\ (fails = {} /\ NoIdLost(q) => NoIdLost(r))
<1> DEFINE taken == [q EXCEPT !.next[kind] = @ + 1]
           titled == kind = "display" /\ "title" \notin fails
           group == [id |-> q.next[kind], args |-> << >>, titled |-> titled,
                     capacity |-> GroupCapacity]
           last == [ArrayOf(taken, kind) EXCEPT !.groups[kind] = Append(@, group)]
           r == GroupAdded(q, kind, fails).p
           old == q.groups["mutex"]
<1>1. \/ r = q /\ fails # {}
      \/ r = taken /\ fails # {}
      \/ r = last
    BY DEF GroupAdded, Outcome
<1>2. /\ "mutex" \in Kind /\ old \in Seq(Group)
      /\ q.next[kind] \in Nat /\ q.next["mutex"] \in Nat
    BY DEF Kind, Parser
<1>3. /\ taken.arg = q.arg /\ taken.groups = q.groups
      /\ taken.next["mutex"] = IF kind = "mutex" THEN q.next["mutex"] + 1 ELSE q.next["mutex"]
    BY <1>2 DEF Parser
<1> HIDE DEF taken
<1>4. group \in Group
    <2>1. << >> \in Seq(ArgId) /\ titled \in BOOLEAN /\ GroupCapacity \in Nat
        BY BuilderAssumption
    <2> HIDE DEF titled
    <2> QED
        BY <1>2, <2>1 DEF Group
<1> HIDE DEF group
<1>5. /\ last.arg = q.arg /\ last.next["mutex"] = taken.next["mutex"]
      /\ last.groups["mutex"] = IF kind = "mutex" THEN Append(old, group) ELSE old
    <2>1. taken \in Parser
        <3>1. PICK n, next : n = q.next[kind] + 1 /\ next = [q.next EXCEPT ![kind] = n]
            OBVIOUS
        <3>2. taken = [q EXCEPT !.next = next] /\ n \in Nat
            BY <1>2, <3>1 DEF taken
        <3>3. next \in [Kind -> Nat]
            BY <3>1, <3>2 DEF Parser
        <3> QED
            BY <3>2, <3>3 DEF Parser
    <2>2. PICK b : b = ArrayOf(taken, kind)
        OBVIOUS
    <2>3. /\ b.arg = q.arg /\ b.groups = q.groups /\ b.next = taken.next
          /\ last = [b EXCEPT !.groups = [b.groups EXCEPT ![kind] = Append(@, group)]]
        BY <1>3, <2>1, <2>2 DEF ArrayOf, Parser
    <2> HIDE DEF last
    <2>4. /\ last.arg = b.arg /\ last.next = b.next
          /\ last.groups = [b.groups EXCEPT ![kind] = Append(@, group)]
        BY <2>1, <2>2, <2>3 DEF ArrayOf, Parser
    <2> QED
        BY <1>2, <2>3, <2>4 DEF Parser
<1> HIDE DEF last, r
<1>6. r.arg = q.arg
    BY <1>1, <1>3, <1>5
<1>7. ASSUME NEW x, NEW id, InMutexGroup(old, x, id)
      PROVE  InMutexGroup(r.groups["mutex"], x, id)
    <2>1. CASE r.groups["mutex"] = old
        BY <1>7, <2>1
    <2>2. CASE r.groups["mutex"] = Append(old, group)
        <3>1. \A i \in DOMAIN old : i \in DOMAIN Append(old, group) /\ Append(old, group)[i] = old[i]
            BY <1>2, <1>4, AppendEntries
        <3> HIDE DEF old
        <3> QED
            BY <1>7, <2>2, <3>1 DEF InMutexGroup
    <2> QED
        BY <1>1, <1>3, <1>5, <2>1, <2>2
<1>8. Members(r, c)
    BY <1>6, <1>7 DEF Members
<1>9. ASSUME fails = {}, NoIdLost(q)
      PROVE  NoIdLost(r)
    <2>1. r = last
        BY <1>1, <1>9
    <2>2. CASE kind = "mutex"
        <3>1. Len(Append(old, group)) = Len(old) + 1
            BY <1>2, <1>4, AppendProperties
        <3> QED
            BY <1>3, <1>5, <1>9, <2>1, <2>2, <3>1 DEF NoIdLost
    <2>3. CASE kind # "mutex"
        BY <1>3, <1>5, <1>9, <2>1, <2>3 DEF NoIdLost
    <2> QED
        BY <2>2, <2>3
<1> QED
    BY <1>8, <1>9 DEF r

\* An argument that joins a group is listed by it, and nobody leaves one.
LEMMA GroupJoinedMembers ==
    ASSUME NEW q \in Parser, NEW kind \in Kind, NEW id \in Nat, NEW x \in ArgId, NEW fails,
           NEW c, Members(q, c)
    PROVE  LET o == GroupJoined(q, kind, id, x, fails)
           IN  /\ NoIdLost(q) => NoIdLost(o.p)
               /\ Members(o.p, IF kind = "mutex" /\ o.ok THEN c \ {x} ELSE c)
<1> DEFINE found == {i \in DOMAIN q.groups[kind] : q.groups[kind][i].id = id}
           m == Min(found)
           g == q.groups[kind][m]
           full == Len(g.args) >= g.capacity
           new == [g EXCEPT !.args = Append(@, x), !.capacity = IF full THEN 2 * @ ELSE @]
           o == GroupJoined(q, kind, id, x, fails)
           joined == [q EXCEPT !.groups[kind][m] = new, !.arg[x].group[kind] = id]
           d == IF kind = "mutex" /\ o.ok THEN c \ {x} ELSE c
<1>1. /\ q.groups \in [Kind -> Seq(Group)] /\ q.arg \in [ArgId -> Argument]
      /\ q.arg[x].group \in [Kind -> Int]
    BY DEF Parser, Argument
<1>2. \/ o.p = q /\ o.ok = FALSE
      \/ o.p = joined /\ o.ok = TRUE /\ found # {}
    BY DEF GroupJoined, Outcome
<1> HIDE DEF o
<1>3. ASSUME found # {}
      PROVE  m \in DOMAIN q.groups[kind] /\ g.id = id /\ g \in Group
    <2>1. found \in SUBSET Nat
        BY <1>1
    <2>2. m \in found
        BY <1>3, <2>1, MinOfNaturals
    <2> HIDE DEF m
    <2> QED
        BY <1>1, <2>2
<1>4. ASSUME o.p = q, o.ok = FALSE
      PROVE  /\ NoIdLost(q) => NoIdLost(o.p)
             /\ Members(o.p, d)
    <2>1. d = c
        BY <1>4, Zenon
    <2> QED
        BY <1>4, <2>1
<1>5. ASSUME o.p = joined, o.ok = TRUE, found # {}
      PROVE  /\ NoIdLost(q) => NoIdLost(o.p)
             /\ Members(o.p, d)
    <2>1. /\ new.id = id /\ x \in ToSet(new.args)
          /\ \A y \in ToSet(g.args) : y \in ToSet(new.args)
        <3>1. g \in Group /\ g.id = id
            BY <1>3, <1>5
        <3>2. PICK b : new = [g EXCEPT !.args = Append(g.args, x), !.capacity = b]
            BY <3>1 DEF Group
        <3> HIDE DEF new, g
        <3>3. new.id = id /\ new.args = Append(g.args, x) /\ g.args \in Seq(ArgId)
            BY <3>1, <3>2 DEF Group
        <3> QED
            BY <3>3, AppendEntries
    <2> DEFINE r == joined
               group == [q.arg[x].group EXCEPT ![kind] = id]
               a == [q.arg[x] EXCEPT !.group = group]
               all == [q.groups EXCEPT ![kind] = [q.groups[kind] EXCEPT ![m] = new]]
    <2>20. r = [q EXCEPT !.groups = all, !.arg = [q.arg EXCEPT ![x] = a]]
        <3> HIDE DEF new, m
        <3>1. [q EXCEPT !.groups[kind][m] = new] = [q EXCEPT !.groups = all]
            OBVIOUS
        <3>2. PICK w : w = [q EXCEPT !.groups = all]
            OBVIOUS
        <3>3. r = [w EXCEPT !.arg[x].group[kind] = id]
            BY <3>1, <3>2
        <3>4. w.arg = q.arg
            BY <3>2 DEF Parser
        <3> HIDE DEF joined, all
        <3>5. r = [w EXCEPT !.arg = [q.arg EXCEPT ![x] = a]]
            BY <3>3, <3>4
        <3> QED
            BY <3>2, <3>5
    <2>21. a.group = group
        BY <1>1 DEF Argument
    <2> HIDE DEF joined, new, g, m, found, a, all
    <2>2. r.next = q.next /\ r.groups = all /\ r.arg = [q.arg EXCEPT ![x] = a]
        BY <2>20 DEF Parser
    <2>22. d = IF kind = "mutex" THEN c \ {x} ELSE c
        BY <1>5, Zenon
    <2>3. r.groups[kind] = [q.groups[kind] EXCEPT ![m] = new]
        BY <1>1, <2>2 DEF all
    <2>4. \A y \in ArgId : y # x => r.arg[y] = q.arg[y]
        BY <1>1, <2>2
    <2>5. r.arg[x].group = [q.arg[x].group EXCEPT ![kind] = id]
        BY <1>1, <2>2, <2>21
    <2> HIDE DEF d
    <2>6. CASE kind = "mutex"
        <3> DEFINE old == q.groups["mutex"]
                   groups == r.groups["mutex"]
        <3>1. /\ old \in Seq(Group) /\ m \in DOMAIN old /\ old[m] = g /\ g.id = id
              /\ groups = [old EXCEPT ![m] = new]
            BY <1>1, <1>3, <1>5, <2>3, <2>6 DEF g
        <3> HIDE DEF old, groups
        <3>2. /\ DOMAIN groups = DOMAIN old /\ Len(groups) = Len(old)
              /\ \A i \in DOMAIN old : groups[i] = IF i = m THEN new ELSE old[i]
            BY <3>1
        <3>3. ASSUME NEW y, NEW number, InMutexGroup(old, y, number)
              PROVE  InMutexGroup(groups, y, number)
            BY <2>1, <3>1, <3>2, <3>3 DEF InMutexGroup
        <3>4. InMutexGroup(groups, x, id)
            BY <2>1, <3>1, <3>2 DEF InMutexGroup
        <3>5. r.arg[x].group["mutex"] = id
            BY <1>1, <2>5, <2>6 DEF Kind
        <3>6. Members(r, c \ {x})
            <4> SUFFICES ASSUME NEW y \in ArgId \ (c \ {x}), r.arg[y].group["mutex"] # NONE
                         PROVE  InMutexGroup(groups, y, r.arg[y].group["mutex"])
                BY DEF Members, groups
            <4>1. CASE y = x
                BY <3>4, <3>5, <4>1
            <4>2. CASE y # x
                <5>1. y \in ArgId \ c /\ r.arg[y] = q.arg[y]
                    BY <2>4, <4>2
                <5>2. InMutexGroup(old, y, r.arg[y].group["mutex"])
                    BY <5>1 DEF Members, old
                <5> QED
                    BY <3>3, <5>2
            <4> QED
                BY <4>1, <4>2
        <3>7. NoIdLost(q) => NoIdLost(r)
            BY <2>2, <3>2 DEF NoIdLost, groups, old
        <3> QED
            BY <1>5, <2>22, <2>6, <3>6, <3>7
    <2>7. CASE kind # "mutex"
        <3>1. "mutex" \in Kind /\ r.groups["mutex"] = q.groups["mutex"]
            BY <1>1, <2>2, <2>7 DEF Kind, all
        <3>2. r.arg[x].group["mutex"] = q.arg[x].group["mutex"]
            BY <1>1, <2>5, <2>7, <3>1
        <3>3. Unmoved(q, r)
            BY <2>2, <2>4, <3>1, <3>2 DEF Unmoved
        <3> QED
            BY <1>5, <2>22, <2>7, <3>3, UnmovedKeeps
    <2> QED
        BY <2>6, <2>7
<1> HIDE DEF joined, found
<1> QED
    BY <1>2, <1>4, <1>5 DEF o

\* A call that moves no argument keeps what is said of the groups.
LEMMA CalledKeepsMembership ==
    ASSUME failures \in Nat, NEW fails \in Failing, NEW o, NEW q, Called(o, fails),
           Unmoved(q, o.p), Members(q, chosen), failures = 0 => NoIdLost(q),
           UNCHANGED chosen
    PROVE  MembershipInv'
<1>1. failures' = 0 => failures = 0
    BY NoneFailed
<1>2. Members(o.p, chosen) /\ (NoIdLost(q) => NoIdLost(o.p))
    BY UnmovedKeeps
<1>3. p' = o.p /\ chosen' = chosen
    BY DEF Called
<1> QED
    BY <1>1, <1>2, <1>3 DEF MembershipInv

LEMMA NoParserHasNoMembers ==
    ASSUME NEW c
    PROVE  Members(NoParser, c) /\ NoIdLost(NoParser)
<1>1. /\ \A x \in ArgId : NoParser.arg[x] = NoArgument
      /\ NoParser.groups["mutex"] = << >> /\ NoParser.next["mutex"] = 0
    BY DEF NoParser, Kind
<1>2. NoArgument.group["mutex"] = NONE
    BY DEF NoArgument, Kind
<1> QED
    BY <1>1, <1>2 DEF Members, NoIdLost

LEMMA InitEstablishesMembership ==
    ASSUME Init
    PROVE  MembershipInv
BY NoParserHasNoMembers DEF Init, MembershipInv

LEMMA StepKeepsMembership ==
    ASSUME BuilderInv, MembershipInv, [Next]_vars
    PROVE  MembershipInv'
<1>1. p \in Parser /\ failures \in Nat /\ Members(p, chosen) /\ (failures = 0 => NoIdLost(p))
    BY DEF BuilderInv, Safe, MembershipInv
<1>2. \A x \in Arguments : x \in ArgId
    BY DEF Arguments
<1>3. {} \in Failing
    BY DEF Failing
<1>4. ASSUME UNCHANGED chosen, NEW fails \in Failing, NEW o, Called(o, fails), Unmoved(p, o.p)
      PROVE  MembershipInv'
    BY <1>1, <1>4, CalledKeepsMembership
<1>5. \A r : Outcome(r, TRUE).p = r
    BY DEF Outcome
<1>6. CASE New
    <2>1. PICK fails \in Failing : \E o \in NewParser(fails) : Called(o, fails)
        BY <1>6 DEF New
    <2>2. PICK o \in NewParser(fails) : Called(o, fails)
        BY <2>1
    <2>3. UNCHANGED chosen
        BY <1>6 DEF New
    <2> QED
        BY <1>1, <2>2, <2>3, NewParserUnmoved, NoParserHasNoMembers, CalledKeepsMembership
<1>7. CASE AddArgument
    <2>1. PICK x \in Unused, name \in Name, fails \in Failing :
              \E o \in Added(p, x, name, fails) : Called(o, fails)
        BY <1>7 DEF AddArgument
    <2>2. PICK o \in Added(p, x, name, fails) : Called(o, fails)
        BY <2>1
    <2>3. x \in ArgId /\ UNCHANGED chosen
        BY <1>7 DEF Unused, AddArgument
    <2> QED
        BY <1>1, <1>4, <2>2, <2>3, AddedUnmoved
<1>8. CASE SetText \/ SetDeprecated \/ SetRequired \/ SetNargs \/ SetAction \/ SetChoices
           \/ AddDependency
    <2>0. UNCHANGED chosen
        BY <1>8 DEF SetText, SetDeprecated, SetRequired, SetNargs, SetAction, SetChoices,
                    AddDependency
    <2>1. CASE SetText
        <3>1. PICK x \in Arguments, text \in Text, fails \in Failing :
                  Called(TextSet(p, x, text, fails), fails)
            BY <2>1 DEF SetText
        <3> QED
            BY <1>1, <1>2, <1>4, <2>0, <3>1, SettingsUnmoved
    <2>2. CASE SetDeprecated
        <3>1. PICK x \in Arguments, message \in BOOLEAN, fails \in Failing :
                  Called(Deprecated(p, x, message, fails), fails)
            BY <2>2 DEF SetDeprecated
        <3> QED
            BY <1>1, <1>2, <1>4, <2>0, <3>1, SettingsUnmoved
    <2>3. CASE SetRequired
        <3>1. PICK x \in Arguments, required \in BOOLEAN :
                  Called(Outcome(RequiredSet(p, x, required), TRUE), {})
            BY <2>3 DEF SetRequired
        <3>2. Unmoved(p, RequiredSet(p, x, required))
            BY <1>1, <1>2, SettingsUnmoved
        <3> QED
            BY <1>3, <1>4, <1>5, <2>0, <3>1, <3>2
    <2>4. CASE SetNargs
        <3>1. PICK x \in Arguments, n \in Nargs : Called(Outcome(NargsSet(p, x, n), TRUE), {})
            BY <2>4 DEF SetNargs
        <3>2. Unmoved(p, NargsSet(p, x, n))
            BY <1>1, <1>2, SettingsUnmoved
        <3> QED
            BY <1>3, <1>4, <1>5, <2>0, <3>1, <3>2
    <2>5. CASE SetAction
        <3>1. PICK x \in Arguments, action \in Action :
                  Called(Outcome([p EXCEPT !.arg[x].action = action], TRUE), {})
            BY <2>5 DEF SetAction
        <3>2. Unmoved(p, [p EXCEPT !.arg[x].action = action])
            BY <1>1, <1>2, SettingsUnmoved
        <3> QED
            BY <1>3, <1>4, <1>5, <2>0, <3>1, <3>2
    <2>6. CASE SetChoices
        <3>1. PICK x \in Arguments, n \in 1..2, fails \in Failing :
                  Called(ChoicesSet(p, x, n, fails), fails)
            BY <2>6 DEF SetChoices
        <3> QED
            BY <1>1, <1>2, <1>4, <2>0, <3>1, SettingsUnmoved
    <2>7. CASE AddDependency
        <3>1. PICK x \in Arguments, y \in Arguments, type \in {"REQUIRES", "CONFLICTS"},
                   fails \in Failing : Called(DependencyAdded(p, x, type, y, fails), fails)
            BY <2>7 DEF AddDependency
        <3> QED
            BY <1>1, <1>2, <1>4, <2>0, <3>1, SettingsUnmoved
    <2> QED
        BY <1>8, <2>1, <2>2, <2>3, <2>4, <2>5, <2>6, <2>7
<1>9. CASE AddGroup
    <2>1. PICK kind \in Kind, fails \in Failing : Called(GroupAdded(p, kind, fails), fails)
        BY <1>9 DEF AddGroup
    <2>2. PICK r : r = GroupAdded(p, kind, fails).p
        OBVIOUS
    <2>3. Members(r, chosen) /\ (fails = {} /\ NoIdLost(p) => NoIdLost(r))
        BY <1>1, <2>2, GroupAddedMembers
    <2>4. failures' = 0 => failures = 0 /\ fails = {}
        BY <1>1, <2>1, NoneFailed
    <2>5. p' = r /\ chosen' = chosen
        BY <1>9, <2>1, <2>2 DEF AddGroup, Called
    <2> QED
        BY <1>1, <2>3, <2>4, <2>5 DEF MembershipInv
<1>10. CASE JoinGroup
    <2>1. PICK kind \in Kind, x \in Arguments, fails \in Failing :
              \E id \in 0..p.next[kind] :
                 /\ Called(GroupJoined(p, kind, id, x, fails), fails)
                 /\ chosen' = IF kind = "mutex" /\ result' THEN chosen \ {x} ELSE chosen
        BY <1>10 DEF JoinGroup
    <2>2. PICK id \in 0..p.next[kind] :
              /\ Called(GroupJoined(p, kind, id, x, fails), fails)
              /\ chosen' = IF kind = "mutex" /\ result' THEN chosen \ {x} ELSE chosen
        BY <2>1
    <2>3. PICK o : o = GroupJoined(p, kind, id, x, fails)
        OBVIOUS
    <2>4. id \in Nat
        BY <1>1, <2>2 DEF Parser
    <2>5. /\ NoIdLost(p) => NoIdLost(o.p)
          /\ Members(o.p, IF kind = "mutex" /\ o.ok THEN chosen \ {x} ELSE chosen)
        BY <1>1, <1>2, <2>3, <2>4, GroupJoinedMembers
    <2>6. failures' = 0 => failures = 0
        BY <1>1, <2>2, NoneFailed
    <2>7. p' = o.p /\ result' = o.ok
        BY <2>2, <2>3 DEF Called
    <2>8. Members(p', chosen')
        BY <2>2, <2>5, <2>7, Zenon
    <2>9. Members(p, chosen)' <=> Members(p', chosen')
        BY DEF Members
    <2>10. NoIdLost(p)' <=> NoIdLost(p')
        BY DEF NoIdLost
    <2> QED
        BY <1>1, <2>5, <2>6, <2>7, <2>8, <2>9, <2>10 DEF MembershipInv
<1>11. CASE SetMutexGroup
    <2>1. PICK x \in Arguments, id \in MutexId :
              /\ Called(Outcome([p EXCEPT !.arg[x].group["mutex"] = id], TRUE), {})
              /\ chosen' = chosen \cup {x}
        BY <1>11 DEF SetMutexGroup
    <2>2. p' = [p EXCEPT !.arg[x].group["mutex"] = id]
        BY <1>5, <2>1 DEF Called
    <2>3. PICK r : r = [p EXCEPT !.arg[x].group["mutex"] = id]
        OBVIOUS
    <2>4. /\ r.groups = p.groups /\ r.next = p.next
          /\ \A y \in ArgId : y # x => r.arg[y] = p.arg[y]
        BY <1>1, <2>3 DEF Parser
    <2>5. Members(r, chosen')
        BY <1>1, <2>1, <2>4 DEF Members
    <2>6. NoIdLost(p) => NoIdLost(r)
        BY <2>4 DEF NoIdLost
    <2>7. failures' = 0 => failures = 0
        BY <1>1, <1>3, <2>1, NoneFailed
    <2> QED
        BY <1>1, <2>2, <2>3, <2>5, <2>6, <2>7 DEF MembershipInv
<1>12. CASE RegisterType \/ AddSubparsers \/ AddCommand
    <2>0. UNCHANGED chosen
        BY <1>12 DEF RegisterType, AddSubparsers, AddCommand
    <2>1. CASE RegisterType
        <3>1. PICK name \in TypeName, fails \in Failing :
                  Called(TypeRegistered(p, name, fails), fails)
            BY <2>1 DEF RegisterType
        <3> QED
            BY <1>1, <1>4, <2>0, <3>1, RegistryUnmoved
    <2>2. CASE AddSubparsers
        <3>1. PICK fails \in Failing : Called(SubparsersAdded(p, fails), fails)
            BY <2>2 DEF AddSubparsers
        <3> QED
            BY <1>1, <1>4, <2>0, <3>1, RegistryUnmoved
    <2>3. CASE AddCommand
        <3>1. PICK fails \in Failing : Called(CommandAdded(p, fails), fails)
            BY <2>3 DEF AddCommand
        <3> QED
            BY <1>1, <1>4, <2>0, <3>1, RegistryUnmoved
    <2> QED
        BY <1>12, <2>1, <2>2, <2>3
<1>13. CASE SetAddHelp
    <2>1. PICK add \in BOOLEAN, fails \in Failing, new \in Unused :
              \E o \in AddHelpSet(p, add, new, fails) : Called(o, fails)
        BY <1>13 DEF SetAddHelp
    <2>2. PICK o \in AddHelpSet(p, add, new, fails) : Called(o, fails)
        BY <2>1
    <2>3. new \in ArgId /\ UNCHANGED chosen
        BY <1>13 DEF Unused, SetAddHelp
    <2> QED
        BY <1>1, <1>4, <2>2, <2>3, AddHelpSetUnmoved
<1>14. CASE FreeParser
    BY <1>14, NoParserHasNoMembers DEF FreeParser, MembershipInv
<1>15. CASE Stopped \/ UNCHANGED vars
    BY <1>15 DEF Stopped, vars, MembershipInv
<1> QED
    BY <1>6, <1>7, <1>8, <1>9, <1>10, <1>11, <1>12, <1>13, <1>14, <1>15 DEF Next

\* Only arguments of the client's are given an id by it.
LEMMA StepKeepsChosen ==
    ASSUME chosen \subseteq ArgId, [Next]_vars
    PROVE  chosen' \subseteq ArgId
<1>1. CASE JoinGroup
    <2>1. \E x \in Arguments : chosen' \in {chosen, chosen \ {x}}
        BY <1>1 DEF JoinGroup
    <2> QED
        BY <2>1
<1>2. CASE SetMutexGroup
    BY <1>2 DEF SetMutexGroup, Arguments
<1>3. CASE ~JoinGroup /\ ~SetMutexGroup
    <2>1. chosen' = chosen
        BY <1>3 DEF Next, New, AddArgument, SetText, SetDeprecated, SetRequired, SetNargs,
            SetAction, SetChoices, AddDependency, AddGroup, RegisterType, AddSubparsers,
            AddCommand, SetAddHelp, FreeParser, Stopped, vars
    <2> QED
        BY <2>1
<1> QED
    BY <1>1, <1>2, <1>3

-----------------------------------------------------------------------------
(***************************************************************************)
(* The theorems.                                                           *)
(***************************************************************************)
\* The invariant of the parser that is being built holds after every call (clap_parser.c).
THEOREM BuilderInvariance == Spec => []BuilderInv
<1>1. Init => BuilderInv
    BY InitEstablishes
<1>2. BuilderInv /\ [Next]_vars => BuilderInv'
    BY NextPreserves
<1> QED
    BY <1>1, <1>2, PTL DEF Spec

(***************************************************************************)
(* Whatever is set and in whatever order, MULTIPLE and REQUIRED follow     *)
(* from the nargs of an argument (clap_argument.c:187-273).                *)
(***************************************************************************)
THEOREM FlagsFollowNargsAlways == Spec => []FlagsFollowNargs
<1>1. BuilderInv => FlagsFollowNargs
    BY DEF BuilderInv, Safe, FlagsOf, FlagsFollowNargs, Arguments
<1> QED
    BY <1>1, BuilderInvariance, PTL

(***************************************************************************)
(* parser->arguments never holds a released argument or one twice, and the *)
(* arrays of options and of positionals list its arguments in the order    *)
(* they were added (clap_argument.c:131-163, clap_parser.c:150-172).       *)
(***************************************************************************)
THEOREM IndexedInOrderAlways == Spec => []IndexedInOrder
<1>1. BuilderInv => IndexedInOrder
    BY DEF BuilderInv, Safe, ArgumentsOnce, Whole, Indices, IndexedInOrder
<1> QED
    BY <1>1, BuilderInvariance, PTL

(***************************************************************************)
(* Whichever groups are added and joined and whichever of those calls      *)
(* fail, the id of an argument that the client did not set is that of a    *)
(* group which lists the argument, and its index in the arrays of          *)
(* clap_mutex_check_conflict, unless an id below it was lost to a failed   *)
(* allocation (clap_mutex.c:8-92).                                         *)
(***************************************************************************)
THEOREM GroupIdsAreIndicesAlways == Spec => []GroupIdsAreIndices
<1>1. ASSUME BuilderInv, MembershipInv
      PROVE  GroupIdsAreIndices
    <2> DEFINE groups == p.groups["mutex"]
    <2> SUFFICES ASSUME NEW x \in Arguments \ chosen, p.arg[x].group["mutex"] # NONE
                 PROVE  \E i \in DOMAIN groups :
                           /\ groups[i].id = p.arg[x].group["mutex"]
                           /\ x \in ToSet(groups[i].args)
                           /\ \/ i = p.arg[x].group["mutex"] + 1
                              \/ /\ failures > 0
                                 /\ IdLostBelow(groups, p.arg[x].group["mutex"])
        BY DEF GroupIdsAreIndices
    <2>1. IdsOf(groups, p.next["mutex"]) /\ failures \in Nat /\ groups \in Seq(Group)
        BY <1>1 DEF BuilderInv, Safe, GroupIds, Parser, Kind
    <2>2. x \in ArgId \ chosen
        BY DEF Arguments
    <2>3. PICK i \in DOMAIN groups : /\ groups[i].id = p.arg[x].group["mutex"]
                                     /\ x \in ToSet(groups[i].args)
        BY <1>1, <2>2 DEF MembershipInv, Members, InMutexGroup
    <2>4. groups[i].id \in Nat /\ i \in Nat
        <3> HIDE DEF groups
        <3>1. groups[i] \in Group /\ i \in Nat
            BY <2>1, <2>3
        <3> QED
            BY <3>1 DEF Group
    <2>5. CASE failures = 0
        <3>1. p.next["mutex"] = Len(groups)
            BY <1>1, <2>5 DEF MembershipInv, NoIdLost
        <3>2. groups[i].id = i - 1
            BY <2>1, <2>3, <3>1 DEF IdsOf
        <3> QED
            BY <2>3, <2>4, <3>2
    <2>6. CASE failures > 0
        <3>1. groups[i].id = i - 1 \/ IdLostBelow(groups, groups[i].id)
            BY <2>1, <2>3 DEF IdsOf
        <3> QED
            BY <2>3, <2>4, <2>6, <3>1
    <2> QED
        BY <2>1, <2>5, <2>6
<1>2. Init => MembershipInv
    BY InitEstablishesMembership
<1>3. BuilderInv /\ MembershipInv /\ [Next]_vars => MembershipInv'
    BY StepKeepsMembership
<1>4. BuilderInv /\ MembershipInv => GroupIdsAreIndices
    BY <1>1
<1> QED
    BY <1>2, <1>3, <1>4, BuilderInvariance, PTL DEF Spec

(***************************************************************************)
(* Building and releasing a parser uses no NULL pointer unless an          *)
(* allocation has failed (clap_argument.c:207-214, clap_dependency.c:24-25,*)
(* clap_parser.c:190-192).                                                 *)
(***************************************************************************)
THEOREM BuilderCrashesExplained == Spec => []CrashesExplained
<1>1. BuilderInv => CrashesExplained
    BY DEF BuilderInv, CrashesExplained
<1> QED
    BY <1>1, BuilderInvariance, PTL

(***************************************************************************)
(* Every variable has its type whatever is built: the arrays have no more  *)
(* dependencies than they hold, and no block is released that is not live  *)
(* (clap_parser.c:46-121, clap_dependency.c:6-66).                         *)
(***************************************************************************)
THEOREM BuilderTypeOKAlways == Spec => []TypeOK
<1>1. BuilderInv /\ MemoryInv /\ chosen \subseteq ArgId => TypeOK
    <2> SUFFICES ASSUME BuilderInv, MemoryInv, chosen \subseteq ArgId
                 PROVE  TypeOK
        OBVIOUS
    <2>1. AllocatorTypeOK
        BY DEF MemoryInv, OneAllocator, AllocatorTypeOK, Family
    <2>2. p \in Parser /\ \A x \in ArgId : Len(p.arg[x].deps) <= MaxDependencies
        BY DEF BuilderInv, Safe
    <2>3. {result, crashed} \subseteq BOOLEAN
        BY DEF MemoryInv
    <2>4. calls \in 0..MaxCalls /\ failures \in 0..MaxFailures
        BY DEF MemoryInv
    <2> QED
        BY <2>1, <2>2, <2>3, <2>4 DEF TypeOK
<1>2. Init => MemoryInv
    BY InitEstablishesMemory
<1>3. BuilderInv /\ MemoryInv /\ [Next]_vars => MemoryInv'
    BY StepKeepsMemory
<1>4. Init => chosen \subseteq ArgId
    BY DEF Init
<1>5. chosen \subseteq ArgId /\ [Next]_vars => (chosen \subseteq ArgId)'
    BY StepKeepsChosen
<1> QED
    BY <1>1, <1>2, <1>3, <1>4, <1>5, BuilderInvariance, PTL DEF Spec

(***************************************************************************)
(* No call loses memory or releases a block twice, except one that fails   *)
(* for want of memory while it parses an option's name, and a second       *)
(* clap_add_subparsers (clap_argument.c:127-132, clap_subparser.c:13-39).  *)
(***************************************************************************)
THEOREM LostOnlyTwoWaysAlways == Spec => LostOnlyTwoWays
<1>1. Init => MemoryInv
    BY InitEstablishesMemory
<1>2. BuilderInv /\ MemoryInv /\ [Next]_vars => MemoryInv' /\ LostStep
    BY StepKeepsMemory
<1>3. LostStep => [Lost' # Lost /\ ~crashed' =>
         /\ Lost' > Lost
         /\ \/ failures' > failures /\ p'.args = p.args
            \/ p.hasSubparsers /\ p'.hasSubparsers /\ p'.commands = 0]_vars
    BY DEF LostStep
<1> QED
    BY <1>1, <1>2, <1>3, BuilderInvariance, PTL DEF Spec, LostOnlyTwoWays

-----------------------------------------------------------------------------
(***************************************************************************)
(* The rows of the help, counted.                                          *)
(***************************************************************************)
\* How often an entry is in a sequence.
LEMMA OccurrencesCount ==
    ASSUME NEW S, NEW s \in Seq(S), NEW x
    PROVE  /\ Occurrences(s, x) \in Nat
           /\ Occurrences(s, x) = 0 <=> x \notin ToSet(s)
           /\ Once(s) /\ x \in ToSet(s) => Occurrences(s, x) = 1
<1> DEFINE places == {i \in DOMAIN s : s[i] = x}
<1>1. DOMAIN s = 1..Len(s) /\ Len(s) \in Nat
    OBVIOUS
<1>2. IsFiniteSet(places)
    <2>1. IsFiniteSet(1..Len(s))
        BY <1>1, FS_Interval
    <2> QED
        BY <1>1, <2>1, FS_Subset
<1>3. Cardinality(places) \in Nat /\ (Cardinality(places) = 0 <=> places = {})
    BY <1>2, FS_CardinalityType, FS_EmptySet
<1>4. places = {} <=> x \notin ToSet(s)
    BY DEF ToSet
<1>5. ASSUME Once(s), x \in ToSet(s)
      PROVE  Cardinality(places) = 1
    <2>1. PICK i \in places : TRUE
        BY <1>4, <1>5
    <2>2. places = {i}
        BY <1>5, <2>1 DEF Once
    <2> QED
        BY <2>2, FS_Singleton
<1> HIDE DEF places
<1>6. Occurrences(s, x) = Cardinality(places)
    BY DEF Occurrences, places
<1> QED
    BY <1>3, <1>4, <1>5, <1>6

\* How often an argument is listed by each group.
Listed(groups, x) == [i \in DOMAIN groups |-> Occurrences(groups[i].args, x)]

LEMMA MembershipsSum ==
    ASSUME NEW q, NEW kind, NEW x
    PROVE  Memberships(q, kind, x) = SumOver(Listed(q.groups[kind], x), DOMAIN q.groups[kind])
<1> DEFINE groups == q.groups[kind]
           D == DOMAIN groups
           Counts(g) ==
               g = [T \in SUBSET D |->
                      IF T = {} THEN 0
                      ELSE Occurrences(groups[Chosen(T)].args, x) + g[T \ {Chosen(T)}]]
           counts == CHOOSE g : Counts(g)
           iter   == CHOOSE g : IsSum(Listed(groups, x), D, g)
<1>1. \A T \in SUBSET D :
          T # {} => Listed(groups, x)[Chosen(T)] = Occurrences(groups[Chosen(T)].args, x)
    BY ChosenIsMember DEF Listed
<1>2. \A g : Counts(g) <=> IsSum(Listed(groups, x), D, g)
    <2> SUFFICES ASSUME NEW g
                 PROVE  Counts(g) <=> IsSum(Listed(groups, x), D, g)
        OBVIOUS
    <2> DEFINE a == [T \in SUBSET D |->
                        IF T = {} THEN 0
                        ELSE Occurrences(groups[Chosen(T)].args, x) + g[T \ {Chosen(T)}]]
               b == [T \in SUBSET D |->
                        IF T = {} THEN 0
                        ELSE Listed(groups, x)[Chosen(T)] + g[T \ {Chosen(T)}]]
    <2>1. a = b
        BY <1>1
    <2> QED
        BY <2>1 DEF IsSum
<1>3. counts = iter
    <2> HIDE DEF Counts
    <2> QED
        BY <1>2
<1>4. SumOver(Listed(groups, x), D) = iter[D]
    BY DEF SumOver, MapThenSumSet, MapThenFoldSet, IsSum, Chosen
<1>5. Memberships(q, kind, x) = counts[D]
    BY DEF Memberships, MapThenSumSet, MapThenFoldSet, Chosen
<1> HIDE DEF D, counts, iter
<1> QED
    BY <1>3, <1>4, <1>5 DEF D

\* It is a member of no group exactly if none lists it.
LEMMA MembershipsCount ==
    ASSUME NEW q \in Parser, NEW kind \in Kind, NEW x
    PROVE  /\ Memberships(q, kind, x) \in Nat
           /\ Memberships(q, kind, x) = 0
              <=> \A i \in DOMAIN q.groups[kind] : x \notin ToSet(q.groups[kind][i].args)
<1>1. PICK groups : groups = q.groups[kind]
    OBVIOUS
<1>2. groups \in Seq(Group) /\ DOMAIN groups = 1..Len(groups) /\ Len(groups) \in Nat
    BY <1>1 DEF Parser
<1>3. IsFiniteSet(DOMAIN groups)
    BY <1>2, FS_Interval
<1>4. \A i \in DOMAIN groups : groups[i].args \in Seq(ArgId)
    <2>1. \A i \in DOMAIN groups : groups[i] \in Group
        BY <1>2, Zenon, ElementOfSeq
    <2> QED
        BY <2>1 DEF Group
<1>5. PICK f : f = Listed(groups, x)
    OBVIOUS
<1>6. \A i \in DOMAIN groups : f[i] = Occurrences(groups[i].args, x)
    BY <1>5 DEF Listed
<1>7. \A i \in DOMAIN groups : f[i] \in Nat /\ (f[i] = 0 <=> x \notin ToSet(groups[i].args))
    BY <1>4, <1>6, OccurrencesCount
<1>8. SumOver(f, DOMAIN groups) \in Nat /\ \A i \in DOMAIN groups : f[i] <= SumOver(f, DOMAIN groups)
    BY <1>3, <1>7, SumOfNaturals
<1>9. (\A i \in DOMAIN groups : f[i] = 0) => SumOver(f, DOMAIN groups) = 0
    BY <1>3, SumOfZeros
<1>10. SumOver(f, DOMAIN groups) = 0 => \A i \in DOMAIN groups : f[i] = 0
    BY <1>7, <1>8
<1>11. Memberships(q, kind, x) = SumOver(f, DOMAIN groups)
    BY <1>1, <1>5, MembershipsSum
<1> QED
    BY <1>1, <1>7, <1>8, <1>9, <1>10, <1>11

LEMMA MaxOfOneAnd ==
    ASSUME NEW n \in Nat
    PROVE  Max({1, n}) = IF n = 0 THEN 1 ELSE n
<1>1. {1, n} \in SUBSET Nat /\ \A i \in {1, n} : i <= n + 1
    OBVIOUS
<1>2. Max({1, n}) \in {1, n} /\ \A j \in {1, n} : j <= Max({1, n})
    BY <1>1, MaxOfBounded
<1> QED
    BY <1>2

\* In the sections it has one row for each group that lists it, or else one.
LEMMA RowsOfEach ==
    ASSUME NEW q, NEW x \in ArgId, Safe(q), Shown(q), Indexes(q, x)
    PROVE  UngroupedRows(q, x) + GroupRows(q, x) = Max({1, Memberships(q, "display", x)})
<1>1. PICK m, b, c : /\ m = Memberships(q, "display", x)
                     /\ b = Occurrences(q.positionals, x) /\ c = Occurrences(q.optionals, x)
    OBVIOUS
<1>2. q \in Parser /\ q.positionals \in Seq(ArgId) /\ q.optionals \in Seq(ArgId)
    BY DEF Safe, Parser
<1>3. "display" \in Kind
    BY DEF Kind
<1>4. m \in Nat /\ (m = 0 <=> ~InDisplayGroup(q, x))
    BY <1>1, <1>2, <1>3, MembershipsCount DEF InDisplayGroup
<1>5. b + c = 1
    <2>1. /\ b \in Nat /\ (b = 0 <=> x \notin ToSet(q.positionals))
          /\ Once(q.positionals) /\ x \in ToSet(q.positionals) => b = 1
        BY <1>1, <1>2, OccurrencesCount
    <2>2. /\ c \in Nat /\ (c = 0 <=> x \notin ToSet(q.optionals))
          /\ Once(q.optionals) /\ x \in ToSet(q.optionals) => c = 1
        BY <1>1, <1>2, OccurrencesCount
    <2>3. CASE x \in ToSet(q.positionals)
        BY <2>1, <2>2, <2>3 DEF Shown, IndexedOnce
    <2>4. CASE x \in ToSet(q.optionals)
        BY <2>1, <2>2, <2>4 DEF Shown, IndexedOnce
    <2> QED
        BY <2>3, <2>4 DEF Indexes
<1>6. m = 0 <=> q.arg[x].group["display"] = NONE
    BY <1>4 DEF Shown, Displayed
<1>7. UngroupedRows(q, x) = (IF m = 0 THEN 1 ELSE 0) /\ GroupRows(q, x) = m
    BY <1>1, <1>5, <1>6 DEF UngroupedRows, GroupRows
<1>8. Max({1, m}) = IF m = 0 THEN 1 ELSE m
    BY <1>4, MaxOfOneAnd
<1> QED
    BY <1>1, <1>4, <1>7, <1>8

\* The usage line names it, but for what it leaves out and what a group should have named.
LEMMA UsageOfEach ==
    ASSUME NEW q, NEW x \in ArgId, Safe(q), Indexes(q, x)
    PROVE  \/ q.arg[x].action = "HELP"
           \/ q.arg[x].group["mutex"] # NONE /\ Memberships(q, "mutex", x) = 0
           \/ UsageItems(q, x) > 0
<1> DEFINE places == {i \in DOMAIN q.optionals : q.optionals[i] = x /\ UsageOption(q, x)}
<1>1. PICK m, b, c : /\ m = Memberships(q, "mutex", x) /\ b = Occurrences(q.positionals, x)
                     /\ c = Cardinality(places)
    OBVIOUS
<1>2. q \in Parser /\ q.positionals \in Seq(ArgId) /\ q.optionals \in Seq(ArgId)
    BY DEF Safe, Parser
<1>3. "mutex" \in Kind
    BY DEF Kind
<1>4. m \in Nat
    BY <1>1, <1>2, <1>3, MembershipsCount
<1>5. b \in Nat /\ (b = 0 <=> x \notin ToSet(q.positionals))
    BY <1>1, <1>2, OccurrencesCount
<1>6. c \in Nat /\ (c = 0 <=> places = {})
    <2>1. DOMAIN q.optionals = 1..Len(q.optionals) /\ Len(q.optionals) \in Nat
        BY <1>2
    <2>2. IsFiniteSet(1..Len(q.optionals))
        BY <2>1, FS_Interval
    <2>3. IsFiniteSet(places)
        BY <2>1, <2>2, FS_Subset
    <2> QED
        BY <1>1, <2>3, FS_CardinalityType, FS_EmptySet
<1>7. UsageOption(q, x) => b # 0 \/ c # 0
    <2>1. UsageOption(q, x) /\ x \in ToSet(q.optionals) => places # {}
        BY DEF ToSet
    <2> QED
        BY <1>5, <1>6, <2>1 DEF Indexes
<1>8. UsageItems(q, x) = c + m + b
    BY <1>1 DEF UsageItems
<1>9. CASE m # 0
    BY <1>4, <1>5, <1>6, <1>8, <1>9
<1>10. CASE UsageOption(q, x)
    BY <1>4, <1>5, <1>6, <1>7, <1>8, <1>10
<1> QED
    BY <1>1, <1>9, <1>10 DEF UsageOption

(***************************************************************************)
(* Whichever allocations fail: an argument the parser has indexed has a    *)
(* row in the help, one for each display group it is in or else exactly    *)
(* one, and the usage line names it, unless it is the help option or has   *)
(* the id of a mutually exclusive group that does not list it              *)
(* (clap_formatter.c:232-322, 370-461; clap_display_group.c:61-73).        *)
(***************************************************************************)
THEOREM HelpShownAlways == Spec => []HelpShowsEach
<1>1. BuilderInv => HelpShowsEach
    <2> SUFFICES ASSUME BuilderInv, NEW x \in Arguments, Indexes(p, x)
                 PROVE  /\ UngroupedRows(p, x) + GroupRows(p, x)
                               = Max({1, Memberships(p, "display", x)})
                        /\ \/ p.arg[x].action = "HELP"
                           \/ /\ p.arg[x].group["mutex"] # NONE
                              /\ Memberships(p, "mutex", x) = 0
                           \/ UsageItems(p, x) > 0
        BY DEF HelpShowsEach
    <2>1. x \in ArgId /\ Safe(p) /\ Shown(p)
        BY DEF Arguments, BuilderInv
    <2> QED
        BY <2>1, RowsOfEach, UsageOfEach
<1> QED
    BY <1>1, BuilderInvariance, PTL
=============================================================================
