-------------------------- MODULE Subcommands_proofs --------------------------
(***************************************************************************)
(* Subcommands: what a parse leaves behind, whom its error names, whose    *)
(* values win and what the tests of a parser see.  For every tree of       *)
(* parsers, every command line, and any number of parses and failures.     *)
(***************************************************************************)
EXTENDS Subcommands, TLAPS, NaturalsInduction, WellFoundedInduction,
        SequenceTheorems, FiniteSetTheorems

(***************************************************************************)
(* Numbers.                                                                *)
(***************************************************************************)
LEMMA LeastNatural ==
    ASSUME NEW S \in SUBSET Nat, S # {}
    PROVE  \E i \in S : \A j \in S : i <= j
<1>1. PICK i \in S : \A j \in S : ~(<<j, i>> \in OpToRel(<, Nat))
  BY NatLessThanWellFounded, WFMin
<1>2. \A j \in S : ~(j < i)
  BY <1>1 DEF OpToRel
<1> QED
  BY <1>2

LEMMA MinOfNaturals ==
    ASSUME NEW S \in SUBSET Nat, S # {}
    PROVE  Min(S) \in S /\ \A j \in S : Min(S) <= j
BY LeastNatural DEF Min

LEMMA MaxOfBounded ==
    ASSUME NEW S \in SUBSET Nat, S # {}, NEW n \in Nat, \A i \in S : i <= n
    PROVE  Max(S) \in S /\ \A j \in S : j <= Max(S)
<1> DEFINE D == {n - i : i \in S}
<1>1. D \in SUBSET Nat /\ D # {}
  <2>1. \A i \in S : n - i \in Nat
    OBVIOUS
  <2> QED
    BY <2>1
<1>2. PICK d \in D : \A j \in D : d <= j
  BY <1>1, LeastNatural
<1>3. PICK i \in S : d = n - i
  BY <1>2
<1>4. \A j \in S : j <= i
  <2> SUFFICES ASSUME NEW j \in S
               PROVE  j <= i
    OBVIOUS
  <2>1. n - j \in D
    OBVIOUS
  <2> QED
    BY <1>2, <1>3, <2>1
<1> QED
  BY <1>4 DEF Max

-----------------------------------------------------------------------------
(***************************************************************************)
(* ParserAt is a recursive function of the line and the path: its equation *)
(* holds for each of them, however long.                                   *)
(***************************************************************************)
Tree(l, q) ==
    CHOOSE f : f = [n \in 1..(Len(l) + 1) |->
                      IF n = 1 THEN Root ELSE Commands[f[n - 1]][l[q[n - 1]]]]

Chain(l, q, f, m) ==
    f = [n \in 1..m |-> IF n = 1 THEN Root ELSE Commands[f[n - 1]][l[q[n - 1]]]]

LEMMA ChainGrows ==
    ASSUME NEW l, NEW q, NEW m \in Nat \ {0}, NEW g, Chain(l, q, g, m - 1)
    PROVE  \E f : Chain(l, q, f, m)
<1> DEFINE f == [n \in 1..m |->
                    IF n < m THEN g[n]
                    ELSE IF n = 1 THEN Root ELSE Commands[g[n - 1]][l[q[n - 1]]]]
<1>1. ASSUME NEW n \in 1..m
      PROVE  f[n] = IF n = 1 THEN Root ELSE Commands[f[n - 1]][l[q[n - 1]]]
  <2>1. CASE n = m
    BY <2>1
  <2>2. CASE n < m
    <3>1. n \in 1..(m - 1) /\ f[n] = g[n]
      BY <2>2
    <3>2. g[n] = IF n = 1 THEN Root ELSE Commands[g[n - 1]][l[q[n - 1]]]
      BY <3>1 DEF Chain
    <3>3. n # 1 => f[n - 1] = g[n - 1]
      BY <2>2
    <3> QED
      BY <3>1, <3>2, <3>3
  <2> QED
    BY <2>1, <2>2
<1>2. f = [n \in 1..m |-> f[n]]
  OBVIOUS
<1>3. Chain(l, q, f, m)
  <2> HIDE DEF f
  <2> QED
    BY <1>1, <1>2 DEF Chain
<1> QED
  BY <1>3

LEMMA ChainExists ==
    ASSUME NEW l, NEW q, NEW m \in Nat
    PROVE  \E f : Chain(l, q, f, m)
<1> DEFINE Without == {n \in Nat : ~\E f : Chain(l, q, f, n)}
<1> SUFFICES Without = {}
  OBVIOUS
<1> SUFFICES ASSUME Without # {}
             PROVE  FALSE
  OBVIOUS
<1>1. PICK n \in Without : \A j \in Without : n <= j
  BY LeastNatural
<1>2. Chain(l, q, [i \in 1..0 |-> Root], 0)
  BY DEF Chain
<1>3. n # 0
  BY <1>2
<1>4. n - 1 \in Nat /\ n - 1 \notin Without
  BY <1>1, <1>3
<1> QED
  BY <1>3, <1>4, ChainGrows

LEMMA TreeEquation ==
    ASSUME NEW l, Len(l) \in Nat, NEW q
    PROVE  Tree(l, q) = [n \in 1..(Len(l) + 1) |->
                IF n = 1 THEN Root ELSE Commands[Tree(l, q)[n - 1]][l[q[n - 1]]]]
<1>1. Tree(l, q) = CHOOSE f : Chain(l, q, f, Len(l) + 1)
  BY DEF Tree, Chain
<1>2. Chain(l, q, Tree(l, q), Len(l) + 1)
  BY <1>1, ChainExists
<1> QED
  BY <1>2 DEF Chain

\* The first parser is the client's, and each word of the path leads from one to the next.
LEMMA TreeAt ==
    ASSUME NEW l, Len(l) \in Nat, NEW q
    PROVE  /\ Tree(l, q)[1] = Root
           /\ \A n \in 1..Len(l) : Tree(l, q)[n + 1] = Commands[Tree(l, q)[n]][l[q[n]]]
<1>1. \A n \in 1..(Len(l) + 1) :
          Tree(l, q)[n] = IF n = 1 THEN Root ELSE Commands[Tree(l, q)[n - 1]][l[q[n - 1]]]
  <2> DEFINE T == Tree(l, q)
  <2>1. T = [n \in 1..(Len(l) + 1) |->
                 IF n = 1 THEN Root ELSE Commands[T[n - 1]][l[q[n - 1]]]]
    BY TreeEquation
  <2> HIDE DEF T
  <2>2. \A n \in 1..(Len(l) + 1) :
            T[n] = IF n = 1 THEN Root ELSE Commands[T[n - 1]][l[q[n - 1]]]
    BY <2>1, Zenon
  <2> QED
    BY <2>2 DEF T
<1>2. Tree(l, q)[1] = Root
  BY <1>1
<1>3. ASSUME NEW n \in 1..Len(l)
      PROVE  Tree(l, q)[n + 1] = Commands[Tree(l, q)[n]][l[q[n]]]
  <2>1. n + 1 \in 1..(Len(l) + 1) /\ n + 1 # 1 /\ (n + 1) - 1 = n
    OBVIOUS
  <2> QED
    BY <1>1, <2>1
<1> QED
  BY <1>2, <1>3

\* A path that grows keeps the parsers it led to.
LEMMA TreeGrows ==
    ASSUME NEW l, Len(l) \in Nat, NEW q \in Seq(Nat), NEW x \in Nat,
           NEW n \in 1..(Len(l) + 1), n <= Len(q) + 1
    PROVE  Tree(l, Append(q, x))[n] = Tree(l, q)[n]
<1> DEFINE r == Append(q, x)
           Other == {i \in Nat : i \in 1..n /\ Tree(l, r)[i] # Tree(l, q)[i]}
<1> SUFFICES ASSUME Other # {}
             PROVE  FALSE
  OBVIOUS
<1>1. PICK i \in Other : \A j \in Other : i <= j
  BY LeastNatural
<1>2. i # 1
  BY TreeAt
<1>3. i - 1 \in 1..n /\ i - 1 \notin Other /\ i - 1 \in 1..Len(q) /\ i - 1 \in 1..Len(l)
  BY <1>1, <1>2
<1>4. Tree(l, r)[i - 1] = Tree(l, q)[i - 1]
  BY <1>3
<1>5. r[i - 1] = q[i - 1]
  BY <1>3
<1>6. (i - 1) + 1 = i
  BY <1>1
<1> HIDE DEF r
<1>7. Tree(l, r)[i] = Tree(l, q)[i]
  BY <1>3, <1>4, <1>5, <1>6, TreeAt
<1> QED
  BY <1>1, <1>7

LEMMA ParserAtIs == ParserAt = Tree(line, path) /\ ParserAt' = Tree(line', path')
BY DEF ParserAt, Tree

-----------------------------------------------------------------------------
Value == [from : {"ABSENT", "GIVEN", "DEFAULT", "COMMAND"}, level : Nat, type : Type]
Frame == [parser : Parser, phase : Phase, pos : Nat, used : SUBSET (SUBSET Word),
          ns : [Key -> Value]]
Early == {"namespace", "used", "tokens", "pattern", "parse", "full"}
Late == {"checks", "defaults"}
Failed == {"ERROR", "HELP"}
Code == {"NONE", "MEMORY", "UNRECOGNIZED", "MUTUALLY_EXCLUSIVE", "TOO_MANY_ARGS",
         "REQUIRED_MISSING", "DEPENDENCY_VIOLATION", "TYPE_CONVERSION"}

TypeInv ==
    /\ line \in Seq(Word) /\ path \in Seq(Nat) /\ frames \in Seq(Frame)
    /\ held \subseteq Nat \X Resource
    /\ {returning, result} \subseteq {"NONE", "SUCCESS"} \cup Failed
    /\ error \in [code : Code, name : Word \cup {NoWord}]
    /\ {failedAt, failures} \subseteq Nat

\* The values that the actions write have their types.
LEMMA ValueTypes ==
    /\ Absent \in Value /\ EmptyNs \in [Key -> Value]
    /\ \A n \in Nat : CommandName(n) \in Value
    /\ \A n \in Nat, q \in Parser, k \in Key :
          /\ Given(n, q, k) \in Value
          /\ k \in DOMAIN Defaults[q] => Default(n, q, k) \in Value
<1>1. Absent \in Value /\ \A n \in Nat : CommandName(n) \in Value
  BY DEF Absent, CommandName, Value, Type
<1>2. EmptyNs \in [Key -> Value]
  BY <1>1 DEF EmptyNs
<1>3. \A q \in Parser, k \in Key :
          TypeOf(q, k) \in Type /\ (k \in DOMAIN Defaults[q] => Defaults[q][k] \in Type)
  BY SubcommandsAssumption DEF TypeOf, Type
<1>4. ASSUME NEW n \in Nat, NEW q \in Parser, NEW k \in Key
      PROVE  /\ Given(n, q, k) \in Value
             /\ k \in DOMAIN Defaults[q] => Default(n, q, k) \in Value
  BY <1>3 DEF Given, Default, Value
<1> QED
  BY <1>1, <1>2, <1>4

LEMMA OnTop ==
    ASSUME TypeInv, ~Idle
    PROVE  /\ Depth \in Nat /\ Depth >= 1 /\ Top \in Frame
           /\ Top.ns \in [Key -> Value] /\ Top.pos \in Nat
           /\ \A i \in 1..Depth : frames[i] \in Frame
<1>1. Depth \in Nat /\ Depth >= 1
  BY DEF TypeInv, Idle, Depth
<1>2. \A i \in 1..Depth : frames[i] \in Frame
  BY <1>1 DEF TypeInv, Depth
<1>3. Top \in Frame
  BY <1>1, <1>2 DEF Top
<1> QED
  BY <1>1, <1>2, <1>3 DEF Frame

LEMMA ContinuesType ==
    ASSUME TypeInv, ~Idle, NEW frame \in Frame, NEW resources \in SUBSET Resource,
           Continues(frame, resources)
    PROVE  /\ TypeInv'
           /\ Depth' = Depth /\ ~Idle' /\ Top' = frame
           /\ \A i \in 1..(Depth - 1) : frames'[i] = frames[i]
<1>1. frames' \in Seq(Frame) /\ Len(frames') = Len(frames)
  BY OnTop, ExceptSeq DEF Continues, TypeInv, Depth
<1>2. /\ frames'[Depth] = frame
      /\ \A i \in 1..(Depth - 1) : frames'[i] = frames[i]
  BY OnTop DEF Continues, TypeInv, Depth
<1>3. held' \subseteq Nat \X Resource
  BY OnTop DEF Continues, TypeInv
<1>4. frames' # << >>
  BY <1>1, OnTop DEF Depth
<1> QED
  BY <1>1, <1>2, <1>3, <1>4 DEF Continues, TypeInv, Depth, Top, Idle, history

LEMMA FailsType ==
    ASSUME TypeInv, ~Idle, NEW code \in Code, NEW released, Fails(code, released),
           failures' \in Nat
    PROVE  TypeInv'
BY OnTop DEF Fails, Returns, TypeInv, Failed, Depth

-----------------------------------------------------------------------------
(***************************************************************************)
(* The frames.  The path leads through commands, each further along the    *)
(* line than the one before.  A frame is that of the parser the path leads *)
(* to; all but the innermost wait for a command at their position; one     *)
(* that has not seen a command succeed has what its own words gave it; its *)
(* groups are used by its own words; and before that the path ends at the  *)
(* innermost frame.                                                        *)
(***************************************************************************)
First(n) == IF n = 1 THEN 1 ELSE path[n - 1] + 1
Passed(i, pos) == {KeyAt(i, j) : j \in First(i)..(pos - 1)}
UsedBy(i, pos) == {g \in Groups[ParserAt[i]] : \E j \in First(i)..(pos - 1) : line[j] \in g}
EndOf(i) == IF i <= Len(path) THEN path[i] ELSE Len(line) + 1

PathInv ==
    \A i \in DOMAIN path :
        path[i] \in i..Len(line) /\ line[path[i]] \in DOMAIN Commands[ParserAt[i]]

FrameAt(i) ==
    LET f == frames[i]
    IN  /\ f.parser = ParserAt[i]
        /\ f.pos \in First(i)..(Len(line) + 1) /\ i <= f.pos
        /\ i < Depth => f.phase = "called"
        /\ f.phase = "called" => i <= Len(path) /\ f.pos = path[i]
        /\ f.phase \in Late => f.pos = EndOf(i)
        /\ f.used = UsedBy(i, f.pos)
        /\ f.phase \in Early \cup {"called"} =>
              \A k \in Key : f.ns[k] = IF k \in Passed(i, f.pos)
                                        THEN Given(i, ParserAt[i], k) ELSE Absent

FrameInv ==
    /\ Depth <= Len(path) + 1
    /\ \A i \in 1..Depth : FrameAt(i)
    /\ Idle => returning = "NONE"
    /\ ~Idle => result = "NONE" /\ shown = "NONE"
    /\ ~Idle /\ returning = "NONE" =>
          /\ Top.phase # "called"
          /\ Top.phase \in Early => Depth = Len(path) + 1
    /\ returning = "SUCCESS" => Top.phase = "defaults"

StructInv == TypeInv /\ PathInv /\ FrameInv

LEMMA SameParsers ==
    ASSUME UNCHANGED <<line, path>>
    PROVE  ParserAt' = ParserAt /\ (PathInv => PathInv')
<1>1. ParserAt' = ParserAt
  BY ParserAtIs
<1> QED
  BY <1>1 DEF PathInv

LEMMA SameWords ==
    ASSUME UNCHANGED <<line, path>>
    PROVE  \A n, pos : /\ First(n)' = First(n) /\ EndOf(n)' = EndOf(n)
                       /\ Passed(n, pos)' = Passed(n, pos)
                       /\ UsedBy(n, pos)' = UsedBy(n, pos)
BY SameParsers DEF First, EndOf, Passed, UsedBy, KeyAt

LEMMA PathShort ==
    ASSUME TypeInv, PathInv
    PROVE  /\ Len(path) <= Len(line)
           /\ \A i \in 1..Len(path) : /\ path[i] \in Nat /\ path[i] >= i
                                      /\ path[i] <= Len(line) /\ line[path[i]] \in Word
<1>1. \A i \in 1..Len(path) : path[i] \in Nat /\ path[i] >= i /\ path[i] <= Len(line)
  BY DEF TypeInv, PathInv
<1>2. \A i \in 1..Len(path) : line[path[i]] \in Word
  <2> SUFFICES ASSUME NEW i \in 1..Len(path)
               PROVE  line[path[i]] \in Word
    OBVIOUS
  <2>1. path[i] \in 1..Len(line)
    BY <1>1 DEF TypeInv
  <2> QED
    BY <2>1 DEF TypeInv
<1>3. Len(path) \in Nat /\ Len(line) \in Nat
  BY DEF TypeInv
<1>4. Len(path) <= Len(line)
  <2>1. CASE Len(path) = 0
    BY <1>3, <2>1
  <2>2. CASE Len(path) # 0
    <3>1. Len(path) \in 1..Len(path)
      BY <1>3, <2>2
    <3> QED
      BY <1>1, <1>3, <3>1
  <2> QED
    BY <2>1, <2>2
<1> QED
  BY <1>1, <1>2, <1>4

\* The innermost frame goes on with a phase, a position and values that fit.
LEMMA ContinuesStruct ==
    ASSUME StructInv, ~Idle, returning = "NONE",
           NEW frame \in Frame, NEW resources \in SUBSET Resource,
           Continues(frame, resources),
           frame.parser = Top.parser, frame.phase # "called",
           frame.pos \in First(Depth)..(Len(line) + 1), Depth <= frame.pos,
           frame.phase \in Late => frame.pos = EndOf(Depth),
           frame.used = UsedBy(Depth, frame.pos),
           frame.phase \in Early =>
               /\ Depth = Len(path) + 1
               /\ \A k \in Key : frame.ns[k] =
                      IF k \in Passed(Depth, frame.pos)
                      THEN Given(Depth, ParserAt[Depth], k) ELSE Absent
    PROVE  StructInv'
<1>1. /\ TypeInv' /\ Depth' = Depth /\ ~Idle' /\ Top' = frame
      /\ \A i \in 1..(Depth - 1) : frames'[i] = frames[i]
  BY ContinuesType DEF StructInv
<1>2. /\ line' = line /\ path' = path /\ returning' = returning /\ result' = result
      /\ shown' = shown
  BY DEF Continues, history
<1>3. ParserAt' = ParserAt /\ PathInv'
  BY <1>2, SameParsers DEF StructInv
<1>4. \A n, pos : /\ First(n)' = First(n) /\ EndOf(n)' = EndOf(n)
                   /\ Passed(n, pos)' = Passed(n, pos) /\ UsedBy(n, pos)' = UsedBy(n, pos)
  BY <1>2, SameWords
<1>5. ASSUME NEW i \in 1..Depth
      PROVE  FrameAt(i)'
  <2>1. FrameAt(i)
    BY DEF StructInv, FrameInv
  <2>2. CASE i < Depth
    <3>1. frames'[i] = frames[i]
      BY <1>1, <2>2, OnTop DEF StructInv
    <3> QED
      BY <1>1, <1>2, <1>3, <1>4, <2>1, <3>1 DEF FrameAt
  <2>3. CASE i = Depth
    <3>1. frames'[i] = frame /\ frames[i] = Top
      BY <1>1, <2>3 DEF Top
    <3> QED
      BY <1>1, <1>2, <1>3, <1>4, <2>1, <2>3, <3>1 DEF FrameAt
  <2> QED
    BY <2>2, <2>3, OnTop DEF StructInv
<1>6. \A i \in 1..Depth' : FrameAt(i)'
  BY <1>1, <1>5
<1> QED
  BY <1>1, <1>2, <1>3, <1>6 DEF StructInv, FrameInv

\* Nothing of the line, the path and the frames changes.
LEMMA KeptStruct ==
    ASSUME StructInv, TypeInv', UNCHANGED <<line, path, frames>>,
           Idle => returning' = "NONE",
           ~Idle => /\ UNCHANGED <<result, shown>>
                    /\ returning' \in Failed \/ UNCHANGED returning
    PROVE  StructInv'
<1>1. ParserAt' = ParserAt /\ PathInv'
  BY SameParsers DEF StructInv
<1>2. \A n, pos : /\ First(n)' = First(n) /\ EndOf(n)' = EndOf(n)
                   /\ Passed(n, pos)' = Passed(n, pos) /\ UsedBy(n, pos)' = UsedBy(n, pos)
  BY SameWords
<1>3. Depth' = Depth /\ Idle' = Idle /\ Top' = Top
  BY DEF Depth, Idle, Top
<1>4. \A i \in 1..Depth' : FrameAt(i)'
  BY <1>1, <1>2, <1>3 DEF StructInv, FrameInv, FrameAt
<1> QED
  BY <1>1, <1>3, <1>4 DEF StructInv, FrameInv, Failed

LEMMA PhaseStruct ==
    ASSUME StructInv, NEW phase, Running(phase),
           NEW next \in Phase \ {"called"}, next \in Early => phase \in Early,
           next \in Late => phase \in Late \/ Top.pos = EndOf(Depth),
           NEW resources \in SUBSET Resource,
           Continues([Top EXCEPT !.phase = next], resources)
    PROVE  StructInv'
<1>1. PICK frame : frame = [Top EXCEPT !.phase = next]
  OBVIOUS
<1>2. ~Idle /\ returning = "NONE" /\ Top.phase = phase /\ Top \in Frame
      /\ Depth \in Nat /\ Depth >= 1
  BY OnTop DEF StructInv, Running
<1>3. frame \in Frame /\ frame.parser = Top.parser /\ frame.phase = next
      /\ frame.pos = Top.pos /\ frame.used = Top.used /\ frame.ns = Top.ns
  BY <1>1, <1>2 DEF Frame
<1>4. FrameAt(Depth) /\ (Top.phase \in Early => Depth = Len(path) + 1)
  BY <1>2 DEF StructInv, FrameInv
<1>5. /\ Top.pos \in First(Depth)..(Len(line) + 1) /\ Depth <= Top.pos
      /\ Top.phase \in Late => Top.pos = EndOf(Depth)
      /\ Top.used = UsedBy(Depth, Top.pos)
      /\ Top.phase \in Early =>
            \A k \in Key : Top.ns[k] = IF k \in Passed(Depth, Top.pos)
                                        THEN Given(Depth, ParserAt[Depth], k) ELSE Absent
  BY <1>4 DEF FrameAt, Top
<1>6. Continues(frame, resources)
  BY <1>1
<1> QED
  BY <1>2, <1>3, <1>4, <1>5, <1>6, ContinuesStruct

LEMMA StopsStruct ==
    ASSUME StructInv, NEW phase, Running(phase), NEW released,
           failures' \in Nat,
           \/ \E code \in Code : Fails(code, released)
           \/ Returns("HELP", released) /\ UNCHANGED error
    PROVE  StructInv'
<1>1. ~Idle /\ Depth \in Nat
  BY OnTop DEF StructInv, Running
<1>2. TypeInv'
  <2>1. CASE \E code \in Code : Fails(code, released)
    BY <1>1, <2>1, FailsType DEF StructInv
  <2>2. CASE Returns("HELP", released) /\ UNCHANGED error
    BY <1>1, <2>2 DEF StructInv, TypeInv, Returns, Failed
  <2> QED
    BY <2>1, <2>2
<1>3. /\ UNCHANGED <<line, path, frames, result, shown>>
      /\ returning' \in Failed
  BY DEF Fails, Returns, Failed
<1> QED
  BY <1>1, <1>2, <1>3, KeptStruct

LEMMA NoMemoryStruct ==
    ASSUME StructInv, NEW phase, Running(phase), NEW released, OutOfMemory(released)
    PROVE  StructInv'
<1>1. failures' \in Nat /\ \E code \in Code : Fails(code, released)
  BY DEF OutOfMemory, StructInv, TypeInv, Code
<1> QED
  BY <1>1, StopsStruct

LEMMA HoldsType == Holds \subseteq Resource
BY DEF Holds

LEMMA StagesStruct ==
    ASSUME StructInv, GetNamespace \/ GetUsed \/ GetTokens \/ GetPattern
    PROVE  StructInv'
<1> USE DEF Phase, Early, Late, Resource
<1>1. CASE GetNamespace
  <2>1. CASE Gets("namespace", "used")
    BY <1>1, <2>1, PhaseStruct, HoldsType DEF GetNamespace, Gets
  <2> QED
    BY <1>1, <2>1, NoMemoryStruct DEF GetNamespace
<1>2. CASE GetUsed
  <2>1. CASE Gets("used", "tokens")
    BY <1>2, <2>1, PhaseStruct, HoldsType DEF GetUsed, Gets
  <2>2. CASE Continues([Top EXCEPT !.phase = "tokens"], Holds)
    BY <1>2, <2>2, PhaseStruct, HoldsType DEF GetUsed
  <2> QED
    BY <1>2, <2>1, <2>2, NoMemoryStruct DEF GetUsed
<1>3. CASE GetTokens
  <2>1. CASE Gets("tokens", "pattern")
    BY <1>3, <2>1, PhaseStruct, HoldsType DEF GetTokens, Gets
  <2>2. CASE Continues([Top EXCEPT !.phase = "pattern"], Holds)
    BY <1>3, <2>2, PhaseStruct, HoldsType DEF GetTokens
  <2> QED
    BY <1>3, <2>1, <2>2, NoMemoryStruct DEF GetTokens
<1>4. CASE GetPattern
  <2>1. CASE Gets("pattern", "parse")
    BY <1>4, <2>1, PhaseStruct, HoldsType DEF GetPattern, Gets
  <2>2. CASE Fails("UNRECOGNIZED", {"tokens", "used", "namespace"}) /\ UNCHANGED failures
    <3>1. "UNRECOGNIZED" \in Code /\ failures' \in Nat
      BY <2>2 DEF Code, StructInv, TypeInv
    <3> QED
      BY <1>4, <2>2, <3>1, StopsStruct DEF GetPattern
  <2> QED
    BY <1>4, <2>1, <2>2, NoMemoryStruct DEF GetPattern
<1> QED
  BY <1>1, <1>2, <1>3, <1>4

(***************************************************************************)
(* A word that the innermost frame takes: an option, or the positional's.  *)
(***************************************************************************)
Takes(next, k) ==
    Continues([Top EXCEPT !.phase = next, !.pos = @ + 1, !.used = @ \cup GroupsOf(W),
                          !.ns[k] = Given(Depth, Top.parser, k)], Holds)

TakesOption ==
    AtWord /\ W \in DOMAIN Options[Top.parser] /\ Takes("parse", W)

TakesPositional ==
    /\ AtWord /\ ~IsOption(W) /\ Positional[Top.parser] # NoWord
    /\ Takes("full", Positional[Top.parser])

\* No group has a word that is no option of its parser.
LEMMA InGroups ==
    ASSUME NEW q \in Parser, NEW g \in Groups[q], NEW w \in g
    PROVE  IsOption(w)
BY SubcommandsAssumption DEF IsOption

LEMMA OptionTakes ==
    ASSUME StructInv, ParseOption
    PROVE  \/ TakesOption
           \/ Fails("MUTUALLY_EXCLUSIVE", AfterStage) /\ UNCHANGED failures
<1>1. Top.phase = "parse" /\ Top \in Frame /\ AtWord /\ W \in DOMAIN Options[Top.parser]
  BY OnTop DEF StructInv, ParseOption, AtWord, Running
<1>2. CASE Continues([Top EXCEPT !.pos = @ + 1, !.used = @ \cup GroupsOf(W),
                                 !.ns[W] = Given(Depth, Top.parser, W)], Holds)
  <2>1. PICK f, g : /\ f = [Top EXCEPT !.pos = @ + 1, !.used = @ \cup GroupsOf(W),
                                       !.ns[W] = Given(Depth, Top.parser, W)]
                    /\ g = [Top EXCEPT !.phase = "parse", !.pos = @ + 1,
                                       !.used = @ \cup GroupsOf(W),
                                       !.ns[W] = Given(Depth, Top.parser, W)]
    OBVIOUS
  <2>2. f = g
    <3>1. PICK pos, used, ns : /\ pos = Top.pos + 1 /\ used = Top.used \cup GroupsOf(W)
                               /\ ns = [Top.ns EXCEPT ![W] = Given(Depth, Top.parser, W)]
      OBVIOUS
    <3>2. f = [Top EXCEPT !.pos = pos, !.used = used, !.ns = ns]
      BY <2>1, <3>1
    <3>3. g = [Top EXCEPT !.phase = "parse", !.pos = pos, !.used = used, !.ns = ns]
      BY <2>1, <3>1
    <3> QED
      BY <1>1, <3>2, <3>3 DEF Frame
  <2> QED
    BY <1>1, <1>2, <2>1, <2>2 DEF TakesOption, Takes
<1> QED
  BY <1>2 DEF ParseOption

LEMMA PositionalTakes ==
    ASSUME StructInv, ParsePositional
    PROVE  TakesPositional
<1>1. Top \in Frame /\ AtWord /\ ~IsOption(W) /\ Top.parser \in Parser
  BY OnTop DEF StructInv, ParsePositional, AtWord, Running, Frame
<1>2. GroupsOf(W) = {}
  BY <1>1, InGroups DEF GroupsOf
<1>3. PICK k : k = Positional[Top.parser]
  OBVIOUS
<1>4. PICK f, g : /\ f = [Top EXCEPT !.phase = "full", !.pos = @ + 1,
                                     !.ns[k] = Given(Depth, Top.parser, k)]
                  /\ g = [Top EXCEPT !.phase = "full", !.pos = @ + 1,
                                     !.used = @ \cup GroupsOf(W),
                                     !.ns[k] = Given(Depth, Top.parser, k)]
  OBVIOUS
<1>5. f = g
  BY <1>1, <1>2, <1>4 DEF Frame
<1> QED
  BY <1>1, <1>3, <1>4, <1>5 DEF ParsePositional, TakesPositional, Takes

LEMMA TakenFrame ==
    ASSUME StructInv, AtWord, NEW k \in Key, NEW next \in {"parse", "full"}, Takes(next, k)
    PROVE  \E frame \in Frame :
             /\ Continues(frame, Holds)
             /\ frame.parser = Top.parser /\ frame.phase = next /\ frame.pos = Top.pos + 1
             /\ frame.used = Top.used \cup GroupsOf(W)
             /\ \A i \in Key : frame.ns[i] = IF i = k THEN Given(Depth, Top.parser, k)
                                              ELSE Top.ns[i]
<1>1. Top \in Frame /\ Depth \in Nat /\ Top.parser \in Parser
  BY OnTop DEF StructInv, AtWord, Running, Frame
<1>2. PICK v : v = Given(Depth, Top.parser, k)
  OBVIOUS
<1>3. v \in Value /\ Top.ns \in [Key -> Value] /\ Top.pos \in Nat
      /\ Top.used \in SUBSET (SUBSET Word)
  BY <1>1, <1>2, ValueTypes DEF Frame
<1>4. PICK ns : ns = [Top.ns EXCEPT ![k] = v]
  OBVIOUS
<1>5. ns \in [Key -> Value] /\ \A i \in Key : ns[i] = IF i = k THEN v ELSE Top.ns[i]
  BY <1>3, <1>4
<1>6. PICK used : used = Top.used \cup GroupsOf(W)
  OBVIOUS
<1>7. used \in SUBSET (SUBSET Word)
  BY <1>1, <1>3, <1>6, SubcommandsAssumption DEF GroupsOf
<1>8. PICK frame : frame = [Top EXCEPT !.phase = next, !.pos = @ + 1, !.used = used,
                                       !.ns[k] = v]
  OBVIOUS
<1>9. frame = [parser |-> Top.parser, phase |-> next, pos |-> Top.pos + 1, used |-> used,
               ns |-> ns]
  BY <1>1, <1>4, <1>8 DEF Frame
<1>10. frame \in Frame
  BY <1>1, <1>3, <1>5, <1>7, <1>9 DEF Frame, Phase
<1>11. Continues(frame, Holds)
  <2>1. frame = [Top EXCEPT !.phase = next, !.pos = @ + 1, !.used = @ \cup GroupsOf(W),
                            !.ns[k] = Given(Depth, Top.parser, k)]
    BY <1>2, <1>6, <1>8
  <2> QED
    BY <2>1 DEF Takes
<1> QED
  BY <1>2, <1>5, <1>6, <1>9, <1>10, <1>11

LEMMA TakesStruct ==
    ASSUME StructInv, AtWord, NEW k \in Key, NEW next \in {"parse", "full"}, Takes(next, k),
           k = IF IsOption(W) THEN W ELSE Positional[Top.parser]
    PROVE  StructInv'
<1>1. ~Idle /\ returning = "NONE" /\ Top.phase = "parse" /\ Top.pos \in Nat
      /\ Depth \in Nat /\ Depth >= 1 /\ Top.pos <= Len(line)
  BY OnTop DEF StructInv, AtWord, Running
<1>2. FrameAt(Depth) /\ Depth = Len(path) + 1
  BY <1>1 DEF StructInv, FrameInv, Early
<1>3. /\ Top.pos \in First(Depth)..(Len(line) + 1) /\ Depth <= Top.pos
      /\ Top.parser = ParserAt[Depth] /\ Top.used = UsedBy(Depth, Top.pos)
      /\ \A i \in Key : Top.ns[i] = IF i \in Passed(Depth, Top.pos)
                                     THEN Given(Depth, ParserAt[Depth], i) ELSE Absent
  BY <1>1, <1>2 DEF FrameAt, Top, Early
<1>4. PICK frame \in Frame :
        /\ Continues(frame, Holds)
        /\ frame.parser = Top.parser /\ frame.phase = next /\ frame.pos = Top.pos + 1
        /\ frame.used = Top.used \cup GroupsOf(W)
        /\ \A i \in Key : frame.ns[i] = IF i = k THEN Given(Depth, Top.parser, k) ELSE Top.ns[i]
  BY TakenFrame
<1>5. First(Depth) \in Int
  BY <1>1, <1>2 DEF First, StructInv, TypeInv
<1>6. \A j : j \in First(Depth)..(Top.pos + 1 - 1) <=>
               j = Top.pos \/ j \in First(Depth)..(Top.pos - 1)
  BY <1>1, <1>3, <1>5
<1>7. \A i : i \in Passed(Depth, Top.pos + 1) <=> i = k \/ i \in Passed(Depth, Top.pos)
  <2>1. KeyAt(Depth, Top.pos) = k
    BY <1>3 DEF KeyAt, W
  <2> QED
    BY <1>6, <2>1 DEF Passed
<1>8. UsedBy(Depth, Top.pos + 1) = UsedBy(Depth, Top.pos) \cup GroupsOf(W)
  BY <1>3, <1>6 DEF UsedBy, GroupsOf, W
<1>9. \A i \in Key : frame.ns[i] =
           IF i \in Passed(Depth, frame.pos) THEN Given(Depth, ParserAt[Depth], i) ELSE Absent
  BY <1>3, <1>4, <1>7
<1>10. /\ frame.pos \in First(Depth)..(Len(line) + 1) /\ Depth <= frame.pos
       /\ frame.phase # "called" /\ frame.phase \notin Late
       /\ frame.used = UsedBy(Depth, frame.pos)
  <2>1. Len(line) \in Nat
    BY DEF StructInv, TypeInv
  <2>2. frame.phase # "called" /\ frame.phase \notin Late
    BY <1>4 DEF Late
  <2>3. frame.used = UsedBy(Depth, frame.pos)
    BY <1>3, <1>4, <1>8
  <2> QED
    BY <1>1, <1>3, <1>4, <1>5, <2>1, <2>2, <2>3
<1> QED
  BY <1>1, <1>2, <1>4, <1>9, <1>10, HoldsType, ContinuesStruct

\* The two ways to take a word, as cases of Takes.
LEMMA TakenKeys ==
    ASSUME StructInv, TakesOption \/ TakesPositional
    PROVE  /\ AtWord
           /\ \E k \in Key, next \in {"parse", "full"} :
                 Takes(next, k) /\ k = IF IsOption(W) THEN W ELSE Positional[Top.parser]
<1>1. AtWord /\ Top.parser \in Parser
  BY OnTop DEF StructInv, TakesOption, TakesPositional, AtWord, Running, Frame
<1>2. CASE TakesOption
  <2>1. W \in Key /\ IsOption(W)
    BY <1>1, <1>2 DEF TakesOption, Key, IsOption
  <2> QED
    BY <1>1, <1>2, <2>1 DEF TakesOption
<1>3. CASE TakesPositional
  <2>1. Positional[Top.parser] \in Key
    BY <1>1, <1>3 DEF TakesPositional, Key
  <2> QED
    BY <1>1, <1>3, <2>1 DEF TakesPositional
<1> QED
  BY <1>2, <1>3

DefaultRefused ==
    Running("defaults") /\ Fails("TYPE_CONVERSION", AfterChecks) /\ UNCHANGED failures

DefaultsApplied ==
    /\ Running("defaults")
    /\ frames' = [frames EXCEPT ![Depth].ns =
                     [k \in Key |-> IF @[k] = Absent /\ k \in DOMAIN Defaults[Top.parser]
                                    THEN Default(Depth, Top.parser, k) ELSE @[k]]]
    /\ held' = held \ {<<Depth, "used">>}
    /\ returning' = "SUCCESS"
    /\ UNCHANGED <<line, result, outNs, error, shown, history>>

LEMMA DefaultsCases == ApplyDefaults => DefaultRefused \/ DefaultsApplied
BY DEF ApplyDefaults, DefaultRefused, DefaultsApplied

LEMMA WordsStruct ==
    ASSUME StructInv,
           \/ ParseOption \/ ParseHelp \/ ParsePositional \/ RejectWord \/ EndOfWords
           \/ CheckRequired \/ DefaultRefused
    PROVE  StructInv'
<1>1. failures \in Nat
  BY DEF StructInv, TypeInv
<1>2. {"MUTUALLY_EXCLUSIVE", "TOO_MANY_ARGS", "DEPENDENCY_VIOLATION", "REQUIRED_MISSING",
       "TYPE_CONVERSION"} \subseteq Code
  BY DEF Code
<1>3. CASE TakesOption \/ TakesPositional
  BY <1>3, TakenKeys, TakesStruct
<1>4. CASE ParseOption
  BY <1>1, <1>2, <1>3, <1>4, OptionTakes, StopsStruct DEF ParseOption, AtWord
<1>5. CASE ParseHelp
  BY <1>1, <1>5, StopsStruct DEF ParseHelp, AtWord
<1>6. CASE RejectWord
  BY <1>1, <1>2, <1>6, StopsStruct DEF RejectWord, AtWord
<1>7. CASE EndOfWords
  <2>1. PICK phase : phase \in {"parse", "full"} /\ Running(phase)
    BY <1>7 DEF EndOfWords
  <2>2. ~Idle /\ returning = "NONE" /\ Top.phase \in Early /\ Depth \in Nat /\ Depth >= 1
    BY <2>1, OnTop DEF Running, Early, StructInv
  <2>3. FrameAt(Depth) /\ Depth = Len(path) + 1 /\ Top = frames[Depth]
    BY <2>2 DEF StructInv, FrameInv, Top
  <2>4. Top.pos = EndOf(Depth)
    BY <1>7, <2>2, <2>3 DEF EndOfWords, FrameAt, EndOf, StructInv, TypeInv
  <2> QED
    BY <1>7, <2>1, <2>4, PhaseStruct, HoldsType DEF EndOfWords, Phase, Early
<1>8. CASE CheckRequired
  <2>1. CASE Continues([Top EXCEPT !.phase = "defaults"], Holds)
    BY <1>8, <2>1, PhaseStruct, HoldsType DEF CheckRequired, Phase, Early, Late
  <2> QED
    BY <1>1, <1>2, <1>8, <2>1, StopsStruct DEF CheckRequired
<1>9. CASE DefaultRefused
  BY <1>1, <1>2, <1>9, StopsStruct DEF DefaultRefused
<1> QED
  BY <1>3, <1>4, <1>5, <1>6, <1>7, <1>8, <1>9, PositionalTakes

(***************************************************************************)
(* A command begins: the caller waits at its word, which the path ends     *)
(* with, and the new frame has seen nothing.                               *)
(***************************************************************************)
Entered ==
    /\ frames' = Append([frames EXCEPT ![Depth].phase = "called"],
                        NewFrame(Commands[Top.parser][W], Top.pos + 1))
    /\ held' = held \cup {<<Depth, "argv">>}
    /\ path' = Append(path, Top.pos)
    /\ UNCHANGED <<line, returning, result, outNs, error, shown, parses, failures,
                   failedAt, nameBefore>>

LEMMA EnteredFrames ==
    ASSUME StructInv, AtWord, W \in DOMAIN Commands[Top.parser], Entered
    PROVE  /\ frames' \in Seq(Frame) /\ Depth \in Nat /\ Depth >= 1
           /\ Depth' = Depth + 1
           /\ frames'[Depth + 1] = NewFrame(Commands[Top.parser][W], Top.pos + 1)
           /\ frames'[Depth].parser = Top.parser /\ frames'[Depth].phase = "called"
           /\ frames'[Depth].pos = Top.pos /\ frames'[Depth].used = Top.used
           /\ frames'[Depth].ns = Top.ns
           /\ \A i \in 1..(Depth - 1) : frames'[i] = frames[i]
<1>1. ~Idle /\ Top \in Frame /\ Depth \in Nat /\ Depth >= 1 /\ frames \in Seq(Frame)
  BY OnTop DEF StructInv, TypeInv, AtWord, Running
<1>2. PICK f : f = [Top EXCEPT !.phase = "called"]
  OBVIOUS
<1>3. f \in Frame /\ f.parser = Top.parser /\ f.phase = "called" /\ f.pos = Top.pos
      /\ f.used = Top.used /\ f.ns = Top.ns
  BY <1>1, <1>2 DEF Frame, Phase
<1>4. PICK g : g = NewFrame(Commands[Top.parser][W], Top.pos + 1)
  OBVIOUS
<1>5. g \in Frame
  <2>1. Commands[Top.parser][W] \in Parser /\ Top.pos + 1 \in Nat
    BY <1>1, SubcommandsAssumption DEF Frame
  <2> QED
    BY <1>4, <2>1, ValueTypes DEF NewFrame, Frame, Phase
<1>6. PICK waiting : waiting = [frames EXCEPT ![Depth] = f]
  OBVIOUS
<1>7. waiting \in Seq(Frame) /\ Len(waiting) = Depth /\ waiting[Depth] = f
      /\ \A i \in 1..(Depth - 1) : waiting[i] = frames[i]
  BY <1>1, <1>3, <1>6, ExceptSeq DEF Depth
<1>8. [frames EXCEPT ![Depth].phase = "called"] = waiting
  BY <1>2, <1>6 DEF Top
<1>9. frames' = Append(waiting, g)
  BY <1>4, <1>8 DEF Entered
<1> QED
  BY <1>1, <1>3, <1>4, <1>5, <1>7, <1>9 DEF Depth

LEMMA EnteredStruct ==
    ASSUME StructInv, AtWord, W \in DOMAIN Commands[Top.parser], Entered
    PROVE  StructInv'
<1>1. ~Idle /\ returning = "NONE" /\ Top.phase = "parse" /\ Top \in Frame /\ Top.pos \in Nat
      /\ Depth \in Nat /\ Depth >= 1 /\ Top.pos <= Len(line) /\ Len(line) \in Nat
      /\ path \in Seq(Nat) /\ line \in Seq(Word)
  BY OnTop DEF StructInv, TypeInv, AtWord, Running
<1>2. FrameAt(Depth) /\ Depth = Len(path) + 1
  BY <1>1 DEF StructInv, FrameInv, Early
<1>3. /\ Top.parser = ParserAt[Depth]
      /\ Top.pos \in First(Depth)..(Len(line) + 1) /\ Depth <= Top.pos
      /\ Top.used = UsedBy(Depth, Top.pos)
      /\ \A k \in Key : Top.ns[k] = IF k \in Passed(Depth, Top.pos)
                                      THEN Given(Depth, ParserAt[Depth], k) ELSE Absent
  BY <1>1, <1>2 DEF FrameAt, Top, Early
<1>4. path' \in Seq(Nat) /\ Len(path') = Depth /\ path'[Depth] = Top.pos
      /\ \A i \in 1..(Depth - 1) : path'[i] = path[i]
  BY <1>1, <1>2 DEF Entered
<1>5. \A n \in 1..Depth : ParserAt'[n] = ParserAt[n]
  <2>1. \A n \in 1..Depth : Tree(line, Append(path, Top.pos))[n] = Tree(line, path)[n]
    BY <1>1, <1>2, <1>3, TreeGrows
  <2> QED
    BY <2>1, ParserAtIs DEF Entered
<1>6. ParserAt'[Depth + 1] = Commands[Top.parser][W]
  <2>1. Depth \in 1..Len(line)
    BY <1>1, <1>3
  <2>2. Tree(line', path')[Depth + 1] = Commands[Tree(line', path')[Depth]][line'[path'[Depth]]]
    <3>1. PICK l, q : l = line' /\ q = path'
      OBVIOUS
    <3>2. Len(l) \in Nat /\ Depth \in 1..Len(l)
      BY <1>1, <2>1, <3>1 DEF Entered
    <3> QED
      BY <3>1, <3>2, TreeAt
  <2>3. Tree(line', path')[Depth] = Top.parser
    BY <1>1, <1>3, <1>5, ParserAtIs
  <2> QED
    BY <1>4, <2>2, <2>3, ParserAtIs DEF Entered, W
<1>7. PathInv'
  <2> SUFFICES ASSUME NEW i \in 1..Depth
               PROVE  path'[i] \in i..Len(line) /\ line[path'[i]] \in DOMAIN Commands[ParserAt'[i]]
    BY <1>4 DEF PathInv, Entered
  <2>1. CASE i < Depth
    BY <1>2, <1>4, <1>5, <2>1 DEF StructInv, PathInv
  <2>2. CASE i = Depth
    BY <1>1, <1>3, <1>4, <1>5, <2>2 DEF W
  <2> QED
    BY <1>1, <2>1, <2>2
<1>8. TypeInv'
  BY <1>1, <1>4, EnteredFrames DEF StructInv, TypeInv, Entered, Resource
<1>9. \A n \in 1..Depth :
         /\ First(n)' = First(n)
         /\ \A pos : Passed(n, pos)' = Passed(n, pos) /\ UsedBy(n, pos)' = UsedBy(n, pos)
  <2>1. \A n \in 1..Depth : First(n)' = First(n)
    BY <1>1, <1>4 DEF First
  <2>2. \A n \in 1..Depth : \A j : KeyAt(n, j)' = KeyAt(n, j)
    BY <1>5 DEF KeyAt, Entered
  <2>3. \A n \in 1..Depth : \A pos : Passed(n, pos)' = Passed(n, pos)
    BY <2>1, <2>2 DEF Passed
  <2>4. \A n \in 1..Depth : \A pos : UsedBy(n, pos)' = UsedBy(n, pos)
    BY <1>5, <2>1 DEF UsedBy, Entered
  <2> QED
    BY <2>1, <2>3, <2>4
<1>10. ASSUME NEW i \in 1..(Depth - 1)
       PROVE  FrameAt(i)'
  <2>1. FrameAt(i) /\ frames'[i] = frames[i] /\ i <= Len(path) /\ i \in 1..Depth
    BY <1>1, <1>2, EnteredFrames DEF StructInv, FrameInv
  <2>2. path'[i] = path[i] /\ line' = line /\ Len(path') = Depth
    BY <1>4 DEF Entered
  <2>3. ParserAt'[i] = ParserAt[i] /\ First(i)' = First(i)
        /\ \A pos : Passed(i, pos)' = Passed(i, pos) /\ UsedBy(i, pos)' = UsedBy(i, pos)
    BY <1>5, <1>9, <2>1
  <2>4. frames[i].phase = "called"
    BY <1>1, <2>1 DEF FrameAt
  <2> QED
    BY <1>1, <1>2, <2>1, <2>2, <2>3, <2>4 DEF FrameAt, Late
<1>11. PICK d : d = Depth
  OBVIOUS
<1>12. FrameAt(d)'
  <2>1. line' = line /\ ParserAt'[d] = ParserAt[d] /\ First(d)' = First(d)
        /\ \A pos : Passed(d, pos)' = Passed(d, pos) /\ UsedBy(d, pos)' = UsedBy(d, pos)
    BY <1>1, <1>5, <1>9, <1>11 DEF Entered
  <2> QED
    BY <1>1, <1>2, <1>3, <1>4, <1>11, <2>1, EnteredFrames DEF FrameAt, Late
<1>13. FrameAt(d + 1)'
  <2>1. First(d + 1)' = Top.pos + 1
    BY <1>1, <1>4, <1>11 DEF First
  <2>2. \A pos : pos = Top.pos + 1 => Passed(d + 1, pos)' = {} /\ UsedBy(d + 1, pos)' = {}
    <3>1. \A j : j \notin (Top.pos + 1)..(Top.pos + 1 - 1)
      BY <1>1
    <3>2. \A pos : pos = Top.pos + 1 => Passed(d + 1, pos)' = {}
      BY <2>1, <3>1 DEF Passed
    <3>3. \A pos : pos = Top.pos + 1 => UsedBy(d + 1, pos)' = {}
      BY <2>1, <3>1 DEF UsedBy
    <3> QED
      BY <3>2, <3>3
  <2>3. PICK f : f = frames'[d + 1]
    OBVIOUS
  <2>4. f.parser = Commands[Top.parser][W] /\ f.pos = Top.pos + 1 /\ f.phase = "namespace"
        /\ f.used = {} /\ \A k \in Key : f.ns[k] = Absent
    BY <1>11, <2>3, EnteredFrames DEF NewFrame, EmptyNs
  <2> QED
    <3>1. /\ f.parser = ParserAt'[d + 1] /\ f.phase \notin Late \cup {"called"}
          /\ f.pos \in First(d + 1)'..(Len(line') + 1) /\ d + 1 <= f.pos /\ ~(d + 1 < Depth')
      BY <1>1, <1>3, <1>6, <1>11, <2>1, <2>4, EnteredFrames DEF Entered, Late
    <3>2. f.used = UsedBy(d + 1, f.pos)'
      BY <2>2, <2>4
    <3>3. \A k \in Key : f.ns[k] = IF k \in Passed(d + 1, f.pos)'
                                     THEN Given(d + 1, ParserAt'[d + 1], k) ELSE Absent
      BY <2>2, <2>4
    <3> QED
      BY <2>3, <3>1, <3>2, <3>3 DEF FrameAt, Late
<1>14. \A i \in 1..Depth' : FrameAt(i)'
  <2>1. \A i \in 1..(Depth + 1) : i \in 1..(Depth - 1) \/ i = d \/ i = d + 1
    BY <1>1, <1>11
  <2> QED
    BY <1>10, <1>12, <1>13, <2>1, EnteredFrames
<1>15. ~Idle' /\ Top'.phase = "namespace"
  BY <1>1, EnteredFrames DEF Idle, Depth, Top, NewFrame
<1> QED
  BY <1>1, <1>4, <1>7, <1>8, <1>14, <1>15, EnteredFrames DEF StructInv, FrameInv, Entered

LEMMA EnterStruct ==
    ASSUME StructInv, EnterCommand
    PROVE  StructInv'
<1>1. AtWord /\ W \in DOMAIN Commands[Top.parser] /\ (Entered \/ OutOfMemory(AfterStage))
  BY DEF EnterCommand, Entered
<1>2. Running("parse")
  BY <1>1 DEF AtWord
<1> QED
  BY <1>1, <1>2, EnteredStruct, NoMemoryStruct

\* The caller of the innermost frame waits at the word of the path.
LEMMA Caller ==
    ASSUME StructInv, Depth > 1
    PROVE  /\ ~Idle /\ Depth \in Nat /\ Depth - 1 \in 1..Len(path) /\ Depth - 1 \in 1..Depth
           /\ frames[Depth - 1] \in Frame /\ frames[Depth - 1].phase = "called"
           /\ frames[Depth - 1].pos = path[Depth - 1]
           /\ FrameAt(Depth - 1)
           /\ line[path[Depth - 1]] \in Word
<1>1. ~Idle /\ Depth \in Nat
  BY DEF StructInv, TypeInv, Idle, Depth
<1>2. Depth - 1 \in 1..Depth /\ frames[Depth - 1] \in Frame /\ FrameAt(Depth - 1)
  BY <1>1, OnTop DEF StructInv, FrameInv
<1>3. frames[Depth - 1].phase = "called" /\ Depth - 1 <= Len(path)
      /\ frames[Depth - 1].pos = path[Depth - 1]
  BY <1>1, <1>2 DEF FrameAt
<1>4. Depth - 1 \in 1..Len(path)
  BY <1>1, <1>2, <1>3 DEF StructInv, TypeInv
<1>5. line[path[Depth - 1]] \in Word
  BY <1>4, PathShort DEF StructInv
<1> QED
  BY <1>1, <1>2, <1>3, <1>4, <1>5

LEMMA FrontOfFrames ==
    ASSUME StructInv, Depth > 1
    PROVE  /\ Front(frames) \in Seq(Frame) /\ Len(Front(frames)) = Depth - 1
           /\ \A i \in 1..(Depth - 1) : Front(frames)[i] = frames[i]
<1>1. frames \in Seq(Frame) /\ Len(frames) \in Nat /\ Len(frames) > 1
  BY DEF StructInv, TypeInv, Depth
<1>2. Front(frames) = SubSeq(frames, 1, Len(frames) - 1)
  BY DEF Front
<1> QED
  BY <1>1, <1>2, SubSeqProperties DEF Depth

LEMMA CommandFailsStruct ==
    ASSUME StructInv, CommandFails
    PROVE  StructInv'
<1>1. Depth > 1 /\ returning \in Failed
  BY DEF CommandFails, StructInv, TypeInv
<1>2. /\ frames' \in Seq(Frame) /\ Depth' = Depth - 1 /\ Depth \in Nat
      /\ \A i \in 1..(Depth - 1) : frames'[i] = frames[i]
  BY <1>1, FrontOfFrames, Caller DEF CommandFails, Depth
<1>3. TypeInv'
  <2>1. error' \in [code : Code, name : Word \cup {NoWord}]
    BY <1>1, Caller DEF CommandFails, StructInv, TypeInv
  <2> QED
    BY <1>2, <2>1 DEF CommandFails, StructInv, TypeInv, history
<1>4. UNCHANGED <<line, path, returning, result, shown>>
  BY DEF CommandFails, history
<1>5. ParserAt' = ParserAt /\ PathInv'
  BY <1>4, SameParsers DEF StructInv
<1>6. \A n, pos : /\ First(n)' = First(n) /\ EndOf(n)' = EndOf(n)
                   /\ Passed(n, pos)' = Passed(n, pos) /\ UsedBy(n, pos)' = UsedBy(n, pos)
  BY <1>4, SameWords
<1>7. ASSUME NEW i \in 1..(Depth - 1)
      PROVE  FrameAt(i)'
  <2>1. FrameAt(i) /\ frames'[i] = frames[i] /\ i < Depth
    BY <1>2 DEF StructInv, FrameInv
  <2> QED
    BY <1>2, <1>4, <1>5, <1>6, <2>1 DEF FrameAt
<1>8. ~Idle /\ ~Idle'
  BY <1>1, <1>2 DEF Idle, Depth
<1>9. \A i \in 1..Depth' : FrameAt(i)'
  BY <1>2, <1>7
<1> QED
  BY <1>1, <1>2, <1>3, <1>4, <1>5, <1>8, <1>9 DEF StructInv, FrameInv, Failed

\* What the caller of a command that has succeeded knows of its keys.
Brought(lost) == [k \in Key |-> IF k \in lost THEN Absent ELSE Top.ns[k]]
Named(n, lost) ==
    IF DestOf[frames[n].parser] \in lost THEN frames[n].ns
    ELSE [frames[n].ns EXCEPT ![DestOf[frames[n].parser]] = CommandName(n)]

LEMMA CommandSucceedsFrames ==
    ASSUME StructInv, CommandSucceeds
    PROVE  \E lost \in SUBSET Key :
             /\ lost = {} \/ failures' > 0
             /\ failures' \in Nat /\ (failures' = 0 => failures = 0)
             /\ frames' \in Seq(Frame) /\ Depth' = Depth - 1
             /\ \A i \in 1..(Depth - 2) : frames'[i] = frames[i]
             /\ frames'[Depth - 1].parser = frames[Depth - 1].parser
             /\ frames'[Depth - 1].pos = frames[Depth - 1].pos
             /\ frames'[Depth - 1].used = frames[Depth - 1].used
             /\ frames'[Depth - 1].phase = "checks"
             /\ frames'[Depth - 1].ns = Merged(Named(Depth - 1, lost), Brought(lost))
<1>1. Depth > 1
  BY DEF CommandSucceeds
<1>2. PICK n : n = Depth - 1
  OBVIOUS
<1>3. PICK outer : outer = frames[n]
  OBVIOUS
<1>4. outer \in Frame /\ DestOf[outer.parser] \in Key /\ n \in Nat /\ n >= 1
  BY <1>1, <1>2, <1>3, Caller DEF Frame, Key
<1>5. PICK lost \in {{}} \cup (IF failures < MaxFailures THEN {{k} : k \in Key} ELSE {}) :
        /\ frames' = Append(SubSeq(frames, 1, n - 1),
                            [outer EXCEPT !.phase = "checks",
                                          !.ns = Merged(Named(n, lost), Brought(lost))])
        /\ failures' = failures + Cardinality(lost)
  BY <1>2, <1>3 DEF CommandSucceeds, Named, Brought
<1>6. lost \in SUBSET Key
  BY <1>5
<1>7. failures \in Nat
  BY DEF StructInv, TypeInv
<1>8. failures' \in Nat /\ (lost = {} \/ failures' > 0) /\ (failures' = 0 => failures = 0)
  <2>1. CASE lost = {}
    BY <1>5, <1>7, <2>1, FS_EmptySet
  <2>2. CASE lost # {}
    <3>1. PICK k : lost = {k}
      BY <1>5, <2>2
    <3>2. Cardinality(lost) = 1
      BY <3>1, FS_Singleton
    <3> QED
      BY <1>5, <1>7, <3>2
  <2> QED
    BY <2>1, <2>2
<1>9. PICK ns : ns = Merged(Named(n, lost), Brought(lost))
  OBVIOUS
<1>10. ns \in [Key -> Value]
  <2>1. outer.ns \in [Key -> Value] /\ CommandName(n) \in Value
    BY <1>4, ValueTypes DEF Frame
  <2>2. Named(n, lost) \in [Key -> Value]
    BY <1>3, <1>4, <2>1 DEF Named
  <2>3. Top.ns \in [Key -> Value] /\ Absent \in Value
    BY <1>1, Caller, OnTop, ValueTypes DEF StructInv
  <2>4. Brought(lost) \in [Key -> Value]
    BY <2>3 DEF Brought
  <2> QED
    BY <1>9, <2>2, <2>4 DEF Merged
<1>11. PICK f : f = [outer EXCEPT !.phase = "checks", !.ns = ns]
  OBVIOUS
<1>12. f = [parser |-> outer.parser, phase |-> "checks", pos |-> outer.pos,
            used |-> outer.used, ns |-> ns]
  BY <1>4, <1>11 DEF Frame
<1>13. f \in Frame
  BY <1>4, <1>10, <1>12 DEF Frame, Phase
<1>14. /\ SubSeq(frames, 1, n - 1) \in Seq(Frame) /\ Len(SubSeq(frames, 1, n - 1)) = n - 1
       /\ \A i \in 1..(n - 1) : SubSeq(frames, 1, n - 1)[i] = frames[i]
  <2>1. frames \in Seq(Frame) /\ n - 1 \in Nat /\ n - 1 <= Len(frames)
    BY <1>2, <1>4 DEF StructInv, TypeInv, Depth
  <2> QED
    BY <2>1, SubSeqProperties
<1>15. PICK s : s = SubSeq(frames, 1, n - 1)
  OBVIOUS
<1>16. frames' = Append(s, f)
  BY <1>5, <1>9, <1>11, <1>15
<1>17. frames' \in Seq(Frame) /\ Len(frames') = n /\ frames'[n] = f
       /\ \A i \in 1..(n - 1) : frames'[i] = frames[i]
  BY <1>4, <1>13, <1>14, <1>15, <1>16
<1>18. Depth \in Nat /\ n - 1 = Depth - 2 /\ n = Depth - 1
  BY <1>1, <1>2, Caller
<1> QED
  BY <1>3, <1>6, <1>8, <1>9, <1>12, <1>17, <1>18 DEF Depth

LEMMA CommandSucceedsStruct ==
    ASSUME StructInv, CommandSucceeds
    PROVE  StructInv'
<1>1. PICK lost \in SUBSET Key :
        /\ failures' \in Nat
        /\ frames' \in Seq(Frame) /\ Depth' = Depth - 1
        /\ \A i \in 1..(Depth - 2) : frames'[i] = frames[i]
        /\ frames'[Depth - 1].parser = frames[Depth - 1].parser
        /\ frames'[Depth - 1].pos = frames[Depth - 1].pos
        /\ frames'[Depth - 1].used = frames[Depth - 1].used
        /\ frames'[Depth - 1].phase = "checks"
  BY CommandSucceedsFrames
<1>2. Depth > 1 /\ returning' = "NONE" /\ held' \subseteq held
  BY DEF CommandSucceeds
<1>3. UNCHANGED <<line, path, result, error, shown, failedAt>>
  BY DEF CommandSucceeds
<1>4. TypeInv'
  BY <1>1, <1>2, <1>3 DEF StructInv, TypeInv
<1>5. ParserAt' = ParserAt /\ PathInv'
  BY <1>3, SameParsers DEF StructInv
<1>6. \A n, pos : /\ First(n)' = First(n) /\ EndOf(n)' = EndOf(n)
                   /\ Passed(n, pos)' = Passed(n, pos) /\ UsedBy(n, pos)' = UsedBy(n, pos)
  BY <1>3, SameWords
<1>7. PICK d : d = Depth - 1
  OBVIOUS
<1>8. d \in 1..Len(path) /\ FrameAt(d) /\ Depth' = d /\ Depth \in Nat
  BY <1>1, <1>2, <1>7, Caller
<1>9. ASSUME NEW i \in 1..(d - 1)
      PROVE  FrameAt(i)'
  <2>1. FrameAt(i) /\ frames'[i] = frames[i] /\ i < Depth /\ i < Depth'
    BY <1>1, <1>7, <1>8 DEF StructInv, FrameInv
  <2> QED
    BY <1>3, <1>5, <1>6, <2>1 DEF FrameAt
<1>10. FrameAt(d)'
  <2>1. frames[d].phase = "called" /\ frames[d].pos = path[d]
    BY <1>2, <1>7, Caller
  <2>2. EndOf(d) = path[d]
    BY <1>8 DEF EndOf
  <2> QED
    BY <1>1, <1>3, <1>5, <1>6, <1>7, <1>8, <2>1, <2>2 DEF FrameAt, Early
<1>11. \A i \in 1..Depth' : FrameAt(i)'
  BY <1>8, <1>9, <1>10
<1>12. ~Idle /\ ~Idle' /\ Top'.phase = "checks" /\ Depth' <= Len(path') + 1
  <2>1. frames # << >> /\ frames' # << >>
    BY <1>1, <1>2, <1>7, <1>8 DEF Depth
  <2>2. Top'.phase = "checks" /\ Depth' <= Len(path') + 1
    BY <1>1, <1>3, <1>7, <1>8 DEF Top, StructInv, TypeInv
  <2> QED
    BY <2>1, <2>2 DEF Idle
<1> QED
  BY <1>2, <1>3, <1>4, <1>5, <1>11, <1>12 DEF StructInv, FrameInv, Early

WithDefaults(n, ns) ==
    [k \in Key |-> IF ns[k] = Absent /\ k \in DOMAIN Defaults[frames[n].parser]
                   THEN Default(n, frames[n].parser, k) ELSE ns[k]]

LEMMA ApplyDefaultsFrames ==
    ASSUME StructInv, DefaultsApplied
    PROVE  /\ frames' \in Seq(Frame) /\ Depth' = Depth /\ Depth \in Nat /\ Depth >= 1
           /\ \A i \in 1..Depth : /\ frames'[i].parser = frames[i].parser
                                  /\ frames'[i].pos = frames[i].pos
                                  /\ frames'[i].used = frames[i].used
                                  /\ frames'[i].phase = frames[i].phase
           /\ \A i \in 1..(Depth - 1) : frames'[i] = frames[i]
           /\ frames'[Depth].ns = WithDefaults(Depth, Top.ns)
<1>1. ~Idle /\ Top \in Frame /\ Depth \in Nat /\ Depth >= 1 /\ frames \in Seq(Frame)
      /\ Top = frames[Depth] /\ Top.ns \in [Key -> Value]
      /\ Top.parser \in Parser
  BY OnTop DEF StructInv, TypeInv, DefaultsApplied, Running, Top, Frame
<1>2. PICK ns : ns = WithDefaults(Depth, Top.ns)
  OBVIOUS
<1>3. ns \in [Key -> Value]
  BY <1>1, <1>2, ValueTypes DEF WithDefaults
<1>4. PICK f : f = [Top EXCEPT !.ns = ns]
  OBVIOUS
<1>5. f \in Frame /\ f.parser = Top.parser /\ f.pos = Top.pos /\ f.used = Top.used
      /\ f.phase = Top.phase /\ f.ns = ns
  BY <1>1, <1>3, <1>4 DEF Frame
<1>6. frames' = [frames EXCEPT ![Depth] = f]
  <2>1. frames' = [frames EXCEPT ![Depth].ns =
                     [k \in Key |-> IF frames[Depth].ns[k] = Absent
                                       /\ k \in DOMAIN Defaults[Top.parser]
                                    THEN Default(Depth, Top.parser, k)
                                    ELSE frames[Depth].ns[k]]]
    BY DEF DefaultsApplied
  <2>2. ns = [k \in Key |-> IF frames[Depth].ns[k] = Absent
                               /\ k \in DOMAIN Defaults[Top.parser]
                            THEN Default(Depth, Top.parser, k) ELSE frames[Depth].ns[k]]
    BY <1>1, <1>2 DEF WithDefaults
  <2>3. frames' = [frames EXCEPT ![Depth].ns = ns]
    BY <2>1, <2>2
  <2> QED
    BY <1>1, <1>4, <2>3
<1>7. frames' \in Seq(Frame) /\ Len(frames') = Depth /\ frames'[Depth] = f
      /\ \A i \in 1..(Depth - 1) : frames'[i] = frames[i]
  BY <1>1, <1>5, <1>6, ExceptSeq DEF Depth
<1>8. \A i \in 1..Depth : i \in 1..(Depth - 1) \/ i = Depth
  BY <1>1
<1> QED
  BY <1>1, <1>2, <1>5, <1>7, <1>8 DEF Depth

LEMMA ApplyDefaultsStruct ==
    ASSUME StructInv, DefaultsApplied
    PROVE  StructInv'
<1>1. ~Idle /\ returning = "NONE" /\ Top.phase = "defaults" /\ returning' = "SUCCESS"
  BY DEF DefaultsApplied, Running
<1>2. UNCHANGED <<line, path, result, error, shown, failedAt, failures>> /\ held' \subseteq held
  BY DEF DefaultsApplied, history
<1>3. TypeInv'
  BY <1>1, <1>2, ApplyDefaultsFrames DEF StructInv, TypeInv
<1>4. ParserAt' = ParserAt /\ PathInv'
  BY <1>2, SameParsers DEF StructInv
<1>5. \A n, pos : /\ First(n)' = First(n) /\ EndOf(n)' = EndOf(n)
                   /\ Passed(n, pos)' = Passed(n, pos) /\ UsedBy(n, pos)' = UsedBy(n, pos)
  BY <1>2, SameWords
<1>6. ASSUME NEW i \in 1..Depth
      PROVE  FrameAt(i)'
  <2>1. FrameAt(i)
    BY DEF StructInv, FrameInv
  <2>2. /\ frames'[i].parser = frames[i].parser /\ frames'[i].pos = frames[i].pos
        /\ frames'[i].used = frames[i].used
        /\ frames'[i].phase = frames[i].phase /\ Depth' = Depth
        /\ i < Depth => frames'[i] = frames[i]
        /\ i = Depth => frames[i].phase = "defaults"
        /\ i < Depth \/ i = Depth
    BY <1>1, ApplyDefaultsFrames DEF Top
  <2> QED
    BY <1>2, <1>4, <1>5, <2>1, <2>2 DEF FrameAt, Early
<1>7. \A i \in 1..Depth' : FrameAt(i)'
  BY <1>6, ApplyDefaultsFrames
<1>8. ~Idle' /\ Top'.phase = "defaults"
  BY <1>1, ApplyDefaultsFrames DEF Idle, Depth, Top
<1> QED
  BY <1>1, <1>2, <1>3, <1>4, <1>7, <1>8, ApplyDefaultsFrames DEF StructInv, FrameInv

LEMMA ReturnStruct ==
    ASSUME StructInv, ReturnToClient
    PROVE  StructInv'
<1>1. frames' = << >> /\ returning' = "NONE" /\ result' = returning /\ held' \subseteq held
      /\ UNCHANGED <<line, path, error, shown, failedAt, failures>>
  BY DEF ReturnToClient, history
<1>2. frames' \in Seq(Frame) /\ Depth' = 0 /\ Idle'
  BY <1>1, EmptySeq DEF Depth, Idle
<1>3. TypeInv'
  BY <1>1, <1>2 DEF StructInv, TypeInv
<1>4. PathInv'
  BY <1>1, SameParsers DEF StructInv
<1>5. Len(path') \in Nat
  BY <1>3 DEF TypeInv
<1> QED
  BY <1>1, <1>2, <1>3, <1>4, <1>5 DEF StructInv, FrameInv

LEMMA ParseFrames ==
    ASSUME StructInv, Parse
    PROVE  /\ frames' \in Seq(Frame) /\ Depth' = 1 /\ ~Idle' /\ frames'[1] = NewFrame(Root, 1)
           /\ Top' = NewFrame(Root, 1) /\ line' \in Seq(Word) /\ path' = << >>
           /\ path' \in Seq(Nat) /\ Len(path') = 0 /\ returning' = "NONE" /\ ParserAt'[1] = Root
<1>1. PICK f : f = NewFrame(Root, 1)
  OBVIOUS
<1>2. f \in Frame
  BY <1>1, ValueTypes, SubcommandsAssumption DEF NewFrame, Frame, Phase
<1>3. frames' = <<f>>
  BY <1>1 DEF Parse
<1>4. line' \in Seq(Word) /\ Len(line') \in Nat
  BY SubcommandsAssumption DEF Parse
<1>5. ParserAt'[1] = Root
  <2>1. PICK l, q : l = line' /\ q = path'
    OBVIOUS
  <2> QED
    BY <1>4, <2>1, TreeAt, ParserAtIs
<1>6. returning' = "NONE"
  BY DEF Parse, StructInv, FrameInv
<1>7. path' = << >> /\ path' \in Seq(Nat) /\ Len(path') = 0
  BY EmptySeq DEF Parse
<1>8. frames' \in Seq(Frame) /\ Len(frames') = 1 /\ frames'[1] = f /\ frames' # << >>
  BY <1>2, <1>3
<1> QED
  BY <1>1, <1>4, <1>5, <1>6, <1>7, <1>8 DEF Depth, Idle, Top

LEMMA ParseStruct ==
    ASSUME StructInv, Parse
    PROVE  StructInv'
<1>1. PICK f : f = NewFrame(Root, 1)
  OBVIOUS
<1>2. f.parser = Root /\ f.phase = "namespace" /\ f.pos = 1 /\ f.used = {}
      /\ \A k \in Key : f.ns[k] = Absent
  BY <1>1 DEF NewFrame, EmptyNs
<1>3. TypeInv'
  BY ParseFrames DEF StructInv, TypeInv, Parse
<1>4. PathInv'
  BY ParseFrames DEF PathInv
<1>5. FrameAt(1)'
  <2>1. First(1)' = 1 /\ Len(line') \in Nat
    BY ParseFrames DEF First
  <2>2. Passed(1, 1)' = {} /\ UsedBy(1, 1)' = {}
    <3>1. \A j : j \notin 1..(1 - 1)
      OBVIOUS
    <3>2. Passed(1, 1)' = {}
      BY <2>1, <3>1 DEF Passed
    <3>3. UsedBy(1, 1)' = {}
      BY <2>1, <3>1 DEF UsedBy
    <3> QED
      BY <3>2, <3>3
  <2> QED
    <3>1. /\ f.parser = ParserAt'[1] /\ f.phase \notin Late \cup {"called"}
          /\ f.pos \in First(1)'..(Len(line') + 1) /\ 1 <= f.pos /\ ~(1 < Depth')
      BY <1>2, <2>1, ParseFrames DEF Late
    <3>2. f.used = UsedBy(1, f.pos)'
      BY <1>2, <2>2
    <3>3. \A k \in Key : f.ns[k] = IF k \in Passed(1, f.pos)'
                                     THEN Given(1, ParserAt'[1], k) ELSE Absent
      BY <1>2, <2>2
    <3>4. f = frames'[1]
      BY <1>1, ParseFrames
    <3> QED
      BY <3>1, <3>2, <3>3, <3>4 DEF FrameAt, Late
<1>6. \A i \in 1..Depth' : FrameAt(i)'
  BY <1>5, ParseFrames
<1> QED
  BY <1>1, <1>2, <1>3, <1>4, <1>6, ParseFrames DEF StructInv, FrameInv, Parse

LEMMA StructInit == Init => StructInv
<1> SUFFICES ASSUME Init
             PROVE  StructInv
  OBVIOUS
<1>1. frames = << >> /\ line = << >> /\ path = << >> /\ Depth = 0 /\ Idle
  BY DEF Init, Depth, Idle
<1>2. TypeInv
  BY <1>1, EmptySeq DEF Init, TypeInv, Failed, Code
<1>3. PathInv
  BY <1>1 DEF PathInv
<1>4. FrameInv
  BY <1>1, <1>2 DEF FrameInv, Init, TypeInv
<1> QED
  BY <1>2, <1>3, <1>4 DEF StructInv

LEMMA StructNext == StructInv /\ [Next]_vars => StructInv'
<1> SUFFICES ASSUME StructInv, [Next]_vars
             PROVE  StructInv'
  OBVIOUS
<1>1. CASE UNCHANGED vars
  <2>1. TypeInv'
    BY <1>1 DEF StructInv, TypeInv, vars, history
  <2> QED
    BY <1>1, <2>1, KeptStruct DEF StructInv, FrameInv, vars, history
<1>2. CASE PrintHelpOnError
  <2>1. TypeInv'
    BY <1>2 DEF PrintHelpOnError, StructInv, TypeInv, history
  <2> QED
    BY <1>2, <2>1, KeptStruct DEF PrintHelpOnError, StructInv, FrameInv, history
<1>3. CASE Done
  BY <1>1, <1>3 DEF Done
<1> QED
  BY <1>1, <1>2, <1>3, StagesStruct, WordsStruct, EnterStruct, CommandFailsStruct,
     CommandSucceedsStruct, DefaultsCases, ApplyDefaultsStruct, ReturnStruct, ParseStruct DEF Next

-----------------------------------------------------------------------------
(***************************************************************************)
(* What is held.  A frame that runs or waits holds what its phase has got, *)
(* one that returns only the namespace it hands over, and there is nothing *)
(* of frames that are gone.                                                *)
(***************************************************************************)
PhaseHolds(phase) ==
    CASE phase = "namespace" -> {}
      [] phase = "used" -> {"namespace"}
      [] phase \in {"tokens", "checks", "defaults"} -> {"namespace", "used"}
      [] phase = "pattern" -> {"namespace", "used", "tokens"}
      [] phase \in {"parse", "full"} -> AfterStage
      [] phase = "called" -> Resource

MayHold(i) ==
    IF i = Depth /\ returning # "NONE"
    THEN IF returning = "SUCCESS" THEN {"namespace"} ELSE {}
    ELSE PhaseHolds(frames[i].phase)

HeldInv == \A h \in held : h[1] \in 1..Depth /\ h[2] \in MayHold(h[1])

LEMMA HoldsOfPhase ==
    ASSUME StructInv, HeldInv, NEW phase, Running(phase)
    PROVE  Holds \subseteq PhaseHolds(phase)
BY DEF Holds, HeldInv, MayHold, Running, Top

LEMMA ContinuesHeld ==
    ASSUME StructInv, HeldInv, NEW phase, Running(phase), NEW frame \in Frame,
           NEW resources \in SUBSET Resource, Continues(frame, resources),
           resources \subseteq PhaseHolds(frame.phase)
    PROVE  HeldInv'
<1>1. /\ Depth' = Depth /\ Depth \in Nat /\ Depth >= 1 /\ Top' = frame
      /\ \A i \in 1..(Depth - 1) : frames'[i] = frames[i]
      /\ returning = "NONE" /\ returning' = "NONE"
  BY ContinuesType, OnTop DEF StructInv, Running, Continues
<1>2. ASSUME NEW h \in held'
      PROVE  h[1] \in 1..Depth /\ h[2] \in MayHold(h[1])'
  <2>1. CASE h \in held /\ h[1] # Depth
    <3>1. h[1] \in 1..(Depth - 1) /\ h[2] \in PhaseHolds(frames[h[1]].phase)
      BY <1>1, <2>1 DEF HeldInv, MayHold
    <3> QED
      BY <1>1, <3>1 DEF MayHold
  <2>2. CASE \E r \in resources : h = <<Depth, r>>
    <3>1. h[1] = Depth /\ h[2] \in PhaseHolds(frame.phase)
      BY <2>2
    <3>2. frames'[h[1]] = frame
      BY <1>1, <3>1 DEF Top
    <3> QED
      BY <1>1, <3>1, <3>2 DEF MayHold
  <2> QED
    BY <2>1, <2>2 DEF Continues
<1> QED
  BY <1>1, <1>2 DEF HeldInv

LEMMA PhaseHeld ==
    ASSUME StructInv, HeldInv, NEW phase, Running(phase), NEW next \in Phase,
           NEW resources \in SUBSET Resource, Continues([Top EXCEPT !.phase = next], resources),
           resources \subseteq PhaseHolds(next)
    PROVE  HeldInv'
<1>1. PICK frame : frame = [Top EXCEPT !.phase = next]
  OBVIOUS
<1>2. frame \in Frame /\ frame.phase = next
  BY <1>1, OnTop DEF StructInv, Running, Frame
<1> QED
  BY <1>1, <1>2, ContinuesHeld

\* A call that fails has released all that it held.
LEMMA StopsHeld ==
    ASSUME StructInv, HeldInv, NEW phase, Running(phase), NEW r \in Failed,
           NEW released, PhaseHolds(phase) \subseteq released, Returns(r, released)
    PROVE  HeldInv'
<1>1. /\ Depth' = Depth /\ UNCHANGED frames /\ returning = "NONE" /\ Top.phase = phase
      /\ returning' = r /\ Depth \in Nat
  BY OnTop DEF StructInv, Running, Returns, Depth
<1>2. ASSUME NEW h \in held'
      PROVE  h[1] \in 1..Depth /\ h[2] \in MayHold(h[1])'
  <2>1. h \in held /\ h \notin {<<Depth, x>> : x \in released}
    BY <1>2 DEF Returns
  <2>2. h[1] \in 1..Depth /\ h[2] \in PhaseHolds(frames[h[1]].phase) /\ h = <<h[1], h[2]>>
    BY <1>1, <2>1 DEF HeldInv, MayHold, StructInv, TypeInv
  <2>3. h[1] # Depth
    BY <1>1, <2>1, <2>2 DEF Top
  <2> QED
    BY <1>1, <2>2, <2>3 DEF MayHold
<1> QED
  BY <1>1, <1>2 DEF HeldInv

LEMMA NoMemoryHeld ==
    ASSUME StructInv, HeldInv, NEW phase, Running(phase), NEW released,
           PhaseHolds(phase) \subseteq released, OutOfMemory(released)
    PROVE  HeldInv'
BY StopsHeld DEF OutOfMemory, Fails, Failed

LEMMA StagesHeld ==
    ASSUME StructInv, HeldInv,
           GetNamespace \/ GetUsed \/ GetTokens \/ GetPattern \/ EndOfWords
    PROVE  HeldInv'
<1> USE HoldsType, HoldsOfPhase DEF Resource, Phase
<1>1. CASE GetNamespace
  <2>1. CASE Gets("namespace", "used")
    <3>1. Running("namespace") /\ Holds \cup {"namespace"} \subseteq PhaseHolds("used")
      BY <1>1 DEF GetNamespace, PhaseHolds
    <3> QED
      BY <2>1, <3>1, PhaseHeld DEF Gets
  <2> QED
    BY <1>1, <2>1, NoMemoryHeld DEF GetNamespace, PhaseHolds
<1>2. CASE GetUsed
  <2>1. Running("used") /\ Holds \subseteq {"namespace"}
    BY <1>2 DEF GetUsed, PhaseHolds
  <2>2. CASE Gets("used", "tokens")
    <3>1. Holds \cup {"used"} \subseteq PhaseHolds("tokens")
      BY <2>1 DEF PhaseHolds
    <3> QED
      BY <2>1, <2>2, <3>1, PhaseHeld DEF Gets
  <2>3. CASE Continues([Top EXCEPT !.phase = "tokens"], Holds)
    <3>1. Holds \subseteq PhaseHolds("tokens")
      BY <2>1 DEF PhaseHolds
    <3> QED
      BY <2>1, <2>3, <3>1, PhaseHeld
  <2>4. CASE OutOfMemory({"namespace"})
    BY <2>1, <2>4, NoMemoryHeld DEF PhaseHolds
  <2> QED
    BY <1>2, <2>2, <2>3, <2>4 DEF GetUsed
<1>3. CASE GetTokens
  <2>1. Running("tokens") /\ Holds \subseteq {"namespace", "used"}
    BY <1>3 DEF GetTokens, PhaseHolds
  <2>2. CASE Gets("tokens", "pattern")
    <3>1. Holds \cup {"tokens"} \subseteq PhaseHolds("pattern")
      BY <2>1 DEF PhaseHolds
    <3> QED
      BY <2>1, <2>2, <3>1, PhaseHeld DEF Gets
  <2>3. CASE Continues([Top EXCEPT !.phase = "pattern"], Holds)
    <3>1. Holds \subseteq PhaseHolds("pattern")
      BY <2>1 DEF PhaseHolds
    <3> QED
      BY <2>1, <2>3, <3>1, PhaseHeld
  <2>4. CASE OutOfMemory({"used", "namespace"})
    BY <2>1, <2>4, NoMemoryHeld DEF PhaseHolds
  <2> QED
    BY <1>3, <2>2, <2>3, <2>4 DEF GetTokens
<1>4. CASE GetPattern
  <2>1. Running("pattern") /\ Holds \subseteq {"namespace", "used", "tokens"}
    BY <1>4 DEF GetPattern, PhaseHolds
  <2>2. CASE Gets("pattern", "parse")
    <3>1. Holds \cup {"pattern"} \subseteq PhaseHolds("parse")
      BY <2>1 DEF PhaseHolds, AfterStage
    <3> QED
      BY <2>1, <2>2, <3>1, PhaseHeld DEF Gets
  <2>3. PhaseHolds("pattern") \subseteq {"tokens", "used", "namespace"}
    BY DEF PhaseHolds
  <2>4. CASE Fails("UNRECOGNIZED", {"tokens", "used", "namespace"})
    BY <2>1, <2>3, <2>4, StopsHeld DEF Fails, Failed
  <2>5. CASE OutOfMemory({"tokens", "used", "namespace"})
    BY <2>1, <2>3, <2>5, NoMemoryHeld
  <2> QED
    BY <1>4, <2>2, <2>4, <2>5 DEF GetPattern
<1>5. CASE EndOfWords
  <2>1. PICK phase : phase \in {"parse", "full"} /\ Running(phase)
    BY <1>5 DEF EndOfWords
  <2>2. Holds \subseteq AfterStage
    BY <2>1 DEF PhaseHolds
  <2>3. Holds \ {"pattern", "tokens"} \subseteq PhaseHolds("checks")
    BY <2>2 DEF PhaseHolds, AfterStage
  <2> QED
    BY <1>5, <2>1, <2>3, PhaseHeld DEF EndOfWords
<1> QED
  BY <1>1, <1>2, <1>3, <1>4, <1>5

LEMMA WordsHeld ==
    ASSUME StructInv, HeldInv,
           ParseOption \/ ParseHelp \/ ParsePositional \/ RejectWord \/ CheckRequired
    PROVE  HeldInv'
<1>1. CASE TakesOption \/ TakesPositional
  <2>1. AtWord
    BY <1>1, TakenKeys
  <2>2. PICK next \in {"parse", "full"}, frame \in Frame :
          Continues(frame, Holds) /\ frame.phase = next
    BY <1>1, TakenKeys, TakenFrame
  <2>3. Holds \subseteq PhaseHolds(frame.phase)
    BY <2>1, <2>2, HoldsOfPhase DEF AtWord, PhaseHolds
  <2> QED
    BY <2>1, <2>2, <2>3, HoldsType, ContinuesHeld DEF AtWord
<1>2. PhaseHolds("parse") = AfterStage /\ PhaseHolds("full") = AfterStage
  BY DEF PhaseHolds
<1>3. CASE ParseHelp
  BY <1>2, <1>3, StopsHeld DEF ParseHelp, AtWord, Failed
<1>4. CASE RejectWord
  BY <1>2, <1>4, StopsHeld DEF RejectWord, AtWord, Fails, Failed
<1>6. CASE ParseOption
  BY <1>1, <1>2, <1>6, OptionTakes, StopsHeld DEF ParseOption, AtWord, Fails, Failed
<1>5. CASE CheckRequired
  <2>1. Running("checks") /\ PhaseHolds("checks") = AfterChecks
    BY <1>5 DEF CheckRequired, PhaseHolds, AfterChecks
  <2>2. CASE Continues([Top EXCEPT !.phase = "defaults"], Holds)
    <3>1. Holds \subseteq PhaseHolds("defaults")
      BY <2>1, HoldsOfPhase DEF PhaseHolds
    <3> QED
      BY <2>1, <2>2, <3>1, HoldsType, PhaseHeld DEF Phase
  <2>3. CASE \E code : Fails(code, AfterChecks)
    BY <2>1, <2>3, StopsHeld DEF Fails, Failed
  <2> QED
    BY <1>5, <2>2, <2>3 DEF CheckRequired
<1> QED
  BY <1>1, <1>3, <1>4, <1>5, <1>6, PositionalTakes

LEMMA EnterHeld ==
    ASSUME StructInv, HeldInv, EnterCommand
    PROVE  HeldInv'
<1>1. AtWord /\ W \in DOMAIN Commands[Top.parser] /\ (Entered \/ OutOfMemory(AfterStage))
  BY DEF EnterCommand, Entered
<1>2. CASE OutOfMemory(AfterStage)
  <2>1. PhaseHolds("parse") \subseteq AfterStage
    BY DEF PhaseHolds
  <2> QED
    BY <1>1, <1>2, <2>1, NoMemoryHeld DEF AtWord
<1>3. CASE Entered
  <2>1. /\ Depth \in Nat /\ Depth' = Depth + 1 /\ returning = "NONE" /\ returning' = "NONE"
        /\ frames'[Depth].phase = "called"
        /\ \A i \in 1..(Depth - 1) : frames'[i] = frames[i]
    BY <1>1, <1>3, EnteredFrames DEF Entered, AtWord, Running
  <2>2. PhaseHolds("called") = Resource
    BY DEF PhaseHolds
  <2>3. ASSUME NEW h \in held'
        PROVE  h[1] \in 1..(Depth + 1) /\ h[2] \in MayHold(h[1])'
    <3>1. h \in held \/ h = <<Depth, "argv">>
      BY <1>3 DEF Entered
    <3>2. h[1] \in 1..Depth /\ h[2] \in Resource
      BY <1>1, <2>1, <3>1, OnTop DEF HeldInv, StructInv, TypeInv, Resource, AtWord, Running
    <3>3. CASE h[1] = Depth
      BY <2>1, <2>2, <3>2, <3>3 DEF MayHold
    <3>4. CASE h[1] # Depth
      <4>1. h \in held /\ h[1] \in 1..(Depth - 1) /\ h[2] \in PhaseHolds(frames[h[1]].phase)
        BY <2>1, <3>1, <3>2, <3>4 DEF HeldInv, MayHold
      <4> QED
        BY <2>1, <4>1 DEF MayHold
    <3> QED
      BY <3>3, <3>4
  <2> QED
    BY <2>1, <2>3 DEF HeldInv
<1> QED
  BY <1>1, <1>2, <1>3

LEMMA CommandFailsHeld ==
    ASSUME StructInv, HeldInv, CommandFails
    PROVE  HeldInv'
<1>1. /\ Depth > 1 /\ Depth \in Nat /\ Depth' = Depth - 1
      /\ \A i \in 1..(Depth - 1) : frames'[i] = frames[i]
      /\ returning \notin {"NONE", "SUCCESS"} /\ returning' = returning
  BY FrontOfFrames, Caller DEF CommandFails, Depth
<1>2. Resource = AfterStage \cup {"argv"}
  BY DEF Resource, AfterStage
<1>3. ASSUME NEW h \in held'
      PROVE  h[1] \in 1..(Depth - 1) /\ h[2] \in MayHold(h[1])'
  <2>1. h \in held /\ h \notin {<<Depth - 1, x>> : x \in Resource} /\ h = <<h[1], h[2]>>
        /\ h[2] \in Resource
    BY <1>2 DEF CommandFails, StructInv, TypeInv
  <2>2. h[1] \in 1..Depth /\ h[2] \in MayHold(h[1])
    BY <2>1 DEF HeldInv
  <2>3. h[1] # Depth
    BY <1>1, <2>2 DEF MayHold
  <2>4. h[1] # Depth - 1
    BY <2>1
  <2> QED
    BY <1>1, <2>2, <2>3, <2>4 DEF MayHold
<1> QED
  BY <1>1, <1>3 DEF HeldInv

LEMMA CommandSucceedsHeld ==
    ASSUME StructInv, HeldInv, CommandSucceeds
    PROVE  HeldInv'
<1>1. PICK lost \in SUBSET Key :
        /\ Depth' = Depth - 1
        /\ \A i \in 1..(Depth - 2) : frames'[i] = frames[i]
        /\ frames'[Depth - 1].phase = "checks"
  BY CommandSucceedsFrames
<1>2. Depth > 1 /\ Depth \in Nat /\ returning = "SUCCESS" /\ returning' = "NONE"
  BY Caller DEF CommandSucceeds
<1>3. ASSUME NEW h \in held'
      PROVE  h[1] \in 1..(Depth - 1) /\ h[2] \in MayHold(h[1])'
  <2>1. h \in held /\ h # <<Depth, "namespace">> /\ h = <<h[1], h[2]>> /\ h[2] \in Resource
        /\ h \notin {<<Depth - 1, x>> : x \in {"argv", "pattern", "tokens"}}
    BY DEF CommandSucceeds, StructInv, TypeInv
  <2>2. h[1] \in 1..Depth /\ h[2] \in MayHold(h[1])
    BY <2>1 DEF HeldInv
  <2>3. h[1] # Depth
    BY <1>2, <2>1, <2>2 DEF MayHold
  <2>4. CASE h[1] = Depth - 1
    <3>1. h[2] \in {"namespace", "used"}
      BY <2>1, <2>4 DEF Resource
    <3>2. PhaseHolds("checks") = {"namespace", "used"}
      BY DEF PhaseHolds
    <3> QED
      BY <1>1, <1>2, <2>2, <2>4, <3>1, <3>2 DEF MayHold
  <2>5. CASE h[1] \in 1..(Depth - 2)
    <3>1. frames'[h[1]] = frames[h[1]] /\ h[2] \in PhaseHolds(frames[h[1]].phase)
      BY <1>1, <2>2, <2>3, <2>5 DEF MayHold
    <3> QED
      BY <1>1, <1>2, <2>5, <3>1 DEF MayHold
  <2> QED
    BY <1>2, <2>2, <2>3, <2>4, <2>5
<1> QED
  BY <1>1, <1>3 DEF HeldInv

LEMMA RefusedHeld ==
    ASSUME StructInv, HeldInv, DefaultRefused
    PROVE  HeldInv'
<1>1. PhaseHolds("defaults") = AfterChecks
  BY DEF PhaseHolds, AfterChecks
<1> QED
  BY <1>1, StopsHeld DEF DefaultRefused, Fails, Failed

LEMMA ApplyDefaultsHeld ==
    ASSUME StructInv, HeldInv, DefaultsApplied
    PROVE  HeldInv'
<1>1. /\ Depth' = Depth /\ Depth \in Nat /\ Depth >= 1
      /\ returning = "NONE" /\ Top.phase = "defaults" /\ returning' = "SUCCESS"
      /\ \A i \in 1..(Depth - 1) : frames'[i] = frames[i]
  BY ApplyDefaultsFrames DEF DefaultsApplied, Running
<1>2. ASSUME NEW h \in held'
      PROVE  h[1] \in 1..Depth /\ h[2] \in MayHold(h[1])'
  <2>1. h \in held /\ h # <<Depth, "used">> /\ h = <<h[1], h[2]>>
    BY DEF DefaultsApplied, StructInv, TypeInv
  <2>2. h[1] \in 1..Depth /\ h[2] \in PhaseHolds(frames[h[1]].phase)
    BY <1>1, <2>1 DEF HeldInv, MayHold
  <2>3. CASE h[1] = Depth
    <3>1. h[2] = "namespace"
      BY <1>1, <2>1, <2>2, <2>3 DEF PhaseHolds, Top
    <3> QED
      BY <1>1, <2>2, <2>3, <3>1 DEF MayHold
  <2>4. CASE h[1] # Depth
    BY <1>1, <2>2, <2>4 DEF MayHold
  <2> QED
    BY <2>3, <2>4
<1> QED
  BY <1>1, <1>2 DEF HeldInv

LEMMA ReturnHeld ==
    ASSUME StructInv, HeldInv, ReturnToClient
    PROVE  HeldInv'
<1>1. \A h \in held : h[1] = 1 /\ h[2] \in MayHold(1) /\ h = <<h[1], h[2]>>
  BY DEF ReturnToClient, HeldInv, StructInv, TypeInv
<1>2. \A h \in held : returning = "SUCCESS" /\ h = <<1, "namespace">>
  BY <1>1 DEF ReturnToClient, MayHold
<1>3. held' = {}
  BY <1>2 DEF ReturnToClient
<1> QED
  BY <1>3 DEF HeldInv

LEMMA HeldNext ==
    ASSUME StructInv, HeldInv, [Next]_vars
    PROVE  HeldInv'
<1>1. CASE UNCHANGED <<frames, held, returning>>
  BY <1>1 DEF HeldInv, MayHold, Depth
<1>2. CASE Parse
  <2>1. held = {}
    BY <1>2 DEF HeldInv, Parse, Idle, Depth
  <2> QED
    BY <1>2, <2>1 DEF Parse, HeldInv
<1>3. CASE PrintHelpOnError \/ Done \/ UNCHANGED vars
  BY <1>1, <1>3 DEF PrintHelpOnError, Done, vars
<1> QED
  BY <1>2, <1>3, StagesHeld, WordsHeld, EnterHeld, CommandFailsHeld, CommandSucceedsHeld,
     DefaultsCases, RefusedHeld, ApplyDefaultsHeld, ReturnHeld DEF Next

(***************************************************************************)
(* Between two parses nothing of the calls is left, however deep they went *)
(* and through whichever of the exits that Subcommands has they returned:  *)
(* no memory, an option that is not known, a group used twice, a word too  *)
(* many, help, something required or a dependency that is not met, a       *)
(* default that does not convert, a command that failed, and success       *)
(* (clap_tokenizer.c:243-351, clap_parser_stage.c:326-352).                *)
(***************************************************************************)
THEOREM NothingHeldAlways == Spec => []NothingHeld
<1>1. Init => StructInv /\ HeldInv
  BY StructInit DEF Init, HeldInv
<1>2. StructInv /\ HeldInv /\ [Next]_vars => StructInv' /\ HeldInv'
  BY StructNext, HeldNext
<1>3. StructInv /\ HeldInv => NothingHeld
  BY DEF HeldInv, NothingHeld, StructInv, Idle, Depth
<1> QED
  BY <1>1, <1>2, <1>3, PTL DEF Spec

-----------------------------------------------------------------------------
(***************************************************************************)
(* Whom the error names.  Until a call fails the name is the one that the  *)
(* parse found; each call that returns a failure of the one below it puts  *)
(* the word at which it waits there, so that the outermost one stays.      *)
(***************************************************************************)
NameInv ==
    /\ ~Idle /\ returning \notin Failed => failedAt = 0 /\ error.name = nameBefore
    /\ returning \in Failed =>
          /\ failedAt \in Depth..(Len(path) + 1)
          /\ error.name = IF failedAt = Depth THEN nameBefore ELSE line[path[Depth]]
    /\ Idle /\ result = "SUCCESS" => failedAt = 0
    /\ Idle /\ result \in Failed =>
          /\ failedAt \in 1..(Len(path) + 1)
          /\ error.name = IF failedAt = 1 THEN nameBefore ELSE line[path[1]]
          /\ shown # "NONE" /\ failedAt > 1 => shown = ParserAt[2]
          /\ shown # "NONE" /\ failedAt = 1 /\ nameBefore = NoWord => shown = Root

LEMMA SameName ==
    ASSUME NameInv, Depth' = Depth, Idle' <=> Idle, returning' \notin Failed,
           returning \notin Failed, Idle => UNCHANGED result,
           UNCHANGED <<line, path, error, shown, failedAt, nameBefore>>
    PROVE  NameInv'
<1>1. ParserAt' = ParserAt
  BY SameParsers
<1> QED
  BY <1>1 DEF NameInv

LEMMA ContinuesName ==
    ASSUME StructInv, NameInv, ~Idle, NEW frame, NEW resources,
           returning = "NONE", Continues(frame, resources)
    PROVE  NameInv'
<1>1. Depth' = Depth /\ ~Idle'
  <2>1. frames' = [frames EXCEPT ![Depth] = frame] /\ frames \in Seq(Frame) /\ Len(frames) >= 1
    BY OnTop DEF Continues, StructInv, TypeInv, Depth
  <2>2. Len(frames') = Len(frames)
    BY <2>1
  <2> QED
    BY <2>1, <2>2 DEF Depth, Idle
<1> QED
  BY <1>1, SameName DEF Continues, history, Failed

LEMMA StopsName ==
    ASSUME StructInv, NameInv, ~Idle, returning = "NONE", NEW r \in Failed, NEW released,
           Returns(r, released), error'.name = error.name
    PROVE  NameInv'
<1>1. Depth' = Depth /\ ~Idle' /\ failedAt' = Depth /\ returning' = r
      /\ UNCHANGED <<line, path, nameBefore>>
  BY DEF Returns, Depth, Idle
<1>2. Depth \in Nat /\ Depth >= 1 /\ Depth <= Len(path) + 1 /\ Len(path) \in Nat
  BY OnTop DEF StructInv, TypeInv, FrameInv
<1>3. error.name = nameBefore
  BY DEF NameInv, Failed
<1> QED
  BY <1>1, <1>2, <1>3 DEF NameInv

LEMMA FailsName ==
    ASSUME StructInv, NameInv, ~Idle, returning = "NONE", NEW code, NEW released,
           Fails(code, released)
    PROVE  NameInv'
<1>1. error'.name = error.name
  BY DEF Fails, StructInv, TypeInv
<1> QED
  BY <1>1, StopsName DEF Fails, Failed

LEMMA CallName ==
    ASSUME StructInv, NameInv,
           \/ GetNamespace \/ GetUsed \/ GetTokens \/ GetPattern \/ ParseOption \/ ParseHelp
           \/ ParsePositional \/ RejectWord \/ EndOfWords \/ CheckRequired \/ DefaultRefused
    PROVE  NameInv'
<1>1. ~Idle /\ returning = "NONE"
  BY DEF GetNamespace, GetUsed, GetTokens, GetPattern, ParseOption, ParseHelp, ParsePositional,
         RejectWord, EndOfWords, CheckRequired, DefaultRefused, AtWord, Running
<1>2. ASSUME NEW frame, NEW resources, Continues(frame, resources)
      PROVE  NameInv'
  BY <1>1, <1>2, ContinuesName
<1>3. ASSUME NEW code, NEW released, Fails(code, released)
      PROVE  NameInv'
  BY <1>1, <1>3, FailsName
<1>4. ASSUME NEW released, OutOfMemory(released)
      PROVE  NameInv'
  BY <1>3, <1>4 DEF OutOfMemory
<1>5. CASE ParseHelp
  BY <1>1, <1>5, StopsName DEF ParseHelp, Failed
<1>6. CASE GetNamespace \/ GetUsed \/ GetTokens \/ GetPattern
  BY <1>2, <1>3, <1>4, <1>6 DEF GetNamespace, GetUsed, GetTokens, GetPattern, Gets
<1>7. CASE ParseOption \/ ParsePositional \/ RejectWord \/ EndOfWords \/ CheckRequired
           \/ DefaultRefused
  BY <1>2, <1>3, <1>7 DEF ParseOption, ParsePositional, RejectWord, EndOfWords, CheckRequired,
     DefaultRefused
<1> QED
  BY <1>5, <1>6, <1>7

LEMMA EnterName ==
    ASSUME StructInv, NameInv, EnterCommand
    PROVE  NameInv'
<1>1. AtWord /\ W \in DOMAIN Commands[Top.parser] /\ (Entered \/ OutOfMemory(AfterStage))
  BY DEF EnterCommand, Entered
<1>2. ~Idle /\ returning = "NONE" /\ Top.phase = "parse"
  BY <1>1 DEF AtWord, Running
<1>3. CASE OutOfMemory(AfterStage)
  BY <1>2, <1>3, FailsName DEF OutOfMemory
<1>4. CASE Entered
  <2>1. ~Idle' /\ UNCHANGED <<returning, error, failedAt, nameBefore>>
    BY <1>1, <1>4, EnteredStruct, EnteredFrames DEF Entered, Idle, Depth
  <2> QED
    BY <1>2, <2>1 DEF NameInv, Failed
<1> QED
  BY <1>1, <1>3, <1>4

LEMMA CommandFailsName ==
    ASSUME StructInv, NameInv, CommandFails
    PROVE  NameInv'
<1>1. Depth > 1 /\ Depth \in Nat /\ Depth' = Depth - 1 /\ returning \in Failed
  BY FrontOfFrames, Caller DEF CommandFails, StructInv, TypeInv, Depth
<1>2. UNCHANGED <<line, path, returning, failedAt>> /\ ~Idle'
  BY <1>1 DEF CommandFails, history, Idle, Depth
<1>3. error'.name = line[path[Depth - 1]]
  BY DEF CommandFails, StructInv, TypeInv
<1>4. failedAt \in Depth..(Len(path) + 1) /\ Len(path) \in Nat
  BY <1>1 DEF NameInv, StructInv, TypeInv
<1> QED
  BY <1>1, <1>2, <1>3, <1>4 DEF NameInv

LEMMA ReturnName ==
    ASSUME StructInv, NameInv, ReturnToClient
    PROVE  NameInv'
<1>1. /\ Depth = 1 /\ Idle' /\ returning' = "NONE" /\ result' = returning
      /\ returning # "NONE"
      /\ UNCHANGED <<line, path, error, shown, failedAt, nameBefore>>
  <2>1. UNCHANGED <<line, path, error, shown, failedAt, nameBefore>>
    BY DEF ReturnToClient, history
  <2> QED
    BY <2>1 DEF ReturnToClient, Idle
<1>2. returning \in {"SUCCESS"} \cup Failed /\ ~Idle
  BY <1>1 DEF StructInv, TypeInv, FrameInv
<1>3. shown' = "NONE"
  BY <1>1, <1>2 DEF StructInv, FrameInv
<1> QED
  BY <1>1, <1>2, <1>3 DEF NameInv, Failed

\* The usage that is shown is that of the command the error names.
LEMMA PrintName ==
    ASSUME StructInv, NameInv, PrintHelpOnError
    PROVE  NameInv'
<1>1. Idle /\ Idle' /\ result = "ERROR" /\ returning = "NONE" /\ returning' = "NONE"
      /\ UNCHANGED <<line, path, error, result, failedAt, nameBefore>>
  BY DEF PrintHelpOnError, history, Idle, StructInv, FrameInv
<1>2. ParserAt' = ParserAt
  BY <1>1, SameParsers
<1>3. failedAt \in 1..(Len(path) + 1) /\ Len(path) \in Nat
  BY <1>1 DEF NameInv, Failed, StructInv, TypeInv
<1>4. ASSUME failedAt > 1
      PROVE  shown' = ParserAt[2]
  <2>1. error.name = line[path[1]] /\ 1 \in 1..Len(path)
    BY <1>1, <1>3, <1>4 DEF NameInv, Failed
  <2>2. line[path[1]] \in Word /\ path[1] <= Len(line) /\ 1 \in 1..Len(line)
    BY <2>1, PathShort DEF StructInv, TypeInv
  <2>3. ParserAt[1] = Root /\ ParserAt[2] = Commands[Root][line[path[1]]]
    BY <2>2, TreeAt, ParserAtIs DEF StructInv, TypeInv
  <2>4. line[path[1]] \in DOMAIN Commands[Root]
    BY <2>1, <2>3 DEF StructInv, PathInv, TypeInv
  <2> QED
    BY <2>1, <2>2, <2>3, <2>4, SubcommandsAssumption DEF PrintHelpOnError, UsageOf
<1>5. failedAt = 1 /\ nameBefore = NoWord => shown' = Root
  BY <1>1 DEF PrintHelpOnError, UsageOf, NameInv, Failed
<1> QED
  BY <1>1, <1>2, <1>4, <1>5 DEF NameInv, Failed

LEMMA NameNext ==
    ASSUME StructInv, NameInv, [Next]_vars
    PROVE  NameInv'
<1>1. CASE UNCHANGED vars \/ Done
  <2>1. UNCHANGED vars
    BY <1>1 DEF Done
  <2>2. ParserAt' = ParserAt
    BY <2>1, SameParsers DEF vars, history
  <2> QED
    BY <2>1, <2>2 DEF NameInv, vars, history, Depth, Idle
<1>2. CASE CommandSucceeds
  <2>1. Depth > 1 /\ Depth' = Depth - 1 /\ Depth \in Nat
    BY <1>2, CommandSucceedsFrames, Caller DEF CommandSucceeds
  <2> QED
    BY <1>2, <2>1 DEF CommandSucceeds, NameInv, Failed, Idle, Depth
<1>3. CASE DefaultsApplied
  <2>1. Depth' = Depth /\ ~Idle /\ ~Idle'
    BY <1>3, ApplyDefaultsFrames DEF DefaultsApplied, Running, Idle, Depth
  <2> QED
    BY <1>3, <2>1, SameName DEF DefaultsApplied, Running, Failed, history
<1>4. CASE Parse
  BY <1>4, ParseFrames DEF Parse, NameInv, Failed
<1> QED
  BY <1>1, <1>2, <1>3, <1>4, CallName, EnterName, CommandFailsName, ReturnName, PrintName,
     DefaultsCases DEF Next

(***************************************************************************)
(* The error of a parse that failed below the client's parser names the    *)
(* outermost command of the line, and the usage printed for it is that     *)
(* command's; one that failed in the client's parser names none, and the   *)
(* client's own usage is printed, provided the client's error structure    *)
(* came without a name.  Without the proviso the second half is false:     *)
(* nothing resets the name (clap_parser_stage.c:341-345,                   *)
(* clap_formatter.c:537-541).                                              *)
(***************************************************************************)
THEOREM ErrorNamesCommandAlways == Spec => []ErrorNamesCommand
<1>1. Init => StructInv /\ NameInv
  BY StructInit DEF Init, NameInv, Failed, Idle
<1>2. StructInv /\ NameInv /\ [Next]_vars => StructInv' /\ NameInv'
  BY StructNext, NameNext
<1>3. StructInv /\ NameInv => ErrorNamesCommand
  BY DEF NameInv, ErrorNamesCommand, Failed
<1> QED
  BY <1>1, <1>2, <1>3, PTL DEF Spec

-----------------------------------------------------------------------------
(***************************************************************************)
(* What a line means, level by level.  The value a level sees is the one   *)
(* it was given, or else what the level below leaves to it; a default is   *)
(* applied where nothing is seen.                                          *)
(***************************************************************************)
Writers(n, k) == {m \in Levels : m >= n /\ Writes(m, k)}
Defaulters(n, k) == {m \in Levels : m >= n /\ k \in DOMAIN Defaults[ParserAt[m]]}
DefaultAt(m, k) == Default(m, ParserAt[m], k)
OwnKeys(n) == {KeyAt(n, i) : i \in OwnPositions(n)}

LEMMA ValueFromIs ==
    ASSUME NEW n, NEW k
    PROVE  ValueFrom(n, k) =
             IF Writers(n, k) # {} THEN Written(Min(Writers(n, k)), k)
             ELSE IF Defaulters(n, k) # {} THEN DefaultAt(Max(Defaulters(n, k)), k)
             ELSE Absent
BY DEF ValueFrom, Writers, Defaulters, DefaultAt

LEMMA NotAbsent ==
    /\ \A n, q, k : Given(n, q, k) # Absent /\ Default(n, q, k) # Absent
    /\ \A n : CommandName(n) # Absent
    /\ \A n, k : Written(n, k) # Absent /\ DefaultAt(n, k) # Absent
<1>1. \A n, q, k : Given(n, q, k).from = "GIVEN" /\ Default(n, q, k).from = "DEFAULT"
  BY DEF Given, Default
<1>2. Absent.from = "ABSENT" /\ \A n : CommandName(n).from = "COMMAND"
  BY DEF Absent, CommandName
<1> QED
  BY <1>1, <1>2 DEF Written, DefaultAt

LEMMA LevelsAre ==
    ASSUME TypeInv
    PROVE  Len(path) \in Nat /\ Levels = 1..(Len(path) + 1)
BY DEF TypeInv, Levels

\* The writers and the givers of defaults, from one level to the next.
LEMMA NextLevel ==
    ASSUME TypeInv, NEW n \in Levels, NEW k
    PROVE  /\ Writers(n, k) = (IF Writes(n, k) THEN {n} ELSE {})
                                \cup (IF n + 1 \in Levels THEN Writers(n + 1, k) ELSE {})
           /\ Defaulters(n, k) = (IF k \in DOMAIN Defaults[ParserAt[n]] THEN {n} ELSE {})
                                   \cup (IF n + 1 \in Levels THEN Defaulters(n + 1, k) ELSE {})
<1>1. \A m \in Levels : m >= n <=> m = n \/ m >= n + 1
  BY LevelsAre
<1>2. n + 1 \notin Levels => \A m \in Levels : ~(m >= n + 1)
  BY LevelsAre
<1>3. n \in Nat
  BY LevelsAre
<1> QED
  BY <1>1, <1>2, <1>3 DEF Writers, Defaulters

LEMMA LowerLevels ==
    ASSUME TypeInv, NEW n \in Nat, NEW k
    PROVE  /\ Writers(n, k) \in SUBSET Nat /\ Defaulters(n, k) \in SUBSET Nat
           /\ \A m \in Writers(n, k) \cup Defaulters(n, k) : m >= n /\ m <= Len(path) + 1
BY LevelsAre DEF Writers, Defaulters

LEMMA ValueOfLevel ==
    ASSUME TypeInv, NEW n \in Levels, NEW k
    PROVE  ValueFrom(n, k) = IF SeenValue(n, k) = Absent /\ k \in DOMAIN Defaults[ParserAt[n]]
                             THEN DefaultAt(n, k) ELSE SeenValue(n, k)
<1>1. n \in Nat /\ n + 1 \in Nat /\ Len(path) + 1 \in Nat
  BY LevelsAre
<1>2. CASE Writes(n, k)
  <2>1. n \in Writers(n, k)
    BY <1>1, <1>2 DEF Writers
  <2>2. Min(Writers(n, k)) \in Writers(n, k) /\ Min(Writers(n, k)) <= n
    BY <1>1, <2>1, LowerLevels, MinOfNaturals
  <2>3. Min(Writers(n, k)) = n
    BY <1>1, <2>2, LowerLevels
  <2>4. ValueFrom(n, k) = Written(n, k)
    BY <2>1, <2>3, ValueFromIs
  <2> QED
    BY <1>2, <2>4, NotAbsent DEF SeenValue
<1>3. CASE ~Writes(n, k) /\ n + 1 \notin Levels
  <2>1. Writers(n, k) = {} /\ SeenValue(n, k) = Absent
        /\ Defaulters(n, k) = IF k \in DOMAIN Defaults[ParserAt[n]] THEN {n} ELSE {}
    BY <1>3, NextLevel DEF SeenValue
  <2>2. CASE k \in DOMAIN Defaults[ParserAt[n]]
    <3>1. Max(Defaulters(n, k)) = n
      BY <1>1, <2>1, <2>2, LowerLevels, MaxOfBounded
    <3> QED
      BY <2>1, <2>2, <3>1, ValueFromIs
  <2>3. CASE k \notin DOMAIN Defaults[ParserAt[n]]
    BY <2>1, <2>3, ValueFromIs
  <2> QED
    BY <2>2, <2>3
<1>4. CASE ~Writes(n, k) /\ n + 1 \in Levels
  <2>1. Writers(n, k) = Writers(n + 1, k) /\ SeenValue(n, k) = ValueFrom(n + 1, k)
        /\ Defaulters(n, k) = (IF k \in DOMAIN Defaults[ParserAt[n]] THEN {n} ELSE {})
                                \cup Defaulters(n + 1, k)
    BY <1>4, NextLevel DEF SeenValue
  <2>2. CASE Writers(n + 1, k) # {}
    <3>1. ValueFrom(n, k) = ValueFrom(n + 1, k) /\ ValueFrom(n + 1, k) # Absent
      BY <2>1, <2>2, ValueFromIs, NotAbsent
    <3> QED
      BY <2>1, <3>1
  <2>3. CASE Writers(n + 1, k) = {} /\ Defaulters(n + 1, k) # {}
    <3>1. Max(Defaulters(n + 1, k)) \in Defaulters(n + 1, k)
          /\ \A j \in Defaulters(n + 1, k) : j <= Max(Defaulters(n + 1, k))
      BY <1>1, <2>3, LowerLevels, MaxOfBounded
    <3>2. Defaulters(n, k) # {}
      BY <2>1, <2>3
    <3>3. Max(Defaulters(n, k)) \in Defaulters(n, k)
          /\ \A j \in Defaulters(n, k) : j <= Max(Defaulters(n, k))
      BY <1>1, <3>2, LowerLevels, MaxOfBounded
    <3>4. Max(Defaulters(n, k)) = Max(Defaulters(n + 1, k))
      <4>1. Max(Defaulters(n + 1, k)) >= n + 1
        BY <1>1, <3>1, LowerLevels
      <4>2. Max(Defaulters(n, k)) >= Max(Defaulters(n + 1, k))
        BY <1>1, <2>1, <3>1, <3>3, LowerLevels
      <4>3. Max(Defaulters(n, k)) # n
        BY <1>1, <3>1, <3>3, <4>1, <4>2, LowerLevels
      <4>4. Max(Defaulters(n, k)) \in Defaulters(n + 1, k)
        BY <2>1, <3>3, <4>3
      <4> QED
        BY <1>1, <3>1, <4>2, <4>4, LowerLevels
    <3>5. ValueFrom(n, k) = ValueFrom(n + 1, k) /\ ValueFrom(n + 1, k) # Absent
      BY <2>1, <2>3, <3>2, <3>4, ValueFromIs, NotAbsent
    <3> QED
      BY <2>1, <3>5
  <2>4. CASE Writers(n + 1, k) = {} /\ Defaulters(n + 1, k) = {}
    <3>1. ValueFrom(n + 1, k) = Absent
      BY <2>4, ValueFromIs
    <3>2. CASE k \in DOMAIN Defaults[ParserAt[n]]
      <4>1. Max(Defaulters(n, k)) = n
        BY <1>1, <2>1, <2>4, <3>2, LowerLevels, MaxOfBounded
      <4> QED
        BY <2>1, <2>4, <3>1, <3>2, <4>1, ValueFromIs
    <3>3. CASE k \notin DOMAIN Defaults[ParserAt[n]]
      BY <2>1, <2>4, <3>1, <3>3, ValueFromIs
    <3> QED
      BY <3>2, <3>3
  <2> QED
    BY <2>2, <2>3, <2>4
<1> QED
  BY <1>2, <1>3, <1>4

LEMMA SeenAtIs ==
    ASSUME TypeInv, NEW n \in Levels, NEW k
    PROVE  SeenAt(n, k) <=> SeenValue(n, k) # Absent
<1>1. n \in Nat /\ n + 1 \in Nat /\ \A m \in Levels : m \in Nat /\ (m > n <=> m >= n + 1)
  BY LevelsAre
<1>2. GivenAt(n, k) <=> Writers(n, k) # {}
  BY DEF GivenAt, Writers
<1>3. DefaultBelow(n, k) <=> Defaulters(n + 1, k) # {}
  BY <1>1 DEF DefaultBelow, Defaulters
<1>4. CASE Writes(n, k)
  BY <1>2, <1>4, NextLevel, NotAbsent DEF SeenAt, SeenValue
<1>5. CASE ~Writes(n, k) /\ n + 1 \notin Levels
  <2>1. Defaulters(n + 1, k) = {}
    BY <1>1, <1>5, LevelsAre DEF Defaulters
  <2>2. Writers(n, k) = {}
    BY <1>5, NextLevel
  <2> QED
    BY <1>2, <1>3, <1>5, <2>1, <2>2 DEF SeenAt, SeenValue
<1>6. CASE ~Writes(n, k) /\ n + 1 \in Levels
  <2>1. Writers(n, k) = Writers(n + 1, k) /\ SeenValue(n, k) = ValueFrom(n + 1, k)
    BY <1>6, NextLevel DEF SeenValue
  <2>2. ValueFrom(n + 1, k) # Absent <=>
            Writers(n + 1, k) # {} \/ Defaulters(n + 1, k) # {}
    BY ValueFromIs, NotAbsent
  <2> QED
    BY <1>2, <1>3, <2>1, <2>2 DEF SeenAt
<1> QED
  BY <1>4, <1>5, <1>6

\* While the line and the path stay, so does what they mean.
LEMMA SameMeaning ==
    ASSUME UNCHANGED <<line, path>>
    PROVE  /\ Levels' = Levels
           /\ \A n, k : /\ ValueFrom(n, k)' = ValueFrom(n, k)
                        /\ SeenValue(n, k)' = SeenValue(n, k)
           /\ \A n : Verdict(n)' = Verdict(n)
<1>1. ParserAt' = ParserAt /\ Levels' = Levels
  BY SameParsers DEF Levels
<1>2. \A n : OwnPositions(n)' = OwnPositions(n) /\ OwnWords(n)' = OwnWords(n)
  BY DEF OwnPositions, OwnWords
<1>3. \A n, k : /\ Names(n, k)' <=> Names(n, k)
                /\ Writes(n, k)' <=> Writes(n, k)
                /\ Written(n, k)' = Written(n, k)
  <2>1. \A n, i : KeyAt(n, i)' = KeyAt(n, i)
    BY <1>1 DEF KeyAt
  <2>2. \A n, k : Names(n, k)' <=> Names(n, k)
    BY <1>1 DEF Names
  <2>3. \A n, k : Writes(n, k)' <=> Writes(n, k)
    BY <1>2, <2>1, <2>2 DEF Writes
  <2> QED
    BY <1>1, <2>2, <2>3 DEF Written
<1>4. \A n, k : Writers(n, k)' = Writers(n, k) /\ Defaulters(n, k)' = Defaulters(n, k)
  BY <1>1, <1>3 DEF Writers, Defaulters
<1>5. \A n, k : ValueFrom(n, k)' = ValueFrom(n, k)
  BY <1>1, <1>3 DEF ValueFrom
<1>6. \A n, k : SeenValue(n, k)' = SeenValue(n, k)
  BY <1>1, <1>3, <1>5 DEF SeenValue
<1>7. \A n, k : SeenAt(n, k)' <=> SeenAt(n, k)
  BY <1>1, <1>3 DEF SeenAt, GivenAt, DefaultBelow
<1>8. \A n : MissingAt(n)' <=> MissingAt(n)
  BY <1>1, <1>2, <1>6 DEF MissingAt
<1>9. \A n : ViolatedAt(n)' <=> ViolatedAt(n)
  BY <1>1, <1>7 DEF ViolatedAt
<1> QED
  BY <1>1, <1>5, <1>6, <1>8, <1>9 DEF Verdict

-----------------------------------------------------------------------------
(***************************************************************************)
(* The values.  If no allocation has failed, the innermost frame has, from *)
(* the end of its words to its defaults, what its level sees, and after    *)
(* them what the line says from its level down.                            *)
(***************************************************************************)
ValueInv ==
    failures = 0 =>
      \A k \in Key :
        /\ \A n \in Levels : n = Depth =>
              /\ returning = "SUCCESS" => frames[n].ns[k] = ValueFrom(n, k)
              /\ returning = "NONE" /\ frames[n].phase \in Late =>
                    frames[n].ns[k] = SeenValue(n, k)
        /\ Idle /\ result = "SUCCESS" => outNs[k] = ValueFrom(1, k)

\* There is nothing to say of a frame that has not come to its checks, or that has failed.
LEMMA NoValue ==
    ASSUME ~Idle', returning' # "SUCCESS",
           returning' \in Failed \/ Top'.phase \notin Late
    PROVE  ValueInv'
BY DEF ValueInv, Failed, Top

\* The words of a level are those from its first position to its end.
LEMMA OwnPositionsAre ==
    ASSUME TypeInv, NEW n \in Nat
    PROVE  OwnPositions(n) = First(n)..(EndOf(n) - 1)
<1>1. Len(path) \in Nat /\ Len(line) \in Nat
  BY DEF TypeInv
<1> QED
  BY <1>1 DEF OwnPositions, First, EndOf

LEMMA WordsOfLevel ==
    ASSUME StructInv, NEW n \in 1..Depth, n <= Len(path) \/ frames[n].pos = Len(line) + 1,
           frames[n].phase \in Early \cup {"called"},
           n <= Len(path) => frames[n].phase = "called"
    PROVE  \A k \in Key :
             frames[n].ns[k] = IF k \in OwnKeys(n) THEN Given(n, ParserAt[n], k) ELSE Absent
<1>1. FrameAt(n) /\ n \in Nat /\ Len(path) \in Nat
  BY DEF StructInv, FrameInv, TypeInv
<1>2. frames[n].pos = EndOf(n)
  BY <1>1 DEF FrameAt, EndOf
<1>3. Passed(n, frames[n].pos) = OwnKeys(n)
  BY <1>1, <1>2, OwnPositionsAre DEF Passed, OwnKeys, StructInv
<1> QED
  BY <1>1, <1>3 DEF FrameAt

LEMMA EarlyValue ==
    ASSUME StructInv,
           \/ GetNamespace \/ GetUsed \/ GetTokens \/ GetPattern \/ ParseOption \/ ParseHelp
           \/ ParsePositional \/ RejectWord \/ EnterCommand \/ DefaultRefused
    PROVE  ~Idle' /\ returning' # "SUCCESS" /\ (returning' \in Failed \/ Top'.phase \notin Late)
<1>1. ~Idle /\ returning = "NONE" /\ Top \in Frame
  BY OnTop DEF GetNamespace, GetUsed, GetTokens, GetPattern, ParseOption, ParseHelp,
     ParsePositional, RejectWord, EnterCommand, DefaultRefused, AtWord, Running, StructInv
<1>2. ASSUME NEW released, (\E code : Fails(code, released)) \/ Returns("HELP", released)
      PROVE  ~Idle' /\ returning' # "SUCCESS" /\ returning' \in Failed
  BY <1>1, <1>2 DEF Fails, Returns, Failed, Idle
<1>3. ASSUME NEW released, OutOfMemory(released)
      PROVE  ~Idle' /\ returning' # "SUCCESS" /\ returning' \in Failed
  BY <1>2, <1>3 DEF OutOfMemory
<1>4. ASSUME NEW next \in Phase \ Late, NEW resources \in SUBSET Resource,
             Continues([Top EXCEPT !.phase = next], resources)
      PROVE  ~Idle' /\ returning' # "SUCCESS" /\ Top'.phase \notin Late
  <2>1. PICK frame : frame = [Top EXCEPT !.phase = next]
    OBVIOUS
  <2>2. frame \in Frame /\ frame.phase = next
    BY <1>1, <2>1 DEF Frame
  <2>3. ~Idle' /\ Top' = frame
    BY <1>1, <1>4, <2>1, <2>2, ContinuesType DEF StructInv
  <2> QED
    BY <1>1, <1>4, <2>2, <2>3 DEF Continues
<1>5. CASE TakesOption \/ TakesPositional
  <2>1. PICK next \in {"parse", "full"}, frame \in Frame :
          Continues(frame, Holds) /\ frame.phase = next
    BY <1>5, TakenKeys, TakenFrame
  <2>2. ~Idle' /\ Top' = frame
    BY <1>1, <2>1, HoldsType, ContinuesType DEF StructInv
  <2> QED
    BY <1>1, <2>1, <2>2 DEF Continues, Late
<1>6. CASE EnterCommand
  <2>1. CASE Entered
    <3>1. AtWord /\ W \in DOMAIN Commands[Top.parser]
      BY <1>6 DEF EnterCommand
    <3>2. Depth' = Depth + 1 /\ Depth \in Nat /\ frames'[Depth + 1].phase = "namespace"
      BY <2>1, <3>1, EnteredFrames DEF NewFrame
    <3>3. ~Idle' /\ Top'.phase = "namespace"
      BY <3>2 DEF Idle, Depth, Top
    <3> QED
      BY <1>1, <2>1, <3>3 DEF Entered, Late
  <2> QED
    BY <1>3, <1>6, <2>1 DEF EnterCommand, Entered
<1>7. CASE GetNamespace \/ GetUsed \/ GetTokens \/ GetPattern
  <2>1. {"used", "tokens", "pattern", "parse"} \subseteq Phase \ Late
    BY DEF Phase, Late
  <2>2. \A r \in Resource : Holds \cup {r} \in SUBSET Resource
    BY HoldsType
  <2>3. {"namespace", "used", "tokens", "pattern"} \subseteq Resource
    BY DEF Resource
  <2> QED
    BY <1>2, <1>3, <1>4, <1>7, <2>1, <2>2, <2>3, HoldsType
    DEF GetNamespace, GetUsed, GetTokens, GetPattern, Gets
<1> QED
  BY <1>2, <1>5, <1>6, <1>7, OptionTakes, PositionalTakes
  DEF ParseHelp, RejectWord, DefaultRefused

LEMMA EndOfWordsValue ==
    ASSUME StructInv, ValueInv, EndOfWords
    PROVE  ValueInv'
<1>1. ~Idle /\ returning = "NONE" /\ Top.phase \in {"parse", "full"} /\ Top.pos > Len(line)
      /\ Top \in Frame /\ Depth \in Nat /\ Depth >= 1 /\ Len(line) \in Nat
  BY OnTop DEF EndOfWords, Running, StructInv, TypeInv
<1>2. PICK frame : frame = [Top EXCEPT !.phase = "checks"]
  OBVIOUS
<1>3. frame \in Frame /\ frame.ns = Top.ns /\ Continues(frame, Holds \ {"pattern", "tokens"})
  BY <1>1, <1>2 DEF Frame, Phase, EndOfWords
<1>4. Depth' = Depth /\ ~Idle' /\ Top' = frame
  BY <1>1, <1>3, HoldsType, ContinuesType DEF StructInv
<1>5. UNCHANGED <<line, path, returning>>
  BY <1>3 DEF Continues, history
<1>6. PICK d : d = Depth
  OBVIOUS
<1>7. d = Len(path) + 1 /\ FrameAt(d) /\ frames[d] = Top /\ d \in 1..Depth
  BY <1>1, <1>6 DEF StructInv, FrameInv, Early, Top
<1>8. frames[d].pos = Len(line) + 1
  BY <1>1, <1>7 DEF FrameAt
<1>9. \A k \in Key : frames[d].ns[k] = IF k \in OwnKeys(d) THEN Given(d, ParserAt[d], k)
                                         ELSE Absent
  BY <1>1, <1>7, <1>8, WordsOfLevel, LevelsAre DEF StructInv, Early
<1>10. \A k : SeenValue(d, k) = IF k \in OwnKeys(d) THEN Given(d, ParserAt[d], k) ELSE Absent
  BY <1>7, LevelsAre DEF SeenValue, Writes, Written, Names, OwnKeys, StructInv
<1>11. \A k \in Key : frames'[d].ns[k] = SeenValue(d, k)'
  BY <1>3, <1>4, <1>5, <1>6, <1>7, <1>9, <1>10, SameMeaning DEF Top
<1> QED
  BY <1>1, <1>4, <1>5, <1>6, <1>11 DEF ValueInv

LEMMA CheckValue ==
    ASSUME StructInv, ValueInv, CheckRequired
    PROVE  ValueInv'
<1>1. ~Idle /\ returning = "NONE" /\ Top.phase = "checks" /\ Top \in Frame
      /\ Depth \in Nat /\ Depth >= 1
  BY OnTop DEF CheckRequired, Running, StructInv
<1>2. CASE \E code : Fails(code, AfterChecks)
  BY <1>1, <1>2, NoValue DEF Fails, Returns, Failed, Idle
<1>3. CASE Continues([Top EXCEPT !.phase = "defaults"], Holds)
  <2>1. PICK frame : frame = [Top EXCEPT !.phase = "defaults"]
    OBVIOUS
  <2>2. frame \in Frame /\ frame.ns = Top.ns /\ Continues(frame, Holds)
    BY <1>1, <1>3, <2>1 DEF Frame, Phase
  <2>3. Depth' = Depth /\ ~Idle' /\ Top' = frame
    BY <1>1, <2>2, HoldsType, ContinuesType DEF StructInv
  <2>4. UNCHANGED <<line, path, returning, failures>>
    BY <2>2 DEF Continues, history
  <2>5. \A n : n = Depth => frames'[n].ns = frames[n].ns /\ frames[n].phase \in Late
    BY <1>1, <2>2, <2>3 DEF Top, Late
  <2> QED
    BY <1>1, <2>3, <2>4, <2>5, SameMeaning DEF ValueInv
<1> QED
  BY <1>2, <1>3 DEF CheckRequired

LEMMA CommandSucceedsValue ==
    ASSUME StructInv, ValueInv, CommandSucceeds
    PROVE  ValueInv'
<1>1. SUFFICES ASSUME failures' = 0
               PROVE  ValueInv'
  BY DEF ValueInv
<1>2. PICK n : n = Depth - 1
  OBVIOUS
<1>3. failures = 0 /\ Depth' = n /\ frames'[n].phase = "checks"
      /\ frames'[n].ns = Merged(Named(n, {}), Brought({}))
  <2>1. PICK lost \in SUBSET Key :
          /\ lost = {} \/ failures' > 0
          /\ failures' = 0 => failures = 0
          /\ Depth' = Depth - 1 /\ frames'[Depth - 1].phase = "checks"
          /\ frames'[Depth - 1].ns = Merged(Named(Depth - 1, lost), Brought(lost))
    BY CommandSucceedsFrames
  <2>2. lost = {}
    BY <1>1, <2>1
  <2> QED
    BY <1>1, <1>2, <2>1, <2>2
<1>4. Depth > 1 /\ returning = "SUCCESS" /\ returning' = "NONE" /\ UNCHANGED <<line, path>>
  BY DEF CommandSucceeds
<1>5. /\ n \in 1..Len(path) /\ n \in 1..Depth /\ n + 1 = Depth /\ FrameAt(n)
      /\ frames[n] \in Frame /\ frames[n].phase = "called"
      /\ Depth \in Nat /\ ~Idle
  BY <1>2, <1>4, Caller
<1>6. n \in Levels /\ n + 1 \in Levels /\ n <= Len(path)
  BY <1>5, LevelsAre DEF StructInv
<1>7. \A k \in Key : Top.ns[k] = ValueFrom(n + 1, k)
  BY <1>3, <1>4, <1>5, <1>6 DEF ValueInv, Top
<1>8. \A k \in Key : frames[n].ns[k] = IF k \in OwnKeys(n) THEN Given(n, ParserAt[n], k)
                                         ELSE Absent
  BY <1>5, <1>6, WordsOfLevel
<1>9. DestOf[frames[n].parser] = DestOf[ParserAt[n]] /\ frames[n].ns \in [Key -> Value]
  BY <1>5 DEF FrameAt, Frame
<1>10. \A k \in Key : Named(n, {})[k] = IF Names(n, k) THEN CommandName(n)
                                        ELSE frames[n].ns[k]
  BY <1>6, <1>9 DEF Named, Names
<1>11. \A k \in Key : Brought({})[k] = ValueFrom(n + 1, k)
  BY <1>7 DEF Brought
<1>12. \A k \in Key : frames'[n].ns[k] = SeenValue(n, k)
  <2>1. \A k \in Key : Named(n, {})[k] = IF Writes(n, k) THEN Written(n, k) ELSE Absent
    BY <1>8, <1>10 DEF Writes, Written, OwnKeys
  <2> QED
    BY <1>3, <1>6, <1>11, <2>1, NotAbsent DEF Merged, SeenValue
<1>13. ~Idle'
  BY <1>3, <1>5 DEF Idle, Depth
<1> QED
  BY <1>3, <1>4, <1>12, <1>13, SameMeaning DEF ValueInv

LEMMA ApplyDefaultsValue ==
    ASSUME StructInv, ValueInv, DefaultsApplied
    PROVE  ValueInv'
<1>1. SUFFICES ASSUME failures' = 0
               PROVE  ValueInv'
  BY DEF ValueInv
<1>2. PICK n : n = Depth
  OBVIOUS
<1>3. /\ Depth' = n /\ n \in Nat /\ n >= 1 /\ frames'[n].ns = WithDefaults(n, Top.ns)
      /\ returning = "NONE" /\ Top.phase = "defaults" /\ returning' = "SUCCESS"
      /\ UNCHANGED <<line, path, failures>>
  BY <1>2, ApplyDefaultsFrames DEF DefaultsApplied, Running, history
<1>4. FrameAt(n) /\ n \in Levels /\ Top = frames[n]
  BY <1>2, <1>3, LevelsAre DEF StructInv, FrameInv, Top
<1>5. \A k \in Key : Top.ns[k] = SeenValue(n, k)
  BY <1>1, <1>2, <1>3, <1>4 DEF ValueInv, Late
<1>6. \A k \in Key : frames'[n].ns[k] = ValueFrom(n, k)
  BY <1>3, <1>4, <1>5, ValueOfLevel DEF WithDefaults, DefaultAt, FrameAt, StructInv
<1>7. ~Idle'
  BY <1>3 DEF Idle, Depth
<1> QED
  BY <1>3, <1>6, <1>7, SameMeaning DEF ValueInv

LEMMA ReturnValue ==
    ASSUME StructInv, ValueInv, ReturnToClient
    PROVE  ValueInv'
<1>1. /\ Depth = 1 /\ Idle' /\ returning' = "NONE" /\ result' = returning
      /\ UNCHANGED <<line, path, failures>>
      /\ returning = "SUCCESS" => outNs' = Top.ns
  BY DEF ReturnToClient, Idle, history
<1>2. Depth' = 0 /\ 1 \in Levels /\ Top = frames[1]
  BY <1>1, EmptySeq, LevelsAre DEF Depth, Idle, StructInv, Top
<1>3. failures = 0 /\ returning = "SUCCESS" => \A k \in Key : outNs'[k] = ValueFrom(1, k)
  BY <1>1, <1>2 DEF ValueInv
<1>4. \A n \in Levels : n # 0
  BY LevelsAre DEF StructInv
<1> QED
  BY <1>1, <1>2, <1>3, <1>4, SameMeaning DEF ValueInv

LEMMA ValueNext ==
    ASSUME StructInv, ValueInv, [Next]_vars
    PROVE  ValueInv'
<1>1. CASE UNCHANGED <<line, path, frames, returning, result, outNs, failures>>
  BY <1>1, SameMeaning DEF ValueInv, Depth, Idle
<1>2. CASE CommandFails
  <2>1. Depth' >= 1 /\ returning' \in Failed
    BY <1>2, FrontOfFrames, Caller DEF CommandFails, Depth, StructInv, TypeInv
  <2>2. ~Idle'
    BY <2>1 DEF Idle, Depth
  <2> QED
    BY <2>1, <2>2, NoValue DEF Failed
<1>3. CASE Parse
  <2>1. Top'.phase \notin Late
    BY <1>3, ParseFrames DEF NewFrame, Late
  <2> QED
    BY <1>3, <2>1, ParseFrames, NoValue
<1>4. CASE PrintHelpOnError \/ Done \/ UNCHANGED vars
  BY <1>1, <1>4 DEF PrintHelpOnError, Done, vars, history
<1> QED
  BY <1>2, <1>3, <1>4, EarlyValue, NoValue, EndOfWordsValue, CheckValue, CommandSucceedsValue,
     DefaultsCases, ApplyDefaultsValue, ReturnValue DEF Next

(***************************************************************************)
(* A parse that succeeds, with no write lost, leaves each key the value of *)
(* the outermost parser that was given it, and a default only where none   *)
(* was: the innermost parser's (clap_parser_stage.c:349-352,               *)
(* clap_namespace.c:21-64, clap_tokenizer.c:343-351).                      *)
(***************************************************************************)
THEOREM ValuesByPrecedenceAlways == Spec => []ValuesByPrecedence
<1>1. Init => StructInv /\ ValueInv
  <2>1. Init => Depth = 0
    BY EmptySeq DEF Init, Depth
  <2>2. TypeInv => \A n \in Levels : n # 0
    BY LevelsAre
  <2> QED
    BY <2>1, <2>2, StructInit DEF Init, ValueInv, StructInv
<1>2. StructInv /\ ValueInv /\ [Next]_vars => StructInv' /\ ValueInv'
  BY StructNext, ValueNext
<1>3. StructInv /\ ValueInv => ValuesByPrecedence
  BY DEF ValueInv, ValuesByPrecedence
<1> QED
  BY <1>1, <1>2, <1>3, PTL DEF Spec

-----------------------------------------------------------------------------
(***************************************************************************)
(* The tests.  If no allocation has failed, the tests of a level that has  *)
(* returned with success, or is past them, are met; and one that reports   *)
(* something missing, or a dependency, is judged so.                       *)
(***************************************************************************)
TestInv ==
    failures = 0 =>
      \A n \in Levels :
        /\ (Idle => result # "NONE") /\ n > Depth /\ n > failedAt => Verdict(n) = "MET"
        /\ n = Depth /\ returning \notin Failed /\ frames[n].phase = "defaults" => Verdict(n) = "MET"
        /\ /\ returning = "ERROR" \/ (Idle /\ result = "ERROR")
           /\ error.code \in Tested /\ n = failedAt
           => Verdict(n) = error.code

\* A step of the innermost frame other than its tests, and other than for want of memory.
LEMMA SameTests ==
    ASSUME StructInv, NameInv, TestInv, UNCHANGED <<line, path>>,
           ~Idle, returning = "NONE", ~Idle', Depth' = Depth,
           \/ returning' = "NONE" /\ Top'.phase # "defaults" /\ UNCHANGED failedAt
           \/ returning' \in Failed /\ failedAt' = Depth /\ error'.code \notin Tested,
           failures' = 0 => failures = 0
    PROVE  TestInv'
<1>1. failedAt = 0 /\ Depth \in Nat
  BY OnTop DEF NameInv, Failed, StructInv
<1>2. SUFFICES ASSUME failures' = 0, NEW n \in Levels
               PROVE  /\ n > Depth /\ n > failedAt' => Verdict(n) = "MET"
                      /\ n = Depth => returning' \in Failed \/ frames'[n].phase # "defaults"
                      /\ returning' = "ERROR" => error'.code \notin Tested
  BY SameMeaning DEF TestInv
<1>3. n > Depth => Verdict(n) = "MET"
  BY <1>1, <1>2, LevelsAre DEF TestInv, StructInv
<1> QED
  BY <1>1, <1>3 DEF Top, Failed

LEMMA NoMemoryTests ==
    ASSUME StructInv, NEW released, OutOfMemory(released)
    PROVE  TestInv'
<1>1. failures' # 0
  BY DEF OutOfMemory, StructInv, TypeInv
<1> QED
  BY <1>1 DEF TestInv

LEMMA FailsTests ==
    ASSUME StructInv, NameInv, TestInv, ~Idle, returning = "NONE", UNCHANGED failures,
           NEW released, NEW code,
           \/ Fails(code, released) /\ code \notin Tested
           \/ Returns("HELP", released)
    PROVE  TestInv'
<1>1. CASE Fails(code, released) /\ code \notin Tested
  <2>1. error'.code = code
    BY <1>1 DEF Fails, StructInv, TypeInv
  <2> QED
    BY <1>1, <2>1, SameTests DEF Fails, Returns, Failed, Depth, Idle
<1>2. CASE Returns("HELP", released)
  <2>1. /\ UNCHANGED <<line, path, frames>> /\ returning' = "HELP" /\ failedAt' = Depth
        /\ ~Idle' /\ Depth' = Depth
    BY <1>2 DEF Returns, Idle, Depth
  <2>2. failedAt = 0 /\ Depth \in Nat
    BY OnTop DEF NameInv, Failed, StructInv
  <2>3. ASSUME failures = 0, NEW n \in Levels, n > Depth
        PROVE  Verdict(n) = "MET"
    BY <2>2, <2>3, LevelsAre DEF TestInv, StructInv
  <2> QED
    BY <2>1, <2>3, SameMeaning DEF TestInv, Failed
<1> QED
  BY <1>1, <1>2

LEMMA ContinuesTests ==
    ASSUME StructInv, NameInv, TestInv, ~Idle, returning = "NONE",
           NEW frame \in Frame, NEW resources \in SUBSET Resource,
           Continues(frame, resources), frame.phase # "defaults"
    PROVE  TestInv'
<1>1. Depth' = Depth /\ ~Idle' /\ Top' = frame
  BY ContinuesType DEF StructInv
<1> QED
  BY <1>1, SameTests DEF Continues, history

LEMMA PhaseTests ==
    ASSUME StructInv, NameInv, TestInv, ~Idle, returning = "NONE",
           NEW next \in Phase \ {"defaults"}, NEW resources \in SUBSET Resource,
           Continues([Top EXCEPT !.phase = next], resources)
    PROVE  TestInv'
<1>1. PICK frame : frame = [Top EXCEPT !.phase = next]
  OBVIOUS
<1>2. frame \in Frame /\ frame.phase = next
  BY <1>1, OnTop DEF StructInv, Frame
<1> QED
  BY <1>1, <1>2, ContinuesTests

LEMMA CallTests ==
    ASSUME StructInv, NameInv, TestInv,
           \/ GetNamespace \/ GetUsed \/ GetTokens \/ GetPattern \/ ParseOption \/ ParseHelp
           \/ ParsePositional \/ RejectWord \/ EndOfWords \/ DefaultRefused
    PROVE  TestInv'
<1>1. ~Idle /\ returning = "NONE"
  BY DEF GetNamespace, GetUsed, GetTokens, GetPattern, ParseOption, ParseHelp, ParsePositional,
         RejectWord, EndOfWords, DefaultRefused, AtWord, Running
<1>2. CASE TakesOption \/ TakesPositional
  <2>1. PICK next \in {"parse", "full"}, frame \in Frame :
          Continues(frame, Holds) /\ frame.phase = next
    BY <1>2, TakenKeys, TakenFrame
  <2> QED
    BY <1>1, <2>1, HoldsType, ContinuesTests
<1>3. CASE ParseHelp
  BY <1>1, <1>3, FailsTests DEF ParseHelp
<1>4. CASE RejectWord
  BY <1>1, <1>4, FailsTests DEF RejectWord, Tested
<1>5. {"used", "tokens", "pattern", "parse", "checks"} \subseteq Phase \ {"defaults"}
  BY DEF Phase
<1>6. {"namespace", "used", "tokens", "pattern"} \subseteq Resource
  BY DEF Resource
<1>7. ASSUME NEW r \in Resource, NEW next \in Phase \ {"defaults"}, Gets(r, next)
      PROVE  TestInv'
  BY <1>1, <1>7, HoldsType, PhaseTests DEF Gets
<1>8. CASE GetNamespace
  BY <1>5, <1>6, <1>7, <1>8, NoMemoryTests DEF GetNamespace
<1>9. CASE GetUsed
  BY <1>1, <1>5, <1>6, <1>7, <1>9, HoldsType, PhaseTests, NoMemoryTests DEF GetUsed
<1>10. CASE GetTokens
  BY <1>1, <1>5, <1>6, <1>7, <1>10, HoldsType, PhaseTests, NoMemoryTests DEF GetTokens
<1>11. CASE GetPattern
  BY <1>1, <1>5, <1>6, <1>7, <1>11, NoMemoryTests, FailsTests DEF GetPattern, Tested
<1>12. CASE EndOfWords
  BY <1>1, <1>5, <1>12, HoldsType, PhaseTests DEF EndOfWords
<1>13. CASE ParseOption
  BY <1>1, <1>2, <1>13, OptionTakes, FailsTests DEF Tested
<1>14. CASE DefaultRefused
  BY <1>1, <1>14, FailsTests DEF DefaultRefused, Tested
<1> QED
  BY <1>2, <1>3, <1>4, <1>8, <1>9, <1>10, <1>11, <1>12, <1>13, <1>14, PositionalTakes

LEMMA EnterTests ==
    ASSUME StructInv, EnterCommand
    PROVE  TestInv'
<1>1. AtWord /\ W \in DOMAIN Commands[Top.parser] /\ (Entered \/ OutOfMemory(AfterStage))
  BY DEF EnterCommand, Entered
<1>2. CASE Entered
  <2>1. /\ Depth' = Depth + 1 /\ Depth \in Nat /\ frames'[Depth + 1].phase = "namespace"
        /\ returning' = "NONE"
    BY <1>1, <1>2, EnteredFrames DEF NewFrame, Entered, AtWord, Running
  <2>2. Depth = Len(path) + 1
    BY <1>1 DEF AtWord, Running, StructInv, FrameInv, Early
  <2>3. Levels' = 1..(Depth + 1)
    BY <1>2, <2>2 DEF Entered, Levels, StructInv, TypeInv
  <2>4. ~Idle'
    BY <2>1 DEF Idle, Depth
  <2> QED
    BY <2>1, <2>3, <2>4 DEF TestInv
<1> QED
  BY <1>1, <1>2, NoMemoryTests

\* A required group is used just if one of the level's own words is in it.
LEMMA UsedGroups ==
    ASSUME StructInv, Running("checks"), NEW n, n = Depth
    PROVE  RequiredGroups[ParserAt[n]] \subseteq Top.used <=>
               \A g \in RequiredGroups[ParserAt[n]] : g \cap OwnWords(n) # {}
<1>1. ~Idle /\ n \in Nat /\ n >= 1 /\ Top.phase \in Late /\ Top \in Frame
  BY OnTop DEF Running, StructInv, Late
<1>2. FrameAt(n) /\ Top = frames[n]
  BY <1>1 DEF StructInv, FrameInv, Top
<1>3. Top.used = UsedBy(n, EndOf(n)) /\ ParserAt[n] \in Parser
  BY <1>1, <1>2 DEF FrameAt, Frame
<1>4. OwnPositions(n) = First(n)..(EndOf(n) - 1)
  BY <1>1, OwnPositionsAre DEF StructInv
<1>5. \A g \in RequiredGroups[ParserAt[n]] : g \in Groups[ParserAt[n]]
  BY <1>3, SubcommandsAssumption
<1>6. \A g : (\E j \in First(n)..(EndOf(n) - 1) : line[j] \in g) <=> g \cap OwnWords(n) # {}
  BY <1>4 DEF OwnWords
<1> QED
  BY <1>3, <1>5, <1>6 DEF UsedBy

\* The tests of a level see what SeenValue says; that is the point of ValueInv.
LEMMA TestsSee ==
    ASSUME StructInv, ValueInv, Running("checks"), failures = 0, NEW n, n = Depth
    PROVE  (Missing <=> MissingAt(n)) /\ (Violated <=> ViolatedAt(n))
<1>1. ~Idle /\ Depth \in Nat /\ Depth >= 1 /\ Top \in Frame /\ returning = "NONE"
  BY OnTop DEF Running, StructInv
<1>2. Top.parser = ParserAt[n] /\ Top.parser \in Parser /\ n \in Levels
  BY <1>1, LevelsAre DEF StructInv, FrameInv, FrameAt, Top, Frame
<1>3. \A k \in Key : Top.ns[k] = SeenValue(n, k)
  BY <1>1, <1>2 DEF ValueInv, Running, Late, Top
<1>4. \A k \in Key : Has(k) <=> SeenAt(n, k)
  BY <1>2, <1>3, SeenAtIs DEF Has, StructInv
<1>5. \A k \in DOMAIN Required[Top.parser] : k \in Key
  BY <1>2, SubcommandsAssumption
<1>6. \A d \in Requires[Top.parser] \cup Conflicts[Top.parser] : d[1] \in Key /\ d[2] \in Key
  BY <1>2, SubcommandsAssumption
<1>7. Missing <=> MissingAt(n)
  <2>1. (\E k \in DOMAIN Required[Top.parser] : Top.ns[k].type # Required[Top.parser][k])
          <=> \E k \in DOMAIN Required[ParserAt[n]] :
                 SeenValue(n, k).type # Required[ParserAt[n]][k]
    BY <1>2, <1>3, <1>5
  <2>2. ~(RequiredGroups[Top.parser] \subseteq Top.used)
          <=> \E g \in RequiredGroups[ParserAt[n]] : g \cap OwnWords(n) = {}
    BY <1>2, UsedGroups
  <2> QED
    BY <2>1, <2>2 DEF Missing, MissingAt
<1>8. Violated <=> ViolatedAt(n)
  BY <1>2, <1>4, <1>6 DEF Violated, ViolatedAt
<1> QED
  BY <1>7, <1>8

LEMMA CheckTests ==
    ASSUME StructInv, NameInv, ValueInv, TestInv, CheckRequired
    PROVE  TestInv'
<1>1. Running("checks") /\ ~Idle /\ returning = "NONE" /\ Depth \in Nat /\ failedAt = 0
      /\ UNCHANGED failures
  BY OnTop DEF CheckRequired, Running, StructInv, NameInv, Failed, Continues, history
<1>2. SUFFICES ASSUME failures = 0
               PROVE  TestInv'
  BY <1>1 DEF TestInv
<1>3. \A n \in Levels : n > Depth => Verdict(n) = "MET"
  BY <1>1, <1>2, LevelsAre DEF TestInv, StructInv
<1>4. CASE ~Missing /\ ~Violated /\ Continues([Top EXCEPT !.phase = "defaults"], Holds)
  <2>1. PICK frame : frame = [Top EXCEPT !.phase = "defaults"]
    OBVIOUS
  <2>2. frame \in Frame /\ Continues(frame, Holds)
    BY <1>1, <1>4, <2>1, OnTop DEF Frame, Phase, StructInv
  <2>3. Depth' = Depth /\ ~Idle'
    BY <1>1, <2>2, HoldsType, ContinuesType DEF StructInv
  <2>4. \A n \in Levels : n = Depth => Verdict(n) = "MET"
    BY <1>1, <1>2, <1>4, TestsSee DEF Verdict
  <2>5. UNCHANGED <<line, path, returning, failedAt, failures>>
    BY <2>2 DEF Continues, history
  <2> QED
    BY <1>1, <1>3, <2>3, <2>4, <2>5, SameMeaning DEF TestInv, Failed
<1>5. ASSUME NEW code, Fails(code, AfterChecks),
             \A n \in Levels : n = Depth => Verdict(n) = code
      PROVE  TestInv'
  <2>1. /\ UNCHANGED <<line, path, frames>> /\ failedAt' = Depth /\ returning' = "ERROR"
        /\ ~Idle' /\ Depth' = Depth /\ error'.code = code
    BY <1>1, <1>5 DEF Fails, Returns, Idle, Depth, StructInv, TypeInv
  <2> QED
    BY <1>1, <1>3, <1>5, <2>1, SameMeaning DEF TestInv, Failed
<1>6. CASE Missing /\ Fails("REQUIRED_MISSING", AfterChecks)
  BY <1>1, <1>2, <1>5, <1>6, TestsSee DEF Verdict
<1>7. CASE ~Missing /\ Violated /\ Fails("DEPENDENCY_VIOLATION", AfterChecks)
  BY <1>1, <1>2, <1>5, <1>7, TestsSee DEF Verdict
<1> QED
  BY <1>4, <1>6, <1>7 DEF CheckRequired

LEMMA ReturnTests ==
    ASSUME StructInv, NameInv, TestInv, ReturnToClient
    PROVE  TestInv'
<1>1. /\ Depth = 1 /\ Idle' /\ returning' = "NONE" /\ result' = returning
      /\ returning # "NONE" /\ UNCHANGED <<line, path, error, failedAt, failures>>
  <2>1. UNCHANGED <<line, path, error, failedAt, failures>>
    BY DEF ReturnToClient, history
  <2> QED
    BY <2>1 DEF ReturnToClient, Idle
<1>2. Depth' = 0 /\ ~Idle
  BY <1>1, EmptySeq DEF Depth, Idle, StructInv, FrameInv
<1>3. failures = 0 => \A n \in Levels : n > failedAt => Verdict(n) = "MET"
  <2> SUFFICES ASSUME failures = 0, NEW n \in Levels, n > failedAt
               PROVE  Verdict(n) = "MET"
    OBVIOUS
  <2>1. n \in Nat /\ n >= 1 /\ failedAt \in Nat
    BY LevelsAre DEF StructInv, TypeInv
  <2>2. CASE n > 1
    BY <1>1, <1>2, <2>2 DEF TestInv
  <2>3. CASE n = 1
    <3>1. returning = "SUCCESS"
      BY <1>1, <2>1, <2>3 DEF NameInv, StructInv, TypeInv
    <3>2. frames[n].phase = "defaults"
      BY <1>1, <2>3, <3>1 DEF StructInv, FrameInv, Top
    <3> QED
      BY <1>1, <2>3, <3>1, <3>2 DEF TestInv, Failed
  <2> QED
    BY <2>1, <2>2, <2>3
<1>4. \A n \in Levels : n # 0
  BY LevelsAre DEF StructInv
<1> QED
  BY <1>1, <1>2, <1>3, <1>4, SameMeaning DEF TestInv, Failed

LEMMA CommandFailsTests ==
    ASSUME StructInv, NameInv, TestInv, CommandFails
    PROVE  TestInv'
<1>1. Depth > 1 /\ Depth \in Nat /\ Depth' = Depth - 1 /\ returning \in Failed
      /\ UNCHANGED <<line, path, returning, failedAt, failures>>
  BY FrontOfFrames, Caller DEF CommandFails, StructInv, TypeInv, Depth, history
<1>2. error'.code = error.code /\ ~Idle /\ ~Idle'
  BY <1>1, Caller DEF CommandFails, StructInv, TypeInv, Idle, Depth
<1>3. failedAt \in Nat /\ failedAt >= Depth
  BY <1>1 DEF NameInv, StructInv, TypeInv
<1>4. \A n \in Levels : n > failedAt => n > Depth
  BY <1>1, <1>3, LevelsAre DEF StructInv
<1> QED
  BY <1>1, <1>2, <1>4, SameMeaning DEF TestInv, Failed

LEMMA CommandSucceedsTests ==
    ASSUME StructInv, NameInv, TestInv, CommandSucceeds
    PROVE  TestInv'
<1>1. PICK lost \in SUBSET Key :
        /\ failures' = 0 => failures = 0
        /\ Depth' = Depth - 1 /\ frames'[Depth - 1].phase = "checks"
  BY CommandSucceedsFrames
<1>2. Depth > 1 /\ Depth \in Nat /\ ~Idle /\ returning = "SUCCESS" /\ returning' = "NONE"
      /\ UNCHANGED <<line, path, failedAt>> /\ Top.phase = "defaults"
  BY Caller DEF CommandSucceeds, StructInv, FrameInv
<1>3. failures = 0 => \A n \in Levels : n > Depth - 1 /\ n > failedAt => Verdict(n) = "MET"
  <2> SUFFICES ASSUME failures = 0, NEW n \in Levels, n > Depth - 1, n > failedAt
               PROVE  Verdict(n) = "MET"
    OBVIOUS
  <2>1. n = Depth \/ n > Depth
    BY <1>2, LevelsAre DEF StructInv
  <2> QED
    BY <1>2, <2>1 DEF TestInv, Failed, Top
<1>4. ~Idle'
  BY <1>1, <1>2 DEF Idle, Depth
<1> QED
  BY <1>1, <1>2, <1>3, <1>4, SameMeaning DEF TestInv

LEMMA ApplyDefaultsTests ==
    ASSUME StructInv, TestInv, DefaultsApplied
    PROVE  TestInv'
<1>1. /\ Depth' = Depth /\ Depth \in Nat /\ Depth >= 1 /\ ~Idle
      /\ returning = "NONE" /\ returning' = "SUCCESS" /\ Top.phase = "defaults"
      /\ UNCHANGED <<line, path, failedAt, failures>>
  BY ApplyDefaultsFrames DEF DefaultsApplied, Running, history
<1>2. ~Idle' /\ \A n : n = Depth => frames[n].phase = "defaults"
  BY <1>1 DEF Idle, Depth, Top
<1> QED
  BY <1>1, <1>2, SameMeaning DEF TestInv, Failed

LEMMA TestNext ==
    ASSUME StructInv, NameInv, ValueInv, TestInv, [Next]_vars
    PROVE  TestInv'
<1>1. CASE UNCHANGED <<line, path, frames, returning, result, error, failedAt, failures>>
  BY <1>1, SameMeaning DEF TestInv, Depth, Idle
<1>2. CASE Parse
  <2>1. Levels' = 1..1 /\ Depth' = 1 /\ ~Idle' /\ returning' = "NONE"
        /\ frames'[1].phase = "namespace"
    BY <1>2, ParseFrames DEF Levels, NewFrame
  <2> QED
    BY <2>1 DEF TestInv
<1>3. CASE PrintHelpOnError \/ Done \/ UNCHANGED vars
  BY <1>1, <1>3 DEF PrintHelpOnError, Done, vars, history
<1> QED
  BY <1>2, <1>3, CallTests, EnterTests, CheckTests, CommandFailsTests, CommandSucceedsTests,
     DefaultsCases, ApplyDefaultsTests, ReturnTests DEF Next

(***************************************************************************)
(* With no write lost, the tests of a parser are judged by its own words,  *)
(* by what its command was given and, unlike what the comment at           *)
(* clap_tokenizer.c:341 says, by the defaults of the command; its required *)
(* groups by its own words alone.  So judged, the call that reports        *)
(* something missing, or a dependency, has it, and the calls below the one *)
(* that failed have all they need (clap_parser_stage.c:349-352,            *)
(* clap_tokenizer.c:285-339).                                              *)
(***************************************************************************)
THEOREM TestsSeeTheCommandAlways == Spec => []TestsSeeTheCommand
<1> DEFINE I == StructInv /\ NameInv /\ ValueInv /\ TestInv
<1>1. Init => I
  <2> SUFFICES ASSUME Init
               PROVE  I
    OBVIOUS
  <2>1. StructInv /\ Depth = 0 /\ Idle /\ returning = "NONE" /\ result = "NONE"
    BY StructInit, EmptySeq DEF Init, Depth, Idle
  <2>2. \A n \in Levels : n # 0
    BY <2>1, LevelsAre DEF StructInv
  <2> QED
    BY <2>1, <2>2 DEF NameInv, ValueInv, TestInv, Failed
<1>2. I /\ [Next]_vars => I'
  BY StructNext, NameNext, ValueNext, TestNext
<1>3. I => TestsSeeTheCommand
  <2> SUFFICES ASSUME I, Idle, failures = 0
               PROVE  TestsSeeTheCommand
    BY DEF TestsSeeTheCommand
  <2>1. Depth = 0 /\ \A n \in Levels : n > 0
    BY EmptySeq, LevelsAre DEF Idle, Depth, StructInv
  <2>2. result = "ERROR" => failedAt \in Levels
    BY LevelsAre DEF NameInv, Failed, StructInv
  <2> QED
    BY <2>1, <2>2 DEF TestInv, TestsSeeTheCommand, Tested
<1> QED
  BY <1>1, <1>2, <1>3, PTL DEF Spec
=============================================================================
