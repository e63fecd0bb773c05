-------------------------- MODULE HelpLayout_proofs --------------------------
(***************************************************************************)
(* The help: what is appended to the buffer stays inside it, and a line of *)
(* text begins where it should and is no wider than the help.  For every   *)
(* parser, width and colour, and however many allocations fail.            *)
(***************************************************************************)
EXTENDS HelpLayout, Folds_proofs, SequenceTheorems

-----------------------------------------------------------------------------
(***************************************************************************)
(* Strings, which have no more columns than bytes, and the pieces and the  *)
(* lines of the buffer.                                                    *)
(***************************************************************************)
Strings == {s \in [cols : Nat, bytes : Nat] : s.cols <= s.bytes}

Piece == [newline : BOOLEAN, cols : Nat, bytes : Nat, words : {0, 1}, indent : Nat, rest : Nat]

\* What is not a word of a text.
PlainPiece == {piece \in Piece : piece.words = 0}

Line == [cols : Nat, words : Nat, indent : Nat, start : Nat]

Buffer ==
    {b \in [alloc : Nat, len : Nat, lines : Seq(Line)] : b.lines # << >> /\ b.len + 1 <= b.alloc}

LastLine(b) == b.lines[Len(b.lines)]

LEMMA PlainType == \A n \in Nat : Plain(n) \in Strings /\ Plain(n).cols = n
BY DEF Plain, Strings

LEMMA StrType == \A s \in Strings : Str(s) \in PlainPiece /\ Str(s).cols = s.cols /\ ~Str(s).newline
BY DEF Str, Strings, PlainPiece, Piece, Newline

LEMMA NewlineType == Newline \in PlainPiece /\ Newline.newline
BY DEF Newline, PlainPiece, Piece

LEMMA WordType ==
    ASSUME NEW s \in Strings, NEW indent \in Nat
    PROVE  /\ WordOf(s, indent) \in Piece /\ ~WordOf(s, indent).newline
           /\ WordOf(s, indent).words = 1 /\ WordOf(s, indent).indent = indent
           /\ WordOf(s, indent).cols = s.cols
BY DEF WordOf, Str, Strings, Piece, Newline

LEMMA PaintedType ==
    ASSUME NEW key \in DOMAIN CodeBytes, NEW n \in Nat
    PROVE  Painted(key, n) \in Strings /\ Painted(key, n).cols = n
<1>1. CodeBytes[key] \in Nat
  BY DEF CodeBytes
<1> QED
  BY <1>1 DEF Painted, Strings, ResetBytes

LEMMA PiecesType ==
    ASSUME NEW key \in DOMAIN CodeBytes, NEW n \in Nat
    PROVE  PaintedPieces(key, n) \in Seq(PlainPiece)
<1>1. CodeBytes[key] \in Nat
  BY DEF CodeBytes
<1>2. Str(Plain(n)) \in PlainPiece
  BY PlainType, StrType
<1>3. Str([cols |-> 0, bytes |-> ResetBytes]) \in PlainPiece
  BY DEF Str, PlainPiece, Piece, Newline, ResetBytes
<1>4. [Str([cols |-> 0, bytes |-> CodeBytes[key]]) EXCEPT !.rest = 2] \in PlainPiece
  BY <1>1 DEF Str, PlainPiece, Piece, Newline
<1>5. [Str(Plain(n)) EXCEPT !.rest = 1] \in PlainPiece
  BY DEF Str, PlainPiece, Piece, Newline, Plain
<1> HIDE DEF PlainPiece
<1> QED
  BY <1>2, <1>3, <1>4, <1>5 DEF PaintedPieces

LEMMA BesideType ==
    ASSUME NEW s \in Strings, NEW t \in Strings
    PROVE  Beside(s, t) \in Strings /\ Beside(s, t).cols = s.cols + t.cols
BY DEF Beside, Strings

LEMMA PadType ==
    ASSUME NEW n \in Nat
    PROVE  Pad(n) \in Seq(PlainPiece) /\ Len(Pad(n)) = n /\ \A i \in 1..n : Pad(n)[i] = Str(Plain(1))
<1>1. Str(Plain(1)) \in PlainPiece
  BY PlainType, StrType
<1> HIDE DEF PlainPiece
<1> QED
  BY <1>1 DEF Pad

-----------------------------------------------------------------------------
(***************************************************************************)
(* The folds: each has the values h after 0, 1, ... entries.               *)
(***************************************************************************)
LEMMA CatType ==
    ASSUME NEW b \in Buffer, NEW piece \in Piece
    PROVE  Cat(b, piece) \in Buffer
<1> DEFINE last == LastLine(b)
           joined == IF piece.words = 1 /\ last.words = 0
                     THEN [cols |-> last.cols + piece.cols, words |-> 1,
                           indent |-> piece.indent, start |-> last.cols]
                     ELSE [last EXCEPT !.cols = @ + piece.cols, !.words = @ + piece.words]
           lines == IF piece.newline THEN Append(b.lines, NoLine)
                    ELSE [b.lines EXCEPT ![Len(b.lines)] = joined]
<1>1. b.lines \in Seq(Line) /\ b.lines # << >> /\ Len(b.lines) \in 1..Len(b.lines) /\ last \in Line
  BY DEF Buffer, LastLine
<1>2. joined \in Line
  <2>1. piece.cols \in Nat /\ piece.words \in Nat /\ piece.indent \in Nat
    BY DEF Piece
  <2>2. last \in [cols : Nat, words : Nat, indent : Nat, start : Nat]
    BY <1>1 DEF Line
  <2> HIDE DEF last
  <2> DEFINE cols == last.cols + piece.cols
             words == last.words + piece.words
  <2>3. [last EXCEPT !.cols = @ + piece.cols, !.words = @ + piece.words] \in Line
    <3>1. cols \in Nat /\ words \in Nat
      BY <2>1, <2>2
    <3> HIDE DEF cols, words
    <3>2. [last EXCEPT !.cols = cols, !.words = words] \in Line
      BY <2>2, <3>1 DEF Line
    <3> QED
      BY <3>2 DEF cols, words
  <2>4. [cols |-> last.cols + piece.cols, words |-> 1,
         indent |-> piece.indent, start |-> last.cols] \in Line
    BY <2>1, <2>2 DEF Line
  <2> QED
    BY <2>3, <2>4
<1>3. NoLine \in Line
  BY DEF NoLine, Line
<1>4. lines \in Seq(Line) /\ lines # << >>
  <2> HIDE DEF joined, Line
  <2> QED
    BY <1>1, <1>2, <1>3
<1>5. Cat(b, piece) = [Grown(b, piece.bytes) EXCEPT !.len = @ + piece.bytes, !.lines = lines]
  <2>1. Grown(b, piece.bytes).lines = b.lines
    BY DEF Grown, Buffer
  <2> QED
    BY <2>1 DEF Cat, LastLine
<1> HIDE DEF lines
<1>6. piece.bytes \in Nat
  BY DEF Piece
<1>7. Grown(b, piece.bytes) \in [alloc : Nat, len : Nat, lines : Seq(Line)]
  <2> HIDE DEF Line
  <2> QED
    BY <1>6 DEF Grown, Buffer, LargerOf, NeedsRoom
<1>8. Grown(b, piece.bytes).len = b.len /\ b.len + piece.bytes + 1 <= Grown(b, piece.bytes).alloc
  BY <1>6 DEF Grown, Buffer, LargerOf, NeedsRoom
<1> DEFINE G == Grown(b, piece.bytes)
           len == G.len + piece.bytes
           new == [G EXCEPT !.len = len, !.lines = lines]
<1> HIDE DEF Line, G
<1>9. G.alloc \in Nat /\ G.len \in Nat /\ len \in Nat
  BY <1>6, <1>7 DEF G
<1>10. /\ new \in [alloc : Nat, len : Nat, lines : Seq(Line)]
       /\ new.alloc = G.alloc /\ new.len = G.len + piece.bytes /\ new.lines = lines
  <2>1. G \in [alloc : Nat, len : Nat, lines : Seq(Line)]
    BY <1>7 DEF G
  <2>2. new \in [alloc : Nat, len : Nat, lines : Seq(Line)] /\ new.len = len
    <3> HIDE DEF len
    <3> QED
      BY <1>4, <1>9, <2>1
  <2> QED
    BY <2>1, <2>2
<1> HIDE DEF new
<1>11. new \in Buffer
  <2>1. b.len \in Nat
    BY DEF Buffer
  <2>2. new.len + 1 <= new.alloc
    BY <1>6, <1>8, <1>9, <1>10, <2>1 DEF G
  <2> QED
    BY <1>4, <1>10, <2>2 DEF Buffer
<1> QED
  BY <1>5, <1>11 DEF new, G

LEMMA CatsTrace ==
    ASSUME NEW b \in Buffer, NEW s \in Seq(Piece)
    PROVE  \E h \in [0..Len(s) -> Buffer] :
              /\ h[0] = b /\ Cats(b, s) = h[Len(s)]
              /\ \A k \in 1..Len(s) : h[k] = Cat(h[k - 1], s[k])
<1> DEFINE F == [x \in Buffer \X Piece |-> Cat(x[1], x[2])]
           Equation(g) == g = [t \in SUBSET (1..Len(s)) |->
                                 IF t = {} THEN b ELSE Cat(g[t \ {Max(t)}], s[Max(t)])]
           iter == CHOOSE g : Equation(g)
<1>0. Len(s) \in Nat
  OBVIOUS
<1>1. F \in [Buffer \X Piece -> Buffer]
  BY CatType
<1>2. PICK g \in [SUBSET (1..Len(s)) -> Buffer] : IsFold(F, b, s, Len(s), g)
  <2> HIDE DEF F
  <2> QED
    BY <1>1, FoldExists
<1>3. Equation(g)
  <2>1. \A t \in SUBSET (1..Len(s)) : t # {} =>
           F[<<g[t \ {Max(t)}], s[Max(t)]>>] = Cat(g[t \ {Max(t)}], s[Max(t)])
    <3> SUFFICES ASSUME NEW t \in SUBSET (1..Len(s)), t # {}
                 PROVE  g[t \ {Max(t)}] \in Buffer /\ s[Max(t)] \in Piece
      OBVIOUS
    <3>1. Max(t) \in 1..Len(s) /\ t \ {Max(t)} \in SUBSET (1..Len(s))
      BY <1>0, MaxOfPlaces
    <3> QED
      BY <3>1
  <2> HIDE DEF F
  <2> QED
    BY <1>2, <2>1 DEF IsFold
<1>4. Equation(iter)
  <2> HIDE DEF Equation
  <2> QED
    BY <1>3
<1>5. Cats(b, s) = iter[1..Len(s)]
  <2>1. DOMAIN s = 1..Len(s)
    OBVIOUS
  <2> QED
    BY <2>1 DEF Cats, FoldLeft, MapThenFoldSet
<1> HIDE DEF iter
<1> DEFINE h == [k \in 0..Len(s) |-> iter[1..k]]
<1>6. h[0] = b
  BY <1>4
<1>7. ASSUME NEW k \in 1..Len(s)
      PROVE  h[k] = Cat(h[k - 1], s[k])
  <2>1. 1..k \in SUBSET (1..Len(s)) /\ k - 1 \in 0..Len(s) /\ k \in 0..Len(s)
    BY <1>0
  <2>2. 1..k # {} /\ Max(1..k) = k /\ (1..k) \ {k} = 1..(k - 1)
    <3>1. k \in Nat \ {0}
      BY <1>0
    <3> QED
      BY <3>1, Places
  <2>3. iter[1..k] = Cat(iter[(1..k) \ {k}], s[k])
    BY <1>4, <2>1, <2>2
  <2>4. iter[1..k] = Cat(iter[1..(k - 1)], s[k])
    BY <2>2, <2>3, Zenon
  <2> QED
    BY <2>1, <2>4
<1>8. h \in [0..Len(s) -> Buffer]
  <2> DEFINE Typed == {k \in 0..Len(s) : h[k] \in Buffer}
  <2>1. 0 \in Typed
    BY <1>6
  <2>2. ASSUME NEW k \in 0..(Len(s) - 1), k \in Typed
        PROVE  k + 1 \in Typed
    <3>1. k + 1 \in 1..Len(s) /\ s[k + 1] \in Piece
      OBVIOUS
    <3>2. h[k + 1] = Cat(h[(k + 1) - 1], s[k + 1])
      BY <1>7, <3>1
    <3>3. (k + 1) - 1 = k
      OBVIOUS
    <3> QED
      BY <2>2, <3>1, <3>2, <3>3, CatType
  <2> HIDE DEF Typed
  <2>3. \A k \in 0..(Len(s) - 1) : k \in Typed => k + 1 \in Typed
    BY <2>2
  <2>4. \A k \in 0..Len(s) : k \in Typed
    BY <1>0, <2>1, <2>3, Inductive
  <2> QED
    BY <2>4 DEF Typed
<1>9. \A k \in 1..Len(s) : h[k] = Cat(h[k - 1], s[k])
  BY <1>7
<1>10. Cats(b, s) = h[Len(s)]
  BY <1>0, <1>5
<1> HIDE DEF h
<1> QED
  BY <1>6, <1>8, <1>9, <1>10

LEMMA JoinedTrace ==
    ASSUME NEW s \in Seq(Strings)
    PROVE  \E h \in [0..Len(s) -> Strings] :
              /\ h[0] = Plain(0) /\ Joined(s) = h[Len(s)]
              /\ \A k \in 1..Len(s) : h[k] = Beside(h[k - 1], s[k])
<1> DEFINE F == [x \in Strings \X Strings |-> Beside(x[1], x[2])]
           Equation(g) == g = [t \in SUBSET (1..Len(s)) |->
                                 IF t = {} THEN Plain(0) ELSE Beside(g[t \ {Max(t)}], s[Max(t)])]
           iter == CHOOSE g : Equation(g)
<1>0. Len(s) \in Nat
  OBVIOUS
<1>1. F \in [Strings \X Strings -> Strings] /\ Plain(0) \in Strings
  BY BesideType, PlainType
<1>2. PICK g \in [SUBSET (1..Len(s)) -> Strings] : IsFold(F, Plain(0), s, Len(s), g)
  <2> HIDE DEF F
  <2> QED
    BY <1>1, FoldExists
<1>3. Equation(g)
  <2>1. \A t \in SUBSET (1..Len(s)) : t # {} =>
           F[<<g[t \ {Max(t)}], s[Max(t)]>>] = Beside(g[t \ {Max(t)}], s[Max(t)])
    <3> SUFFICES ASSUME NEW t \in SUBSET (1..Len(s)), t # {}
                 PROVE  g[t \ {Max(t)}] \in Strings /\ s[Max(t)] \in Strings
      OBVIOUS
    <3>1. Max(t) \in 1..Len(s) /\ t \ {Max(t)} \in SUBSET (1..Len(s))
      BY <1>0, MaxOfPlaces
    <3> QED
      BY <3>1
  <2> HIDE DEF F
  <2> QED
    BY <1>2, <2>1 DEF IsFold
<1>4. Equation(iter)
  <2> HIDE DEF Equation
  <2> QED
    BY <1>3
<1>5. Joined(s) = iter[1..Len(s)]
  <2>1. DOMAIN s = 1..Len(s)
    OBVIOUS
  <2> QED
    BY <2>1 DEF Joined, FoldLeft, MapThenFoldSet
<1> HIDE DEF iter
<1> DEFINE h == [k \in 0..Len(s) |-> iter[1..k]]
<1>6. h[0] = Plain(0)
  BY <1>4
<1>7. ASSUME NEW k \in 1..Len(s)
      PROVE  h[k] = Beside(h[k - 1], s[k])
  <2>1. 1..k \in SUBSET (1..Len(s)) /\ k - 1 \in 0..Len(s) /\ k \in 0..Len(s)
    BY <1>0
  <2>2. 1..k # {} /\ Max(1..k) = k /\ (1..k) \ {k} = 1..(k - 1)
    <3>1. k \in Nat \ {0}
      BY <1>0
    <3> QED
      BY <3>1, Places
  <2>3. iter[1..k] = Beside(iter[(1..k) \ {k}], s[k])
    BY <1>4, <2>1, <2>2
  <2>4. iter[1..k] = Beside(iter[1..(k - 1)], s[k])
    BY <2>2, <2>3, Zenon
  <2> QED
    BY <2>1, <2>4
<1>8. h \in [0..Len(s) -> Strings]
  <2> DEFINE Typed == {k \in 0..Len(s) : h[k] \in Strings}
  <2>1. 0 \in Typed
    BY <1>1, <1>6
  <2>2. ASSUME NEW k \in 0..(Len(s) - 1), k \in Typed
        PROVE  k + 1 \in Typed
    <3>1. k + 1 \in 1..Len(s) /\ s[k + 1] \in Strings
      OBVIOUS
    <3>2. h[k + 1] = Beside(h[(k + 1) - 1], s[k + 1])
      BY <1>7, <3>1
    <3>3. (k + 1) - 1 = k
      OBVIOUS
    <3> QED
      BY <2>2, <3>1, <3>2, <3>3, BesideType
  <2> HIDE DEF Typed
  <2>3. \A k \in 0..(Len(s) - 1) : k \in Typed => k + 1 \in Typed
    BY <2>2
  <2>4. \A k \in 0..Len(s) : k \in Typed
    BY <1>0, <2>1, <2>3, Inductive
  <2> QED
    BY <2>4 DEF Typed
<1>9. \A k \in 1..Len(s) : h[k] = Beside(h[k - 1], s[k])
  BY <1>7
<1>10. Joined(s) = h[Len(s)]
  BY <1>0, <1>5
<1> HIDE DEF h
<1> QED
  BY <1>6, <1>8, <1>9, <1>10

LEMMA TotalTrace ==
    ASSUME NEW s \in Seq(Nat)
    PROVE  \E h \in [0..Len(s) -> Nat] :
              /\ h[0] = 0 /\ Total(s) = h[Len(s)]
              /\ \A k \in 1..Len(s) : h[k] = h[k - 1] + s[k]
<1> DEFINE F == [x \in Nat \X Nat |-> x[1] + x[2]]
           Equation(g) == g = [t \in SUBSET (1..Len(s)) |->
                                 IF t = {} THEN 0 ELSE g[t \ {Max(t)}] + s[Max(t)]]
           iter == CHOOSE g : Equation(g)
<1>0. Len(s) \in Nat
  OBVIOUS
<1>1. F \in [Nat \X Nat -> Nat] /\ 0 \in Nat
  OBVIOUS
<1>2. PICK g \in [SUBSET (1..Len(s)) -> Nat] : IsFold(F, 0, s, Len(s), g)
  <2> HIDE DEF F
  <2> QED
    BY <1>1, FoldExists
<1>3. Equation(g)
  <2>1. \A t \in SUBSET (1..Len(s)) : t # {} =>
           F[<<g[t \ {Max(t)}], s[Max(t)]>>] = g[t \ {Max(t)}] + s[Max(t)]
    <3> SUFFICES ASSUME NEW t \in SUBSET (1..Len(s)), t # {}
                 PROVE  g[t \ {Max(t)}] \in Nat /\ s[Max(t)] \in Nat
      OBVIOUS
    <3>1. Max(t) \in 1..Len(s) /\ t \ {Max(t)} \in SUBSET (1..Len(s))
      BY <1>0, MaxOfPlaces
    <3> QED
      BY <3>1
  <2> HIDE DEF F
  <2> QED
    BY <1>2, <2>1 DEF IsFold
<1>4. Equation(iter)
  <2> HIDE DEF Equation
  <2> QED
    BY <1>3
<1>5. Total(s) = iter[1..Len(s)]
  <2>1. DOMAIN s = 1..Len(s)
    OBVIOUS
  <2> QED
    BY <2>1 DEF Total, FoldLeft, MapThenFoldSet
<1> HIDE DEF iter
<1> DEFINE h == [k \in 0..Len(s) |-> iter[1..k]]
<1>6. h[0] = 0
  BY <1>4
<1>7. ASSUME NEW k \in 1..Len(s)
      PROVE  h[k] = h[k - 1] + s[k]
  <2>1. 1..k \in SUBSET (1..Len(s)) /\ k - 1 \in 0..Len(s) /\ k \in 0..Len(s)
    BY <1>0
  <2>2. 1..k # {} /\ Max(1..k) = k /\ (1..k) \ {k} = 1..(k - 1)
    <3>1. k \in Nat \ {0}
      BY <1>0
    <3> QED
      BY <3>1, Places
  <2>3. iter[1..k] = iter[(1..k) \ {k}] + s[k]
    BY <1>4, <2>1, <2>2
  <2>4. iter[1..k] = iter[1..(k - 1)] + s[k]
    BY <2>2, <2>3, Zenon
  <2> QED
    BY <2>1, <2>4
<1>8. h \in [0..Len(s) -> Nat]
  <2> DEFINE Typed == {k \in 0..Len(s) : h[k] \in Nat}
  <2>1. 0 \in Typed
    BY <1>1, <1>6
  <2>2. ASSUME NEW k \in 0..(Len(s) - 1), k \in Typed
        PROVE  k + 1 \in Typed
    <3>1. k + 1 \in 1..Len(s) /\ s[k + 1] \in Nat
      OBVIOUS
    <3>2. h[k + 1] = h[(k + 1) - 1] + s[k + 1]
      BY <1>7, <3>1
    <3>3. (k + 1) - 1 = k
      OBVIOUS
    <3> QED
      BY <2>2, <3>1, <3>2, <3>3
  <2> HIDE DEF Typed
  <2>3. \A k \in 0..(Len(s) - 1) : k \in Typed => k + 1 \in Typed
    BY <2>2
  <2>4. \A k \in 0..Len(s) : k \in Typed
    BY <1>0, <2>1, <2>3, Inductive
  <2> QED
    BY <2>4 DEF Typed
<1>9. \A k \in 1..Len(s) : h[k] = h[k - 1] + s[k]
  BY <1>7
<1>10. Total(s) = h[Len(s)]
  BY <1>0, <1>5
<1> HIDE DEF h
<1> QED
  BY <1>6, <1>8, <1>9, <1>10

\* One choice of get_upper_metavar.
MetavarStep(choices, pos, i) ==
    IF pos >= MetavarSize - 2 THEN pos
    ELSE LET start == IF i > 1 THEN pos + 1 ELSE pos
         IN  LargerOf(start, SmallerOf(start + choices[i], MetavarSize - 2))

MetavarEnd(choices, s) == FoldLeft(LAMBDA pos, i : MetavarStep(choices, pos, i), 1, s)

\* Where the closing brace goes.
MetavarIndex == {n \in Nat : 1 <= n /\ n <= MetavarSize - 2}

LEMMA MetavarStepType ==
    ASSUME NEW choices \in Seq(Nat), NEW pos \in MetavarIndex, NEW i \in DOMAIN choices
    PROVE  MetavarStep(choices, pos, i) \in MetavarIndex
<1>1. choices[i] \in Nat /\ i \in Nat
  OBVIOUS
<1>2. pos \in Nat /\ 1 <= pos /\ pos <= MetavarSize - 2 /\ MetavarSize \in Nat
  BY DEF MetavarIndex, MetavarSize
<1> QED
  BY <1>1, <1>2 DEF MetavarStep, LargerOf, SmallerOf, MetavarIndex

LEMMA MetavarTrace ==
    ASSUME NEW choices \in Seq(Nat), NEW s \in Seq((DOMAIN choices))
    PROVE  \E h \in [0..Len(s) -> MetavarIndex] :
              /\ h[0] = 1 /\ MetavarEnd(choices, s) = h[Len(s)]
              /\ \A k \in 1..Len(s) : h[k] = MetavarStep(choices, h[k - 1], s[k])
<1> DEFINE F == [x \in MetavarIndex \X (DOMAIN choices) |-> MetavarStep(choices, x[1], x[2])]
           Equation(g) == g = [t \in SUBSET (1..Len(s)) |->
                                 IF t = {} THEN 1 ELSE MetavarStep(choices, g[t \ {Max(t)}], s[Max(t)])]
           iter == CHOOSE g : Equation(g)
<1>0. Len(s) \in Nat
  OBVIOUS
<1>1. F \in [MetavarIndex \X (DOMAIN choices) -> MetavarIndex] /\ 1 \in MetavarIndex
  BY MetavarStepType DEF MetavarIndex, MetavarSize
<1>2. PICK g \in [SUBSET (1..Len(s)) -> MetavarIndex] : IsFold(F, 1, s, Len(s), g)
  <2> HIDE DEF F
  <2> QED
    BY <1>1, FoldExists
<1>3. Equation(g)
  <2>1. \A t \in SUBSET (1..Len(s)) : t # {} =>
           F[<<g[t \ {Max(t)}], s[Max(t)]>>] = MetavarStep(choices, g[t \ {Max(t)}], s[Max(t)])
    <3> SUFFICES ASSUME NEW t \in SUBSET (1..Len(s)), t # {}
                 PROVE  g[t \ {Max(t)}] \in MetavarIndex /\ s[Max(t)] \in (DOMAIN choices)
      OBVIOUS
    <3>1. Max(t) \in 1..Len(s) /\ t \ {Max(t)} \in SUBSET (1..Len(s))
      BY <1>0, MaxOfPlaces
    <3> QED
      BY <3>1
  <2> HIDE DEF F
  <2> QED
    BY <1>2, <2>1 DEF IsFold
<1>4. Equation(iter)
  <2> HIDE DEF Equation
  <2> QED
    BY <1>3
<1>5. MetavarEnd(choices, s) = iter[1..Len(s)]
  <2>1. DOMAIN s = 1..Len(s)
    OBVIOUS
  <2> QED
    BY <2>1 DEF MetavarEnd, FoldLeft, MapThenFoldSet
<1> HIDE DEF iter
<1> DEFINE h == [k \in 0..Len(s) |-> iter[1..k]]
<1>6. h[0] = 1
  BY <1>4
<1>7. ASSUME NEW k \in 1..Len(s)
      PROVE  h[k] = MetavarStep(choices, h[k - 1], s[k])
  <2>1. 1..k \in SUBSET (1..Len(s)) /\ k - 1 \in 0..Len(s) /\ k \in 0..Len(s)
    BY <1>0
  <2>2. 1..k # {} /\ Max(1..k) = k /\ (1..k) \ {k} = 1..(k - 1)
    <3>1. k \in Nat \ {0}
      BY <1>0
    <3> QED
      BY <3>1, Places
  <2>3. iter[1..k] = MetavarStep(choices, iter[(1..k) \ {k}], s[k])
    BY <1>4, <2>1, <2>2
  <2>4. iter[1..k] = MetavarStep(choices, iter[1..(k - 1)], s[k])
    BY <2>2, <2>3, Zenon
  <2> QED
    BY <2>1, <2>4
<1>8. h \in [0..Len(s) -> MetavarIndex]
  <2> DEFINE Typed == {k \in 0..Len(s) : h[k] \in MetavarIndex}
  <2>1. 0 \in Typed
    BY <1>1, <1>6
  <2>2. ASSUME NEW k \in 0..(Len(s) - 1), k \in Typed
        PROVE  k + 1 \in Typed
    <3>1. k + 1 \in 1..Len(s) /\ s[k + 1] \in (DOMAIN choices)
      OBVIOUS
    <3>2. h[k + 1] = MetavarStep(choices, h[(k + 1) - 1], s[k + 1])
      BY <1>7, <3>1
    <3>3. (k + 1) - 1 = k
      OBVIOUS
    <3> QED
      BY <2>2, <3>1, <3>2, <3>3, MetavarStepType
  <2> HIDE DEF Typed
  <2>3. \A k \in 0..(Len(s) - 1) : k \in Typed => k + 1 \in Typed
    BY <2>2
  <2>4. \A k \in 0..Len(s) : k \in Typed
    BY <1>0, <2>1, <2>3, Inductive
  <2> QED
    BY <2>4 DEF Typed
<1>9. \A k \in 1..Len(s) : h[k] = MetavarStep(choices, h[k - 1], s[k])
  BY <1>7
<1>10. MetavarEnd(choices, s) = h[Len(s)]
  BY <1>0, <1>5
<1> HIDE DEF h
<1> QED
  BY <1>6, <1>8, <1>9, <1>10

LEMMA UpperMetavarFits ==
    ASSUME NEW arg \in Argument
    PROVE  UpperMetavar(arg) \in Nat /\ UpperMetavar(arg) < MetavarSize
<1>1. CASE arg.choices # << >>
  <2> DEFINE c == arg.choices
             s == [i \in DOMAIN c |-> i]
  <2>1. c \in Seq(Nat)
    BY DEF Argument, Text
  <2>2. s \in Seq(DOMAIN c) /\ DOMAIN c = 1..Len(c) /\ Len(c) \in Nat
    BY <2>1
  <2>3. MetavarEnd(c, s) \in MetavarIndex
    <3> HIDE DEF c, s
    <3>1. PICK h \in [0..Len(s) -> MetavarIndex] :
             MetavarEnd(c, s) = h[Len(s)]
      BY <2>1, <2>2, MetavarTrace
    <3> QED
      BY <2>2, <3>1
  <2>4. UpperMetavar(arg) = 1 + MetavarEnd(c, s)
    BY <1>1 DEF UpperMetavar, MetavarEnd, MetavarStep
  <2> HIDE DEF c, s
  <2> QED
    BY <2>3, <2>4 DEF MetavarSize, MetavarIndex
<1>2. CASE arg.choices = << >>
  <2>0. MetavarSize \in Nat /\ MetavarSize - 1 \in Nat
    BY DEF MetavarSize
  <2>1. arg.metavar \in Nat /\ arg.dest \in Nat
    BY DEF Argument
  <2> QED
    BY <1>2, <2>0, <2>1 DEF UpperMetavar, SmallerOf
<1> QED
  BY <1>1, <1>2

-----------------------------------------------------------------------------
(***************************************************************************)
(* Pieces that are written one after the other.                            *)
(***************************************************************************)
LEMMA CatsType == ASSUME NEW b \in Buffer, NEW s \in Seq(Piece) PROVE Cats(b, s) \in Buffer
<1>1. PICK h \in [0..Len(s) -> Buffer] : Cats(b, s) = h[Len(s)]
  BY CatsTrace
<1>2. Len(s) \in 0..Len(s)
  OBVIOUS
<1> QED
  BY <1>1, <1>2

LEMMA CatsOne == ASSUME NEW b \in Buffer, NEW piece \in Piece PROVE Cats(b, <<piece>>) = Cat(b, piece)
<1> DEFINE s == <<piece>>
<1>1. s \in Seq(Piece) /\ Len(s) = 1 /\ s[1] = piece
  OBVIOUS
<1> HIDE DEF s
<1>2. PICK h : /\ h[0] = b /\ Cats(b, s) = h[Len(s)]
               /\ \A k \in 1..Len(s) : h[k] = Cat(h[k - 1], s[k])
  BY <1>1, CatsTrace
<1>3. h[1] = Cat(h[1 - 1], s[1])
  BY <1>1, <1>2
<1> QED
  BY <1>1, <1>2, <1>3 DEF s

LEMMA CatsNone == ASSUME NEW b \in Buffer PROVE Cats(b, << >>) = b
<1> DEFINE s == << >>
<1>1. s \in Seq(Piece) /\ Len(s) = 0
  OBVIOUS
<1> HIDE DEF s
<1>2. s \in Seq(Piece)
  BY <1>1
<1>3. PICK h \in [0..Len(s) -> Buffer] : h[0] = b /\ Cats(b, s) = h[Len(s)]
  BY <1>2, CatsTrace
<1> QED
  BY <1>1, <1>3 DEF s

LEMMA CatsConcat ==
    ASSUME NEW b \in Buffer, NEW s \in Seq(Piece), NEW t \in Seq(Piece)
    PROVE  Cats(b, s \o t) = Cats(Cats(b, s), t)
<1> DEFINE st == s \o t
<1>1. /\ st \in Seq(Piece) /\ Len(st) = Len(s) + Len(t) /\ Len(s) \in Nat /\ Len(t) \in Nat
      /\ \A k \in 1..Len(s) : st[k] = s[k]
      /\ \A k \in 1..Len(t) : st[Len(s) + k] = t[k]
  BY ConcatProperties
<1> HIDE DEF st
<1>1a. st \in Seq(Piece)
  BY <1>1
<1>2. PICK h \in [0..Len(st) -> Buffer] :
         /\ h[0] = b /\ Cats(b, st) = h[Len(st)]
         /\ \A k \in 1..Len(st) : h[k] = Cat(h[k - 1], st[k])
  BY <1>1a, CatsTrace
<1>3. PICK f : /\ f[0] = b /\ Cats(b, s) = f[Len(s)]
               /\ \A k \in 1..Len(s) : f[k] = Cat(f[k - 1], s[k])
  BY CatsTrace
<1>4. Cats(b, s) \in Buffer
  BY CatsType
<1>5. PICK g : /\ g[0] = Cats(b, s) /\ Cats(Cats(b, s), t) = g[Len(t)]
               /\ \A k \in 1..Len(t) : g[k] = Cat(g[k - 1], t[k])
  BY <1>4, CatsTrace
<1> DEFINE First == {k \in 0..Len(s) : h[k] = f[k]}
           Second == {k \in 0..Len(t) : h[Len(s) + k] = g[k]}
<1>6. Len(s) \in First
  <2>1. 0 \in First
    BY <1>1, <1>2, <1>3
  <2>2. ASSUME NEW k \in 0..(Len(s) - 1), k \in First
        PROVE  k + 1 \in First
    <3>1. k + 1 \in 1..Len(s) /\ k + 1 \in 1..Len(st) /\ (k + 1) - 1 = k
      BY <1>1
    <3>2. h[k + 1] = Cat(h[k], st[k + 1]) /\ f[k + 1] = Cat(f[k], s[k + 1])
      BY <1>2, <1>3, <3>1
    <3>3. st[k + 1] = s[k + 1]
      BY <1>1, <3>1
    <3> QED
      BY <2>2, <3>1, <3>2, <3>3
  <2> HIDE DEF First
  <2>3. \A k \in 0..(Len(s) - 1) : k \in First => k + 1 \in First
    BY <2>2
  <2>4. \A k \in 0..Len(s) : k \in First
    BY <1>1, <2>1, <2>3, Inductive
  <2> QED
    BY <1>1, <2>4
<1>7. Len(t) \in Second
  <2>1. 0 \in Second
    BY <1>1, <1>3, <1>5, <1>6
  <2>2. ASSUME NEW k \in 0..(Len(t) - 1), k \in Second
        PROVE  k + 1 \in Second
    <3>1. /\ k + 1 \in 1..Len(t) /\ Len(s) + (k + 1) \in 1..Len(st) /\ (k + 1) - 1 = k
          /\ (Len(s) + (k + 1)) - 1 = Len(s) + k
      BY <1>1
    <3>2. /\ h[Len(s) + (k + 1)] = Cat(h[Len(s) + k], st[Len(s) + (k + 1)])
          /\ g[k + 1] = Cat(g[k], t[k + 1])
      BY <1>2, <1>5, <3>1
    <3>3. st[Len(s) + (k + 1)] = t[k + 1]
      BY <1>1, <3>1
    <3>4. k + 1 \in 0..Len(t)
      BY <3>1
    <3> QED
      BY <2>2, <3>2, <3>3, <3>4
  <2> HIDE DEF Second
  <2>3. \A k \in 0..(Len(t) - 1) : k \in Second => k + 1 \in Second
    BY <2>2
  <2>4. \A k \in 0..Len(t) : k \in Second
    BY <1>1, <2>1, <2>3, Inductive
  <2> QED
    BY <1>1, <2>4
<1> QED
  BY <1>1, <1>2, <1>5, <1>7 DEF st

-----------------------------------------------------------------------------
(***************************************************************************)
(* The lines of the buffer.                                                *)
(***************************************************************************)
FitsIn(l, w) ==
    l.words > 0 =>
        /\ l.start = l.indent
        /\ l.words = 1 \/ l.cols <= IF w - l.indent < 20 THEN l.indent + w - 20 ELSE w

AllFit(b, w) == \A i \in 2..Len(b.lines) : FitsIn(b.lines[i], w)

\* All lines but the last are those of b.
SameUpToLast(b, c) == Len(c.lines) = Len(b.lines) /\ \A i \in 1..(Len(b.lines) - 1) : c.lines[i] = b.lines[i]

LEMMA CatLines ==
    ASSUME NEW b \in Buffer, NEW piece \in Piece
    PROVE  /\ Len(b.lines) \in Nat \ {0} /\ LastLine(b) \in Line
           /\ piece.newline =>
                 /\ Len(Cat(b, piece).lines) = Len(b.lines) + 1
                 /\ \A i \in 1..Len(b.lines) : Cat(b, piece).lines[i] = b.lines[i]
                 /\ LastLine(Cat(b, piece)) = NoLine
           /\ ~piece.newline =>
                 /\ SameUpToLast(b, Cat(b, piece))
                 /\ LastLine(Cat(b, piece)) =
                      IF piece.words = 1 /\ LastLine(b).words = 0
                      THEN [cols |-> LastLine(b).cols + piece.cols, words |-> 1,
                            indent |-> piece.indent, start |-> LastLine(b).cols]
                      ELSE [LastLine(b) EXCEPT !.cols = @ + piece.cols, !.words = @ + piece.words]
<1> DEFINE last == LastLine(b)
           joined == IF piece.words = 1 /\ last.words = 0
                     THEN [cols |-> last.cols + piece.cols, words |-> 1,
                           indent |-> piece.indent, start |-> last.cols]
                     ELSE [last EXCEPT !.cols = @ + piece.cols, !.words = @ + piece.words]
           lines == IF piece.newline THEN Append(b.lines, NoLine)
                    ELSE [b.lines EXCEPT ![Len(b.lines)] = joined]
<1>1. b.lines \in Seq(Line) /\ b.lines # << >> /\ Len(b.lines) \in Nat \ {0} /\ last \in Line
  BY DEF Buffer, LastLine
<1>2. Cat(b, piece).lines = lines
  <2>1. Cat(b, piece) = [Grown(b, piece.bytes) EXCEPT !.len = @ + piece.bytes, !.lines = lines]
    <3>1. Grown(b, piece.bytes).lines = b.lines
      BY DEF Grown, Buffer
    <3> QED
      BY <3>1 DEF Cat, LastLine
  <2>2. "lines" \in DOMAIN Grown(b, piece.bytes)
    BY DEF Grown, Buffer
  <2> HIDE DEF lines
  <2> QED
    BY <2>1, <2>2
<1> HIDE DEF joined
<1>3. CASE piece.newline
  BY <1>1, <1>2, <1>3 DEF LastLine
<1>4. CASE ~piece.newline
  <2>1. lines = [b.lines EXCEPT ![Len(b.lines)] = joined]
    BY <1>4
  <2>2. /\ Len(lines) = Len(b.lines) /\ lines[Len(b.lines)] = joined
        /\ \A i \in 1..(Len(b.lines) - 1) : lines[i] = b.lines[i]
    BY <1>1, <2>1
  <2> HIDE DEF lines
  <2>3. LastLine(Cat(b, piece)) = joined /\ SameUpToLast(b, Cat(b, piece))
    BY <1>2, <2>2 DEF LastLine, SameUpToLast
  <2> QED
    BY <1>1, <1>4, <2>3 DEF joined
<1> QED
  BY <1>3, <1>4

-----------------------------------------------------------------------------
(***************************************************************************)
(* The columns of the strings of an argument.                              *)
(***************************************************************************)
LEMMA JoinedType == ASSUME NEW s \in Seq(Strings) PROVE Joined(s) \in Strings
<1>1. PICK h \in [0..Len(s) -> Strings] : Joined(s) = h[Len(s)]
  BY JoinedTrace
<1>2. Len(s) \in 0..Len(s)
  OBVIOUS
<1> QED
  BY <1>1, <1>2

LEMMA TotalType == ASSUME NEW s \in Seq(Nat) PROVE Total(s) \in Nat
<1>1. PICK h \in [0..Len(s) -> Nat] : Total(s) = h[Len(s)]
  BY TotalTrace
<1>2. Len(s) \in 0..Len(s)
  OBVIOUS
<1> QED
  BY <1>1, <1>2

LEMMA JoinedThree ==
    ASSUME NEW a \in Strings, NEW b \in Strings, NEW c \in Strings
    PROVE  Joined(<<a, b, c>>).cols = a.cols + b.cols + c.cols
<1> DEFINE s == <<a, b, c>>
<1>1. s \in Seq(Strings) /\ Len(s) = 3 /\ s[1] = a /\ s[2] = b /\ s[3] = c
  OBVIOUS
<1> HIDE DEF s
<1>2. s \in Seq(Strings)
  BY <1>1
<1>3. PICK h \in [0..Len(s) -> Strings] :
         /\ h[0] = Plain(0) /\ Joined(s) = h[Len(s)]
         /\ \A k \in 1..Len(s) : h[k] = Beside(h[k - 1], s[k])
  BY <1>2, JoinedTrace
<1>4. h[1] = Beside(h[0], a) /\ h[2] = Beside(h[1], b) /\ h[3] = Beside(h[2], c)
  BY <1>1, <1>3
<1>5. h[0].cols = 0 /\ h[0] \in Strings
  BY <1>3, PlainType
<1>6. h[1].cols = a.cols /\ h[1] \in Strings
  <2>1. h[1] \in Strings /\ h[1].cols = h[0].cols + a.cols
    BY <1>4, <1>5, BesideType
  <2>2. a.cols \in Nat
    BY DEF Strings
  <2> QED
    BY <1>5, <2>1, <2>2
<1>7. h[2].cols = a.cols + b.cols /\ h[2] \in Strings
  BY <1>4, <1>6, BesideType
<1>8. h[3].cols = a.cols + b.cols + c.cols
  BY <1>4, <1>7, BesideType
<1> QED
  BY <1>1, <1>3, <1>8 DEF s

LEMMA JoinedFive ==
    ASSUME NEW a \in Strings, NEW b \in Strings, NEW c \in Strings, NEW d \in Strings, NEW e \in Strings
    PROVE  Joined(<<a, b, c, d, e>>).cols = a.cols + b.cols + c.cols + d.cols + e.cols
<1> DEFINE s == <<a, b, c, d, e>>
<1>1. /\ s \in Seq(Strings) /\ Len(s) = 5
      /\ s[1] = a /\ s[2] = b /\ s[3] = c /\ s[4] = d /\ s[5] = e
  OBVIOUS
<1> HIDE DEF s
<1>2. s \in Seq(Strings)
  BY <1>1
<1>3. PICK h \in [0..Len(s) -> Strings] :
         /\ h[0] = Plain(0) /\ Joined(s) = h[Len(s)]
         /\ \A k \in 1..Len(s) : h[k] = Beside(h[k - 1], s[k])
  BY <1>2, JoinedTrace
<1>4. /\ h[1] = Beside(h[0], a) /\ h[2] = Beside(h[1], b) /\ h[3] = Beside(h[2], c)
      /\ h[4] = Beside(h[3], d) /\ h[5] = Beside(h[4], e)
  BY <1>1, <1>3
<1>5. h[0].cols = 0 /\ h[0] \in Strings
  BY <1>3, PlainType
<1>6. h[1].cols = a.cols /\ h[1] \in Strings
  <2>1. h[1] \in Strings /\ h[1].cols = h[0].cols + a.cols
    BY <1>4, <1>5, BesideType
  <2>2. a.cols \in Nat
    BY DEF Strings
  <2> QED
    BY <1>5, <2>1, <2>2
<1>7. h[2].cols = a.cols + b.cols /\ h[2] \in Strings
  BY <1>4, <1>6, BesideType
<1>8. h[3].cols = a.cols + b.cols + c.cols /\ h[3] \in Strings
  BY <1>4, <1>7, BesideType
<1>9. h[4].cols = a.cols + b.cols + c.cols + d.cols /\ h[4] \in Strings
  BY <1>4, <1>8, BesideType
<1>10. h[5].cols = a.cols + b.cols + c.cols + d.cols + e.cols
  BY <1>4, <1>9, BesideType
<1> QED
  BY <1>1, <1>3, <1>10 DEF s

LEMMA SeparatedType ==
    ASSUME NEW ss \in Seq(Strings), NEW n \in Nat
    PROVE  Separated(ss, n) \in Strings
<1> DEFINE t == [i \in DOMAIN ss |-> IF i = 1 THEN ss[i] ELSE Beside(Plain(n), ss[i])]
<1>1. \A i \in DOMAIN ss : ss[i] \in Strings /\ Beside(Plain(n), ss[i]) \in Strings
  BY PlainType, BesideType
<1>2. t \in Seq(Strings)
  <2>1. DOMAIN ss = 1..Len(ss) /\ Len(ss) \in Nat
    OBVIOUS
  <2> QED
    BY <1>1, <2>1
<1> HIDE DEF t
<1>3. Joined(t) \in Strings
  BY <1>2, JoinedType
<1> QED
  BY <1>3 DEF Separated, t

\* The names, with ", " between them, and the choices, with ",".
LEMMA SeparatedCols ==
    ASSUME NEW ss \in Seq(Strings), ss # << >>, NEW lens \in Seq(Nat), Len(lens) = Len(ss),
           \A i \in 1..Len(ss) : ss[i].cols = lens[i], NEW n \in {1, 2}
    PROVE  Separated(ss, n).cols = Total(lens) + n * (Len(ss) - 1)
<1> DEFINE t == [i \in DOMAIN ss |-> IF i = 1 THEN ss[i] ELSE Beside(Plain(n), ss[i])]
<1>0. DOMAIN ss = 1..Len(ss) /\ Len(ss) \in Nat \ {0} /\ n \in Nat
  OBVIOUS
<1>1. \A i \in 1..Len(ss) : /\ ss[i] \in Strings /\ Beside(Plain(n), ss[i]) \in Strings
                            /\ Beside(Plain(n), ss[i]).cols = n + lens[i]
  BY <1>0, PlainType, BesideType
<1>2. t \in Seq(Strings) /\ Len(t) = Len(ss)
  BY <1>0, <1>1
<1>3. \A i \in 1..Len(ss) : t[i] \in Strings /\ t[i].cols = IF i = 1 THEN lens[i] ELSE n + lens[i]
  BY <1>0, <1>1
<1> HIDE DEF t
<1>4. t \in Seq(Strings)
  BY <1>2
<1>5. PICK h \in [0..Len(t) -> Strings] :
         /\ h[0] = Plain(0) /\ Joined(t) = h[Len(t)]
         /\ \A k \in 1..Len(t) : h[k] = Beside(h[k - 1], t[k])
  BY <1>4, JoinedTrace
<1>6. PICK g \in [0..Len(lens) -> Nat] :
         /\ g[0] = 0 /\ Total(lens) = g[Len(lens)]
         /\ \A k \in 1..Len(lens) : g[k] = g[k - 1] + lens[k]
  BY TotalTrace
<1> DEFINE Counted == {k \in 0..Len(ss) : k > 0 => h[k].cols = g[k] + n * (k - 1)}
<1>7. 0 \in Counted
  BY <1>0
<1>8. ASSUME NEW k \in 0..(Len(ss) - 1), k \in Counted
      PROVE  k + 1 \in Counted
  <2>1. k + 1 \in 1..Len(ss) /\ (k + 1) - 1 = k /\ k \in 0..Len(ss)
    BY <1>0
  <2>2. h[k + 1] = Beside(h[k], t[k + 1]) /\ g[k + 1] = g[k] + lens[k + 1]
    BY <1>2, <1>5, <1>6, <2>1
  <2>3. h[k] \in Strings /\ t[k + 1] \in Strings
    BY <1>2, <1>3, <1>5, <2>1
  <2>4. h[k + 1].cols = h[k].cols + t[k + 1].cols
    BY <2>2, <2>3, BesideType
  <2>5. g[k] \in Nat /\ lens[k + 1] \in Nat /\ g[k + 1] \in Nat
    <3>1. k \in 0..Len(lens) /\ k + 1 \in 0..Len(lens) /\ k + 1 \in 1..Len(lens)
      BY <2>1
    <3> QED
      BY <1>6, <3>1
  <2>6. h[k + 1].cols = g[k + 1] + n * k
    <3>1. CASE k = 0
      <4>1. h[k].cols = 0 /\ g[k] = 0
        BY <1>5, <1>6, <3>1, PlainType
      <4>2. t[k + 1].cols = lens[k + 1]
        BY <1>3, <2>1, <3>1
      <4> QED
        BY <1>0, <2>2, <2>4, <2>5, <3>1, <4>1, <4>2
    <3>2. CASE k # 0
      <4>1. h[k].cols = g[k] + n * (k - 1)
        BY <1>8, <3>2
      <4>2. t[k + 1].cols = n + lens[k + 1]
        BY <1>3, <2>1, <3>2
      <4>3. h[k + 1].cols = (g[k] + n * (k - 1)) + (n + lens[k + 1])
        BY <2>4, <4>1, <4>2
      <4>4. CASE n = 1
        <5>1. h[k + 1].cols = (g[k] + (k - 1)) + (1 + lens[k + 1])
          BY <2>5, <4>3, <4>4
        <5>2. h[k + 1].cols = g[k + 1] + k
          BY <1>0, <2>1, <2>2, <2>5, <5>1
        <5> QED
          BY <4>4, <5>2
      <4>5. CASE n = 2
        BY <2>2, <2>5, <4>3, <4>5
      <4> QED
        BY <4>4, <4>5
    <3> QED
      BY <3>1, <3>2
  <2> QED
    BY <2>1, <2>6
<1> HIDE DEF Counted
<1>9. \A k \in 0..(Len(ss) - 1) : k \in Counted => k + 1 \in Counted
  BY <1>8
<1>10. \A k \in 0..Len(ss) : k \in Counted
  BY <1>0, <1>7, <1>9, Inductive
<1>11. h[Len(ss)].cols = g[Len(ss)] + n * (Len(ss) - 1)
  BY <1>0, <1>10 DEF Counted
<1>12. Separated(ss, n) = h[Len(ss)] /\ Total(lens) = g[Len(ss)]
  BY <1>2, <1>5, <1>6 DEF Separated, t
<1> QED
  BY <1>11, <1>12

\* The length that is not measured on the string is the string's.
LEMMA OptStringLength ==
    ASSUME NEW arg \in Optional
    PROVE  /\ OptString(arg) \in Strings /\ DisplayLength(arg) \in Nat
           /\ OptString(arg).cols = DisplayLength(arg)
<1> DEFINE o == arg.options
           c == arg.choices
           ns == [i \in DOMAIN o |-> Painted(OptKey(o[i]), o[i].len)]
           lens == [i \in DOMAIN o |-> o[i].len]
           cs == [i \in DOMAIN c |-> Painted("CHOICES", c[i])]
           names == Separated(ns, 2)
           choices == Separated(cs, 1)
           brace == Painted("CHOICES", 1)
<1>1. /\ o \in Seq([len : Nat, short : BOOLEAN]) /\ o # << >> /\ c \in Seq(Nat)
      /\ arg.metavar \in Nat /\ arg.dest \in Nat
  BY DEF Optional, Argument, Text
<1>2. "SHORT" \in DOMAIN CodeBytes /\ "LONG" \in DOMAIN CodeBytes
      /\ "METAVAR" \in DOMAIN CodeBytes /\ "CHOICES" \in DOMAIN CodeBytes
  BY DEF CodeBytes
<1>3. /\ DOMAIN o = 1..Len(o) /\ Len(o) \in Nat \ {0}
      /\ DOMAIN c = 1..Len(c) /\ Len(c) \in Nat /\ (c # << >> => Len(c) # 0)
  BY <1>1
<1>4. ns \in Seq(Strings) /\ lens \in Seq(Nat) /\ Len(ns) = Len(o) /\ Len(lens) = Len(o)
      /\ ns # << >> /\ \A i \in 1..Len(o) : ns[i].cols = lens[i]
  <2> HIDE DEF o
  <2>1. \A i \in 1..Len(o) : /\ o[i].len \in Nat
                             /\ Painted(OptKey(o[i]), o[i].len) \in Strings
                             /\ Painted(OptKey(o[i]), o[i].len).cols = o[i].len
    <3> TAKE i \in 1..Len(o)
    <3>1. o[i] \in [len : Nat, short : BOOLEAN]
      <4>1. ASSUME NEW S, o \in Seq(S)
            PROVE  o[i] \in S
        BY <4>1
      <4> QED
        BY <1>1, <4>1
    <3>2. OptKey(o[i]) \in DOMAIN CodeBytes
      BY <1>2 DEF OptKey
    <3> QED
      BY <3>1, <3>2, PaintedType
  <2>2. ns \in Seq(Strings) /\ Len(ns) = Len(o)
    BY <1>3, <2>1
  <2>3. lens \in Seq(Nat) /\ Len(lens) = Len(o)
    BY <1>3, <2>1
  <2>4. \A i \in 1..Len(o) : ns[i].cols = lens[i]
    BY <1>3, <2>1
  <2>5. ns # << >>
    BY <1>3, <2>2
  <2> QED
    BY <2>2, <2>3, <2>4, <2>5
<1>5. cs \in Seq(Strings) /\ Len(cs) = Len(c) /\ \A i \in 1..Len(c) : cs[i].cols = c[i]
  <2>1. \A i \in 1..Len(c) : /\ Painted("CHOICES", c[i]) \in Strings
                             /\ Painted("CHOICES", c[i]).cols = c[i]
    BY <1>1, <1>2, PaintedType
  <2> HIDE DEF c
  <2> QED
    BY <1>3, <2>1
<1> HIDE DEF ns, lens, cs
<1>6. names \in Strings /\ Total(lens) \in Nat /\ names.cols = Total(lens) + 2 * (Len(o) - 1)
  <2>1. names \in Strings
    BY <1>4, SeparatedType
  <2>2. \A i \in 1..Len(ns) : ns[i].cols = lens[i]
    BY <1>4
  <2>3. Separated(ns, 2).cols = Total(lens) + 2 * (Len(ns) - 1)
    BY <1>4, <2>2, SeparatedCols
  <2> QED
    BY <1>4, <2>1, <2>3, TotalType
<1>7. choices \in Strings /\ Total(c) \in Nat
  BY <1>1, <1>5, SeparatedType, TotalType
<1>8. c # << >> => choices.cols = Total(c) + 1 * (Len(c) - 1)
  <2> SUFFICES ASSUME c # << >>
               PROVE  choices.cols = Total(c) + 1 * (Len(c) - 1)
    OBVIOUS
  <2>1. \A i \in 1..Len(cs) : cs[i].cols = c[i]
    BY <1>5
  <2>2. cs # << >> /\ cs \in Seq(Strings)
    BY <1>3, <1>5
  <2> HIDE DEF c
  <2>3. Separated(cs, 1).cols = Total(c) + 1 * (Len(cs) - 1)
    BY <1>1, <1>5, <2>1, <2>2, SeparatedCols
  <2> QED
    BY <1>5, <2>3
<1>9. /\ brace \in Strings /\ brace.cols = 1 /\ Plain(1) \in Strings /\ Plain(1).cols = 1
      /\ \A n \in Nat : Painted("METAVAR", n) \in Strings /\ Painted("METAVAR", n).cols = n
  BY <1>2, PaintedType, PlainType
<1> DEFINE withMetavar == Joined(<<names, Plain(1), Painted("METAVAR", arg.metavar)>>)
           withChoices == Joined(<<names, Plain(1), brace, choices, brace>>)
           withDest == Joined(<<names, Plain(1), Painted("METAVAR", arg.dest)>>)
           length == 2 * (Len(o) - 1) + Total(lens)
<1>10. OptString(arg) = CASE arg.metavar # 0 -> withMetavar
                          [] arg.metavar = 0 /\ c # << >> -> withChoices
                          [] arg.metavar = 0 /\ c = << >> /\ HasPlaceholder(arg) -> withDest
                          [] OTHER -> names
  BY DEF OptString, ns, cs
<1>11. DisplayLength(arg) = CASE arg.metavar # 0 -> length + 1 + arg.metavar
                              [] arg.metavar = 0 /\ c # << >> ->
                                     length + 2 + (Len(c) - 1) + Total(c) + 1
                              [] arg.metavar = 0 /\ c = << >> /\ HasPlaceholder(arg) ->
                                     length + 1 + arg.dest
                              [] OTHER -> length
  BY DEF DisplayLength, lens
<1>12. length \in Nat /\ names.cols = length
  BY <1>3, <1>6
<1> HIDE DEF names, choices, brace, length, o, c
<1>13. /\ withMetavar \in Strings /\ withMetavar.cols = length + 1 + arg.metavar
       /\ withDest \in Strings /\ withDest.cols = length + 1 + arg.dest
  <2>1. /\ <<names, Plain(1), Painted("METAVAR", arg.metavar)>> \in Seq(Strings)
        /\ <<names, Plain(1), Painted("METAVAR", arg.dest)>> \in Seq(Strings)
    BY <1>1, <1>6, <1>9
  <2>2. withMetavar \in Strings /\ withDest \in Strings
    BY <2>1, JoinedType
  <2>3. /\ withMetavar.cols = names.cols + Plain(1).cols + Painted("METAVAR", arg.metavar).cols
        /\ withDest.cols = names.cols + Plain(1).cols + Painted("METAVAR", arg.dest).cols
    BY <1>1, <1>6, <1>9, JoinedThree
  <2> HIDE DEF withMetavar, withDest
  <2> QED
    BY <1>1, <1>9, <1>12, <2>2, <2>3
<1>14. withChoices \in Strings /\ (c # << >> => withChoices.cols = length + 2 + (Len(c) - 1) + Total(c) + 1)
  <2>1. <<names, Plain(1), brace, choices, brace>> \in Seq(Strings)
    BY <1>6, <1>7, <1>9
  <2>2. withChoices.cols = names.cols + 1 + 1 + choices.cols + 1
    BY <1>6, <1>7, <1>9, JoinedFive
  <2>3. withChoices \in Strings
    BY <2>1, JoinedType
  <2> HIDE DEF withChoices
  <2> QED
    BY <1>3, <1>7, <1>8, <1>12, <2>2, <2>3
<1> HIDE DEF withMetavar, withChoices, withDest
<1>15. /\ withMetavar.cols \in Nat /\ withDest.cols \in Nat
       /\ length + 1 + arg.metavar \in Nat /\ length + 1 + arg.dest \in Nat
       /\ c # << >> => length + 2 + (Len(c) - 1) + Total(c) + 1 \in Nat
  <2>1. /\ length + 1 + arg.metavar \in Nat /\ length + 1 + arg.dest \in Nat
    BY <1>1, <1>12
  <2>2. c # << >> => length + 2 + (Len(c) - 1) + Total(c) + 1 \in Nat
    <3>1. ASSUME NEW n \in Nat \ {0}, NEW sum \in Nat
          PROVE  length + 2 + (n - 1) + sum + 1 \in Nat
      BY <1>12
    <3> QED
      BY <1>3, <1>7, <3>1
  <2> QED
    BY <1>13, <2>1, <2>2
<1>16. CASE arg.metavar # 0
  BY <1>10, <1>11, <1>13, <1>15, <1>16
<1>17. CASE arg.metavar = 0 /\ c # << >>
  BY <1>10, <1>11, <1>14, <1>15, <1>17
<1>18. CASE arg.metavar = 0 /\ c = << >> /\ HasPlaceholder(arg)
  BY <1>10, <1>11, <1>13, <1>15, <1>18
<1>19. CASE arg.metavar = 0 /\ c = << >> /\ ~HasPlaceholder(arg)
  BY <1>6, <1>10, <1>11, <1>12, <1>19
<1> QED
  BY <1>16, <1>17, <1>18, <1>19

-----------------------------------------------------------------------------
(***************************************************************************)
(* What the usage line and the calls that follow it are made of.           *)
(***************************************************************************)
\* Pieces that end a line.
Ended == {front \o <<Newline>> : front \in Seq(PlainPiece)}

TextCall == [call : {"paragraph", "intro"}, words : Seq(Strings)]
HeadingCall == [call : {"heading"}, pieces : Ended]
RowCall == {row \in [call : {"row"}, name : Strings, length : Nat, words : Seq(Strings), builds : BOOLEAN] :
               row.name.cols = row.length}
Call == TextCall \cup HeadingCall \cup RowCall

LEMMA WordsType == ASSUME NEW lengths \in Seq(Nat) PROVE Words(lengths) \in Seq(Strings)
<1>1. \A i \in DOMAIN lengths : Plain(lengths[i]) \in Strings
  BY PlainType
<1>2. DOMAIN lengths = 1..Len(lengths) /\ Len(lengths) \in Nat
  OBVIOUS
<1> QED
  BY <1>1, <1>2 DEF Words

LEMMA ClosedType ==
    ASSUME NEW words \in Seq(Strings), words # << >>, NEW s \in Strings
    PROVE  Closed(words, s) \in Seq(Strings)
<1>1. Len(words) \in 1..Len(words) /\ words[Len(words)] \in Strings
  OBVIOUS
<1>2. Beside(words[Len(words)], s) \in Strings
  BY <1>1, BesideType
<1> DEFINE last == Beside(words[Len(words)], s)
<1>3. Closed(words, s) = [words EXCEPT ![Len(words)] = last]
  BY DEF Closed
<1> HIDE DEF last, Strings
<1>4. [words EXCEPT ![Len(words)] = last] \in Seq(Strings)
  BY <1>1, <1>2 DEF last
<1> QED
  BY <1>3, <1>4

LEMMA HelpWordsType == ASSUME NEW arg \in Argument PROVE HelpWords(arg) \in Seq(Strings)
<1> DEFINE deprecated == CASE ~arg.deprecated -> << >>
                           [] arg.deprecated /\ arg.message = << >> -> Words(<<12>>)
                           [] arg.deprecated /\ arg.message # << >> ->
                                  Closed(Words(<<12>> \o arg.message), Plain(1))
           choices == IF arg.choices = << >> THEN << >>
                      ELSE Words(<<9>>) \o [i \in DOMAIN arg.choices |->
                                              Beside(Painted("CHOICES", arg.choices[i]), Plain(1))]
           default == IF arg.default = 0 THEN << >>
                      ELSE Words(<<9>>) \o <<Beside(Painted("DEFAULT", arg.default), Plain(1))>>
<1>1. /\ arg.help \in Seq(Nat) /\ arg.choices \in Seq(Nat) /\ arg.message \in Seq(Nat)
      /\ arg.default \in Nat /\ arg.deprecated \in BOOLEAN
  BY DEF Argument, Text
<1>2. /\ Words(arg.help) \in Seq(Strings) /\ Words(<<12>>) \in Seq(Strings) /\ Words(<<9>>) \in Seq(Strings)
  <2>1. <<12>> \in Seq(Nat) /\ <<9>> \in Seq(Nat)
    OBVIOUS
  <2> QED
    BY <1>1, <2>1, WordsType
<1>3. << >> \in Seq(Strings) /\ Plain(1) \in Strings
  BY PlainType
<1>4. deprecated \in Seq(Strings)
  <2>1. Closed(Words(<<12>> \o arg.message), Plain(1)) \in Seq(Strings)
    <3> DEFINE m == <<12>> \o arg.message
    <3>1. m \in Seq(Nat) /\ Len(m) \in Nat \ {0} /\ DOMAIN m = 1..Len(m)
      BY <1>1
    <3> HIDE DEF m
    <3>2. Words(m) \in Seq(Strings)
      BY <3>1, WordsType
    <3>3. Words(m) # << >>
      BY <3>1 DEF Words
    <3> QED
      BY <1>3, <3>2, <3>3, ClosedType DEF m
  <2> QED
    BY <1>1, <1>2, <1>3, <2>1
<1>5. choices \in Seq(Strings)
  <2> DEFINE c == arg.choices
             cs == [i \in DOMAIN c |-> Beside(Painted("CHOICES", c[i]), Plain(1))]
  <2>1. cs \in Seq(Strings)
    <3>1. DOMAIN c = 1..Len(c) /\ Len(c) \in Nat
      BY <1>1
    <3>2. \A i \in DOMAIN c : Beside(Painted("CHOICES", c[i]), Plain(1)) \in Strings
      <4>1. "CHOICES" \in DOMAIN CodeBytes
        BY DEF CodeBytes
      <4>2. \A i \in DOMAIN c : c[i] \in Nat
        BY <1>1
      <4> QED
        BY <1>3, <4>1, <4>2, PaintedType, BesideType
    <3> HIDE DEF c
    <3> QED
      BY <3>1, <3>2
  <2> HIDE DEF cs
  <2>2. Words(<<9>>) \o cs \in Seq(Strings)
    BY <1>2, <2>1, ConcatProperties
  <2> QED
    BY <1>3, <2>2 DEF cs
<1>6. default \in Seq(Strings)
  <2>1. Beside(Painted("DEFAULT", arg.default), Plain(1)) \in Strings
    <3>1. "DEFAULT" \in DOMAIN CodeBytes
      BY DEF CodeBytes
    <3> QED
      BY <1>1, <1>3, <3>1, PaintedType, BesideType
  <2>2. <<Beside(Painted("DEFAULT", arg.default), Plain(1))>> \in Seq(Strings)
    BY <2>1
  <2>3. Words(<<9>>) \o <<Beside(Painted("DEFAULT", arg.default), Plain(1))>> \in Seq(Strings)
    BY <1>2, <2>2, ConcatProperties
  <2> QED
    BY <1>3, <2>3
<1> HIDE DEF deprecated, choices, default
<1>7. Words(arg.help) \o deprecated \in Seq(Strings)
  BY <1>2, <1>4, ConcatProperties
<1>8. (Words(arg.help) \o deprecated) \o choices \in Seq(Strings)
  BY <1>5, <1>7, ConcatProperties
<1>9. ((Words(arg.help) \o deprecated) \o choices) \o default \in Seq(Strings)
  BY <1>6, <1>8, ConcatProperties
<1> QED
  BY <1>9 DEF HelpWords, deprecated, choices, default

LEMMA OptionalIsArgument == Optional \subseteq Argument /\ Positional \subseteq Argument
BY DEF Optional, Positional

\* The strings of one option in the usage line.
LEMMA UsageStrings ==
    ASSUME NEW arg \in Optional
    PROVE  FirstOption(arg) \in Strings /\ Spaces(arg) \in Strings /\ UsageValue(arg) \in Strings
<1>1. FirstOption(arg) \in Strings
  <2> DEFINE o == arg.options
  <2>1. o \in Seq([len : Nat, short : BOOLEAN]) /\ o # << >>
    BY DEF Optional, Argument
  <2> HIDE DEF o
  <2>2. o[1] \in [len : Nat, short : BOOLEAN]
    <3>1. ASSUME NEW S, o \in Seq(S)
          PROVE  o[1] \in S
      BY <2>1, <3>1
    <3> QED
      BY <2>1, <3>1
  <2>3. OptKey(o[1]) \in DOMAIN CodeBytes
    BY DEF OptKey, CodeBytes
  <2>4. Painted(OptKey(o[1]), o[1].len) \in Strings
    BY <2>2, <2>3, PaintedType
  <2> QED
    BY <2>4 DEF FirstOption, o
<1>2. Spaces(arg) \in Strings
  BY PlainType DEF Spaces
<1>3. UsageValue(arg) \in Strings
  <2>1. "METAVAR" \in DOMAIN CodeBytes
    BY DEF CodeBytes
  <2>2. UpperMetavar(arg) \in Nat
    BY UpperMetavarFits, OptionalIsArgument
  <2>3. Painted("METAVAR", UpperMetavar(arg)) \in Strings /\ Plain(0) \in Strings
    BY <2>1, <2>2, PaintedType, PlainType
  <2> QED
    BY <2>3 DEF UsageValue
<1> QED
  BY <1>1, <1>2, <1>3

LEMMA UsageOfType == ASSUME NEW arg \in Optional PROVE UsageOf(arg) \in Seq(PlainPiece)
<1> DEFINE inner == IF UsageValued(arg) /\ arg.nargs = ZERO_OR_ONE /\ arg.default # 0 THEN 2 ELSE 0
           outer == IF arg.required THEN 0 ELSE 2
           s == Joined(<<Plain(1 + outer + inner), FirstOption(arg), Spaces(arg), UsageValue(arg)>>)
<1>1. Plain(1 + outer + inner) \in Strings
  <2>1. inner \in Nat /\ outer \in Nat
    OBVIOUS
  <2> HIDE DEF inner, outer
  <2>2. 1 + outer + inner \in Nat
    BY <2>1
  <2> QED
    BY <2>2, PlainType
<1>2. s \in Strings
  <2> HIDE DEF inner, outer
  <2>1. <<Plain(1 + outer + inner), FirstOption(arg), Spaces(arg), UsageValue(arg)>> \in Seq(Strings)
    BY <1>1, UsageStrings
  <2> QED
    BY <2>1, JoinedType
<1>3. Str(s) \in PlainPiece /\ Str(Plain(12)) \in PlainPiece
  BY <1>2, StrType, PlainType
<1> HIDE DEF PlainPiece
<1>4. UsageOf(arg) \in {<< >>, <<Str(Plain(12))>>, <<Str(s)>>}
  BY DEF UsageOf
<1> HIDE DEF s
<1>5. << >> \in Seq(PlainPiece) /\ <<Str(Plain(12))>> \in Seq(PlainPiece) /\ <<Str(s)>> \in Seq(PlainPiece)
  BY <1>3
<1> QED
  BY <1>4, <1>5, Zenon

LEMMA UsageGroupType == ASSUME NEW args \in Seq(Optional) PROVE UsageGroup(args) \in Seq(PlainPiece)
<1> DEFINE ss == [i \in DOMAIN args |->
                    Joined(<<FirstOption(args[i]), Spaces(args[i]), UsageValue(args[i])>>)]
<1>1. DOMAIN args = 1..Len(args) /\ Len(args) \in Nat /\ \A i \in DOMAIN args : args[i] \in Optional
  OBVIOUS
<1>2. \A i \in DOMAIN args :
         Joined(<<FirstOption(args[i]), Spaces(args[i]), UsageValue(args[i])>>) \in Strings
  <2> TAKE i \in DOMAIN args
  <2>1. <<FirstOption(args[i]), Spaces(args[i]), UsageValue(args[i])>> \in Seq(Strings)
    BY <1>1, UsageStrings
  <2> QED
    BY <2>1, JoinedType
<1>3. ss \in Seq(Strings)
  BY <1>1, <1>2
<1> HIDE DEF ss
<1>4. Str(Beside(Plain(3), Separated(ss, 3))) \in PlainPiece
  BY <1>3, SeparatedType, PlainType, BesideType, StrType
<1> HIDE DEF PlainPiece
<1>5. <<Str(Beside(Plain(3), Separated(ss, 3)))>> \in Seq(PlainPiece) /\ << >> \in Seq(PlainPiece)
  BY <1>4
<1> QED
  BY <1>5 DEF UsageGroup, ss

LEMMA UsagePositionalType == ASSUME NEW arg \in Argument PROVE UsagePositional(arg) \in PlainPiece
<1> DEFINE n == CASE arg.nargs = ZERO_OR_MORE -> arg.name + 7
                  [] arg.nargs = ONE_OR_MORE -> 2 * arg.name + 8
                  [] arg.nargs = ZERO_OR_ONE -> arg.name + 3
                  [] arg.nargs = REMAINDER -> 4
                  [] OTHER -> arg.name + 1
<1>1. arg.name \in Nat
  BY DEF Argument
<1>2. n \in Nat
  BY <1>1 DEF ZERO_OR_MORE, ONE_OR_MORE, ZERO_OR_ONE, REMAINDER
<1> HIDE DEF n
<1>3. Str(Plain(n)) \in PlainPiece
  BY <1>2, PlainType, StrType
<1> QED
  BY <1>3 DEF UsagePositional, n

LEMMA UsageCommandsType == ASSUME page \in Parser PROVE UsageCommands \in Seq(PlainPiece)
<1> DEFINE c == page.commands
           lead(i) == IF i > 1 THEN <<Str(Plain(1))>> ELSE << >>
           names == [i \in DOMAIN c |-> lead(i) \o PaintedPieces("COMMAND", c[i].name)]
           short == <<Str(Plain(page.subparserMetavar + 5))>>
<1>1. c \in Seq([name : Nat, description : Text]) /\ page.subparserMetavar \in Nat
  BY DEF Parser
<1>2. DOMAIN c = 1..Len(c) /\ Len(c) \in Nat
  BY <1>1
<1>3. Str(Plain(1)) \in PlainPiece /\ Str(Plain(2)) \in PlainPiece /\ Str(Plain(5)) \in PlainPiece
  BY PlainType, StrType
<1>11. short \in Seq(PlainPiece)
  <2>1. page.subparserMetavar + 5 \in Nat
    BY <1>1
  <2>2. Str(Plain(page.subparserMetavar + 5)) \in PlainPiece
    BY <2>1, PlainType, StrType
  <2> QED
    BY <2>2
<1> HIDE DEF c, PlainPiece, short
<1>4. \A i \in DOMAIN c : lead(i) \o PaintedPieces("COMMAND", c[i].name) \in Seq(PlainPiece)
  <2> TAKE i \in DOMAIN c
  <2>1. c[i] \in [name : Nat, description : Text]
    <3>1. ASSUME NEW S, c \in Seq(S) PROVE c[i] \in S
      BY <3>1
    <3> QED
      BY <1>1, <3>1
  <2>2. lead(i) \in Seq(PlainPiece)
    BY <1>3
  <2>3. PaintedPieces("COMMAND", c[i].name) \in Seq(PlainPiece)
    <3>1. "COMMAND" \in DOMAIN CodeBytes
      BY DEF CodeBytes
    <3> QED
      BY <2>1, <3>1, PiecesType
  <2> HIDE DEF lead
  <2> QED
    BY <2>2, <2>3, ConcatProperties
<1>5. names \in Seq(Seq(PlainPiece))
  BY <1>2, <1>4
<1> HIDE DEF names
<1>6. FlattenSeq(names) \in Seq(PlainPiece)
  BY <1>5, FlattenType
<1>7. <<Str(Plain(2))>> \in Seq(PlainPiece) /\ <<Str(Plain(5))>> \in Seq(PlainPiece) /\ << >> \in Seq(PlainPiece)
  BY <1>3
<1>8. <<Str(Plain(2))>> \o FlattenSeq(names) \in Seq(PlainPiece)
  BY <1>6, <1>7, ConcatProperties
<1>9. (<<Str(Plain(2))>> \o FlattenSeq(names)) \o <<Str(Plain(5))>> \in Seq(PlainPiece)
  BY <1>7, <1>8, ConcatProperties
<1>10. UsageCommands = IF c = << >> THEN << >>
                       ELSE IF page.subparserMetavar # 0 THEN short
                       ELSE (<<Str(Plain(2))>> \o FlattenSeq(names)) \o <<Str(Plain(5))>>
  BY DEF UsageCommands, names, c, short
<1> QED
  BY <1>7, <1>9, <1>10, <1>11

LEMMA UsagePiecesType == ASSUME page \in Parser PROVE UsagePieces \in Ended
<1> DEFINE prog == PaintedPieces("PROG", page.prog)
           help == IF page.addHelp THEN <<Str(Plain(5))>> ELSE << >>
           options == [i \in DOMAIN page.optionals |->
                         IF Ungrouped(page.optionals[i]) THEN UsageOf(page.optionals[i]) ELSE << >>]
           groups == [i \in DOMAIN page.exclusive |-> UsageGroup(page.exclusive[i])]
           positionals == [i \in DOMAIN page.positionals |-> UsagePositional(page.positionals[i])]
           front == (((((<<Str(Plain(7))>> \o prog) \o help) \o FlattenSeq(options))
                        \o FlattenSeq(groups)) \o positionals) \o UsageCommands
<1>1. /\ page.prog \in Nat /\ page.usage \in Nat /\ page.positionals \in Seq(Positional)
      /\ page.optionals \in Seq(Optional) /\ page.exclusive \in Seq(Seq(Optional))
  BY DEF Parser
<1>2. /\ DOMAIN page.optionals = 1..Len(page.optionals) /\ Len(page.optionals) \in Nat
      /\ DOMAIN page.exclusive = 1..Len(page.exclusive) /\ Len(page.exclusive) \in Nat
      /\ DOMAIN page.positionals = 1..Len(page.positionals) /\ Len(page.positionals) \in Nat
  BY <1>1
<1>3. /\ <<Str(Plain(5))>> \in Seq(PlainPiece) /\ <<Str(Plain(7))>> \in Seq(PlainPiece)
      /\ << >> \in Seq(PlainPiece) /\ <<Str(Plain(page.usage))>> \in Seq(PlainPiece)
  <2>1. /\ Str(Plain(5)) \in PlainPiece /\ Str(Plain(7)) \in PlainPiece
        /\ Str(Plain(page.usage)) \in PlainPiece
    BY <1>1, PlainType, StrType
  <2> HIDE DEF PlainPiece
  <2> QED
    BY <2>1
<1>4. prog \in Seq(PlainPiece)
  <2>1. "PROG" \in DOMAIN CodeBytes
    BY DEF CodeBytes
  <2> QED
    BY <1>1, <2>1, PiecesType
<1>5. help \in Seq(PlainPiece)
  BY <1>3
<1>6. FlattenSeq(options) \in Seq(PlainPiece)
  <2>1. \A i \in DOMAIN page.optionals :
           (IF Ungrouped(page.optionals[i]) THEN UsageOf(page.optionals[i]) ELSE << >>) \in Seq(PlainPiece)
    <3>1. \A i \in DOMAIN page.optionals : page.optionals[i] \in Optional
      BY <1>1
    <3> QED
      BY <1>3, <3>1, UsageOfType
  <2>2. options \in Seq(Seq(PlainPiece))
    BY <1>2, <2>1
  <2> HIDE DEF options
  <2> QED
    BY <2>2, FlattenType
<1>7. FlattenSeq(groups) \in Seq(PlainPiece)
  <2>1. \A i \in DOMAIN page.exclusive : UsageGroup(page.exclusive[i]) \in Seq(PlainPiece)
    <3>1. \A i \in DOMAIN page.exclusive : page.exclusive[i] \in Seq(Optional)
      BY <1>1
    <3> QED
      BY <3>1, UsageGroupType
  <2>2. groups \in Seq(Seq(PlainPiece))
    BY <1>2, <2>1
  <2> HIDE DEF groups
  <2> QED
    BY <2>2, FlattenType
<1>8. positionals \in Seq(PlainPiece)
  <2>1. \A i \in DOMAIN page.positionals : UsagePositional(page.positionals[i]) \in PlainPiece
    <3>1. \A i \in DOMAIN page.positionals : page.positionals[i] \in Argument
      BY <1>1, OptionalIsArgument
    <3> QED
      BY <3>1, UsagePositionalType
  <2> QED
    BY <1>2, <2>1
<1>9. UsageCommands \in Seq(PlainPiece)
  BY UsageCommandsType
<1>10. UsagePieces = (IF page.usage # 0 THEN <<Str(Plain(page.usage)), Newline>> ELSE front \o <<Newline>>)
  BY DEF UsagePieces
<1>11. front \in Seq(PlainPiece)
  <2> HIDE DEF prog, help, options, groups, positionals
  <2>1. <<Str(Plain(7))>> \o prog \in Seq(PlainPiece)
    BY <1>3, <1>4, ConcatProperties
  <2>2. (<<Str(Plain(7))>> \o prog) \o help \in Seq(PlainPiece)
    BY <1>5, <2>1, ConcatProperties
  <2>3. ((<<Str(Plain(7))>> \o prog) \o help) \o FlattenSeq(options) \in Seq(PlainPiece)
    BY <1>6, <2>2, ConcatProperties
  <2>4. (((<<Str(Plain(7))>> \o prog) \o help) \o FlattenSeq(options))
           \o FlattenSeq(groups) \in Seq(PlainPiece)
    BY <1>7, <2>3, ConcatProperties
  <2>5. ((((<<Str(Plain(7))>> \o prog) \o help) \o FlattenSeq(options))
           \o FlattenSeq(groups)) \o positionals \in Seq(PlainPiece)
    BY <1>8, <2>4, ConcatProperties
  <2> QED
    BY <1>9, <2>5, ConcatProperties
<1> HIDE DEF front
<1>12. <<Str(Plain(page.usage)), Newline>> = <<Str(Plain(page.usage))>> \o <<Newline>>
  OBVIOUS
<1> QED
  BY <1>3, <1>10, <1>11, <1>12 DEF Ended

LEMMA CallIsOne ==
    /\ \A words \in Seq(Strings) : [call |-> "paragraph", words |-> words] \in Call
    /\ \A words \in Seq(Strings) : [call |-> "intro", words |-> words] \in Call
    /\ \A pieces \in Ended : [call |-> "heading", pieces |-> pieces] \in Call
    /\ \A name \in Strings, length \in Nat, words \in Seq(Strings), builds \in BOOLEAN :
          name.cols = length =>
             [call |-> "row", name |-> name, length |-> length, words |-> words, builds |-> builds] \in Call
<1> HIDE DEF Strings, Ended
<1> QED
  BY DEF Call, TextCall, HeadingCall, RowCall

LEMMA ParagraphType == ASSUME NEW words \in Text PROVE Paragraph(words) \in Seq(Call)
<1>1. [call |-> "paragraph", words |-> Words(words)] \in Call
  BY WordsType, CallIsOne DEF Text
<1> QED
  BY <1>1 DEF Paragraph

LEMMA HeadingType == ASSUME NEW title \in Nat, NEW n \in Nat PROVE Heading(title, n) \in Seq(Call)
<1> DEFINE name == PaintedPieces("HEADING", title)
           pieces == (<<Newline>> \o name) \o (IF n = 0 THEN <<Newline>> ELSE <<Str(Plain(n)), Newline>>)
<1>1. name \in Seq(PlainPiece)
  <2>1. "HEADING" \in DOMAIN CodeBytes
    BY DEF CodeBytes
  <2> QED
    BY <2>1, PiecesType
<1>2. <<Newline>> \in Seq(PlainPiece) /\ <<Str(Plain(n))>> \in Seq(PlainPiece)
  <2>1. Newline \in PlainPiece /\ Str(Plain(n)) \in PlainPiece
    BY NewlineType, PlainType, StrType
  <2> HIDE DEF PlainPiece
  <2> QED
    BY <2>1
<1> HIDE DEF name
<1>3. <<Newline>> \o name \in Seq(PlainPiece)
  BY <1>1, <1>2, ConcatProperties
<1>4. pieces \in Ended
  <2>1. CASE n = 0
    BY <1>3, <2>1 DEF Ended
  <2>2. CASE n # 0
    <3> DEFINE front == (<<Newline>> \o name) \o <<Str(Plain(n))>>
    <3>1. front \in Seq(PlainPiece)
      BY <1>2, <1>3, ConcatProperties
    <3>2. <<Str(Plain(n)), Newline>> = <<Str(Plain(n))>> \o <<Newline>>
      OBVIOUS
    <3>3. pieces = (<<Newline>> \o name) \o (<<Str(Plain(n))>> \o <<Newline>>)
      BY <2>2, <3>2
    <3> DEFINE first == <<Newline>> \o name
               second == <<Str(Plain(n))>>
               third == <<Newline>>
    <3>4. first \o (second \o third) = (first \o second) \o third
      <4>1. first \in Seq(PlainPiece) /\ second \in Seq(PlainPiece) /\ third \in Seq(PlainPiece)
        BY <1>2, <1>3
      <4> HIDE DEF first, second, third
      <4> QED
        BY <4>1, ConcatAssociative
    <3> HIDE DEF pieces
    <3>5. pieces = front \o <<Newline>>
      BY <3>3, <3>4
    <3> HIDE DEF front
    <3> QED
      BY <3>1, <3>5 DEF Ended
  <2> QED
    BY <2>1, <2>2
<1>5. Heading(title, n) = <<[call |-> "heading", pieces |-> pieces]>>
  BY DEF Heading, name
<1> HIDE DEF pieces
<1>6. [call |-> "heading", pieces |-> pieces] \in Call
  BY <1>4, CallIsOne
<1> QED
  BY <1>5, <1>6

LEMMA ArgumentRowType == ASSUME NEW arg \in Positional \cup Optional PROVE ArgumentRow(arg) \in Seq(Call)
<1>1. HelpWords(arg) \in Seq(Strings)
  BY OptionalIsArgument, HelpWordsType
<1>2. CASE arg.positional
  <2>1. arg.name \in Nat
    BY OptionalIsArgument DEF Argument
  <2>2. Plain(arg.name) \in Strings /\ Plain(arg.name).cols = arg.name
    BY <2>1, PlainType
  <2> DEFINE row == [call |-> "row", name |-> Plain(arg.name), length |-> arg.name, words |-> HelpWords(arg),
                     builds |-> (HelpWords(arg) # << >>)]
  <2>3. row \in Call
    BY <1>1, <2>1, <2>2, CallIsOne
  <2>4. ArgumentRow(arg) = <<row>>
    BY <1>2 DEF ArgumentRow, Row
  <2> HIDE DEF row
  <2> QED
    BY <2>3, <2>4
<1>3. CASE ~arg.positional
  <2>1. arg \in Optional
    BY <1>3 DEF Positional
  <2> DEFINE row == [call |-> "row", name |-> OptString(arg), length |-> DisplayLength(arg),
                     words |-> HelpWords(arg), builds |-> TRUE]
  <2>2. row \in Call
    BY <1>1, <2>1, OptStringLength, CallIsOne
  <2>3. ArgumentRow(arg) = <<row>>
    BY <1>3 DEF ArgumentRow, Row
  <2> HIDE DEF row
  <2> QED
    BY <2>2, <2>3
<1> QED
  BY <1>2, <1>3

LEMMA RowsType == ASSUME NEW args \in Seq(Positional \cup Optional) PROVE Rows(args) \in Seq(Call)
<1> DEFINE rows == [i \in DOMAIN args |-> IF args[i].grouped THEN << >> ELSE ArgumentRow(args[i])]
<1>1. \A i \in DOMAIN args : (IF args[i].grouped THEN << >> ELSE ArgumentRow(args[i])) \in Seq(Call)
  <2>1. \A i \in DOMAIN args : args[i] \in Positional \cup Optional
    OBVIOUS
  <2>2. << >> \in Seq(Call)
    OBVIOUS
  <2> QED
    BY <2>1, <2>2, ArgumentRowType
<1>2. rows \in Seq(Seq(Call))
  <2>1. DOMAIN args = 1..Len(args) /\ Len(args) \in Nat
    OBVIOUS
  <2> QED
    BY <1>1, <2>1
<1> HIDE DEF rows
<1>3. FlattenSeq(rows) \in Seq(Call)
  BY <1>2, FlattenType
<1> QED
  BY <1>3 DEF Rows, rows

LEMMA WiderSeq == ASSUME NEW S, NEW T, S \subseteq T, NEW s \in Seq(S) PROVE s \in Seq(T)
OBVIOUS

LEMMA GroupSectionType ==
    ASSUME NEW group \in [title : Nat, description : Text, args : Seq(Positional \cup Optional)]
    PROVE  GroupSection(group) \in Seq(Call)
<1> DEFINE args == group.args
           rows == [i \in DOMAIN args |-> ArgumentRow(args[i])]
           intro == IF group.description = << >> THEN << >>
                    ELSE <<[call |-> "intro", words |-> Words(group.description)]>>
<1>1. group.title \in Nat /\ group.description \in Seq(Nat) /\ args \in Seq(Positional \cup Optional)
  BY DEF Text
<1> HIDE DEF args
<1>2. rows \in Seq(Seq(Call))
  <2>1. \A i \in DOMAIN args : ArgumentRow(args[i]) \in Seq(Call)
    BY <1>1, ArgumentRowType
  <2>2. DOMAIN args = 1..Len(args) /\ Len(args) \in Nat
    BY <1>1
  <2> QED
    BY <2>1, <2>2
<1> HIDE DEF rows
<1>3. FlattenSeq(rows) \in Seq(Call)
  BY <1>2, FlattenType
<1>4. intro \in Seq(Call)
  <2>1. [call |-> "intro", words |-> Words(group.description)] \in Call
    BY <1>1, WordsType, CallIsOne
  <2> QED
    BY <2>1
<1>5. Heading(group.title, 1) \in Seq(Call)
  BY <1>1, HeadingType
<1> HIDE DEF intro
<1>6. Heading(group.title, 1) \o intro \in Seq(Call)
  BY <1>4, <1>5, ConcatProperties
<1>7. (Heading(group.title, 1) \o intro) \o FlattenSeq(rows) \in Seq(Call)
  BY <1>3, <1>6, ConcatProperties
<1> QED
  BY <1>7 DEF GroupSection, rows, intro, args

LEMMA CommandsSectionType == ASSUME page \in Parser PROVE CommandsSection \in Seq(Call)
<1> DEFINE c == page.commands
           row(i) == [call |-> "row", name |-> Painted("COMMAND", c[i].name), length |-> c[i].name,
                      words |-> Words(c[i].description), builds |-> TRUE]
           rows == [i \in DOMAIN c |-> <<row(i)>>]
<1>1. c \in Seq([name : Nat, description : Text])
  BY DEF Parser
<1>2. DOMAIN c = 1..Len(c) /\ Len(c) \in Nat
  BY <1>1
<1> HIDE DEF c
<1>3. \A i \in DOMAIN c : row(i) \in Call
  <2> TAKE i \in DOMAIN c
  <2>1. c[i] \in [name : Nat, description : Text]
    <3>1. ASSUME NEW S, c \in Seq(S) PROVE c[i] \in S
      BY <3>1
    <3> QED
      BY <1>1, <3>1
  <2>2. "COMMAND" \in DOMAIN CodeBytes
    BY DEF CodeBytes
  <2>3. /\ Painted("COMMAND", c[i].name) \in Strings /\ c[i].name \in Nat
        /\ Painted("COMMAND", c[i].name).cols = c[i].name
    BY <2>1, <2>2, PaintedType
  <2>4. Words(c[i].description) \in Seq(Strings)
    BY <2>1, WordsType DEF Text
  <2> QED
    BY <2>3, <2>4, CallIsOne
<1> HIDE DEF row
<1>4. rows \in Seq(Seq(Call))
  <2>1. \A i \in DOMAIN c : <<row(i)>> \in Seq(Call)
    BY <1>3
  <2> QED
    BY <1>2, <2>1
<1>5. FlattenSeq(rows) \in Seq(Call)
  <2> HIDE DEF rows
  <2> QED
    BY <1>4, FlattenType
<1>6. CommandsSection = IF c = << >> THEN << >> ELSE Heading(9, 0) \o FlattenSeq(rows)
  BY DEF CommandsSection, Row, row, c
<1> HIDE DEF rows
<1>7. Heading(9, 0) \o FlattenSeq(rows) \in Seq(Call)
  BY <1>5, HeadingType, ConcatProperties
<1> QED
  BY <1>6, <1>7

LEMMA SectionsType == ASSUME page \in Parser PROVE Sections \in Seq(Call)
<1> DEFINE groups == [i \in DOMAIN page.groups |-> GroupSection(page.groups[i])]
           Group == [title : Nat, description : Text, args : Seq(Positional \cup Optional)]
<1>1. /\ page.positionals \in Seq(Positional) /\ page.optionals \in Seq(Optional)
      /\ page.groups \in Seq(Group) /\ page.description \in Text /\ page.epilog \in Text
  BY DEF Parser
<1>2. Paragraph(page.description) \in Seq(Call) /\ Paragraph(page.epilog) \in Seq(Call)
  BY <1>1, ParagraphType
<1>3. PositionalsSection \in Seq(Call)
  <2>1. Rows(page.positionals) \in Seq(Call)
    BY <1>1, WiderSeq, RowsType
  <2>2. Heading(21, 0) \in Seq(Call)
    BY HeadingType
  <2>3. Heading(21, 0) \o Rows(page.positionals) \in Seq(Call)
    BY <2>1, <2>2, ConcatProperties
  <2> QED
    BY <2>3 DEF PositionalsSection
<1>4. OptionalsSection \in Seq(Call)
  <2>1. Rows(page.optionals) \in Seq(Call)
    BY <1>1, WiderSeq, RowsType
  <2>2. Heading(19, 0) \in Seq(Call)
    BY HeadingType
  <2>3. Heading(19, 0) \o Rows(page.optionals) \in Seq(Call)
    BY <2>1, <2>2, ConcatProperties
  <2> QED
    BY <2>3 DEF OptionalsSection
<1>5. FlattenSeq(groups) \in Seq(Call)
  <2>1. \A i \in DOMAIN page.groups : GroupSection(page.groups[i]) \in Seq(Call)
    <3> HIDE DEF Group
    <3>1. \A i \in DOMAIN page.groups : page.groups[i] \in Group
      BY <1>1
    <3> QED
      BY <3>1, GroupSectionType DEF Group
  <2>2. DOMAIN page.groups = 1..Len(page.groups) /\ Len(page.groups) \in Nat
    BY <1>1
  <2>3. groups \in Seq(Seq(Call))
    BY <2>1, <2>2
  <2> HIDE DEF groups
  <2> QED
    BY <2>3, FlattenType
<1>6. CommandsSection \in Seq(Call)
  BY CommandsSectionType
<1> HIDE DEF groups
<1> DEFINE first == Paragraph(page.description) \o PositionalsSection
           second == first \o OptionalsSection
           third == second \o FlattenSeq(groups)
           fourth == third \o CommandsSection
<1>7. first \in Seq(Call)
  BY <1>2, <1>3, ConcatProperties
<1>8. second \in Seq(Call)
  BY <1>4, <1>7, ConcatProperties
<1>9. third \in Seq(Call)
  BY <1>5, <1>8, ConcatProperties
<1>10. fourth \in Seq(Call)
  BY <1>6, <1>9, ConcatProperties
<1>11. fourth \o Paragraph(page.epilog) \in Seq(Call)
  BY <1>2, <1>10, ConcatProperties
<1> QED
  BY <1>11 DEF Sections, groups

-----------------------------------------------------------------------------
(***************************************************************************)
(* The widths.                                                             *)
(***************************************************************************)
LEMMA Bounded ==
    ASSUME NEW s \in Seq(Nat)
    PROVE  \E n \in Nat : \A i \in 1..Len(s) : s[i] <= n
<1> DEFINE Good == {k \in 0..Len(s) : \E n \in Nat : \A i \in 1..k : s[i] <= n}
<1>0. Len(s) \in Nat /\ \A i \in 1..Len(s) : s[i] \in Nat
  OBVIOUS
<1>1. 0 \in Good
  <2>1. \A i \in 1..0 : s[i] <= 0
    OBVIOUS
  <2> QED
    BY <1>0, <2>1
<1>2. ASSUME NEW k \in 0..(Len(s) - 1), k \in Good
      PROVE  k + 1 \in Good
  <2>1. PICK n \in Nat : \A i \in 1..k : s[i] <= n
    BY <1>2
  <2> DEFINE m == LargerOf(n, s[k + 1])
  <2>2. k + 1 \in 1..Len(s)
    BY <1>0
  <2>3. m \in Nat /\ n <= m /\ s[k + 1] <= m
    BY <1>0, <2>2 DEF LargerOf
  <2> HIDE DEF m
  <2>4. \A i \in 1..(k + 1) : s[i] <= m
    BY <1>0, <2>1, <2>2, <2>3
  <2>5. \E p \in Nat : \A i \in 1..(k + 1) : s[i] <= p
    BY <2>3, <2>4
  <2>6. k + 1 \in 0..Len(s)
    BY <1>0
  <2> QED
    BY <2>5, <2>6
<1>3. \A k \in 0..(Len(s) - 1) : k \in Good => k + 1 \in Good
  BY <1>2
<1> HIDE DEF Good
<1>4. \A k \in 0..Len(s) : k \in Good
  BY <1>0, <1>1, <1>3, Inductive
<1>5. Len(s) \in Good
  BY <1>0, <1>4
<1> QED
  BY <1>5 DEF Good

LEMMA MaxNameLenType == ASSUME page \in Parser, width \in Int, width > 0 PROVE MaxNameLen \in Nat
<1> DEFINE ps == [i \in DOMAIN page.positionals |-> page.positionals[i].name]
           os == [i \in DOMAIN page.optionals |-> DisplayLength(page.optionals[i])]
           cs == [i \in DOMAIN page.commands |-> page.commands[i].name]
           P == {page.positionals[i].name : i \in DOMAIN page.positionals}
           O == {DisplayLength(page.optionals[i]) : i \in DOMAIN page.optionals}
           C == {page.commands[i].name : i \in DOMAIN page.commands}
           lengths == P \cup O \cup C \cup {0}
           longest == CHOOSE n \in lengths : \A m \in lengths : m <= n
           allowed == LargerOf(20, width \div 2)
<1>1. /\ page.positionals \in Seq(Positional) /\ page.optionals \in Seq(Optional)
      /\ page.commands \in Seq([name : Nat, description : Text])
  BY DEF Parser
<1>2. P \subseteq Nat /\ \E n \in Nat : \A x \in P : x <= n
  <2>1. DOMAIN page.positionals = 1..Len(page.positionals) /\ Len(page.positionals) \in Nat
    BY <1>1
  <2>2. \A i \in DOMAIN page.positionals : page.positionals[i].name \in Nat
    <3>1. \A i \in DOMAIN page.positionals : page.positionals[i] \in Argument
      BY <1>1, OptionalIsArgument
    <3> QED
      BY <3>1 DEF Argument
  <2>3. ps \in Seq(Nat) /\ Len(ps) = Len(page.positionals)
    BY <2>1, <2>2
  <2>4. \A i \in DOMAIN page.positionals : ps[i] = page.positionals[i].name
    OBVIOUS
  <2> HIDE DEF ps
  <2>5. PICK n \in Nat : \A i \in 1..Len(ps) : ps[i] <= n
    BY <2>3, Bounded
  <2>6. \A x \in P : x <= n
    BY <2>1, <2>3, <2>4, <2>5
  <2> QED
    BY <2>2, <2>6
<1>3. O \subseteq Nat /\ \E n \in Nat : \A x \in O : x <= n
  <2>1. DOMAIN page.optionals = 1..Len(page.optionals) /\ Len(page.optionals) \in Nat
    BY <1>1
  <2>2. \A i \in DOMAIN page.optionals : DisplayLength(page.optionals[i]) \in Nat
    <3>1. \A i \in DOMAIN page.optionals : page.optionals[i] \in Optional
      BY <1>1
    <3> QED
      BY <3>1, OptStringLength
  <2>3. os \in Seq(Nat) /\ Len(os) = Len(page.optionals)
    BY <2>1, <2>2
  <2>4. \A i \in DOMAIN page.optionals : os[i] = DisplayLength(page.optionals[i])
    OBVIOUS
  <2> HIDE DEF os
  <2>5. PICK n \in Nat : \A i \in 1..Len(os) : os[i] <= n
    BY <2>3, Bounded
  <2>6. \A x \in O : x <= n
    BY <2>1, <2>3, <2>4, <2>5
  <2> QED
    BY <2>2, <2>6
<1>4. C \subseteq Nat /\ \E n \in Nat : \A x \in C : x <= n
  <2>1. DOMAIN page.commands = 1..Len(page.commands) /\ Len(page.commands) \in Nat
    BY <1>1
  <2>2. \A i \in DOMAIN page.commands : page.commands[i].name \in Nat
    <3> DEFINE Command == [name : Nat, description : Text]
    <3>1. page.commands \in Seq(Command)
      BY <1>1
    <3> HIDE DEF Command
    <3>2. \A i \in DOMAIN page.commands : page.commands[i] \in Command
      BY <3>1
    <3> QED
      BY <3>2 DEF Command
  <2>3. cs \in Seq(Nat) /\ Len(cs) = Len(page.commands)
    BY <2>1, <2>2
  <2>4. \A i \in DOMAIN page.commands : cs[i] = page.commands[i].name
    OBVIOUS
  <2> HIDE DEF cs
  <2>5. PICK n \in Nat : \A i \in 1..Len(cs) : cs[i] <= n
    BY <2>3, Bounded
  <2>6. \A x \in C : x <= n
    BY <2>1, <2>3, <2>4, <2>5
  <2> QED
    BY <2>2, <2>6
<1> HIDE DEF P, O, C
<1>5. lengths \in SUBSET Nat /\ lengths # {} /\ \E n \in Nat : \A x \in lengths : x <= n
  <2>1. PICK p \in Nat : \A x \in P : x <= p
    BY <1>2
  <2>2. PICK o \in Nat : \A x \in O : x <= o
    BY <1>3
  <2>3. PICK c \in Nat : \A x \in C : x <= c
    BY <1>4
  <2>4. p + o + c \in Nat /\ \A x \in lengths : x <= p + o + c
    BY <1>2, <1>3, <1>4, <2>1, <2>2, <2>3
  <2> QED
    BY <1>2, <1>3, <1>4, <2>4
<1>6. MaxNameLen = LargerOf(10, SmallerOf(longest, allowed))
  BY DEF MaxNameLen, P, O, C
<1> HIDE DEF lengths
<1>7. longest \in Nat
  <2>1. PICK n \in Nat : \A x \in lengths : x <= n
    BY <1>5
  <2>2. \E i \in lengths : \A j \in lengths : j <= i
    BY <1>5, <2>1, GreatestNatural
  <2> QED
    BY <1>5, <2>2
<1>8. allowed \in Nat
  <2>1. width \div 2 \in Nat
    OBVIOUS
  <2> QED
    BY <2>1 DEF LargerOf
<1> HIDE DEF longest, allowed
<1> QED
  BY <1>6, <1>7, <1>8 DEF LargerOf, SmallerOf

LEMMA LastWrittenFits == ASSUME page \in Parser PROVE LastWritten \in Nat /\ LastWritten < MetavarSize
<1> DEFINE ends == {UpperMetavar(arg) : arg \in UsageValues} \cup {0}
<1>1. UsageValues \subseteq Argument
  <2>1. page.optionals \in Seq(Optional) /\ page.exclusive \in Seq(Seq(Optional))
    BY DEF Parser
  <2>2. ToSet(page.optionals) \subseteq Optional
    BY <2>1 DEF ToSet
  <2>3. \A i \in DOMAIN page.exclusive : ToSet(page.exclusive[i]) \subseteq Optional
    <3>1. \A i \in DOMAIN page.exclusive : page.exclusive[i] \in Seq(Optional)
      BY <2>1
    <3>2. \A s \in Seq(Optional) : ToSet(s) \subseteq Optional
      BY DEF ToSet
    <3> QED
      BY <3>1, <3>2
  <2>4. UNION {ToSet(page.exclusive[i]) : i \in DOMAIN page.exclusive} \subseteq Optional
    BY <2>3
  <2> QED
    BY <2>2, <2>4, OptionalIsArgument DEF UsageValues
<1>2. \A n \in ends : n \in Nat /\ n <= MetavarSize /\ n < MetavarSize
  <2>1. \A arg \in UsageValues : UpperMetavar(arg) \in Nat /\ UpperMetavar(arg) < MetavarSize
    BY <1>1, UpperMetavarFits
  <2> QED
    BY <2>1 DEF MetavarSize
<1>3. MetavarSize \in Nat /\ ends # {}
  BY DEF MetavarSize
<1>4. LastWritten = CHOOSE m \in ends : \A n \in ends : n <= m
  BY DEF LastWritten
<1> HIDE DEF ends
<1>5. \E i \in ends : \A j \in ends : j <= i
  <2>1. ends \in SUBSET Nat /\ \A i \in ends : i <= MetavarSize
    BY <1>2
  <2> QED
    BY <1>3, <2>1, GreatestNatural
<1>6. LastWritten \in ends
  BY <1>4, <1>5
<1> QED
  BY <1>2, <1>6

-----------------------------------------------------------------------------
(***************************************************************************)
(* The inductive invariant.  A buffer with a text under way has on its     *)
(* last line either the indent alone, or words of this text that are no    *)
(* wider than what wrap_text has counted, whose count of bytes is what the *)
(* next word is measured by.                                               *)
(***************************************************************************)
Typed ==
    /\ page \in Page /\ width \in Int /\ width >= 40
    /\ phase \in {"idle", "printing", "printed", "crashed"}
    /\ todo \in Seq(Call)
    /\ text \in [words : Seq(Strings), indent : Nat, lineLen : Nat, onFirst : BOOLEAN, active : BOOLEAN]
    /\ buf \in Buffer
    /\ metavar \in Nat /\ metavar < MetavarSize
    /\ failures \in Nat

Underway(last) ==
    /\ last.words = 0 => last.cols = text.indent /\ text.lineLen = 0
    /\ last.words > 0 => /\ ~text.onFirst
                         /\ last.indent = text.indent /\ last.start = text.indent
                         /\ last.cols <= text.indent + text.lineLen

LayoutInv ==
    /\ Typed
    /\ phase = "idle" => buf = EmptyBuffer /\ text = NoText
    /\ failures = 0 => /\ AllFit(buf, width)
                       /\ ~text.active => LastLine(buf) = NoLine
                       /\ text.active => Underway(LastLine(buf))

-----------------------------------------------------------------------------
(***************************************************************************)
(* What the pieces do to the lines.                                        *)
(***************************************************************************)
\* The lines above the last fit.
AboveFit(b, w) == \A i \in 2..(Len(b.lines) - 1) : FitsIn(b.lines[i], w)

LEMMA PlainSeqIsSeq == ASSUME NEW s \in Seq(PlainPiece) PROVE s \in Seq(Piece)
<1>1. PlainPiece \subseteq Piece
  BY DEF PlainPiece
<1> QED
  BY <1>1, WiderSeq

LEMMA NewlineFits ==
    ASSUME NEW b \in Buffer, NEW w \in Int, AllFit(b, w)
    PROVE  /\ Cat(b, Newline) \in Buffer /\ AllFit(Cat(b, Newline), w)
           /\ LastLine(Cat(b, Newline)) = NoLine
<1>1. Newline \in Piece /\ Newline.newline
  BY NewlineType DEF PlainPiece
<1> DEFINE c == Cat(b, Newline)
<1>2. /\ Len(b.lines) \in Nat \ {0} /\ Len(c.lines) = Len(b.lines) + 1
      /\ \A i \in 1..Len(b.lines) : c.lines[i] = b.lines[i]
      /\ LastLine(c) = NoLine
  BY <1>1, CatLines
<1>3. c \in Buffer
  BY <1>1, CatType
<1> HIDE DEF c
<1>4. c.lines[Len(b.lines) + 1] = NoLine
  BY <1>2 DEF LastLine
<1>5. FitsIn(NoLine, w)
  BY DEF FitsIn, NoLine
<1>6. ASSUME NEW i \in 2..Len(c.lines)
      PROVE  FitsIn(c.lines[i], w)
  <2>1. CASE i = Len(b.lines) + 1
    BY <1>4, <1>5, <2>1
  <2>2. CASE i # Len(b.lines) + 1
    <3>1. i \in 1..Len(b.lines) /\ i \in 2..Len(b.lines)
      BY <1>2, <2>2
    <3>2. c.lines[i] = b.lines[i]
      BY <1>2, <3>1
    <3> QED
      BY <3>1, <3>2 DEF AllFit
  <2> QED
    BY <2>1, <2>2
<1>7. AllFit(c, w)
  BY <1>6 DEF AllFit
<1> QED
  BY <1>2, <1>3, <1>7 DEF c

LEMMA StaysAbove ==
    ASSUME NEW b \in Buffer, NEW w \in Int, AboveFit(b, w), NEW piece \in Piece, ~piece.newline
    PROVE  AboveFit(Cat(b, piece), w)
<1>1. Len(b.lines) \in Nat \ {0} /\ SameUpToLast(b, Cat(b, piece))
  BY CatLines
<1> QED
  BY <1>1 DEF AboveFit, SameUpToLast

LEMMA AllIsAbove ==
    ASSUME NEW b \in Buffer, NEW w \in Int
    PROVE  AllFit(b, w) <=> AboveFit(b, w) /\ (Len(b.lines) > 1 => FitsIn(LastLine(b), w))
<1>1. Len(b.lines) \in Nat \ {0}
  BY DEF Buffer
<1> QED
  BY <1>1 DEF AllFit, AboveFit, LastLine

LEMMA NoWordsFit == ASSUME NEW l \in Line, l.words = 0, NEW w PROVE FitsIn(l, w)
BY DEF FitsIn

\* A line without words stays one.
LEMMA PlainFits ==
    ASSUME NEW b \in Buffer, NEW w \in Int, AllFit(b, w), LastLine(b).words = 0, NEW piece \in PlainPiece
    PROVE  /\ Cat(b, piece) \in Buffer /\ AllFit(Cat(b, piece), w)
           /\ LastLine(Cat(b, piece)).words = 0
           /\ ~piece.newline => LastLine(Cat(b, piece)).cols = LastLine(b).cols + piece.cols
<1>1. piece \in Piece /\ piece.words = 0 /\ piece.cols \in Nat /\ piece.newline \in BOOLEAN
  BY DEF PlainPiece, Piece
<1> DEFINE c == Cat(b, piece)
<1>2. c \in Buffer
  BY <1>1, CatType
<1>3. LastLine(b) \in Line /\ Len(b.lines) \in Nat \ {0}
  BY <1>1, CatLines
<1>4. CASE piece.newline
  <2>1. /\ Len(c.lines) = Len(b.lines) + 1 /\ LastLine(c) = NoLine
        /\ \A i \in 1..Len(b.lines) : c.lines[i] = b.lines[i]
    BY <1>1, <1>4, CatLines
  <2> HIDE DEF c
  <2>2. AboveFit(c, w)
    BY <1>3, <2>1 DEF AboveFit, AllFit
  <2>3. LastLine(c).words = 0 /\ FitsIn(LastLine(c), w)
    BY <2>1 DEF NoLine, FitsIn
  <2>4. AllFit(c, w)
    BY <1>2, <2>2, <2>3, AllIsAbove
  <2> QED
    BY <1>2, <1>4, <2>3, <2>4 DEF c
<1>5. CASE ~piece.newline
  <2>1. LastLine(c) = [LastLine(b) EXCEPT !.cols = @ + piece.cols, !.words = @ + piece.words]
    <3>1. LastLine(c) = IF piece.words = 1 /\ LastLine(b).words = 0
                        THEN [cols |-> LastLine(b).cols + piece.cols, words |-> 1,
                              indent |-> piece.indent, start |-> LastLine(b).cols]
                        ELSE [LastLine(b) EXCEPT !.cols = @ + piece.cols, !.words = @ + piece.words]
      BY <1>1, <1>5, CatLines
    <3>2. ~(piece.words = 1 /\ LastLine(b).words = 0)
      BY <1>1
    <3> HIDE DEF c
    <3> QED
      BY <3>1, <3>2, Zenon
  <2>2. AboveFit(c, w)
    <3>1. AboveFit(b, w)
      BY AllIsAbove
    <3> QED
      BY <1>1, <1>5, <3>1, StaysAbove
  <2> HIDE DEF c
  <2>3. LastLine(c).words = 0 /\ LastLine(c).cols = LastLine(b).cols + piece.cols
    <3> DEFINE last == LastLine(b)
    <3>1. last \in [cols : Nat, words : Nat, indent : Nat, start : Nat] /\ last.words = 0
      BY <1>3 DEF Line
    <3> HIDE DEF last
    <3>2. LastLine(c) = [last EXCEPT !.cols = @ + piece.cols, !.words = @ + piece.words]
      BY <2>1 DEF last
    <3>3. LastLine(c).words = last.words + piece.words /\ LastLine(c).cols = last.cols + piece.cols
      BY <3>1, <3>2
    <3> QED
      BY <1>1, <3>1, <3>3 DEF last
  <2>4. FitsIn(LastLine(c), w)
    BY <2>3 DEF FitsIn
  <2>5. AllFit(c, w)
    BY <1>2, <2>2, <2>4, AllIsAbove
  <2> QED
    BY <1>2, <2>3, <2>5 DEF c
<1> QED
  BY <1>1, <1>4, <1>5

LEMMA PlainsFit ==
    ASSUME NEW b \in Buffer, NEW w \in Int, AllFit(b, w), LastLine(b).words = 0, NEW s \in Seq(PlainPiece)
    PROVE  Cats(b, s) \in Buffer /\ AllFit(Cats(b, s), w) /\ LastLine(Cats(b, s)).words = 0
<1>1. s \in Seq(Piece) /\ Len(s) \in Nat
  BY PlainSeqIsSeq
<1>2. PICK h \in [0..Len(s) -> Buffer] :
         /\ h[0] = b /\ Cats(b, s) = h[Len(s)]
         /\ \A k \in 1..Len(s) : h[k] = Cat(h[k - 1], s[k])
  BY <1>1, CatsTrace
<1> DEFINE Good == {k \in 0..Len(s) : h[k] \in Buffer /\ AllFit(h[k], w) /\ LastLine(h[k]).words = 0}
<1>3. 0 \in Good
  BY <1>1, <1>2
<1>4. ASSUME NEW k \in 0..(Len(s) - 1), k \in Good
      PROVE  k + 1 \in Good
  <2>1. k + 1 \in 1..Len(s) /\ k + 1 \in 0..Len(s) /\ (k + 1) - 1 = k
    BY <1>1
  <2>2. s[k + 1] \in PlainPiece /\ h[k + 1] = Cat(h[k], s[k + 1])
    BY <1>2, <2>1
  <2>3. h[k] \in Buffer /\ AllFit(h[k], w) /\ LastLine(h[k]).words = 0
    BY <1>4
  <2> QED
    BY <2>1, <2>2, <2>3, PlainFits
<1>5. \A k \in 0..(Len(s) - 1) : k \in Good => k + 1 \in Good
  BY <1>4
<1> HIDE DEF Good
<1>6. \A k \in 0..Len(s) : k \in Good
  BY <1>1, <1>3, <1>5, Inductive
<1>7. Len(s) \in Good
  BY <1>1, <1>6
<1> QED
  BY <1>2, <1>7 DEF Good

LEMMA PadFits ==
    ASSUME NEW b \in Buffer, NEW w \in Int, AllFit(b, w), LastLine(b).words = 0, NEW n \in Nat
    PROVE  /\ Cats(b, Pad(n)) \in Buffer /\ AllFit(Cats(b, Pad(n)), w)
           /\ LastLine(Cats(b, Pad(n))).words = 0
           /\ LastLine(Cats(b, Pad(n))).cols = LastLine(b).cols + n
<1> DEFINE s == Pad(n)
<1>1. s \in Seq(PlainPiece) /\ Len(s) = n /\ \A i \in 1..n : s[i] = Str(Plain(1))
  BY PadType
<1>2. Str(Plain(1)) \in PlainPiece /\ ~Str(Plain(1)).newline /\ Str(Plain(1)).cols = 1
  BY PlainType, StrType
<1> HIDE DEF s
<1>3. s \in Seq(Piece)
  BY <1>1, PlainSeqIsSeq
<1>4. PICK h \in [0..Len(s) -> Buffer] :
         /\ h[0] = b /\ Cats(b, s) = h[Len(s)]
         /\ \A k \in 1..Len(s) : h[k] = Cat(h[k - 1], s[k])
  BY <1>3, CatsTrace
<1> DEFINE Good == {k \in 0..n : /\ h[k] \in Buffer /\ AllFit(h[k], w) /\ LastLine(h[k]).words = 0
                                 /\ LastLine(h[k]).cols = LastLine(b).cols + k}
<1>5. LastLine(b).cols \in Nat
  <2>1. LastLine(b) \in Line
    BY DEF Buffer, LastLine
  <2> QED
    BY <2>1 DEF Line
<1>6. 0 \in Good
  BY <1>1, <1>4, <1>5
<1>7. ASSUME NEW k \in 0..(n - 1), k \in Good
      PROVE  k + 1 \in Good
  <2>1. k + 1 \in 1..n /\ k + 1 \in 0..n /\ (k + 1) - 1 = k
    OBVIOUS
  <2>2. s[k + 1] = Str(Plain(1)) /\ h[k + 1] = Cat(h[k], s[k + 1])
    BY <1>1, <1>4, <2>1
  <2>3. /\ h[k] \in Buffer /\ AllFit(h[k], w) /\ LastLine(h[k]).words = 0
        /\ LastLine(h[k]).cols = LastLine(b).cols + k
    BY <1>7
  <2>4. /\ h[k + 1] \in Buffer /\ AllFit(h[k + 1], w) /\ LastLine(h[k + 1]).words = 0
        /\ LastLine(h[k + 1]).cols = LastLine(h[k]).cols + 1
    BY <1>2, <2>2, <2>3, PlainFits
  <2>5. LastLine(h[k + 1]).cols = LastLine(b).cols + (k + 1)
    BY <1>5, <2>1, <2>3, <2>4
  <2> QED
    BY <2>1, <2>4, <2>5
<1>8. \A k \in 0..(n - 1) : k \in Good => k + 1 \in Good
  BY <1>7
<1> HIDE DEF Good
<1>9. \A k \in 0..n : k \in Good
  BY <1>6, <1>8, Inductive
<1>10. n \in Good
  BY <1>9
<1> QED
  BY <1>1, <1>4, <1>10 DEF Good, s

LEMMA EndedFits ==
    ASSUME NEW b \in Buffer, NEW w \in Int, AllFit(b, w), LastLine(b).words = 0, NEW s \in Ended
    PROVE  AllFit(Cats(b, s), w) /\ LastLine(Cats(b, s)) = NoLine
<1>1. PICK front \in Seq(PlainPiece) : s = front \o <<Newline>>
  BY DEF Ended
<1>2. front \in Seq(Piece) /\ Newline \in Piece /\ <<Newline>> \in Seq(Piece)
  <2>1. Newline \in Piece
    BY NewlineType DEF PlainPiece
  <2> QED
    BY <2>1, PlainSeqIsSeq
<1> DEFINE c == Cats(b, front)
<1>3. c \in Buffer /\ AllFit(c, w)
  BY PlainsFit
<1>4. Cats(b, s) = Cats(c, <<Newline>>)
  BY <1>1, <1>2, CatsConcat
<1> HIDE DEF c
<1>5. Cats(b, s) = Cat(c, Newline)
  BY <1>2, <1>3, <1>4, CatsOne
<1> QED
  BY <1>3, <1>5, NewlineFits

LEMMA EndedIsSeq == ASSUME NEW s \in Ended PROVE s \in Seq(Piece)
<1>1. PICK front \in Seq(PlainPiece) : s = front \o <<Newline>>
  BY DEF Ended
<1>2. front \in Seq(Piece) /\ <<Newline>> \in Seq(Piece)
  <2>1. Newline \in Piece
    BY NewlineType DEF PlainPiece
  <2> QED
    BY <2>1, PlainSeqIsSeq
<1> QED
  BY <1>1, <1>2, ConcatProperties

\* A write whose failures are none has written all.
LEMMA WriteEffect ==
    ASSUME buf \in Buffer, failures \in Nat, NEW pieces \in Seq(Piece), Write(pieces)
    PROVE  /\ buf' \in Buffer /\ failures' \in Nat
           /\ failures' = 0 => failures = 0 /\ buf' = Cats(buf, pieces)
<1>1. CASE buf' = Cats(buf, pieces) /\ UNCHANGED failures
  BY <1>1, CatsType
<1>2. ASSUME NEW i \in DOMAIN pieces, failures' = failures + 1,
             buf' = Cats(Cats(buf, SubSeq(pieces, 1, i - 1)),
                         SubSeq(pieces, i + 1 + pieces[i].rest, Len(pieces)))
      PROVE  buf' \in Buffer /\ failures' \in Nat \ {0}
  <2>1. Len(pieces) \in Nat /\ i \in 1..Len(pieces) /\ pieces[i] \in Piece
    OBVIOUS
  <2>2. pieces[i].rest \in Nat
    BY <2>1 DEF Piece
  <2> DEFINE m == i + 1 + pieces[i].rest
             first == SubSeq(pieces, 1, i - 1)
             second == SubSeq(pieces, m, Len(pieces))
  <2>3. m \in Nat \ {0}
    BY <2>1, <2>2
  <2> HIDE DEF m
  <2>4. first \in Seq(Piece) /\ second \in Seq(Piece)
    BY <2>1, <2>3
  <2>5. Cats(buf, first) \in Buffer
    BY <2>4, CatsType
  <2>6. Cats(Cats(buf, first), second) \in Buffer
    BY <2>4, <2>5, CatsType
  <2> QED
    BY <1>2, <2>6 DEF m
<1> QED
  BY <1>1, <1>2 DEF Write

\* A line with room for a word of so many bytes, behind what is counted.
Behind(l, w, indent, counted, bytes) ==
    /\ l.words = 0 => l.cols = indent /\ counted = 0
    /\ l.words > 0 => /\ l.indent = indent /\ l.start = indent /\ l.cols <= indent + counted
                      /\ indent + counted + bytes <= IF w - indent < 20 THEN indent + w - 20 ELSE w

\* A word behind the others of its line, or the first, with the space before it.
LEMMA WordFits ==
    ASSUME NEW b \in Buffer, NEW w \in Int, AboveFit(b, w), NEW word \in Strings, NEW indent \in Nat,
           NEW counted \in Nat,
           Behind(LastLine(b), w, indent, counted, word.bytes),
           NEW m, m = LastLine(Cat(b, WordOf(word, indent)))
    PROVE  /\ Cat(b, WordOf(word, indent)) \in Buffer /\ AllFit(Cat(b, WordOf(word, indent)), w)
           /\ m.words \in Nat /\ m.words > 0 /\ m.indent = indent /\ m.start = indent
           /\ m.cols <= indent + counted + word.bytes
<1> DEFINE piece == WordOf(word, indent)
           c == Cat(b, piece)
           last == LastLine(b)
<1>1. /\ piece \in Piece /\ ~piece.newline /\ piece.words = 1 /\ piece.indent = indent
      /\ piece.cols = word.cols /\ word.cols \in Nat /\ word.bytes \in Nat /\ word.cols <= word.bytes
  <2>1. word.cols \in Nat /\ word.bytes \in Nat /\ word.cols <= word.bytes
    BY DEF Strings
  <2> QED
    BY <2>1, WordType
<1> HIDE DEF piece
<1>2. c \in Buffer
  BY <1>1, CatType
<1>3. AboveFit(c, w)
  BY <1>1, StaysAbove
<1>4. last \in Line
  BY <1>1, CatLines
<1>5. LastLine(c) = IF piece.words = 1 /\ last.words = 0
                    THEN [cols |-> last.cols + piece.cols, words |-> 1,
                          indent |-> piece.indent, start |-> last.cols]
                    ELSE [last EXCEPT !.cols = @ + piece.cols, !.words = @ + piece.words]
  BY <1>1, CatLines
<1>6. last.cols \in Nat /\ last.words \in Nat
  BY <1>4 DEF Line
<1> DEFINE l == LastLine(c)
<1>7. CASE last.words = 0
  <2>1. l = [cols |-> last.cols + piece.cols, words |-> 1, indent |-> piece.indent, start |-> last.cols]
    BY <1>1, <1>5, <1>7
  <2>2. last.cols = indent /\ counted = 0
    BY <1>7 DEF Behind
  <2> HIDE DEF l, last
  <2>3. /\ l.words = 1 /\ l.indent = indent /\ l.start = indent
        /\ l.cols = indent + word.cols
    BY <1>1, <2>1, <2>2
  <2>4. FitsIn(l, w)
    BY <2>3 DEF FitsIn
  <2>5. AllFit(c, w)
    BY <1>2, <1>3, <2>4, AllIsAbove DEF l
  <2>6. l.cols <= indent + counted + word.bytes
    BY <1>1, <2>2, <2>3
  <2> QED
    BY <1>2, <2>3, <2>5, <2>6 DEF piece, l
<1>8. CASE last.words # 0
  <2>1. l = [last EXCEPT !.cols = @ + piece.cols, !.words = @ + piece.words]
    BY <1>5, <1>8, Zenon
  <2>2. last.words > 0
    BY <1>6, <1>8
  <2>3. /\ last.indent = indent /\ last.start = indent /\ last.cols <= indent + counted
        /\ indent + counted + word.bytes <= IF w - indent < 20 THEN indent + w - 20 ELSE w
    BY <2>2 DEF Behind
  <2> HIDE DEF l, last
  <2>4. last \in [cols : Nat, words : Nat, indent : Nat, start : Nat]
    BY <1>4 DEF Line
  <2>5. /\ l.cols = last.cols + piece.cols /\ l.words = last.words + piece.words
        /\ l.indent = last.indent /\ l.start = last.start
    BY <2>1, <2>4
  <2>6. l.cols <= indent + counted + word.bytes /\ l.words \in Nat /\ l.words > 0
    BY <1>1, <1>6, <2>2, <2>3, <2>5
  <2>7. FitsIn(l, w)
    <3>1. l.cols <= IF w - indent < 20 THEN indent + w - 20 ELSE w
      BY <1>1, <1>6, <2>3, <2>5, <2>6
    <3> QED
      BY <2>3, <2>5, <3>1 DEF FitsIn
  <2>8. AllFit(c, w)
    BY <1>2, <1>3, <2>7, AllIsAbove DEF l
  <2> QED
    BY <1>2, <2>3, <2>5, <2>6, <2>8 DEF piece, l
<1> QED
  BY <1>7, <1>8

\* One turn of wrap_text.
LEMMA WordWritten ==
    ASSUME Typed, AllFit(buf, width), Underway(LastLine(buf)), NEW word \in Strings,
           NEW len, len = (IF Breaks(text, word.bytes) THEN 0 ELSE text.lineLen),
           NEW gap, gap = (IF len > 0 THEN 1 ELSE 0),
           NEW c, c = Cats(buf, ((IF Breaks(text, word.bytes) THEN <<Newline>> \o Pad(text.indent) ELSE << >>)
                                   \o Pad(gap)) \o <<WordOf(word, text.indent)>>)
    PROVE  LET l == LastLine(c)
           IN  /\ AllFit(c, width)
               /\ l.words \in Nat /\ l.words > 0 /\ l.indent = text.indent /\ l.start = text.indent
               /\ l.cols <= text.indent + len + gap + word.bytes
<1> DEFINE indent == text.indent
           start == IF Breaks(text, word.bytes) THEN <<Newline>> \o Pad(indent) ELSE << >>
           b1 == Cats(buf, start)
           b2 == Cats(b1, Pad(gap))
           W == WordOf(word, indent)
<1>1. /\ indent \in Nat /\ text.lineLen \in Nat /\ width \in Int /\ width >= 40 /\ buf \in Buffer
      /\ word.bytes \in Nat /\ text.onFirst \in BOOLEAN
  BY DEF Typed, Strings
<1>2. len \in Nat /\ gap \in {0, 1} /\ (len = 0 => gap = 0)
  BY <1>1
<1>3. /\ start \in Seq(Piece) /\ Pad(gap) \in Seq(Piece) /\ <<W>> \in Seq(Piece) /\ W \in Piece
      /\ Pad(indent) \in Seq(Piece) /\ <<Newline>> \in Seq(Piece) /\ Newline \in Piece
  <2>1. Pad(gap) \in Seq(Piece) /\ Pad(indent) \in Seq(Piece)
    BY <1>1, <1>2, PadType, PlainSeqIsSeq
  <2>2. W \in Piece /\ Newline \in Piece
    BY <1>1, WordType, NewlineType DEF PlainPiece
  <2> HIDE DEF W
  <2>3. <<W>> \in Seq(Piece) /\ <<Newline>> \in Seq(Piece) /\ << >> \in Seq(Piece)
    BY <2>2
  <2>4. <<Newline>> \o Pad(indent) \in Seq(Piece)
    BY <2>1, <2>3, ConcatProperties
  <2> QED
    BY <2>1, <2>2, <2>3, <2>4
<1>4. c = Cat(b2, W) /\ b1 \in Buffer /\ b2 \in Buffer
  <2> HIDE DEF start, W
  <2>1. start \o Pad(gap) \in Seq(Piece)
    BY <1>3, ConcatProperties
  <2>2. c = Cats(Cats(buf, start \o Pad(gap)), <<W>>)
    BY <1>1, <1>3, <2>1, CatsConcat DEF start, W
  <2>3. Cats(buf, start \o Pad(gap)) = b2
    BY <1>1, <1>3, CatsConcat
  <2>4. b1 \in Buffer /\ b2 \in Buffer
    <3>1. b1 \in Buffer
      BY <1>1, <1>3, CatsType
    <3> HIDE DEF b1
    <3> QED
      BY <1>3, <3>1, CatsType
  <2>5. Cats(b2, <<W>>) = Cat(b2, W)
    BY <1>3, <2>4, CatsOne
  <2> QED
    BY <2>2, <2>3, <2>4, <2>5
<1>5. /\ AboveFit(b2, width)
      /\ LastLine(b2).words = 0 => LastLine(b2).cols = indent /\ len + gap = 0
      /\ LastLine(b2).words > 0 => /\ LastLine(b2).indent = indent /\ LastLine(b2).start = indent
                                   /\ LastLine(b2).cols <= indent + (len + gap)
                                   /\ indent + (len + gap) + word.bytes
                                        <= IF width - indent < 20 THEN indent + width - 20 ELSE width
  <2>1. CASE Breaks(text, word.bytes)
    <3>1. len = 0 /\ gap = 0 /\ b1 = Cats(buf, <<Newline>> \o Pad(indent))
      BY <2>1
    <3> DEFINE b0 == Cat(buf, Newline)
    <3>2. b1 = Cats(b0, Pad(indent))
      <4>1. b1 = Cats(Cats(buf, <<Newline>>), Pad(indent))
        BY <1>1, <1>3, <3>1, CatsConcat
      <4>2. Cats(buf, <<Newline>>) = b0
        BY <1>1, <1>3, CatsOne
      <4> QED
        BY <4>1, <4>2
    <3>3. b0 \in Buffer /\ AllFit(b0, width) /\ LastLine(b0).words = 0 /\ LastLine(b0).cols = 0
      BY <1>1, NewlineFits DEF NoLine
    <3> HIDE DEF b0, b1
    <3>4. b1 \in Buffer /\ AllFit(b1, width) /\ LastLine(b1).words = 0 /\ LastLine(b1).cols = 0 + indent
      BY <1>1, <3>2, <3>3, PadFits
    <3>5. Pad(gap) = << >>
      BY <3>1 DEF Pad
    <3>6. b2 = b1
      BY <3>4, <3>5, CatsNone
    <3> HIDE DEF b2
    <3>7. AboveFit(b1, width)
      BY <1>1, <3>4, AllIsAbove
    <3> QED
      BY <1>1, <3>1, <3>4, <3>6, <3>7
  <2>2. CASE ~Breaks(text, word.bytes)
    <3>1. len = text.lineLen /\ b1 = buf
      BY <1>1, <2>2, CatsNone
    <3> DEFINE last == LastLine(buf)
    <3>2. last \in Line /\ last.cols \in Nat /\ last.words \in Nat
      <4>1. last \in Line
        BY <1>1 DEF Buffer, LastLine
      <4> QED
        BY <4>1 DEF Line
    <3>3. AboveFit(buf, width)
      BY <1>1, AllIsAbove
    <3>4. /\ last.words = 0 => last.cols = indent /\ len = 0
          /\ last.words > 0 => /\ ~text.onFirst /\ last.indent = indent /\ last.start = indent
                               /\ last.cols <= indent + len
      BY <3>1 DEF Underway
    <3>5. ~text.onFirst => indent + (len + gap) + word.bytes
                             <= IF width - indent < 20 THEN indent + width - 20 ELSE width
      <4>1. ~(len + word.bytes + gap > Available(text))
        BY <2>2, <3>1 DEF Breaks
      <4>2. ~text.onFirst => Available(text) = IF width - indent < 20 THEN width - 20 ELSE width - indent
        BY DEF Available
      <4> HIDE DEF indent
      <4> QED
        BY <1>1, <1>2, <4>1, <4>2
    <3>6. CASE gap = 0
      <4>1. Pad(gap) = << >>
        BY <3>6 DEF Pad
      <4>2. b2 = buf
        BY <1>1, <3>1, <4>1, CatsNone
      <4> HIDE DEF b2, last
      <4> QED
        BY <1>1, <1>2, <3>2, <3>3, <3>4, <3>5, <3>6, <4>2 DEF last
    <3>7. CASE gap = 1
      <4> DEFINE space == Str(Plain(1))
      <4>1. /\ space \in Piece /\ ~space.newline /\ space.words = 0 /\ space.cols = 1
        BY PlainType, StrType DEF PlainPiece
      <4>2. Pad(gap) = <<space>>
        <5>1. Pad(1) \in Seq(PlainPiece) /\ Len(Pad(1)) = 1 /\ Pad(1)[1] = space
          BY PadType
        <5> HIDE DEF space
        <5> QED
          BY <3>7, <5>1
      <4> HIDE DEF space
      <4>3. b2 = Cat(buf, space)
        BY <1>1, <3>1, <4>1, <4>2, CatsOne
      <4>4. AboveFit(b2, width)
        BY <1>1, <3>3, <4>1, <4>3, StaysAbove
      <4>5. last.words > 0
        <5>1. len > 0
          BY <1>2, <3>7
        <5> QED
          BY <1>2, <3>2, <3>4, <5>1
      <4>6. LastLine(b2) = IF space.words = 1 /\ last.words = 0
                           THEN [cols |-> last.cols + space.cols, words |-> 1,
                                 indent |-> space.indent, start |-> last.cols]
                           ELSE [last EXCEPT !.cols = @ + space.cols, !.words = @ + space.words]
        BY <1>1, <4>1, <4>3, CatLines
      <4> HIDE DEF last, b2
      <4>7. LastLine(b2) = [last EXCEPT !.cols = @ + space.cols, !.words = @ + space.words]
        <5>1. ~(space.words = 1 /\ last.words = 0)
          BY <4>1
        <5> QED
          BY <4>6, <5>1, Zenon
      <4>8. last \in [cols : Nat, words : Nat, indent : Nat, start : Nat]
        BY <3>2 DEF Line
      <4>9. /\ LastLine(b2).cols = last.cols + 1 /\ LastLine(b2).words = last.words + 0
            /\ LastLine(b2).indent = last.indent /\ LastLine(b2).start = last.start
        BY <4>1, <4>7, <4>8
      <4>10. LastLine(b2).cols <= indent + (len + gap) /\ LastLine(b2).words # 0
        BY <1>1, <1>2, <3>2, <3>4, <3>7, <4>5, <4>9
      <4> QED
        BY <3>4, <3>5, <4>4, <4>5, <4>9, <4>10
    <3> QED
      BY <1>2, <3>6, <3>7
  <2> QED
    BY <2>1, <2>2
<1>6. len + gap \in Nat
  BY <1>2
<1> HIDE DEF b2, b1, W
<1> DEFINE l == LastLine(c)
           counted == len + gap
<1>7. /\ AllFit(c, width)
      /\ l.words \in Nat /\ l.words > 0 /\ l.indent = indent /\ l.start = indent
      /\ l.cols <= indent + counted + word.bytes
  <2> HIDE DEF indent, counted
  <2>1. counted \in Nat
    BY <1>6 DEF counted
  <2>2. Behind(LastLine(b2), width, indent, counted, word.bytes)
    BY <1>5 DEF Behind, counted
  <2>3. AboveFit(b2, width) /\ b2 \in Buffer /\ indent \in Nat /\ width \in Int
    BY <1>1, <1>4, <1>5
  <2> DEFINE d == Cat(b2, WordOf(word, indent))
             k == LastLine(d)
  <2>4. /\ AllFit(d, width)
        /\ k.words \in Nat /\ k.words > 0 /\ k.indent = indent /\ k.start = indent
        /\ k.cols <= indent + counted + word.bytes
    BY <2>1, <2>2, <2>3, WordFits
  <2>5. c = d
    BY <1>4 DEF W
  <2> HIDE DEF d
  <2> QED
    BY <2>4, <2>5
<1>8. indent + counted + word.bytes = indent + len + gap + word.bytes
  BY <1>1, <1>2
<1> HIDE DEF l, counted
<1> QED
  BY <1>7, <1>8 DEF l

-----------------------------------------------------------------------------
(***************************************************************************)
(* The invariant holds at first and is kept by every step.                 *)
(***************************************************************************)
LEMMA EmptyFits ==
    /\ EmptyBuffer \in Buffer /\ LastLine(EmptyBuffer) = NoLine /\ NoLine.words = 0
    /\ \A w : AllFit(EmptyBuffer, w)
<1>1. <<NoLine>> \in Seq(Line) /\ Len(<<NoLine>>) = 1 /\ <<NoLine>>[1] = NoLine
  BY DEF NoLine, Line
<1> QED
  BY <1>1 DEF EmptyBuffer, Buffer, LastLine, AllFit, NoLine

LEMMA NoTextType ==
    NoText \in [words : Seq(Strings), indent : Nat, lineLen : Nat, onFirst : BOOLEAN, active : BOOLEAN]
      /\ ~NoText.active
BY DEF NoText

LEMMA WrappingType ==
    ASSUME NEW words \in Seq(Strings), NEW indent \in Nat, NEW onFirst \in BOOLEAN
    PROVE  /\ Wrapping(words, indent, onFirst)
                \in [words : Seq(Strings), indent : Nat, lineLen : Nat, onFirst : BOOLEAN, active : BOOLEAN]
           /\ Wrapping(words, indent, onFirst).active /\ Wrapping(words, indent, onFirst).lineLen = 0
           /\ Wrapping(words, indent, onFirst).indent = indent
BY DEF Wrapping

LEMMA CallKind ==
    ASSUME NEW c \in Call
    PROVE  /\ c.call = "row" => c \in RowCall
           /\ c.call = "heading" => c.pieces \in Ended
           /\ c.call \in {"paragraph", "intro"} => c.words \in Seq(Strings)
<1> HIDE DEF Strings, Ended
<1> QED
  BY DEF Call, TextCall, HeadingCall, RowCall

LEMMA LayoutInit == ASSUME Init PROVE LayoutInv
<1>1. << >> \in Seq(Call) /\ 0 < MetavarSize
  BY DEF MetavarSize
<1> QED
  BY <1>1, EmptyFits, NoTextType DEF Init, LayoutInv, Typed

LEMMA KeepSetHelpWidth ==
    ASSUME LayoutInv, NEW w \in Width, SetHelpWidth(w)
    PROVE  LayoutInv'
<1>1. w \in Int
  BY HelpLayoutAssumption
<1>2. width' \in Int /\ width' >= 40
  BY <1>1 DEF SetHelpWidth, LayoutInv, Typed
<1>3. phase = "idle" /\ buf = EmptyBuffer /\ text = NoText
  BY DEF LayoutInv, SetHelpWidth
<1>4. Typed' /\ buf' = buf /\ text' = text
  BY <1>2 DEF SetHelpWidth, LayoutInv, Typed
<1> QED
  BY <1>3, <1>4, EmptyFits, NoTextType DEF LayoutInv

LEMMA KeepSetColor ==
    ASSUME LayoutInv, NEW enable, NEW env, SetColor(enable, env)
    PROVE  LayoutInv'
BY DEF SetColor, LayoutInv, Typed, Underway

LEMMA KeepPrintHelp == ASSUME LayoutInv, PrintHelp PROVE LayoutInv'
<1>1. page \in Parser /\ buf = EmptyBuffer /\ text = NoText /\ width \in Int /\ failures \in Nat
  BY HelpLayoutAssumption DEF LayoutInv, Typed, PrintHelp
<1>2. UsagePieces \in Ended /\ UsagePieces \in Seq(Piece)
  BY <1>1, UsagePiecesType, EndedIsSeq
<1>3. /\ buf' \in Buffer /\ failures' \in Nat
      /\ failures' = 0 => failures = 0 /\ buf' = Cats(buf, UsagePieces)
  <2>1. buf \in Buffer /\ Write(UsagePieces)
    BY DEF LayoutInv, Typed, PrintHelp
  <2> QED
    BY <1>1, <1>2, <2>1, WriteEffect
<1>4. AllFit(Cats(buf, UsagePieces), width) /\ LastLine(Cats(buf, UsagePieces)) = NoLine
  BY <1>1, <1>2, EmptyFits, EndedFits
<1>5. Typed'
  BY <1>1, <1>3, SectionsType, LastWrittenFits DEF LayoutInv, Typed, PrintHelp
<1>6. phase' = "printing" /\ text' = text /\ width' = width /\ ~text.active
  BY <1>1, NoTextType DEF PrintHelp
<1> QED
  BY <1>3, <1>4, <1>5, <1>6 DEF LayoutInv

\* What a call of clap_print_help leaves to show.
LEMMA KeepCall ==
    ASSUME LayoutInv, phase = "printing", ~text.active, todo # << >>, Proceeds,
           NEW pieces \in Seq(Piece), Write(pieces),
           text' \in [words : Seq(Strings), indent : Nat, lineLen : Nat, onFirst : BOOLEAN, active : BOOLEAN],
           AllFit(buf, width) /\ LastLine(buf) = NoLine =>
              /\ AllFit(Cats(buf, pieces), width)
              /\ ~text'.active => LastLine(Cats(buf, pieces)) = NoLine
              /\ text'.active => /\ LastLine(Cats(buf, pieces)).words = 0
                                 /\ LastLine(Cats(buf, pieces)).cols = text'.indent
                                 /\ text'.lineLen = 0
    PROVE  LayoutInv'
<1>1. /\ buf' \in Buffer /\ failures' \in Nat
      /\ failures' = 0 => failures = 0 /\ buf' = Cats(buf, pieces)
  BY WriteEffect DEF LayoutInv, Typed
<1>2. todo' \in Seq(Call)
  <2>1. todo \in Seq(Call) /\ todo' = Tail(todo)
    BY DEF LayoutInv, Typed, Proceeds
  <2> QED
    BY <2>1
<1>3. Typed'
  BY <1>1, <1>2 DEF LayoutInv, Typed, Proceeds
<1>4. width' = width /\ phase' = phase
  BY DEF Proceeds
<1>5. ASSUME failures' = 0
      PROVE  /\ AllFit(buf, width)'
             /\ ~text'.active => LastLine(buf)' = NoLine
             /\ text'.active => Underway(LastLine(buf))'
  <2>1. AllFit(buf, width) /\ LastLine(buf) = NoLine /\ buf' = Cats(buf, pieces)
    BY <1>1, <1>5 DEF LayoutInv
  <2> QED
    BY <1>4, <2>1 DEF Underway
<1> QED
  BY <1>3, <1>4, <1>5 DEF LayoutInv

LEMMA KeepPrintHeading == ASSUME LayoutInv, PrintHeading PROVE LayoutInv'
<1> DEFINE pieces == Head(todo).pieces
<1>1. /\ phase = "printing" /\ ~text.active /\ todo # << >> /\ Proceeds /\ Write(pieces)
      /\ text' = text /\ todo \in Seq(Call) /\ Head(todo).call = "heading" /\ buf \in Buffer /\ width \in Int
      /\ text \in [words : Seq(Strings), indent : Nat, lineLen : Nat, onFirst : BOOLEAN, active : BOOLEAN]
  BY DEF PrintHeading, Calls, LayoutInv, Typed
<1>2. Head(todo) \in Call
  BY <1>1
<1>3. pieces \in Ended /\ pieces \in Seq(Piece)
  BY <1>1, <1>2, CallKind, EndedIsSeq
<1> HIDE DEF pieces
<1>4. AllFit(buf, width) /\ LastLine(buf) = NoLine =>
         AllFit(Cats(buf, pieces), width) /\ LastLine(Cats(buf, pieces)) = NoLine
  BY <1>1, <1>3, EndedFits DEF NoLine
<1> QED
  BY <1>1, <1>3, <1>4, KeepCall

LEMMA KeepBeginParagraph == ASSUME LayoutInv, BeginParagraph PROVE LayoutInv'
<1> DEFINE pieces == <<Newline>>
<1>1. /\ phase = "printing" /\ ~text.active /\ todo # << >> /\ Proceeds /\ Write(pieces)
      /\ text' = Wrapping(Head(todo).words, 0, FALSE) /\ todo \in Seq(Call)
      /\ Head(todo).call = "paragraph" /\ buf \in Buffer /\ width \in Int
  BY DEF BeginParagraph, Calls, LayoutInv, Typed
<1>2. Head(todo) \in Call
  BY <1>1
<1>3. Head(todo).words \in Seq(Strings)
  BY <1>1, <1>2, CallKind
<1>4. Newline \in Piece /\ pieces \in Seq(Piece)
  <2>1. Newline \in Piece
    BY NewlineType DEF PlainPiece
  <2> QED
    BY <2>1
<1>5. Cats(buf, pieces) = Cat(buf, Newline)
  BY <1>1, <1>4, CatsOne
<1> HIDE DEF pieces
<1>6. AllFit(buf, width) /\ LastLine(buf) = NoLine =>
         /\ AllFit(Cats(buf, pieces), width) /\ LastLine(Cats(buf, pieces)).words = 0
         /\ LastLine(Cats(buf, pieces)).cols = 0
  BY <1>1, <1>5, NewlineFits DEF NoLine
<1> QED
  BY <1>1, <1>3, <1>4, <1>6, WrappingType, KeepCall

LEMMA KeepBeginIntro == ASSUME LayoutInv, BeginIntro PROVE LayoutInv'
<1> DEFINE pieces == <<Str(Plain(2))>>
<1>1. /\ phase = "printing" /\ ~text.active /\ todo # << >> /\ Proceeds /\ Write(pieces)
      /\ text' = Wrapping(Head(todo).words, 2, TRUE) /\ todo \in Seq(Call)
      /\ Head(todo).call = "intro" /\ buf \in Buffer /\ width \in Int
  BY DEF BeginIntro, Calls, LayoutInv, Typed
<1>2. Head(todo) \in Call
  BY <1>1
<1>3. Head(todo).words \in Seq(Strings)
  BY <1>1, <1>2, CallKind
<1>4. /\ Str(Plain(2)) \in PlainPiece /\ Str(Plain(2)) \in Piece /\ pieces \in Seq(Piece)
      /\ ~Str(Plain(2)).newline /\ Str(Plain(2)).cols = 2
  <2>1. Str(Plain(2)) \in PlainPiece /\ ~Str(Plain(2)).newline /\ Str(Plain(2)).cols = 2
    BY PlainType, StrType
  <2>2. Str(Plain(2)) \in Piece
    BY <2>1 DEF PlainPiece
  <2> QED
    BY <2>1, <2>2
<1>5. Cats(buf, pieces) = Cat(buf, Str(Plain(2)))
  BY <1>1, <1>4, CatsOne
<1> HIDE DEF pieces
<1>6. AllFit(buf, width) /\ LastLine(buf) = NoLine =>
         /\ AllFit(Cats(buf, pieces), width) /\ LastLine(Cats(buf, pieces)).words = 0
         /\ LastLine(Cats(buf, pieces)).cols = 2
  <2> SUFFICES ASSUME AllFit(buf, width), LastLine(buf) = NoLine
               PROVE  /\ AllFit(Cats(buf, pieces), width) /\ LastLine(Cats(buf, pieces)).words = 0
                      /\ LastLine(Cats(buf, pieces)).cols = 2
    OBVIOUS
  <2>1. LastLine(buf).words = 0 /\ LastLine(buf).cols = 0
    BY DEF NoLine
  <2> QED
    BY <1>1, <1>4, <1>5, <2>1, PlainFits
<1> QED
  BY <1>1, <1>3, <1>4, <1>6, WrappingType, KeepCall

LEMMA KeepBeginRow == ASSUME LayoutInv, BeginRow PROVE LayoutInv'
<1> DEFINE row == Head(todo)
           padding == IF row.length < MaxNameLen THEN MaxNameLen - row.length + 4 ELSE 4
           helpIndent == 2 + row.length + padding
           fallback == MaxNameLen + 6
           name == Beside(Plain(2), row.name)
           start == <<Str(name)>> \o Pad(padding)
           broken == (start \o <<Newline>>) \o Pad(fallback)
<1>1. /\ phase = "printing" /\ ~text.active /\ todo # << >> /\ Proceeds
      /\ todo \in Seq(Call) /\ row.call = "row" /\ buf \in Buffer /\ width \in Int /\ width > 0
      /\ page \in Parser
      /\ \/ Write(broken) /\ text' = Wrapping(row.words, fallback, FALSE)
         \/ Write(start) /\ text' = Wrapping(row.words, helpIndent, TRUE)
  <2>1. \/ Write(broken) /\ text' = Wrapping(row.words, fallback, FALSE)
        \/ Write(start) /\ text' = Wrapping(row.words, helpIndent, TRUE)
    BY DEF BeginRow
  <2>2. Calls("row") /\ Proceeds
    BY DEF BeginRow
  <2>3. todo \in Seq(Call) /\ buf \in Buffer /\ width \in Int /\ width > 0 /\ page \in Parser
    BY HelpLayoutAssumption DEF LayoutInv, Typed
  <2> HIDE DEF broken, start, helpIndent, fallback
  <2> QED
    BY <2>1, <2>2, <2>3 DEF Calls
<1>2. row \in RowCall
  <2>1. row \in Call
    BY <1>1
  <2> HIDE DEF row
  <2> QED
    BY <1>1, <2>1, CallKind
<1>3. /\ row.name \in Strings /\ row.length \in Nat /\ row.words \in Seq(Strings)
      /\ row.name.cols = row.length
  <2> HIDE DEF row, Strings
  <2> QED
    BY <1>2 DEF RowCall
<1> HIDE DEF row
<1>4. MaxNameLen \in Nat
  BY <1>1, MaxNameLenType
<1>5. padding \in Nat /\ fallback \in Nat /\ helpIndent \in Nat
  <2>1. padding \in Nat /\ fallback \in Nat
    BY <1>3, <1>4
  <2> HIDE DEF padding
  <2> QED
    BY <1>3, <2>1
<1>6. /\ Str(name) \in PlainPiece /\ ~Str(name).newline /\ Str(name).cols = 2 + row.length
  <2>1. name \in Strings /\ name.cols = 2 + row.name.cols
    BY <1>3, PlainType, BesideType
  <2> HIDE DEF name
  <2> QED
    BY <1>3, <2>1, StrType
<1> HIDE DEF padding, fallback
<1>7. /\ Str(name) \in Piece /\ <<Str(name)>> \in Seq(Piece) /\ <<Newline>> \in Seq(Piece) /\ Newline \in Piece
      /\ Pad(padding) \in Seq(Piece) /\ Pad(fallback) \in Seq(Piece)
  <2>1. Str(name) \in Piece /\ Newline \in Piece
    BY <1>6, NewlineType DEF PlainPiece
  <2> HIDE DEF name
  <2>2. Pad(padding) \in Seq(Piece) /\ Pad(fallback) \in Seq(Piece)
    BY <1>5, PadType, PlainSeqIsSeq
  <2> QED
    BY <2>1, <2>2
<1> HIDE DEF name
<1>8. start \in Seq(Piece) /\ start \o <<Newline>> \in Seq(Piece) /\ broken \in Seq(Piece)
  <2>1. start \in Seq(Piece)
    BY <1>7, ConcatProperties
  <2> HIDE DEF start
  <2>2. start \o <<Newline>> \in Seq(Piece)
    BY <1>7, <2>1, ConcatProperties
  <2> QED
    BY <1>7, <2>1, <2>2, ConcatProperties
<1> DEFINE b1 == Cats(buf, start)
<1>9. AllFit(buf, width) /\ LastLine(buf) = NoLine =>
         /\ b1 \in Buffer /\ AllFit(b1, width) /\ LastLine(b1).words = 0 /\ LastLine(b1).cols = helpIndent
  <2> SUFFICES ASSUME AllFit(buf, width), LastLine(buf) = NoLine
               PROVE  /\ b1 \in Buffer /\ AllFit(b1, width) /\ LastLine(b1).words = 0
                      /\ LastLine(b1).cols = helpIndent
    OBVIOUS
  <2>1. LastLine(buf).words = 0 /\ LastLine(buf).cols = 0
    BY DEF NoLine
  <2> DEFINE b0 == Cat(buf, Str(name))
  <2>2. b0 \in Buffer /\ AllFit(b0, width) /\ LastLine(b0).words = 0 /\ LastLine(b0).cols = 0 + (2 + row.length)
    BY <1>1, <1>6, <2>1, PlainFits
  <2>3. b1 = Cats(b0, Pad(padding))
    <3>1. b1 = Cats(Cats(buf, <<Str(name)>>), Pad(padding))
      BY <1>1, <1>7, CatsConcat
    <3>2. Cats(buf, <<Str(name)>>) = b0
      BY <1>1, <1>7, CatsOne
    <3> QED
      BY <3>1, <3>2
  <2> HIDE DEF b0, b1
  <2>4. /\ b1 \in Buffer /\ AllFit(b1, width) /\ LastLine(b1).words = 0
        /\ LastLine(b1).cols = (0 + (2 + row.length)) + padding
    BY <1>1, <1>5, <2>2, <2>3, PadFits
  <2> QED
    BY <1>3, <1>5, <2>4
<1>10. AllFit(buf, width) /\ LastLine(buf) = NoLine =>
          /\ AllFit(Cats(buf, broken), width) /\ LastLine(Cats(buf, broken)).words = 0
          /\ LastLine(Cats(buf, broken)).cols = fallback
  <2> SUFFICES ASSUME AllFit(buf, width), LastLine(buf) = NoLine
               PROVE  /\ AllFit(Cats(buf, broken), width) /\ LastLine(Cats(buf, broken)).words = 0
                      /\ LastLine(Cats(buf, broken)).cols = fallback
    OBVIOUS
  <2> DEFINE b2 == Cat(b1, Newline)
  <2>1. b1 \in Buffer /\ AllFit(b1, width)
    BY <1>9
  <2> HIDE DEF start
  <2>2. Cats(buf, broken) = Cats(b2, Pad(fallback))
    <3>1. Cats(buf, broken) = Cats(Cats(buf, start \o <<Newline>>), Pad(fallback))
      BY <1>1, <1>7, <1>8, CatsConcat
    <3>2. Cats(buf, start \o <<Newline>>) = Cats(b1, <<Newline>>)
      BY <1>1, <1>7, <1>8, CatsConcat
    <3>3. Cats(b1, <<Newline>>) = b2
      BY <1>7, <2>1, CatsOne
    <3> QED
      BY <3>1, <3>2, <3>3
  <2> HIDE DEF b1, broken
  <2>3. b2 \in Buffer /\ AllFit(b2, width) /\ LastLine(b2).words = 0 /\ LastLine(b2).cols = 0
    BY <1>1, <2>1, NewlineFits DEF NoLine
  <2> HIDE DEF b2
  <2>4. /\ AllFit(Cats(b2, Pad(fallback)), width) /\ LastLine(Cats(b2, Pad(fallback))).words = 0
        /\ LastLine(Cats(b2, Pad(fallback))).cols = 0 + fallback
    BY <1>1, <1>5, <2>3, PadFits
  <2> QED
    BY <1>5, <2>2, <2>4
<1> HIDE DEF helpIndent
<1>11. CASE Write(broken) /\ text' = Wrapping(row.words, fallback, FALSE)
  <2> HIDE DEF broken
  <2> QED
    BY <1>1, <1>3, <1>5, <1>8, <1>10, <1>11, WrappingType, KeepCall
<1>12. CASE Write(start) /\ text' = Wrapping(row.words, helpIndent, TRUE)
  <2> HIDE DEF start
  <2> QED
    BY <1>1, <1>3, <1>5, <1>8, <1>9, <1>12, WrappingType, KeepCall
<1> QED
  BY <1>1, <1>11, <1>12

LEMMA KeepWrapWord == ASSUME LayoutInv, WrapWord PROVE LayoutInv'
<1> DEFINE word == Head(text.words)
           len == IF Breaks(text, word.bytes) THEN 0 ELSE text.lineLen
           gap == IF len > 0 THEN 1 ELSE 0
           start == IF Breaks(text, word.bytes) THEN <<Newline>> \o Pad(text.indent) ELSE << >>
           pieces == (start \o Pad(gap)) \o <<WordOf(word, text.indent)>>
           c == Cats(buf, pieces)
<1>1. /\ phase = "printing" /\ text.active /\ text.words # << >> /\ text.words \in Seq(Strings)
      /\ text.indent \in Nat /\ text.lineLen \in Nat /\ buf \in Buffer
      /\ text \in [words : Seq(Strings), indent : Nat, lineLen : Nat, onFirst : BOOLEAN, active : BOOLEAN]
      /\ UNCHANGED <<page, width, color, phase, todo, metavar>>
  BY DEF WrapWord, LayoutInv, Typed
<1>2. /\ Write(pieces)
      /\ text' = [text EXCEPT !.words = Tail(@), !.lineLen = len + gap + word.bytes, !.onFirst = FALSE]
  BY DEF WrapWord
<1>3. word \in Strings /\ Tail(text.words) \in Seq(Strings)
  BY <1>1
<1>4. word.bytes \in Nat /\ len \in Nat /\ gap \in Nat
  BY <1>1, <1>3 DEF Strings
<1> HIDE DEF word
<1> DEFINE counted == len + gap + word.bytes
           rest == Tail(text.words)
<1>5. counted \in Nat
  BY <1>4
<1>6. /\ text' \in [words : Seq(Strings), indent : Nat, lineLen : Nat, onFirst : BOOLEAN, active : BOOLEAN]
      /\ text'.indent = text.indent /\ text'.lineLen = counted /\ ~text'.onFirst /\ text'.active
  <2>1. text' = [text EXCEPT !.words = rest, !.lineLen = counted, !.onFirst = FALSE]
    BY <1>2
  <2> HIDE DEF rest, counted
  <2> QED
    BY <1>1, <1>3, <1>5, <2>1 DEF rest
<1>7. pieces \in Seq(Piece)
  <2>1. Pad(gap) \in Seq(Piece) /\ Pad(text.indent) \in Seq(Piece)
    BY <1>1, <1>4, PadType, PlainSeqIsSeq
  <2>2. WordOf(word, text.indent) \in Piece /\ Newline \in Piece
    BY <1>1, <1>3, WordType, NewlineType DEF PlainPiece
  <2>3. <<WordOf(word, text.indent)>> \in Seq(Piece) /\ <<Newline>> \in Seq(Piece) /\ << >> \in Seq(Piece)
    BY <2>2
  <2>4. start \in Seq(Piece)
    BY <2>1, <2>3, ConcatProperties
  <2> HIDE DEF start, gap
  <2>5. start \o Pad(gap) \in Seq(Piece)
    BY <2>1, <2>4, ConcatProperties
  <2> QED
    BY <2>3, <2>5, ConcatProperties
<1>8. /\ buf' \in Buffer /\ failures' \in Nat
      /\ failures' = 0 => failures = 0 /\ buf' = c
  <2> HIDE DEF pieces
  <2> QED
    BY <1>2, <1>7, WriteEffect DEF LayoutInv, Typed
<1>9. ASSUME failures = 0
      PROVE  LET l == LastLine(c)
             IN  /\ AllFit(c, width)
                 /\ l.words \in Nat /\ l.words > 0 /\ l.indent = text.indent /\ l.start = text.indent
                 /\ l.cols <= text.indent + len + gap + word.bytes
  <2>1. Typed /\ AllFit(buf, width) /\ Underway(LastLine(buf))
    BY <1>1, <1>9 DEF LayoutInv
  <2> QED
    BY <1>3, <2>1, WordWritten
<1>10. Typed'
  BY <1>1, <1>6, <1>8 DEF LayoutInv, Typed
<1> HIDE DEF c, pieces
<1>11. ASSUME failures' = 0
       PROVE  AllFit(buf, width)' /\ Underway(LastLine(buf))'
  <2>1. buf' = c /\ failures = 0 /\ width' = width
    BY <1>1, <1>8, <1>11
  <2> DEFINE l == LastLine(c)
  <2>2. /\ AllFit(c, width) /\ l.words \in Nat /\ l.words > 0 /\ l.indent = text.indent
        /\ l.start = text.indent /\ l.cols <= text.indent + len + gap + word.bytes
    BY <1>9, <2>1
  <2> HIDE DEF l
  <2>3. text.indent + len + gap + word.bytes = text.indent + counted
    BY <1>1, <1>4
  <2>4. l.words # 0
    BY <2>2
  <2> HIDE DEF counted
  <2> QED
    BY <1>6, <2>1, <2>2, <2>3, <2>4 DEF Underway, l
<1> QED
  BY <1>1, <1>6, <1>10, <1>11 DEF LayoutInv

LEMMA KeepEndText == ASSUME LayoutInv, EndText PROVE LayoutInv'
<1> DEFINE pieces == <<Newline>>
<1>1. Newline \in Piece /\ pieces \in Seq(Piece)
  <2>1. Newline \in Piece
    BY NewlineType DEF PlainPiece
  <2> QED
    BY <2>1
<1>2. /\ Write(pieces) /\ text' = NoText /\ text.active /\ buf \in Buffer /\ width \in Int
      /\ UNCHANGED <<page, width, color, phase, todo, metavar>> /\ phase = "printing"
  BY DEF EndText, LayoutInv, Typed
<1>3. /\ buf' \in Buffer /\ failures' \in Nat
      /\ failures' = 0 => failures = 0 /\ buf' = Cats(buf, pieces)
  <2> HIDE DEF pieces
  <2> QED
    BY <1>1, <1>2, WriteEffect DEF LayoutInv, Typed
<1>4. Cats(buf, pieces) = Cat(buf, Newline)
  BY <1>1, <1>2, CatsOne
<1>5. Typed'
  BY <1>2, <1>3, NoTextType DEF LayoutInv, Typed
<1>6. ASSUME failures' = 0
      PROVE  AllFit(buf, width)' /\ LastLine(buf)' = NoLine
  <2>1. AllFit(buf, width) /\ buf' = Cat(buf, Newline)
    BY <1>3, <1>4, <1>6 DEF LayoutInv
  <2> QED
    BY <1>2, <2>1, NewlineFits
<1> QED
  BY <1>2, <1>5, <1>6, NoTextType DEF LayoutInv

LEMMA KeepPrinted == ASSUME LayoutInv, Printed PROVE LayoutInv'
BY DEF Printed, LayoutInv, Typed, Underway

LEMMA KeepCrashOnNull == ASSUME LayoutInv, CrashOnNull PROVE LayoutInv'
<1>1. failures' \in Nat /\ failures' # 0 /\ phase' = "crashed"
  BY DEF CrashOnNull, LayoutInv, Typed
<1> QED
  BY <1>1 DEF CrashOnNull, LayoutInv, Typed

LEMMA LayoutStutters == ASSUME LayoutInv, UNCHANGED vars PROVE LayoutInv'
BY DEF vars, LayoutInv, Typed, Underway

(***************************************************************************)
(* The invariant of the help, for every parser, width and colour and       *)
(* however many allocations fail.                                          *)
(***************************************************************************)
THEOREM LayoutInvariant == Spec => []LayoutInv
<1>1. Init => LayoutInv
  BY LayoutInit
<1>2. LayoutInv /\ [Next]_vars => LayoutInv'
  <2> SUFFICES ASSUME LayoutInv, [Next]_vars
               PROVE  LayoutInv'
    OBVIOUS
  <2>1. ASSUME NEW w \in Width, SetHelpWidth(w)
        PROVE  LayoutInv'
    BY <2>1, KeepSetHelpWidth
  <2>2. ASSUME NEW enable \in BOOLEAN, NEW env \in Environment, SetColor(enable, env)
        PROVE  LayoutInv'
    BY <2>2, KeepSetColor
  <2>3. CASE PrintHelp
    BY <2>3, KeepPrintHelp
  <2>4. CASE PrintHeading
    BY <2>4, KeepPrintHeading
  <2>5. CASE BeginParagraph
    BY <2>5, KeepBeginParagraph
  <2>6. CASE BeginIntro
    BY <2>6, KeepBeginIntro
  <2>7. CASE BeginRow
    BY <2>7, KeepBeginRow
  <2>8. CASE WrapWord
    BY <2>8, KeepWrapWord
  <2>9. CASE EndText
    BY <2>9, KeepEndText
  <2>10. CASE Printed
    BY <2>10, KeepPrinted
  <2>11. CASE CrashOnNull
    BY <2>11, KeepCrashOnNull
  <2>12. CASE Stopped \/ UNCHANGED vars
    BY <2>12, LayoutStutters DEF Stopped
  <2> QED
    BY <2>1, <2>2, <2>3, <2>4, <2>5, <2>6, <2>7, <2>8, <2>9, <2>10, <2>11, <2>12 DEF Next
<1> QED
  BY <1>1, <1>2, PTL DEF Spec

(***************************************************************************)
(* What is appended to the buffer and what get_upper_metavar writes stays  *)
(* inside the allocation and the array (clap_buffer.c:40-69,               *)
(* clap_formatter.c:57-80).                                                *)
(***************************************************************************)
THEOREM BuffersAlwaysHold == Spec => []BuffersHold
<1>1. LayoutInv => BuffersHold
  BY DEF LayoutInv, Typed, Buffer, BuffersHold
<1> QED
  BY <1>1, LayoutInvariant, PTL

(***************************************************************************)
(* While no growth has failed, the text of a line begins at the column it  *)
(* is laid out for, and a line of more than one word is no wider than      *)
(* Limit of that column: the width of the help, if the column leaves       *)
(* twenty columns or more, and otherwise, as it may for widths below 52,   *)
(* the column and all but twenty columns of the width together             *)
(* (clap_formatter.c:22-54, 94-122, 160-210).                              *)
(***************************************************************************)
THEOREM LinesAlwaysFit == Spec => []LinesFit
<1>1. LayoutInv => LinesFit
  <2> SUFFICES ASSUME LayoutInv, failures = 0, NEW i \in 2..Len(buf.lines)
               PROVE  LET l == buf.lines[i]
                      IN  l.words > 0 => /\ l.start = l.indent
                                         /\ l.words = 1 \/ l.cols <= Limit(l.indent)
    BY DEF LinesFit
  <2>1. FitsIn(buf.lines[i], width)
    BY DEF LayoutInv, AllFit
  <2> QED
    BY <2>1 DEF FitsIn, Limit
<1> QED
  BY <1>1, LayoutInvariant, PTL
=============================================================================
