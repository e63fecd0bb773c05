---------------------------- MODULE Errors_proofs -----------------------------
(***************************************************************************)
(* What an error of the parse stage or of the tests says of the line is    *)
(* so, for every parser and line: what is reported missing is missing,     *)
(* what is in conflict was given, and what are too many or too few         *)
(* arguments are.                                                          *)
(***************************************************************************)
EXTENDS Values_proofs, FiniteSetTheorems

(***************************************************************************)
(* How many words each positional has: those before positional_index are   *)
(* filled, one of N words with all of them, and of the one whose words are *)
(* being taken `left' are to come.  And an option of N words has at most N *)
(* for each time it was accepted, those still to come counted.             *)
(***************************************************************************)
Over == phase \in {"done", "crashed"}

WordsTaken(i) ==
    LET nargs == P.spec[P.positionals[i]].nargs
    IN  IF i <= positionalIndex THEN nargs
        ELSE IF phase = "positional_values" /\ i = positionalIndex + 1 THEN nargs - left
        ELSE 0

FilledInv ==
    ~Over =>
        /\ positionalIndex <= Len(P.positionals)
        /\ phase = "positional_values" =>
              /\ positionalIndex < Len(P.positionals)
              /\ current = P.positionals[positionalIndex + 1]
        /\ \A i \in DOMAIN P.positionals :
              LET a == P.positionals[i]
              IN  /\ i <= positionalIndex => occurrences[a] > 0
                  /\ P.spec[a].nargs > 1 => Len(given[a]) = WordsTaken(i)

Owed(a) == IF phase = "option_values" /\ current = a THEN left ELSE 0

FewInv ==
    ~Over =>
        \A a \in Optionals :
            P.spec[a].nargs > 1 =>
                Len(given[a]) + Owed(a) <= P.spec[a].nargs * occurrences[a]

-----------------------------------------------------------------------------
LEMMA PositionalsType ==
    ASSUME TypeOK
    PROVE  /\ P.positionals \in Seq(Arg)
           /\ \A i \in DOMAIN P.positionals :
                 /\ P.positionals[i] \in Positionals
                 /\ P.positionals[i] \in Arg
                 /\ P.positionals[i] \notin Optionals
                 /\ P.spec[P.positionals[i]].nargs \in Int
           /\ \A i, j \in DOMAIN P.positionals : P.positionals[i] = P.positionals[j] => i = j
<1>1. P \in ParserSpec /\ \A a \in Arg : P.spec[a] \in ArgumentSpec
  BY InputsType
<1>2. P.positionals \in Seq(Arg)
  BY <1>1 DEF ParserSpec
<1>3. \A i, j \in DOMAIN P.positionals : P.positionals[i] = P.positionals[j] => i = j
  BY ParsersAssumption DEF TypeOK, P
<1>4. \A i \in DOMAIN P.positionals : P.positionals[i] \in Positionals
  BY DEF Positionals, PositionalArgs
<1>5. \A i \in DOMAIN P.positionals : P.positionals[i] \in Arg
  BY <1>2
<1>6. \A a \in Arg : P.spec[a].nargs \in Int
  BY <1>1 DEF ArgumentSpec
<1> QED
  BY <1>2, <1>3, <1>4, <1>5, <1>6, AcceptedType

\* A word handed to a, or none, and nothing to the others.
LEMMA OneGiven ==
    ASSUME TypeOK, NEW a \in Arg, NEW w \in Word \cup {NoWord}, Give(a, w)
    PROVE  /\ \A b \in Arg : b # a => given'[b] = given[b]
           /\ given[a] \in Seq(Word) /\ Len(given[a]) \in Nat
           /\ Len(given'[a]) \in {Len(given[a]), Len(given[a]) + 1}
           /\ w # NoWord => Len(given'[a]) = Len(given[a]) + 1
<1>1. given \in [Arg -> Seq(Word)] /\ given[a] \in Seq(Word) /\ Len(given[a]) \in Nat
  BY DEF TypeOK
<1>2. CASE w = NoWord
  BY <1>1, <1>2 DEF Give
<1>3. CASE w # NoWord
  <2>1. given' = [given EXCEPT ![a] = Append(given[a], w)] /\ w \in Word
    BY <1>3 DEF Give
  <2>2. Len(Append(given[a], w)) = Len(given[a]) + 1
    BY <1>1, <2>1
  <2> QED
    BY <1>1, <2>1, <2>2
<1> QED
  BY <1>1, <1>2, <1>3

(***************************************************************************)
(* The steps by the words they take.                                       *)
(***************************************************************************)
OptionTaken(a) ==
    /\ UNCHANGED <<parser, positionalIndex>>
    /\ phase = "stage"
    /\ occurrences' = [occurrences EXCEPT ![a] = occurrences[a] + 1]
    /\ \A b \in Arg : b # a => given'[b] = given[b]
    /\ Len(given'[a]) \in {Len(given[a]), Len(given[a]) + 1}
    /\ IF P.spec[a].nargs > 1
       THEN phase' = "option_values" /\ current' = a /\ left' = P.spec[a].nargs - 1
       ELSE phase' \in {"stage", "rest"}

LEMMA OptionTakes ==
    ASSUME Inv, Option \/ OptionWithValues \/ OptionWithRest
    PROVE  \E a \in Optionals : OptionTaken(a)
<1>1. PICK a \in Arg :
        /\ ApplyOption(a)
        /\ \/ P.spec[a].nargs <= 1 /\ phase' = "stage"
           \/ P.spec[a].nargs = REMAINDER /\ phase' = "rest"
           \/ /\ P.spec[a].nargs > 1
              /\ phase' = "option_values" /\ current' = a /\ left' = P.spec[a].nargs - 1
  BY DEF Option, OptionWithValues, OptionWithRest, LeaveOption, TakesRest
<1>2. TypeOK /\ AtOption /\ UNCHANGED <<inputs, positionalIndex>>
  BY <1>1, ApplyOptionStep DEF Inv
<1>3. OptionValue(P.spec[a]) \in Word \cup {NoWord} /\ P.spec[a].nargs \in Int
  BY <1>2, OptionValueType, InputsType DEF ArgumentSpec
<1>4. /\ \A b \in Arg : b # a => given'[b] = given[b]
      /\ Len(given'[a]) \in {Len(given[a]), Len(given[a]) + 1}
  BY <1>1, <1>2, <1>3, OneGiven DEF ApplyOption
<1>5. a \in Optionals
  BY <1>1, <1>2, OptionAccepted
<1>6. phase = "stage" /\ parser' = parser
  BY <1>2 DEF AtOption, AtToken, inputs
<1>7. occurrences' = [occurrences EXCEPT ![a] = occurrences[a] + 1]
  BY <1>1 DEF ApplyOption
<1>8. IF P.spec[a].nargs > 1
      THEN phase' = "option_values" /\ current' = a /\ left' = P.spec[a].nargs - 1
      ELSE phase' \in {"stage", "rest"}
  BY <1>1, <1>3 DEF REMAINDER
<1> QED
  BY <1>2, <1>4, <1>5, <1>6, <1>7, <1>8 DEF OptionTaken

OptionValueTaken ==
    /\ UNCHANGED <<parser, positionalIndex, occurrences, current>>
    /\ phase = "option_values" /\ current \in Optionals /\ left >= 1
    /\ \A b \in Arg : b # current => given'[b] = given[b]
    /\ Len(given'[current]) \in {Len(given[current]), Len(given[current]) + 1}
    /\ left' = left - 1
    /\ phase' = IF left = 1 THEN "stage" ELSE phase

LEMMA OptionValueTakes ==
    ASSUME Inv, LoopInv, NextOptionValue
    PROVE  OptionValueTaken
<1>1. /\ TypeOK /\ phase = "option_values"
      /\ current \in Arg /\ current \in Optionals /\ left >= 1 /\ next >= 1
      /\ next \in Nat
  BY DEF Inv, TypeOK, WordsInv, LoopInv, NextOptionValue
<1>2. WordAt(next) \in Word \cup {NoWord}
  BY <1>1, WordAtType
<1>3. /\ \A b \in Arg : b # current => given'[b] = given[b]
      /\ Len(given'[current]) \in {Len(given[current]), Len(given[current]) + 1}
  BY <1>1, <1>2, OneGiven DEF NextOptionValue
<1>4. /\ UNCHANGED <<parser, positionalIndex, occurrences, current>>
      /\ left' = left - 1
      /\ phase' = IF left = 1 THEN "stage" ELSE phase
  BY DEF NextOptionValue, LeaveOption, inputs
<1> QED
  BY <1>1, <1>3, <1>4 DEF OptionValueTaken

PositionalValueTaken ==
    /\ UNCHANGED <<parser, occurrences, current>>
    /\ phase = "positional_values" /\ current \in Positionals /\ left >= 1
    /\ \A b \in Arg : b # current => given'[b] = given[b]
    /\ Len(given'[current]) = Len(given[current]) + 1
    /\ left' = left - 1
    /\ IF left = 1 THEN phase' = "stage" /\ positionalIndex' = positionalIndex + 1
                   ELSE UNCHANGED <<phase, positionalIndex>>

LEMMA PositionalValueTakes ==
    ASSUME Inv, LoopInv, NextPositionalValue
    PROVE  PositionalValueTaken
<1>1. /\ TypeOK /\ phase = "positional_values"
      /\ current \in Arg /\ current \in Positionals /\ left >= 1
      /\ next \in 1..N
  BY InputsType
  DEF Inv, TypeOK, WordsInv, PositionalInv, LoopInv, NextPositionalValue
<1>2. line[next] \in Word /\ line[next] # NoWord
  BY <1>1, InputsType, AtomsAssumption
<1>3. /\ \A b \in Arg : b # current => given'[b] = given[b]
      /\ Len(given'[current]) = Len(given[current]) + 1
  BY <1>1, <1>2, OneGiven DEF NextPositionalValue
<1>4. /\ UNCHANGED <<parser, occurrences, current>>
      /\ left' = left - 1
      /\ IF left = 1 THEN phase' = "stage" /\ positionalIndex' = positionalIndex + 1
                     ELSE UNCHANGED <<phase, positionalIndex>>
  BY DEF NextPositionalValue, inputs
<1> QED
  BY <1>1, <1>3, <1>4 DEF PositionalValueTaken

RestTaken ==
    /\ UNCHANGED <<parser, positionalIndex, occurrences>>
    /\ phase = "rest" /\ phase' \in {"rest", "stage", "required_positionals"}
    /\ P.spec[current].nargs = REMAINDER
    /\ \A b \in Arg : b # current => given'[b] = given[b]

LEMMA RestTakes ==
    ASSUME Inv, LoopInv, RestWord
    PROVE  RestTaken
<1> DEFINE w == IF next <= N /\ Tok(next).kind = "STOP" THEN NoWord ELSE WordAt(next)
<1>1. /\ TypeOK /\ phase = "rest" /\ current \in Arg /\ next >= 1 /\ next \in Nat
      /\ P.spec[current].nargs = REMAINDER
  BY DEF Inv, TypeOK, WordsInv, LoopInv, RestWord
<1>2. w \in Word \cup {NoWord}
  BY <1>1, WordAtType
<1>3. Give(current, w)
  BY DEF RestWord
<1>4. \A b \in Arg : b # current => given'[b] = given[b]
  BY <1>1, <1>2, <1>3, OneGiven
<1>5. /\ UNCHANGED <<parser, positionalIndex, occurrences>>
      /\ phase' \in {"rest", "stage", "required_positionals"}
  BY DEF RestWord, LeaveOption, inputs
<1> QED
  BY <1>1, <1>4, <1>5 DEF RestTaken

PositionalTaken(a) ==
    /\ parser' = parser
    /\ phase = "stage"
    /\ positionalIndex < Len(P.positionals) /\ a = P.positionals[positionalIndex + 1]
    /\ occurrences' = [occurrences EXCEPT ![a] = occurrences[a] + 1]
    /\ \A b \in Arg : b # a => given'[b] = given[b]
    /\ \/ /\ P.spec[a].nargs > 1
          /\ phase' = "positional_values" /\ current' = a /\ left' = P.spec[a].nargs
          /\ UNCHANGED <<positionalIndex, given>>
       \/ /\ P.spec[a].nargs <= 1
          /\ phase' \in {"stage", "rest"}
          /\ positionalIndex' \in {positionalIndex, positionalIndex + 1}

LEMMA PositionalTakes ==
    ASSUME Inv, \/ PositionalRest \/ PositionalValues
                \/ PositionalOneOfMany \/ PositionalSingle
    PROVE  \E a \in Positionals : PositionalTaken(a)
<1>1. PICK a \in Arg :
        /\ AcceptPositional(a)
        /\ \/ /\ P.spec[a].nargs > 1
              /\ phase' = "positional_values" /\ current' = a
              /\ left' = P.spec[a].nargs
              /\ UNCHANGED <<positionalIndex, given>>
           \/ /\ \/ P.spec[a].nargs \in {REMAINDER, ZERO_OR_MORE, ONE_OR_MORE}
                 \/ ~Multiple(P.spec[a])
              /\ phase' \in {phase, "rest"}
              /\ positionalIndex' \in {positionalIndex, positionalIndex + 1}
              /\ Give(a, line[pos]) \/ given' = given
  BY DEF PositionalRest, PositionalValues, PositionalOneOfMany, PositionalSingle,
         BeginWords
<1>2. /\ TypeOK /\ phase = "stage" /\ line[pos] \in Word /\ parser' = parser
      /\ P.spec[a].nargs \in Int /\ a \in Positionals
  BY <1>1, AcceptPositionalStep, PositionalAccepted DEF inputs, ArgumentSpec
<1>3. /\ positionalIndex < Len(P.positionals) /\ a = P.positionals[positionalIndex + 1]
      /\ occurrences' = [occurrences EXCEPT ![a] = occurrences[a] + 1]
  BY <1>1 DEF AcceptPositional, AtPositionalOf
<1>4. CASE P.spec[a].nargs > 1
  <2>1. /\ phase' = "positional_values" /\ current' = a /\ left' = P.spec[a].nargs
        /\ UNCHANGED <<positionalIndex, given>>
    BY <1>1, <1>2, <1>4 DEF REMAINDER, ZERO_OR_MORE, ONE_OR_MORE, Multiple
  <2> QED
    BY <1>2, <1>3, <1>4, <2>1 DEF PositionalTaken
<1>5. CASE P.spec[a].nargs <= 1
  <2>1. Give(a, line[pos]) \/ given' = given
    BY <1>1
  <2>2. \A b \in Arg : b # a => given'[b] = given[b]
    BY <1>2, <2>1, OneGiven
  <2> QED
    BY <1>1, <1>2, <1>3, <1>5, <2>2 DEF PositionalTaken
<1> QED
  BY <1>2, <1>4, <1>5

NothingTaken ==
    /\ UNCHANGED <<parser, positionalIndex, occurrences, given>>
    /\ \/ UNCHANGED <<phase, current, left>>
       \/ /\ phase \notin {"option_values", "positional_values", "done", "crashed"}
          /\ phase' \notin {"option_values", "positional_values"}

LEMMA TakingSteps ==
    ASSUME Inv, LoopInv, [Next]_vars
    PROVE  \/ Over'
           \/ NothingTaken \/ RestTaken \/ OptionValueTaken \/ PositionalValueTaken
           \/ \E a \in Optionals : OptionTaken(a)
           \/ \E a \in Positionals : PositionalTaken(a)
<1> USE DEF Over
<1>1. CASE AnalyzeRejects \/ UnknownOption \/ ConflictingOption \/ TooManyArguments
  BY <1>1 DEF AnalyzeRejects, UnknownOption, ConflictingOption, TooManyArguments, Fail
<1>2. CASE RejectedOption \/ RejectedValue \/ RejectedPositional
  BY <1>2 DEF RejectedOption, RejectedValue, RejectedPositional, Fail
<1>3. CASE InformationOption \/ Crash
  BY <1>3 DEF InformationOption, Crash
<1>4. CASE AnalyzeAccepts \/ EndOfLine \/ StopToken
  BY <1>4 DEF AnalyzeAccepts, EndOfLine, StopToken, AtToken, inputs, stageVars, history,
              NothingTaken
<1>5. CASE EnterSubcommand \/ \E r \in SubReturns : SubcommandReturns(r)
  BY <1>5 DEF EnterSubcommand, AtPositional, AtToken, SubcommandReturns, inputs,
              stageVars, history, NothingTaken
<1>6. CASE \/ CheckRequiredPositionals \/ CheckRequiredOptions \/ CheckPositionalNargs
           \/ CheckRequiredGroups \/ CheckDependencies
  BY <1>6 DEF CheckRequiredPositionals, CheckRequiredOptions, CheckPositionalNargs,
              CheckRequiredGroups, CheckDependencies, Pass, Fail, inputs, stageVars,
              history, NothingTaken
<1>7. CASE ApplyDefaults
  BY <1>7 DEF ApplyDefaults, Fail
<1>8. CASE UNCHANGED vars
  BY <1>8 DEF vars, inputs, stageVars, loopVars, history, NothingTaken
<1> QED
  BY <1>1, <1>2, <1>3, <1>4, <1>5, <1>6, <1>7, <1>8, OptionTakes, OptionValueTakes,
     PositionalValueTakes, RestTakes, PositionalTakes
  DEF Next, Returned

-----------------------------------------------------------------------------
(***************************************************************************)
(* A step that takes no words of a positional of N leaves them filled.     *)
(***************************************************************************)
LEMMA FilledKept ==
    ASSUME TypeOK, FilledInv, ~Over, parser' = parser,
           phase # "positional_values", phase' # "positional_values",
           positionalIndex' = positionalIndex,
           \A a \in Positionals : occurrences[a] > 0 => occurrences'[a] > 0,
           \A a \in Positionals : P.spec[a].nargs > 1 => given'[a] = given[a]
    PROVE  FilledInv'
<1>1. P' = P
  BY DEF P
<1>2. /\ positionalIndex <= Len(P.positionals)
      /\ \A i \in DOMAIN P.positionals :
            LET a == P.positionals[i]
            IN  /\ i <= positionalIndex => occurrences[a] > 0
                /\ P.spec[a].nargs > 1 => Len(given[a]) = WordsTaken(i)
  BY DEF FilledInv
<1>3. \A i \in DOMAIN P.positionals : WordsTaken(i)' = WordsTaken(i)
  BY <1>1 DEF WordsTaken
<1>4. \A i \in DOMAIN P.positionals : P.positionals[i] \in Positionals
  BY PositionalsType
<1> QED
  BY <1>1, <1>2, <1>3, <1>4 DEF FilledInv

LEMMA PositionalValueFills ==
    ASSUME Inv, AcceptInv, FilledInv, PositionalValueTaken
    PROVE  FilledInv'
<1> DEFINE pl == P.positionals
           k == positionalIndex + 1
<1>1. /\ TypeOK /\ positionalIndex \in Nat /\ left \in Nat /\ left >= 1 /\ ~Over
      /\ phase = "positional_values"
      /\ UNCHANGED <<parser, occurrences, current>> /\ left' = left - 1
  BY DEF Inv, TypeOK, PositionalValueTaken, Over
<1>2. P' = P
  BY <1>1 DEF P
<1>3. /\ positionalIndex < Len(pl)
      /\ current = pl[k]
      /\ \A i \in DOMAIN pl :
            /\ i <= positionalIndex => occurrences[pl[i]] > 0
            /\ P.spec[pl[i]].nargs > 1 => Len(given[pl[i]]) = WordsTaken(i)
  BY <1>1 DEF FilledInv
<1>4. occurrences[current] > 0
  BY <1>1 DEF AcceptInv, TakingWords
<1>5. /\ pl \in Seq(Arg) /\ k \in DOMAIN pl /\ DOMAIN pl \subseteq Nat
      /\ \A i, j \in DOMAIN pl : pl[i] = pl[j] => i = j
      /\ \A i \in DOMAIN pl : pl[i] \in Arg /\ P.spec[pl[i]].nargs \in Int
  BY <1>1, <1>3, PositionalsType
<1>6. \/ left = 1 /\ phase' = "stage" /\ positionalIndex' = k
      \/ left > 1 /\ phase' = phase /\ positionalIndex' = positionalIndex
  BY <1>1 DEF PositionalValueTaken
<1>7. ASSUME NEW i \in DOMAIN pl
      PROVE  /\ i <= positionalIndex' => occurrences[pl[i]] > 0
             /\ P.spec[pl[i]].nargs > 1 => Len(given'[pl[i]]) = WordsTaken(i)'
  <2>1. i \in Nat /\ P.spec[pl[i]].nargs \in Int
    BY <1>5
  <2>2. i <= positionalIndex' => i <= positionalIndex \/ i = k
    BY <1>1, <1>6, <2>1
  <2>3. CASE i = k
    <3>1. WordsTaken(i) = P.spec[pl[i]].nargs - left
      BY <1>1, <2>3 DEF WordsTaken
    <3>2. Len(given'[pl[i]]) = Len(given[pl[i]]) + 1
      BY <1>3, <2>3 DEF PositionalValueTaken
    <3>3. WordsTaken(i)' = P.spec[pl[i]].nargs - left + 1
      BY <1>1, <1>2, <1>6, <2>1, <2>3 DEF WordsTaken
    <3> QED
      BY <1>1, <1>3, <1>4, <2>1, <2>3, <3>1, <3>2, <3>3
  <2>4. CASE i # k
    <3>1. given'[pl[i]] = given[pl[i]]
      BY <1>3, <1>5, <2>4 DEF PositionalValueTaken
    <3>2. WordsTaken(i)' = WordsTaken(i)
      BY <1>1, <1>2, <1>6, <2>1, <2>4 DEF WordsTaken
    <3> QED
      BY <1>3, <2>2, <2>4, <3>1, <3>2
  <2> QED
    BY <2>3, <2>4
<1>8. positionalIndex' <= Len(pl)
  BY <1>1, <1>3, <1>5, <1>6
<1>9. phase' = "positional_values" =>
          positionalIndex' < Len(pl) /\ current' = pl[positionalIndex' + 1]
  BY <1>1, <1>3, <1>6
<1> QED
  BY <1>1, <1>2, <1>7, <1>8, <1>9 DEF FilledInv

LEMMA PositionalFills ==
    ASSUME Inv, FilledInv, NEW a \in Positionals, PositionalTaken(a)
    PROVE  FilledInv'
<1> DEFINE pl == P.positionals
           k == positionalIndex + 1
<1>1. /\ TypeOK /\ positionalIndex \in Nat /\ ~Over /\ phase = "stage"
      /\ parser' = parser /\ positionalIndex < Len(pl) /\ a = pl[k]
      /\ positionalIndex' \in {positionalIndex, k}
  BY DEF Inv, TypeOK, PositionalTaken, Over
<1>2. P' = P
  BY <1>1 DEF P
<1>3. \A i \in DOMAIN pl :
            /\ i <= positionalIndex => occurrences[pl[i]] > 0
            /\ P.spec[pl[i]].nargs > 1 => Len(given[pl[i]]) = WordsTaken(i)
  BY <1>1 DEF FilledInv
<1>4. /\ pl \in Seq(Arg) /\ k \in DOMAIN pl /\ DOMAIN pl \subseteq Nat
      /\ \A i, j \in DOMAIN pl : pl[i] = pl[j] => i = j
      /\ \A i \in DOMAIN pl : pl[i] \in Arg /\ P.spec[pl[i]].nargs \in Int
  BY <1>1, PositionalsType
<1>5. /\ occurrences \in [Arg -> Nat]
      /\ occurrences' = [occurrences EXCEPT ![a] = occurrences[a] + 1]
      /\ \A b \in Arg : b # a => given'[b] = given[b]
  BY <1>1 DEF TypeOK, PositionalTaken
<1>6. \/ /\ P.spec[a].nargs > 1
         /\ phase' = "positional_values" /\ current' = a /\ left' = P.spec[a].nargs
         /\ positionalIndex' = positionalIndex /\ given' = given
      \/ P.spec[a].nargs <= 1 /\ phase' # "positional_values"
  BY DEF PositionalTaken
<1>7. ASSUME NEW i \in DOMAIN pl
      PROVE  /\ i <= positionalIndex' => occurrences'[pl[i]] > 0
             /\ P.spec[pl[i]].nargs > 1 => Len(given'[pl[i]]) = WordsTaken(i)'
  <2>1. i \in Nat /\ P.spec[pl[i]].nargs \in Int /\ pl[i] \in Arg
    BY <1>4
  <2>2. CASE i = k
    <3>1. occurrences'[pl[i]] > 0
      BY <1>1, <1>5, <2>1, <2>2
    <3>2. ASSUME P.spec[pl[i]].nargs > 1 PROVE Len(given'[pl[i]]) = WordsTaken(i)'
      <4>1. WordsTaken(i) = 0
        BY <1>1, <2>2 DEF WordsTaken
      <4>2. /\ phase' = "positional_values" /\ left' = P.spec[a].nargs
            /\ positionalIndex' = positionalIndex /\ given' = given
        BY <1>1, <1>6, <2>1, <2>2, <3>2
      <4>3. WordsTaken(i)' = 0
        BY <1>1, <1>2, <2>1, <2>2, <4>2 DEF WordsTaken
      <4> QED
        BY <1>3, <3>2, <4>1, <4>2, <4>3
    <3> QED
      BY <3>1, <3>2
  <2>3. CASE i # k
    <3>1. pl[i] # a
      BY <1>1, <1>4, <2>3
    <3>2. given'[pl[i]] = given[pl[i]] /\ occurrences'[pl[i]] = occurrences[pl[i]]
      BY <1>5, <2>1, <3>1
    <3>3. WordsTaken(i)' = WordsTaken(i)
      BY <1>1, <1>2, <1>6, <2>1, <2>3 DEF WordsTaken
    <3>4. i <= positionalIndex' => i <= positionalIndex
      BY <1>1, <2>1, <2>3
    <3> QED
      BY <1>3, <3>2, <3>3, <3>4
  <2> QED
    BY <2>2, <2>3
<1>8. positionalIndex' <= Len(pl)
  BY <1>1, <1>4
<1>9. phase' = "positional_values" =>
          positionalIndex' < Len(pl) /\ current' = pl[positionalIndex' + 1]
  BY <1>1, <1>6
<1> QED
  BY <1>1, <1>2, <1>7, <1>8, <1>9 DEF FilledInv

LEMMA FilledNext ==
    Inv /\ LoopInv /\ AcceptInv /\ FilledInv /\ [Next]_vars => FilledInv'
<1> SUFFICES ASSUME Inv, LoopInv, AcceptInv, FilledInv, [Next]_vars, ~Over'
             PROVE  FilledInv'
  BY DEF FilledInv
<1>1. /\ TypeOK /\ occurrences \in [Arg -> Nat] /\ positionalIndex \in Nat
      /\ left \in Nat /\ given \in [Arg -> Seq(Word)]
      /\ Positionals \subseteq Arg /\ Optionals \subseteq Arg
      /\ \A a \in Positionals : a \notin Optionals
      /\ \A a \in Arg : P.spec[a].nargs \in Int
  BY AcceptedType, InputsType DEF Inv, TypeOK, Accepted, ArgumentSpec
<1>2. CASE NothingTaken
  <2>1. ~Over /\ UNCHANGED <<parser, positionalIndex, occurrences, given>>
    BY <1>2 DEF NothingTaken, Over
  <2>2. CASE UNCHANGED <<phase, current, left>>
    <3>1. P' = P
      BY <2>1 DEF P
    <3>2. \A i \in DOMAIN P.positionals : WordsTaken(i)' = WordsTaken(i)
      BY <2>1, <2>2, <3>1 DEF WordsTaken
    <3> QED
      BY <2>1, <2>2, <3>1, <3>2 DEF FilledInv
  <2>3. CASE phase # "positional_values" /\ phase' # "positional_values"
    BY <1>1, <2>1, <2>3, FilledKept
  <2> QED
    BY <1>2, <2>2, <2>3 DEF NothingTaken
<1>3. CASE RestTaken
  BY <1>1, <1>3, FilledKept DEF RestTaken, Over, REMAINDER
<1>4. CASE OptionValueTaken
  BY <1>1, <1>4, FilledKept DEF OptionValueTaken, Over
<1>5. CASE \E a \in Optionals : OptionTaken(a)
  <2>1. PICK a \in Optionals : OptionTaken(a)
    BY <1>5
  <2>2. /\ \A b \in Positionals : occurrences'[b] = occurrences[b] /\ given'[b] = given[b]
        /\ phase = "stage" /\ phase' # "positional_values"
        /\ UNCHANGED <<parser, positionalIndex>>
    BY <1>1, <2>1 DEF OptionTaken
  <2> QED
    BY <1>1, <2>2, FilledKept DEF Over
<1>6. CASE PositionalValueTaken
  BY <1>1, <1>6, PositionalValueFills
<1>7. CASE \E a \in Positionals : PositionalTaken(a)
  BY <1>1, <1>7, PositionalFills
<1> QED
  BY <1>2, <1>3, <1>4, <1>5, <1>6, <1>7, TakingSteps

-----------------------------------------------------------------------------
(***************************************************************************)
(* The words of the options of N words.                                    *)
(***************************************************************************)
LEMMA OnceMore ==
    ASSUME NEW k \in Int, NEW n \in Nat
    PROVE  k * (n + 1) = k * n + k /\ k * n \in Int
  OBVIOUS

LEMMA FewKept ==
    ASSUME TypeOK, FewInv, ~Over, parser' = parser,
           phase # "option_values", phase' # "option_values",
           \A a \in Optionals : P.spec[a].nargs > 1 =>
               given'[a] = given[a] /\ occurrences'[a] = occurrences[a]
    PROVE  FewInv'
<1>1. P' = P /\ Optionals' = Optionals
  BY DEF P, Optionals
<1>2. \A a \in Optionals : Owed(a) = 0 /\ Owed(a)' = 0
  BY DEF Owed
<1> QED
  BY <1>1, <1>2 DEF FewInv

LEMMA FewNext ==
    Inv /\ LoopInv /\ FewInv /\ [Next]_vars => FewInv'
<1> SUFFICES ASSUME Inv, LoopInv, FewInv, [Next]_vars, ~Over'
             PROVE  FewInv'
  BY DEF FewInv
<1>1. /\ TypeOK /\ occurrences \in [Arg -> Nat]
      /\ left \in Nat /\ given \in [Arg -> Seq(Word)]
      /\ Positionals \subseteq Arg /\ Optionals \subseteq Arg
      /\ \A a \in Positionals : a \notin Optionals
      /\ \A a \in Arg : /\ P.spec[a].nargs \in Int
                        /\ Len(given[a]) \in Nat
  BY AcceptedType, InputsType DEF Inv, TypeOK, Accepted, ArgumentSpec
<1>2. CASE NothingTaken
  <2>1. ~Over /\ UNCHANGED <<parser, occurrences, given>>
    BY <1>2 DEF NothingTaken, Over
  <2>2. CASE UNCHANGED <<phase, current, left>>
    <3>1. P' = P /\ Optionals' = Optionals
      BY <2>1 DEF P, Optionals
    <3>2. \A a \in Optionals : Owed(a)' = Owed(a)
      BY <2>2 DEF Owed
    <3> QED
      BY <2>1, <3>1, <3>2 DEF FewInv
  <2>3. CASE phase # "option_values" /\ phase' # "option_values"
    BY <1>1, <2>1, <2>3, FewKept
  <2> QED
    BY <1>2, <2>2, <2>3 DEF NothingTaken
<1>3. CASE RestTaken
  BY <1>1, <1>3, FewKept DEF RestTaken, Over, REMAINDER
<1>4. CASE PositionalValueTaken
  BY <1>1, <1>4, FewKept DEF PositionalValueTaken, Over
<1>5. CASE \E a \in Positionals : PositionalTaken(a)
  <2>1. PICK a \in Positionals : PositionalTaken(a)
    BY <1>5
  <2>2. /\ \A b \in Optionals : occurrences'[b] = occurrences[b] /\ given'[b] = given[b]
        /\ phase = "stage" /\ phase' # "option_values" /\ parser' = parser
    BY <1>1, <2>1 DEF PositionalTaken
  <2> QED
    BY <1>1, <2>2, FewKept DEF Over
<1>6. CASE OptionValueTaken
  <2>1. /\ ~Over /\ P' = P /\ Optionals' = Optionals
        /\ phase = "option_values" /\ current' = current /\ occurrences' = occurrences
        /\ left >= 1 /\ left' = left - 1
        /\ phase' = IF left = 1 THEN "stage" ELSE phase
    BY <1>6 DEF OptionValueTaken, Over, P, Optionals
  <2>2. ASSUME NEW a \in Optionals, P.spec[a].nargs > 1
        PROVE  Len(given'[a]) + Owed(a)' <= P.spec[a].nargs * occurrences[a]
    <3>1. Len(given[a]) + Owed(a) <= P.spec[a].nargs * occurrences[a]
      BY <2>1, <2>2 DEF FewInv
    <3>2. P.spec[a].nargs * occurrences[a] \in Int /\ Len(given[a]) \in Nat
      BY <1>1, OnceMore
    <3>3. CASE a = current
      <4>1. Owed(a) = left
        BY <2>1, <3>3 DEF Owed
      <4>2. Owed(a)' = left - 1
        BY <1>1, <2>1, <3>3 DEF Owed
      <4>3. Len(given'[a]) \in {Len(given[a]), Len(given[a]) + 1}
        BY <1>6, <3>3 DEF OptionValueTaken
      <4> QED
        BY <1>1, <3>1, <3>2, <4>1, <4>2, <4>3
    <3>4. CASE a # current
      <4>1. Owed(a) = 0 /\ Owed(a)' = 0
        BY <2>1, <3>4 DEF Owed
      <4>2. given'[a] = given[a]
        BY <1>1, <1>6, <3>4 DEF OptionValueTaken
      <4> QED
        BY <3>1, <4>1, <4>2
    <3> QED
      BY <3>3, <3>4
  <2> QED
    BY <2>1, <2>2 DEF FewInv
<1>7. CASE \E a \in Optionals : OptionTaken(a)
  <2>1. PICK a \in Optionals : OptionTaken(a)
    BY <1>7
  <2>2. /\ ~Over /\ P' = P /\ Optionals' = Optionals
        /\ phase = "stage" /\ phase' # "done"
        /\ occurrences' = [occurrences EXCEPT ![a] = occurrences[a] + 1]
    BY <2>1 DEF OptionTaken, Over, P, Optionals
  <2>3. ASSUME NEW b \in Optionals, P.spec[b].nargs > 1
        PROVE  Len(given'[b]) + Owed(b)' <= P.spec[b].nargs * occurrences'[b]
    <3>1. Len(given[b]) + 0 <= P.spec[b].nargs * occurrences[b]
      BY <2>2, <2>3 DEF FewInv, Owed
    <3>2. /\ P.spec[b].nargs * occurrences[b] \in Int /\ Len(given[b]) \in Nat
          /\ P.spec[b].nargs * (occurrences[b] + 1)
                = P.spec[b].nargs * occurrences[b] + P.spec[b].nargs
          /\ P.spec[b].nargs \in Int
      BY <1>1, OnceMore
    <3>3. CASE b = a
      <4>1. Owed(b)' = P.spec[b].nargs - 1
        BY <2>1, <2>3, <3>3 DEF OptionTaken, Owed
      <4>2. Len(given'[b]) \in {Len(given[b]), Len(given[b]) + 1}
        BY <2>1, <3>3 DEF OptionTaken
      <4>3. occurrences'[b] = occurrences[b] + 1
        BY <1>1, <2>2, <3>3
      <4> QED
        BY <3>1, <3>2, <4>1, <4>2, <4>3
    <3>4. CASE b # a
      <4>1. Owed(b)' = 0
        BY <2>1, <3>4 DEF OptionTaken, Owed
      <4>2. given'[b] = given[b] /\ occurrences'[b] = occurrences[b]
        BY <1>1, <2>1, <2>2, <3>4 DEF OptionTaken
      <4> QED
        BY <3>1, <4>1, <4>2
    <3> QED
      BY <3>3, <3>4
  <2> QED
    BY <2>2, <2>3 DEF FewInv
<1> QED
  BY <1>2, <1>3, <1>4, <1>5, <1>6, <1>7, TakingSteps

-----------------------------------------------------------------------------
(***************************************************************************)
(* What each code says of the line.                                        *)
(***************************************************************************)
MissingTrue ==
    OwnLine =>
        \/ \E g \in P.requiredGroups : ~groupUsed[g]
        \/ \E a \in Optionals \cup Positionals :
              Required(a) /\ (~Provided(a) \/ ~OwnsKey(a) \/ ~Recognisable(a))

ConflictTrue ==
    \E a \in Optionals :
        /\ occurrences[a] > 0
        /\ P.spec[a].group = P.spec[Lookup(P, OptionToken)].group

TooManyTrue ==
    \/ \E a \in Positionals : TakesN(a) /\ Contested(a)
    \/ \A a \in Positionals : Filled(a)

TooFewTrue ==
    \/ \E a \in Optionals :
          TakesN(a) /\ Len(given[a]) < P.spec[a].nargs * occurrences[a]
    \/ \E a \in Positionals :
          /\ TakesN(a)
          /\ Contested(a) \/ Misaligned \/ Cardinality(Unused) < P.spec[a].nargs

Explained(code) ==
    /\ code = "REQUIRED_MISSING" => MissingTrue
    /\ code = "MUTUALLY_EXCLUSIVE" => ConflictTrue
    /\ code = "TOO_MANY_ARGS" => TooManyTrue
    /\ code = "TOO_FEW_ARGS" => TooFewTrue

ExplainedCodes == {"REQUIRED_MISSING", "MUTUALLY_EXCLUSIVE", "TOO_MANY_ARGS", "TOO_FEW_ARGS"}

(***************************************************************************)
(* A failing step changes nothing but the outcome, so that what was true   *)
(* when it failed is true of the state it leaves.                          *)
(***************************************************************************)
LEMMA SameTruth ==
    ASSUME UNCHANGED <<inputs, stageVars, bundleVars, store, history>>
    PROVE  /\ MissingTrue' <=> MissingTrue
           /\ ConflictTrue' <=> ConflictTrue
           /\ TooManyTrue' <=> TooManyTrue
           /\ TooFewTrue' <=> TooFewTrue
<1>1. /\ UNCHANGED <<parser, line, pos, bundleAt, groupUsed, claims, occurrences, given>>
      /\ P' = P /\ N' = N
  BY DEF inputs, stageVars, bundleVars, store, history, P, N
<1>2. /\ Optionals' = Optionals /\ Positionals' = Positionals
      /\ OwnLine' <=> OwnLine
      /\ \A a : TakesN(a)' <=> TakesN(a)
      /\ \A a : OwnsKey(a)' <=> OwnsKey(a)
      /\ \A a : Provided(a)' <=> Provided(a)
      /\ \A a : Filled(a)' <=> Filled(a)
  BY <1>1 DEF Optionals, Positionals, OwnLine, TakesN, OwnsKey, Provided, Filled
<1>3. /\ \A a : Required(a)' <=> Required(a)
      /\ \A a : Recognisable(a)' <=> Recognisable(a)
      /\ \A a : Contested(a)' <=> Contested(a)
  BY <1>1, <1>2 DEF Required, Recognisable, Contested
<1>4. OptionToken' = OptionToken
  BY <1>1 DEF OptionToken, InBundle, Tok
<1>5. (Misaligned' <=> Misaligned) /\ Unused' = Unused
  BY <1>1, SameAlignment DEF Unused, inputs
<1> QED
  BY <1>1, <1>2, <1>3, <1>4, <1>5 DEF MissingTrue, ConflictTrue, TooManyTrue, TooFewTrue

LEMMA FailExplained ==
    ASSUME NEW code, Fail(code), Explained(code)
    PROVE  ErrorsExplained'
<1>1. /\ UNCHANGED <<inputs, stageVars, bundleVars, store, history>>
      /\ error' = code
  BY DEF Fail
<1>2. /\ error' = "REQUIRED_MISSING" => MissingTrue'
      /\ error' = "MUTUALLY_EXCLUSIVE" => ConflictTrue'
      /\ error' = "TOO_MANY_ARGS" => TooManyTrue'
      /\ error' = "TOO_FEW_ARGS" => TooFewTrue'
  BY <1>1, SameTruth DEF Explained
<1>3. MissingIsMissing'
  BY <1>2 DEF MissingTrue, MissingIsMissing
<1>4. ConflictExplained'
  BY <1>2 DEF ConflictTrue, ConflictExplained
<1>5. TooManyExplained'
  BY <1>2 DEF TooManyTrue, TooManyExplained
<1>6. TooFewExplained'
  BY <1>2 DEF TooFewTrue, TooFewExplained
<1> QED
  BY <1>3, <1>4, <1>5, <1>6 DEF ErrorsExplained

LEMMA ActionCodes ==
    ASSUME NEW arg, NEW w
    PROVE  ActionError(arg, w) \notin ExplainedCodes
  BY DEF ActionError, ExplainedCodes

LEMMA OtherCode ==
    ASSUME NEW code, code \notin ExplainedCodes
    PROVE  Explained(code)
  BY DEF Explained, ExplainedCodes

(***************************************************************************)
(* The errors of the parse stage.                                          *)
(***************************************************************************)
FailsExplained == \E code : Fail(code) /\ Explained(code)

LEMMA ConflictFails ==
    ASSUME Inv, GroupInv, ConflictingOption
    PROVE  FailsExplained
<1>1. PICK a \in Arg : /\ Lookup(P, OptionToken) = a
                       /\ Conflicting(P.spec[a])
                       /\ Fail("MUTUALLY_EXCLUSIVE")
  BY DEF ConflictingOption, FoundOption
<1>2. /\ P.spec[a].group \in GroupId \cup {NoGroup}
      /\ P.spec[a].group # NoGroup /\ groupUsed[P.spec[a].group]
  BY <1>1, InputsType DEF Inv, ArgumentSpec, Conflicting, InGroup
<1>3. PICK b \in Optionals : P.spec[b].group = P.spec[a].group /\ occurrences[b] > 0
  BY <1>2 DEF GroupInv, UsedWhenFlag
<1>4. ConflictTrue
  BY <1>1, <1>3 DEF ConflictTrue
<1> QED
  BY <1>1, <1>4 DEF FailsExplained, Explained

LEMMA OptionFails ==
    ASSUME AnalyzeRejects \/ UnknownOption \/ RejectedOption
    PROVE  FailsExplained
<1>1. \A arg : OptionError(arg) \notin ExplainedCodes
  BY ActionCodes DEF OptionError, ExplainedCodes
<1>2. \E code : Fail(code) /\ code \notin ExplainedCodes
  BY <1>1 DEF AnalyzeRejects, UnknownOption, RejectedOption, ExplainedCodes
<1> QED
  BY <1>2, OtherCode DEF FailsExplained

LEMMA ValueFails ==
    ASSUME Inv, LoopInv, FewInv, RejectedValue
    PROVE  FailsExplained
<1> DEFINE code == OptionValueError(P.spec[current])
<1>1. /\ Fail(code) /\ phase = "option_values" /\ ~Over
      /\ current \in Arg /\ left \in Nat /\ left >= 1
      /\ current \in Optionals /\ P.spec[current].nargs > 1
      /\ occurrences[current] \in Nat /\ given[current] \in Seq(Word)
      /\ P.spec[current].nargs \in Int
  BY InputsType
  DEF RejectedValue, Inv, TypeOK, WordsInv, LoopInv, Over, ArgumentSpec
<1>2. Len(given[current]) + left <= P.spec[current].nargs * occurrences[current]
  BY <1>1 DEF FewInv, Owed
<1>3. P.spec[current].nargs * occurrences[current] \in Int /\ Len(given[current]) \in Nat
  BY <1>1, OnceMore
<1>4. Len(given[current]) < P.spec[current].nargs * occurrences[current]
  BY <1>1, <1>2, <1>3
<1>5. TooFewTrue
  BY <1>1, <1>4 DEF TooFewTrue, TakesN
<1>6. code = "TOO_FEW_ARGS" \/ code \notin ExplainedCodes
  BY ActionCodes DEF OptionValueError, ExplainedCodes
<1>7. Explained(code)
  <2>1. CASE code = "TOO_FEW_ARGS"
    BY <1>5, <2>1 DEF Explained
  <2>2. CASE code \notin ExplainedCodes
    BY <2>2, OtherCode
  <2> QED
    BY <1>6, <2>1, <2>2
<1> QED
  BY <1>1, <1>7 DEF FailsExplained

LEMMA TooManyFails ==
    ASSUME Inv, FilledInv, TooManyArguments
    PROVE  FailsExplained
<1>1. /\ Fail("TOO_MANY_ARGS") /\ positionalIndex >= Len(P.positionals)
      /\ phase = "stage" /\ ~Over /\ TypeOK /\ positionalIndex \in Nat
  BY DEF TooManyArguments, AtPositional, AtToken, Over, Inv, TypeOK
<1>2. P.positionals \in Seq(Arg)
  BY <1>1, PositionalsType
<1>3. \A i \in DOMAIN P.positionals : Filled(P.positionals[i])
  <2> SUFFICES ASSUME NEW i \in DOMAIN P.positionals PROVE Filled(P.positionals[i])
    OBVIOUS
  <2>1. i <= positionalIndex
    BY <1>1, <1>2
  <2>2. WordsTaken(i) = P.spec[P.positionals[i]].nargs
    BY <2>1 DEF WordsTaken
  <2> QED
    BY <1>1, <2>1, <2>2 DEF FilledInv, Filled
<1>4. TooManyTrue
  BY <1>3 DEF TooManyTrue, Positionals, PositionalArgs
<1> QED
  BY <1>1, <1>4 DEF FailsExplained, Explained

(***************************************************************************)
(* A positional of N words fails with fewer than N words left: as long as  *)
(* no option looks in the wrong place, these are the words not yet used.   *)
(***************************************************************************)
LEMMA PositionalFails ==
    ASSUME Inv, TokensInv, RejectedPositional
    PROVE  FailsExplained
<1>1. PICK a \in Arg : /\ AtPositionalOf(a)
                       /\ Fail(PositionalError(P.spec[a]))
                       /\ PositionalError(P.spec[a]) # "NONE"
  BY DEF RejectedPositional
<1> DEFINE code == PositionalError(P.spec[a])
<1>2. /\ TypeOK /\ N \in Nat /\ P.spec[a].nargs \in Int
      /\ phase = "stage" /\ pos \in 1..N
      /\ positionalIndex \in Nat
      /\ positionalIndex < Len(P.positionals)
      /\ P.positionals[positionalIndex + 1] = a
  BY <1>1, InputsType
  DEF Inv, TypeOK, AtPositionalOf, AtPositional, AtToken, ArgumentSpec
<1>3. bundleAt = 1
  BY <1>1, <1>2 DEF Inv, TypeOK, BundleInv, InBundle, AtPositionalOf, AtPositional
<1>4. a \in Positionals
  <2>1. P.positionals \in Seq(Arg)
    BY <1>2, PositionalsType
  <2>2. positionalIndex + 1 \in DOMAIN P.positionals
    BY <1>2, <2>1
  <2> QED
    BY <1>2, <2>2 DEF Positionals, PositionalArgs
<1>5. CASE code = "TOO_FEW_ARGS"
  <2>1. P.spec[a].nargs > 1 /\ pos - 1 + P.spec[a].nargs > N
    BY <1>5, ActionCodes DEF PositionalError, ExplainedCodes
  <2>2. ASSUME ~Misaligned PROVE Cardinality(Unused) < P.spec[a].nargs
    <3>1. \A j \in 1..N : claims[j] = IF j < pos THEN 1 ELSE 0
      BY <1>2, <1>3, <2>2 DEF TokensInv, Use, StageUse, UsedUpTo
    <3>2. Unused = pos..N
      BY <1>2, <3>1 DEF Unused
    <3>3. Cardinality(Unused) = N - pos + 1
      BY <1>2, <3>2, FS_Interval
    <3> QED
      BY <1>2, <2>1, <3>3
  <2>3. TooFewTrue
    BY <1>4, <2>1, <2>2 DEF TooFewTrue, TakesN
  <2> QED
    BY <1>1, <1>5, <2>3 DEF FailsExplained, Explained
<1>6. CASE code # "TOO_FEW_ARGS"
  <2>1. code \notin ExplainedCodes
    BY <1>6, ActionCodes DEF PositionalError, ExplainedCodes
  <2> QED
    BY <1>1, <2>1, OtherCode DEF FailsExplained
<1> QED
  BY <1>5, <1>6

-----------------------------------------------------------------------------
(***************************************************************************)
(* The errors of the tests.  Of an argument that was provided, owns its    *)
(* key and has a value of a type the test looks for, the key holds it.     *)
(***************************************************************************)
LEMMA ProvidedIsKept ==
    ASSUME TypeOK, KeysMatch, OwnLine, phase \notin {"done", "crashed"}, ~TakingWords,
           NEW a \in Arg, OwnsKey(a), Provided(a)
    PROVE  /\ Kept(a, Entry(a), given[a], occurrences[a])
           /\ Has(ns, P.spec[a].dest)
           /\ occurrences[a] > 0
           /\ StoresValues(a) => given[a] # << >>
<1>1. Kept(a, Entry(a), given[a], occurrences[a])
  BY DEF KeysMatch, KeyMatches
<1>2. Has(ns, P.spec[a].dest)
  BY PresentIfProvided
<1> QED
  BY <1>1, <1>2 DEF Provided, StoresValues

LEMMA ListIsThere ==
    ASSUME NEW a, ListKept(a), Kept(a, Entry(a), given[a], occurrences[a]),
           Has(ns, P.spec[a].dest)
    PROVE  IsArray(ns[P.spec[a].dest])
  BY DEF Kept, Entry, Has, IsArray

LEMMA ConvertedString ==
    ASSUME NEW type, type \notin {"int", "float", "bool"}, NEW w
    PROVE  Converted(type, w).type = "STRING"
  BY DEF Converted, StringValue

LEMMA PositionalIsThere ==
    ASSUME TypeOK, KeysMatch, OwnLine, phase = "required_positionals",
           NEW a \in Positionals, OwnsKey(a), Provided(a), Recognisable(a)
    PROVE  ~PositionalMissing(P.spec[a], ns)
<1>1. a \in Arg /\ a \notin Optionals /\ P.spec[a].nargs \in Int
  BY AcceptedType, InputsType DEF Accepted, ArgumentSpec
<1>2. /\ Kept(a, Entry(a), given[a], occurrences[a])
      /\ Has(ns, P.spec[a].dest)
      /\ StoresValues(a) => given[a] # << >>
  BY <1>1, ProvidedIsKept DEF TakingWords
<1>3. CASE Multiple(P.spec[a])
  <2>1. ListKept(a)
    BY <1>3 DEF ListKept
  <2>2. IsArray(ns[P.spec[a].dest])
    BY <1>2, <2>1, ListIsThere
  <2> QED
    BY <1>3, <2>2 DEF PositionalMissing
<1>4. CASE ~Multiple(P.spec[a])
  <2>1. P.spec[a].action = "STORE" /\ P.spec[a].type \notin {"int", "float", "bool"}
    BY <1>4 DEF Recognisable
  <2>2. CASE P.spec[a].nargs = REMAINDER
    BY <2>2 DEF PositionalMissing
  <2>3. CASE P.spec[a].nargs # REMAINDER
    <3>1. LastKept(a) /\ given[a] # << >>
      BY <1>2, <1>4, <2>1, <2>3 DEF LastKept, StoresValues
    <3>2. Entry(a) = Converted(P.spec[a].type, given[a][Len(given[a])])
      BY <1>2, <3>1 DEF Kept
    <3>3. ns[P.spec[a].dest].type = "STRING"
      BY <2>1, <3>2, ConvertedString DEF Entry
    <3> QED
      BY <1>4, <3>3 DEF PositionalMissing
  <2> QED
    BY <2>2, <2>3
<1> QED
  BY <1>3, <1>4

LEMMA OptionIsThere ==
    ASSUME TypeOK, KeysMatch, OwnLine, phase = "required_options",
           NEW a \in Optionals, OwnsKey(a), Provided(a), Recognisable(a)
    PROVE  ~OptionMissing(P.spec[a], ns)
<1> DEFINE v == ns[P.spec[a].dest]
<1>1. a \in Arg /\ a \notin Positionals /\ P.spec[a].nargs \in Int
  BY AcceptedType, InputsType DEF Accepted, ArgumentSpec
<1>2. /\ Kept(a, Entry(a), given[a], occurrences[a])
      /\ Has(ns, P.spec[a].dest)
      /\ occurrences[a] > 0
      /\ StoresValues(a) => given[a] # << >>
  BY <1>1, ProvidedIsKept DEF TakingWords
<1>3. CASE Multiple(P.spec[a])
  <2>1. ListKept(a)
    BY <1>1, <1>3 DEF ListKept, Recognisable
  <2>2. IsArray(v)
    BY <1>2, <2>1, ListIsThere
  <2> QED
    BY <1>3, <2>2 DEF OptionMissing
<1>4. CASE ~Multiple(P.spec[a])
  <2>1. /\ P.spec[a].nargs # REMAINDER
        /\ \/ P.spec[a].action \in {"STORE_TRUE", "STORE_FALSE", "COUNT"}
           \/ /\ P.spec[a].action \in {"STORE", "STORE_CONST"}
              /\ P.spec[a].type \notin {"int", "float", "bool"}
    BY <1>1, <1>4 DEF Recognisable
  <2>2. CASE P.spec[a].action \in {"STORE_TRUE", "STORE_FALSE"}
    <3>1. v.type = "BOOL"
      BY <1>2, <1>4, <2>1, <2>2 DEF Kept, Settled, SettledType, Entry
    <3> QED
      BY <1>4, <2>2, <3>1 DEF OptionMissing
  <2>3. CASE P.spec[a].action = "COUNT"
    <3>1. Counted(a)
      BY <1>1, <1>4, <2>1, <2>3 DEF Counted, ListKept, Multiple
    <3>2. v.type = "INT" /\ v.num > 0
      BY <1>2, <3>1 DEF Kept, Entry
    <3> QED
      BY <1>4, <2>3, <3>2 DEF OptionMissing
  <2>4. CASE P.spec[a].action \in {"STORE", "STORE_CONST"}
    <3>1. P.spec[a].type \notin {"int", "float", "bool"}
      BY <2>1, <2>4
    <3>2. v.type = "STRING"
      <4>1. CASE P.spec[a].action = "STORE"
        <5>1. LastKept(a) /\ given[a] # << >>
          BY <1>2, <1>4, <2>1, <4>1 DEF LastKept, StoresValues
        <5>2. Entry(a) = Converted(P.spec[a].type, given[a][Len(given[a])])
          BY <1>2, <5>1 DEF Kept
        <5> QED
          BY <3>1, <5>2, ConvertedString DEF Entry
      <4>2. CASE P.spec[a].action = "STORE_CONST"
        <5>1. v.type = Converted(P.spec[a].type, P.spec[a].const).type
          BY <1>2, <1>4, <2>1, <4>2 DEF Kept, Settled, SettledType, Entry
        <5> QED
          BY <3>1, <5>1, ConvertedString
      <4> QED
        BY <2>4, <4>1, <4>2
    <3> QED
      BY <1>4, <2>4, <3>2 DEF OptionMissing
  <2> QED
    BY <2>1, <2>2, <2>3, <2>4
<1> QED
  BY <1>3, <1>4

\* The test that fails has found an argument that is not there.
LEMMA RequiredFails ==
    ASSUME Inv, KeysMatch, NEW code, Fail(code),
           CheckRequiredPositionals \/ CheckRequiredOptions \/ CheckRequiredGroups
    PROVE  MissingTrue
<1> SUFFICES ASSUME OwnLine
             PROVE  \/ \E g \in P.requiredGroups : ~groupUsed[g]
                    \/ \E a \in Optionals \cup Positionals :
                          Required(a) /\ (~Provided(a) \/ ~OwnsKey(a) \/ ~Recognisable(a))
  BY DEF MissingTrue
<1>1. TypeOK /\ \A a \in Positionals : a \notin Optionals
  BY AcceptedType DEF Inv
<1>2. CASE CheckRequiredPositionals
  <2>1. /\ phase = "required_positionals"
        /\ \E i \in DOMAIN P.positionals : PositionalMissing(P.spec[P.positionals[i]], ns)
    BY <1>2 DEF CheckRequiredPositionals, Pass, Fail
  <2>2. PICK a \in Positionals : PositionalMissing(P.spec[a], ns)
    BY <2>1 DEF Positionals, PositionalArgs
  <2>3. Required(a)
    BY <1>1, <2>2 DEF PositionalMissing, Required
  <2> QED
    BY <1>1, <2>1, <2>2, <2>3, PositionalIsThere
<1>3. CASE CheckRequiredOptions
  <2>1. /\ phase = "required_options"
        /\ \E i \in DOMAIN P.optionals : OptionMissing(P.spec[P.optionals[i]], ns)
    BY <1>3 DEF CheckRequiredOptions, Pass, Fail
  <2>2. PICK a \in Optionals : OptionMissing(P.spec[a], ns)
    BY <2>1 DEF Optionals, Registered
  <2>3. Required(a)
    BY <2>2 DEF OptionMissing, Required
  <2> QED
    BY <1>1, <2>1, <2>2, <2>3, OptionIsThere
<1>4. CASE CheckRequiredGroups
  BY <1>4 DEF CheckRequiredGroups, Pass, Fail
<1> QED
  BY <1>2, <1>3, <1>4

(***************************************************************************)
(* check_positional_nargs_constraint counts what the key holds, which of a *)
(* key of its own are the words the positional was given.                  *)
(***************************************************************************)
LEMMA WordsAreThere ==
    ASSUME TypeOK, KeysMatch, TestsInv, OwnLine, phase = "positional_nargs",
           NEW a \in Positionals, OwnsKey(a), Required(a), Multiple(P.spec[a])
    PROVE  LET v == ns[P.spec[a].dest]
           IN  v.type = "ARRAY" /\ v.items = given[a] /\ Len(given[a]) \in Nat \ {0}
<1>1. a \in Arg /\ a \notin Optionals /\ given[a] \in Seq(Word)
  BY AcceptedType DEF Accepted, TypeOK
<1>2. Provided(a)
  BY DEF TestsInv, After, RequiredOf
<1>3. /\ Kept(a, Entry(a), given[a], occurrences[a])
      /\ Has(ns, P.spec[a].dest)
  BY <1>1, <1>2, ProvidedIsKept DEF TakingWords
<1>4. ListKept(a)
  BY DEF ListKept
<1>5. given[a] # << >> /\ Entry(a).type = "ARRAY" /\ Entry(a).items = given[a]
  BY <1>3, <1>4 DEF Kept, Has, Entry
<1>6. Len(given[a]) \in Nat \ {0}
  BY <1>1, <1>5
<1> QED
  BY <1>5, <1>6 DEF Entry

LEMMA NargsFails ==
    ASSUME Inv, KeysMatch, TestsInv, FilledInv, NEW code, Fail(code), CheckPositionalNargs
    PROVE  FailsExplained
<1>1. PICK i \in DOMAIN P.positionals :
         /\ phase = "positional_nargs"
         /\ NargsError(P.spec[P.positionals[i]], ns) # "NONE"
         /\ Fail(NargsError(P.spec[P.positionals[i]], ns))
  <2> HIDE DEF NargsError
  <2> QED
    BY DEF CheckPositionalNargs, Pass, Fail
<1> DEFINE a   == P.positionals[i]
           arg == P.spec[a]
           v   == ns[arg.dest]
<1>2. /\ TypeOK /\ a \in Positionals /\ a \in Arg /\ a \notin Optionals
      /\ arg.nargs \in Int
  BY PositionalsType DEF Inv
<1>3. ASSUME OwnLine, OwnsKey(a), Multiple(arg), Required(a)
      PROVE  v.type = "ARRAY" /\ v.items = given[a] /\ Len(given[a]) \in Nat \ {0}
  BY <1>1, <1>2, <1>3, WordsAreThere
<1>4. CASE arg.nargs = ONE_OR_MORE
  <2>1. Multiple(arg) /\ Required(a)
    BY <1>2, <1>4 DEF Multiple, Required, ONE_OR_MORE, ZERO_OR_ONE, ZERO_OR_MORE, REMAINDER
  <2>2. NargsError(arg, ns) = "REQUIRED_MISSING"
    BY <1>1, <1>4 DEF NargsError, ONE_OR_MORE
  <2>3. OwnLine => ~OwnsKey(a)
    <3> SUFFICES ASSUME OwnLine, OwnsKey(a) PROVE FALSE
      OBVIOUS
    <3>1. v.type = "ARRAY" /\ v.items = given[a] /\ Len(given[a]) \in Nat \ {0}
      BY <1>3, <2>1
    <3> QED
      BY <1>4, <2>2, <3>1 DEF NargsError, ONE_OR_MORE
  <2>4. MissingTrue
    BY <1>2, <2>1, <2>3 DEF MissingTrue
  <2> QED
    BY <1>1, <2>2, <2>4 DEF FailsExplained, Explained
<1>5. CASE arg.nargs # ONE_OR_MORE
  <2>1. /\ arg.nargs > 1
        /\ NargsError(arg, ns) \in {"TOO_FEW_ARGS", "TOO_MANY_ARGS"}
    BY <1>1, <1>5 DEF NargsError
  <2>2. Multiple(arg) /\ Required(a) /\ TakesN(a)
    BY <1>2, <2>1 DEF Multiple, Required, TakesN, ZERO_OR_ONE, ZERO_OR_MORE, REMAINDER
  <2>3. Contested(a)
    <3> SUFFICES ASSUME OwnLine, OwnsKey(a) PROVE FALSE
      BY DEF Contested
    <3>1. v.type = "ARRAY" /\ v.items = given[a] /\ Len(given[a]) \in Nat \ {0}
      BY <1>3, <2>2
    <3>2. Len(given[a]) = WordsTaken(i)
      BY <1>1, <2>1 DEF FilledInv, Over
    <3>3. WordsTaken(i) \in {arg.nargs, 0}
      BY <1>1 DEF WordsTaken
    <3>4. Len(v.items) = arg.nargs
      BY <3>1, <3>2, <3>3
    <3> QED
      BY <1>2, <1>5, <2>1, <3>1, <3>4 DEF NargsError
  <2>4. TooFewTrue /\ TooManyTrue
    BY <1>2, <2>2, <2>3 DEF TooFewTrue, TooManyTrue
  <2> QED
    BY <1>1, <2>1, <2>4 DEF FailsExplained, Explained
<1> QED
  BY <1>4, <1>5

LEMMA TestFails ==
    ASSUME Inv, KeysMatch, TestsInv, FilledInv, NEW code, Fail(code),
           \/ CheckRequiredPositionals \/ CheckRequiredOptions \/ CheckPositionalNargs
           \/ CheckRequiredGroups \/ CheckDependencies \/ ApplyDefaults
    PROVE  FailsExplained
<1>1. CASE CheckRequiredPositionals \/ CheckRequiredOptions \/ CheckRequiredGroups
  <2>1. MissingTrue
    BY <1>1, RequiredFails
  <2>2. Fail("REQUIRED_MISSING")
    BY <1>1
    DEF CheckRequiredPositionals, CheckRequiredOptions, CheckRequiredGroups, Pass, Fail
  <2> QED
    BY <2>1, <2>2 DEF FailsExplained, Explained
<1>2. CASE CheckPositionalNargs
  BY <1>2, NargsFails
<1>3. CASE CheckDependencies \/ ApplyDefaults
  <2>1. \E other \in {"DEPENDENCY_VIOLATION", "TYPE_CONVERSION"} : Fail(other)
    BY <1>3 DEF CheckDependencies, ApplyDefaults, Pass, Fail
  <2> QED
    BY <2>1, OtherCode DEF FailsExplained, ExplainedCodes
<1> QED
  BY <1>1, <1>2, <1>3

-----------------------------------------------------------------------------
(***************************************************************************)
(* No other action fails, and an error once reported stays as it is.       *)
(***************************************************************************)
Tests == \/ CheckRequiredPositionals \/ CheckRequiredOptions \/ CheckPositionalNargs
         \/ CheckRequiredGroups \/ CheckDependencies \/ ApplyDefaults

LEMMA FailingSteps ==
    ASSUME [Next]_vars, NEW code, Fail(code)
    PROVE  \/ AnalyzeRejects \/ UnknownOption \/ RejectedOption
           \/ ConflictingOption \/ RejectedValue
           \/ TooManyArguments \/ RejectedPositional
           \/ Tests
           \/ \E r \in SubReturns : SubcommandReturns(r)
           \/ UNCHANGED vars
<1>1. phase' = "done" /\ result' = "ERROR"
  BY DEF Fail
<1>2. ~AnalyzeAccepts /\ ~EndOfLine /\ ~InformationOption /\ ~Crash /\ ~EnterSubcommand
  BY <1>1
  DEF AnalyzeAccepts, EndOfLine, InformationOption, Crash, EnterSubcommand
<1>3. ~StopToken
  BY <1>1 DEF StopToken, AtToken
<1>4. ~Option /\ ~OptionWithValues /\ ~OptionWithRest
  BY <1>1 DEF Option, OptionWithValues, OptionWithRest, LeaveOption
<1>5. ~NextOptionValue /\ ~RestWord /\ ~NextPositionalValue
  BY <1>1 DEF NextOptionValue, RestWord, NextPositionalValue, LeaveOption
<1>6. ~PositionalRest /\ ~PositionalValues
  BY <1>1 DEF PositionalRest, PositionalValues, BeginWords
<1>7. ~PositionalOneOfMany /\ ~PositionalSingle
  BY <1>1 DEF PositionalOneOfMany, PositionalSingle, AcceptPositional, AtPositionalOf,
              AtPositional, AtToken
<1> QED
  BY <1>2, <1>3, <1>4, <1>5, <1>6, <1>7 DEF Next, Returned, Tests

LEMMA SubcommandExplained ==
    ASSUME Inv, KeysMatch, OutcomeEnds, NEW r \in SubReturns, SubcommandReturns(r)
    PROVE  ErrorsExplained'
<1>1. phase = "subcommand" /\ UNCHANGED inputs
  BY DEF SubcommandReturns
<1>2. ~OwnLine'
  BY <1>1 DEF KeysMatch, OwnLine, P, inputs
<1>3. CASE r.result = "SUCCESS"
  <2>1. error' = "NONE"
    BY <1>1, <1>3 DEF SubcommandReturns, OutcomeEnds, outcome
  <2> QED
    BY <2>1 DEF ErrorsExplained, MissingIsMissing, ConflictExplained, TooManyExplained,
                TooFewExplained
<1>4. CASE r.result # "SUCCESS"
  <2>1. line[pos] \in Word
    BY <1>1, InputsType DEF Inv, TypeOK, SubcommandInv
  <2>2. subcommandName' # NoWord
    BY <1>4, <2>1, AtomsAssumption DEF SubcommandReturns
  <2> QED
    BY <1>2, <2>2 DEF ErrorsExplained, MissingIsMissing
<1> QED
  BY <1>3, <1>4

LEMMA SameExplained ==
    ASSUME ErrorsExplained, UNCHANGED vars
    PROVE  ErrorsExplained'
<1>1. /\ UNCHANGED <<inputs, stageVars, bundleVars, store, history>>
      /\ UNCHANGED <<error, subcommandName>>
  BY DEF vars, outcome
<1>2. /\ MissingTrue' <=> MissingTrue
      /\ ConflictTrue' <=> ConflictTrue
      /\ TooManyTrue' <=> TooManyTrue
      /\ TooFewTrue' <=> TooFewTrue
  BY <1>1, SameTruth
<1>3. MissingIsMissing => (error = "REQUIRED_MISSING" => MissingTrue)
  BY DEF MissingIsMissing, MissingTrue
<1>4. MissingIsMissing'
  <2>1. error' = "REQUIRED_MISSING" => MissingTrue'
    BY <1>1, <1>2, <1>3 DEF ErrorsExplained
  <2> QED
    BY <2>1 DEF MissingIsMissing, MissingTrue
<1>5. ConflictExplained' <=> ConflictExplained
  BY <1>1, <1>2 DEF ConflictExplained, ConflictTrue
<1>6. TooManyExplained' <=> TooManyExplained
  BY <1>1, <1>2 DEF TooManyExplained, TooManyTrue
<1>7. TooFewExplained' <=> TooFewExplained
  BY <1>1, <1>2 DEF TooFewExplained, TooFewTrue
<1> QED
  BY <1>1, <1>4, <1>5, <1>6, <1>7 DEF ErrorsExplained

(***************************************************************************)
(* ErrorsExplained speaks of the end: what it says there rests on what     *)
(* holds of the groups, the tokens, the keys and the words all along.      *)
(***************************************************************************)
ErrorsInv ==
    /\ ValuesInv
    /\ GroupInv
    /\ TokensInv
    /\ FilledInv /\ FewInv
    /\ ErrorsExplained

LEMMA ExplainedNext == Inv /\ ErrorsInv /\ [Next]_vars => ErrorsExplained'
<1> SUFFICES ASSUME Inv, ErrorsInv, [Next]_vars PROVE ErrorsExplained'
  OBVIOUS
<1> USE DEF ErrorsInv, ValuesInv
<1>1. CASE UNCHANGED vars
  BY <1>1, SameExplained
<1>2. CASE \E r \in SubReturns : SubcommandReturns(r)
  BY <1>2, SubcommandExplained
<1>3. CASE /\ ~UNCHANGED vars
           /\ ~(\E r \in SubReturns : SubcommandReturns(r))
           /\ \E code : Fail(code)
  <2>1. PICK code : Fail(code)
    BY <1>3
  <2>2. FailsExplained
    <3>1. CASE AnalyzeRejects \/ UnknownOption \/ RejectedOption
      BY <3>1, OptionFails
    <3>2. CASE ConflictingOption
      BY <3>2, ConflictFails
    <3>3. CASE RejectedValue
      BY <3>3, ValueFails
    <3>4. CASE TooManyArguments
      BY <3>4, TooManyFails
    <3>5. CASE RejectedPositional
      BY <3>5, PositionalFails
    <3>6. CASE Tests
      BY <2>1, <3>6, TestFails DEF Tests
    <3> QED
      BY <1>3, <2>1, <3>1, <3>2, <3>3, <3>4, <3>5, <3>6, FailingSteps
  <2> QED
    BY <2>2, FailExplained DEF FailsExplained
<1>4. CASE /\ ~UNCHANGED vars
           /\ ~(\E r \in SubReturns : SubcommandReturns(r))
           /\ ~(\E code : Fail(code))
  <2>1. phase # "done" /\ error' = error
    <3>1. CASE GoesOn \/ Succeeds
      BY <3>1 DEF GoesOn, Succeeds, outcome
    <3>2. CASE InformationOption
      BY <3>2 DEF InformationOption, FoundOption, AtOption, AtToken
    <3> QED
      BY <1>4, <3>1, <3>2, OutcomeSteps DEF FailsOtherwise, AnalyzeRejects, UnknownOption
  <2>2. error' = "NONE"
    BY <2>1 DEF OutcomeEnds
  <2> QED
    BY <2>2 DEF ErrorsExplained, MissingIsMissing, ConflictExplained, TooManyExplained,
                TooFewExplained
<1> QED
  BY <1>1, <1>2, <1>3, <1>4

LEMMA ErrorsInit == Init => ErrorsInv
<1> SUFFICES ASSUME Init PROVE ErrorsInv
  OBVIOUS
<1>1. /\ TypeOK /\ ValuesInv /\ GroupInv /\ TokensInv
  BY InitInv, ValuesInit, GroupInit, TokensInit DEF Inv
<1>2. /\ positionalIndex = 0 /\ phase = "analyze" /\ error = "NONE"
      /\ \A a \in Arg : occurrences[a] = 0 /\ given[a] = << >>
  BY DEF Init
<1>3. /\ Len(P.positionals) \in Nat /\ DOMAIN P.positionals = 1..Len(P.positionals)
      /\ \A i \in DOMAIN P.positionals : P.positionals[i] \in Arg
  BY <1>1, PositionalsType
<1>4. FilledInv
  <2>1. \A i \in DOMAIN P.positionals : ~(i <= positionalIndex) /\ WordsTaken(i) = 0
    BY <1>2, <1>3 DEF WordsTaken
  <2>2. \A i \in DOMAIN P.positionals : Len(given[P.positionals[i]]) = 0
    BY <1>2, <1>3
  <2> QED
    BY <1>2, <1>3, <2>1, <2>2 DEF FilledInv
<1>5. FewInv
  <2> SUFFICES ASSUME NEW a \in Optionals, P.spec[a].nargs > 1
               PROVE  Len(given[a]) + Owed(a) <= P.spec[a].nargs * occurrences[a]
    BY DEF FewInv
  <2>1. a \in Arg /\ P.spec[a].nargs \in Int
    BY <1>1, AcceptedType, InputsType DEF Accepted, ArgumentSpec
  <2>2. Len(given[a]) = 0 /\ occurrences[a] = 0 /\ Owed(a) = 0
    BY <1>2, <2>1 DEF Owed
  <2> QED
    BY <2>1, <2>2
<1>6. ErrorsExplained
  BY <1>2 DEF ErrorsExplained, MissingIsMissing, ConflictExplained, TooManyExplained,
              TooFewExplained
<1> QED
  BY <1>1, <1>4, <1>5, <1>6 DEF ErrorsInv

(***************************************************************************)
(* What an error says of the line is so, for every parser and every line:  *)
(* see ErrorsExplained for what each of the four codes says.               *)
(***************************************************************************)
THEOREM ErrorsAreExplained == Spec => []ErrorsExplained
<1>1. Inv /\ ErrorsInv /\ [Next]_vars => (Inv /\ ErrorsInv)'
  <2> SUFFICES ASSUME Inv, ErrorsInv, [Next]_vars PROVE Inv' /\ ErrorsInv'
    OBVIOUS
  <2>1. Inv' /\ OutcomeEnds' /\ LoopInv' /\ AcceptInv'
    BY NextInv, OutcomeNext, LoopNext, AcceptNext DEF ErrorsInv, ValuesInv
  <2>2. KeysMatch' /\ TestsInv' /\ NamespaceMatchesLine'
    BY KeysNext, TestsNext, MatchNext DEF ErrorsInv, ValuesInv
  <2>3. GroupInv' /\ TokensInv'
    BY GroupNext, TokensNext DEF ErrorsInv, ValuesInv
  <2>4. FilledInv' /\ FewInv'
    BY FilledNext, FewNext DEF ErrorsInv, ValuesInv
  <2>5. ErrorsExplained'
    BY ExplainedNext
  <2> QED
    BY <2>1, <2>2, <2>3, <2>4, <2>5 DEF ErrorsInv, ValuesInv
<1>2. Init => Inv /\ ErrorsInv
  BY InitInv, ErrorsInit
<1>3. ErrorsInv => ErrorsExplained
  BY DEF ErrorsInv
<1> QED
  BY <1>1, <1>2, <1>3, PTL DEF Spec
=============================================================================
