--------------------------- MODULE Values_proofs ----------------------------
(***************************************************************************)
(* What a parse does with the line, for every parser and line: where every *)
(* token goes, and what is made of the values.                             *)
(***************************************************************************)
EXTENDS ParseArgs_proofs

-----------------------------------------------------------------------------
(***************************************************************************)
(* Where every token of the command line goes: the loops of the parse      *)
(* stage read no token past the last, and a parse that succeeds has used   *)
(* every token once.  For every parser and every line on which no option   *)
(* looks for its further values in the wrong place (Misaligned).           *)
(***************************************************************************)
(***************************************************************************)
(* Neither property is inductive.  They rest on how far the line is used   *)
(* up while a bundle, the values of an option or the words of a positional *)
(* are in progress, and on where the loops that take these words read:     *)
(* parse_single_option counts in *consumed from the option on, but reads   *)
(* from next_token on, which is the same only if the bundle has used no    *)
(* token before.  It has used some only if an earlier letter took a value, *)
(* or the rest of the line.                                                *)
(***************************************************************************)
LetterTakesValue(m) ==
    LET found == Lookup(P, TokenOf[Tok(pos).chars[m]])
    IN  found \in Arg /\ NeedsValue(P.spec[found])

BundleUse ==
    /\ bundleAt = 1 => bundleTotal = 1
    /\ bundleTotal > 1 =>
          bundleTotal = Remaining \/ \E m \in 1..(bundleAt - 1) : LetterTakesValue(m)

OptionUse ==
    phase = "option_values" =>
        /\ bundleTotal = 1
        /\ next = pos + consumed
        /\ InBundle => LetterTakesValue(bundleAt)

RestUse ==
    phase = "rest" =>
        /\ next + left = N + 1
        /\ parsingOptions => bundleTotal = 1 /\ consumed = Remaining

UsedUpTo(i) == \A j \in 1..N : claims[j] = IF j < i THEN 1 ELSE 0

StageUse ==
    phase \in {"analyze", "stage"} =>
        UsedUpTo(IF bundleAt = 1 THEN pos ELSE pos + bundleTotal)

WordsUse ==
    phase \in {"option_values", "rest", "positional_values"} => UsedUpTo(next)

SubcommandUse ==
    phase = "subcommand" => UsedUpTo(pos) /\ line[pos] \in P.commands

AllUsed ==
    \A i \in 1..N : \/ claims[i] = 1
                    \/ claims[i] = 0 /\ pos <= i /\ line[pos] \in P.commands

Testing == phase \in {"required_positionals", "required_options", "positional_nargs",
                      "required_groups", "dependencies", "defaults"}

TestsUse == Testing \/ Succeeded => AllUsed

Use == /\ ~overrun
       /\ BundleUse
       /\ OptionUse
       /\ RestUse
       /\ StageUse
       /\ WordsUse
       /\ SubcommandUse
       /\ TestsUse

TokensInv == ~Misaligned => Use

-----------------------------------------------------------------------------
LEMMA InputsSame == Inv /\ [Next]_vars => UNCHANGED inputs
<1> SUFFICES ASSUME Inv, [Next]_vars PROVE UNCHANGED inputs
  OBVIOUS
<1>1. CASE UNCHANGED vars
  BY <1>1 DEF vars
<1>2. CASE FailsOtherwise \/ Succeeds \/ AnalyzeRejects \/ UnknownOption
  BY <1>2 DEF FailsOtherwise, Succeeds, AnalyzeRejects, UnknownOption, Fail
<1>3. CASE GoesOn
  BY <1>3 DEF GoesOn
<1>4. CASE InformationOption
  BY <1>4 DEF InformationOption
<1>5. CASE \E r \in SubReturns : SubcommandReturns(r)
  BY <1>5 DEF SubcommandReturns
<1> QED
  BY <1>1, <1>2, <1>3, <1>4, <1>5, OutcomeSteps

LEMMA SameAlignment ==
    ASSUME UNCHANGED inputs
    PROVE  Misaligned' <=> Misaligned
<1>1. P' = P /\ N' = N /\ \A i : Tok(i)' = Tok(i)
  BY DEF P, N, Tok, inputs
<1> QED
  BY <1>1 DEF Misaligned, TakesN, TakesMore, P, N, Tok, inputs

(***************************************************************************)
(* The option at pos, or the letter of its bundle, once it is accepted.    *)
(***************************************************************************)
LEMMA AcceptedOption ==
    ASSUME Inv, NEW a \in Arg, ApplyOption(a)
    PROVE  /\ phase = "stage"
           /\ pos \in 1..N
           /\ parsingOptions
           /\ Tok(pos) \in Token
           /\ Tok(pos).kind \notin {"STOP", "POSITIONAL"}
           /\ Lookup(P, OptionToken) = a
           /\ OptionError(P.spec[a]) = "NONE"
           /\ InBundle => /\ bundleAt \in DOMAIN Tok(pos).chars
                          /\ OptionToken = TokenOf[Tok(pos).chars[bundleAt]]
                          /\ OptionToken.kind \in {"SHORT_OPTION", "STOP"}
           /\ ~InBundle => OptionToken = Tok(pos) /\ bundleAt = 1
<1>1. /\ phase = "stage"
      /\ pos \in 1..N
      /\ parsingOptions
      /\ Tok(pos).kind \notin {"STOP", "POSITIONAL"}
      /\ Lookup(P, OptionToken) = a
      /\ OptionError(P.spec[a]) = "NONE"
  BY InputsType DEF Inv, TypeOK, ApplyOption, UsableOption, FoundOption, AtOption, AtToken
<1>2. Tok(pos) \in Token /\ line[pos] \in Word
  BY <1>1, InputsType DEF Inv
<1>3. ASSUME InBundle
      PROVE  /\ bundleAt \in DOMAIN Tok(pos).chars
             /\ OptionToken = TokenOf[Tok(pos).chars[bundleAt]]
             /\ OptionToken.kind \in {"SHORT_OPTION", "STOP"}
  <2>1. Tok(pos).chars \in Seq(Word) /\ Tok(pos).chars # << >>
    BY <1>2, <1>3, WordsAssumption DEF Tok, InBundle, Token
  <2>2. bundleAt \in 1..Len(Tok(pos).chars)
    BY <2>1 DEF Inv, TypeOK, BundleInv
  <2>3. bundleAt \in DOMAIN Tok(pos).chars
    BY <2>1, <2>2
  <2>4. OptionToken = TokenOf[Tok(pos).chars[bundleAt]]
    BY <1>3 DEF OptionToken
  <2> QED
    BY <1>2, <1>3, <2>3, <2>4, WordsAssumption DEF Tok, InBundle
<1>4. ~InBundle => OptionToken = Tok(pos) /\ bundleAt = 1
  BY DEF OptionToken, Inv, TypeOK, BundleInv
<1> QED
  BY <1>1, <1>2, <1>3, <1>4

(***************************************************************************)
(* An option of several values, or of the rest of the line, that is        *)
(* accepted is the first of its bundle to use a token, and one of several  *)
(* values takes the first of them from the token after the option.         *)
(***************************************************************************)
LEMMA AlignedOption ==
    ASSUME Inv, ~Misaligned, BundleUse, NEW a \in Arg, ApplyOption(a)
    PROVE  /\ P.spec[a].nargs > 1 \/ TakesRest(P.spec[a]) => bundleTotal = 1
           /\ P.spec[a].nargs > 1 => TakesNext(P.spec[a])
           /\ TakesNext(P.spec[a]) =>
                 Following <= N /\ (InBundle => LetterTakesValue(bundleAt))
<1> DEFINE arg == P.spec[a]
<1>1. /\ pos \in 1..N
      /\ Tok(pos) \in Token
      /\ Tok(pos).kind \notin {"STOP", "POSITIONAL"}
      /\ Lookup(P, OptionToken) = a
      /\ OptionError(arg) = "NONE"
      /\ N \in Nat /\ bundleTotal \in Nat \ {0} /\ bundleAt \in Nat \ {0}
      /\ arg.nargs \in Int
  BY AcceptedOption, InputsType DEF Inv, TypeOK, ArgumentSpec
<1>2. /\ ~(WantsNext(arg) /\ Following > N)
      /\ ~(WantsNext(arg) /\ Following <= N /\ ~NextIsValue /\ arg.nargs # ZERO_OR_ONE)
      /\ ~((arg.nargs > 1 \/ TakesRest(arg)) /\ Following > N)
  BY <1>1 DEF OptionError
<1>3. arg.nargs > 1 => NeedsValue(arg) /\ OptionToken.kind # "LONG_OPTION_EQ"
  <2> SUFFICES ASSUME arg.nargs > 1
               PROVE  NeedsValue(arg) /\ OptionToken.kind # "LONG_OPTION_EQ"
    OBVIOUS
  <2>1. TakesN(a)
    BY DEF TakesN
  <2>2. CASE InBundle
    <3>1. /\ bundleAt \in DOMAIN Tok(pos).chars
          /\ OptionToken = TokenOf[Tok(pos).chars[bundleAt]]
          /\ OptionToken.kind \in {"SHORT_OPTION", "STOP"}
      BY <2>2, AcceptedOption
    <3>2. NeedsValue(arg)
      BY <1>1, <2>1, <2>2, <3>1 DEF Misaligned, InBundle
    <3> QED
      BY <3>1, <3>2
  <2>3. CASE ~InBundle
    <3>1. OptionToken = Tok(pos)
      BY <2>3, AcceptedOption
    <3>2. Tok(pos).kind \in {"LONG_OPTION", "LONG_OPTION_EQ", "SHORT_OPTION"}
      BY <1>1, <2>3 DEF Token, TokenKind, InBundle
    <3> QED
      BY <1>1, <2>1, <3>1, <3>2 DEF Misaligned
  <2> QED
    BY <2>2, <2>3
<1>4. arg.nargs > 1 \/ TakesRest(arg) => bundleTotal = 1
  <2> SUFFICES ASSUME arg.nargs > 1 \/ TakesRest(arg), bundleTotal # 1
               PROVE  FALSE
    OBVIOUS
  <2>1. bundleAt > 1 /\ InBundle
    BY <1>1, AcceptedOption DEF BundleUse
  <2>2. bundleTotal # Remaining
    BY <1>1, <1>2 DEF Following, Remaining
  <2>3. PICK m \in 1..(bundleAt - 1) : LetterTakesValue(m)
    BY <1>1, <2>2 DEF BundleUse
  <2>4. TakesMore(a)
    BY DEF TakesMore, TakesN, TakesRest
  <2>5. /\ bundleAt \in DOMAIN Tok(pos).chars
        /\ OptionToken = TokenOf[Tok(pos).chars[bundleAt]]
    BY <2>1, AcceptedOption
  <2> QED
    BY <1>1, <2>1, <2>3, <2>4, <2>5 DEF Misaligned, LetterTakesValue, InBundle
<1>5. arg.nargs > 1 => TakesNext(arg)
  <2> SUFFICES ASSUME arg.nargs > 1 PROVE TakesNext(arg)
    OBVIOUS
  <2>1. Following <= N /\ bundleTotal = 1
    BY <1>1, <1>2, <1>4 DEF Following
  <2>2. WantsNext(arg)
    BY <1>1, <1>3, <2>1 DEF WantsNext, Following, Remaining
  <2>3. arg.nargs # ZERO_OR_ONE
    BY DEF ZERO_OR_ONE
  <2> QED
    BY <1>2, <2>1, <2>2, <2>3 DEF TakesNext
<1>6. TakesNext(arg) => Following <= N /\ (InBundle => LetterTakesValue(bundleAt))
  BY <1>1, AcceptedOption DEF TakesNext, NextIsValue, WantsNext, LetterTakesValue
<1> QED
  BY <1>4, <1>5, <1>6

(***************************************************************************)
(* Accepting an option uses the line up to behind its first value.         *)
(***************************************************************************)
LEMMA ApplyOptionUse ==
    ASSUME Inv, BundleUse, StageUse, NEW a \in Arg, ApplyOption(a)
    PROVE  \A j \in 1..N :
              claims'[j] = IF j < Following + Width(P.spec[a]) - 1 THEN 1 ELSE 0
<1> DEFINE arg == P.spec[a]
           S   == (IF bundleAt = 1 THEN {pos} ELSE {})
                     \cup (IF TakesNext(arg) THEN {Following} ELSE {})
<1>1. /\ phase = "stage" /\ pos \in 1..N /\ N \in Nat
      /\ bundleAt \in Nat \ {0} /\ bundleTotal \in Nat \ {0}
  BY AcceptedOption, InputsType DEF Inv, TypeOK
<1>2. claims' = [j \in 1..N |-> IF j \in S THEN claims[j] + 1 ELSE claims[j]]
  BY DEF ApplyOption, Claim
<1>3. \A j \in 1..N : claims[j] = IF j < (IF bundleAt = 1 THEN pos ELSE Following)
                                  THEN 1 ELSE 0
  BY <1>1 DEF StageUse, UsedUpTo, Following
<1>4. bundleAt = 1 => Following = pos + 1
  BY <1>1 DEF BundleUse, Following
<1>5. Following \in Nat
  BY <1>1 DEF Following
<1> SUFFICES ASSUME NEW j \in 1..N
             PROVE  claims'[j] = IF j < Following + Width(arg) - 1 THEN 1 ELSE 0
  OBVIOUS
<1>6. claims'[j] = IF j \in S THEN claims[j] + 1 ELSE claims[j]
  BY <1>2
<1>7. CASE TakesNext(arg)
  <2>1. Width(arg) = 2
    BY <1>7 DEF Width
  <2>2. j \in S <=> (bundleAt = 1 /\ j = pos) \/ j = Following
    BY <1>7
  <2> QED
    BY <1>1, <1>3, <1>4, <1>5, <1>6, <2>1, <2>2
<1>8. CASE ~TakesNext(arg)
  <2>1. Width(arg) = 1
    BY <1>8 DEF Width
  <2>2. j \in S <=> (bundleAt = 1 /\ j = pos)
    BY <1>8
  <2> QED
    BY <1>1, <1>3, <1>4, <1>5, <1>6, <2>1, <2>2
<1> QED
  BY <1>7, <1>8

(***************************************************************************)
(* Leaving an option that has used c tokens, its own included, moves to    *)
(* the first token that is not used, or to the next letter, which finds it *)
(* as next_token.                                                          *)
(***************************************************************************)
LEMMA SameLetter ==
    ASSUME UNCHANGED <<inputs, pos>>
    PROVE  /\ \A m : LetterTakesValue(m)' <=> LetterTakesValue(m)
           /\ P' = P /\ N' = N /\ Remaining' = Remaining /\ InBundle' = InBundle
<1>1. P' = P /\ N' = N /\ Tok(pos)' = Tok(pos)
  BY DEF P, N, Tok, inputs
<1> QED
  BY <1>1 DEF LetterTakesValue, Remaining, InBundle, P, N, Tok, inputs

LEMMA LeaveOptionUse ==
    ASSUME Inv, Use, phase # "done", NEW c \in Nat \ {0},
           LeaveOption(c), UNCHANGED <<inputs, outcome>>, ~overrun',
           \A j \in 1..N : claims'[j] = IF j < Following + c - 1 THEN 1 ELSE 0,
           InBundle /\ bundleTotal + c - 1 > 1 =>
              \/ bundleTotal + c - 1 = Remaining
              \/ \E m \in 1..bundleAt : LetterTakesValue(m),
           ~Succeeded
    PROVE  Use'
<1>1. /\ pos \in Nat \ {0} /\ bundleAt \in Nat \ {0} /\ bundleTotal \in Nat \ {0}
      /\ N \in Nat
  BY InputsType DEF Inv, TypeOK
<1>2. phase' = "stage" /\ ~Succeeded' /\ N' = N
  BY DEF LeaveOption, Succeeded, outcome, inputs, N
<1>3. CASE InBundle /\ bundleAt < Len(Tok(pos).chars)
  <2>1. bundleAt' = bundleAt + 1 /\ bundleTotal' = bundleTotal + c - 1 /\ pos' = pos
    BY <1>3 DEF LeaveOption
  <2>2. StageUse'
    <3>1. bundleAt' # 1 /\ pos' + bundleTotal' = Following + c - 1
      BY <1>1, <2>1 DEF Following
    <3> QED
      BY <1>2, <3>1 DEF StageUse, UsedUpTo
  <2>3. BundleUse'
    <3>1. bundleAt' # 1
      BY <1>1, <2>1
    <3>2. ASSUME bundleTotal' > 1
          PROVE  bundleTotal' = Remaining' \/ \E m \in 1..(bundleAt' - 1) : LetterTakesValue(m)'
      <4>1. bundleAt' - 1 = bundleAt
        BY <1>1, <2>1
      <4> QED
        BY <1>3, <2>1, <3>2, <4>1, SameLetter
    <3> QED
      BY <3>1, <3>2 DEF BundleUse
  <2> QED
    BY <1>2, <2>2, <2>3 DEF Use, OptionUse, RestUse, WordsUse, SubcommandUse, TestsUse, Testing
<1>4. CASE ~(InBundle /\ bundleAt < Len(Tok(pos).chars))
  <2>1. bundleAt' = 1 /\ bundleTotal' = 1 /\ pos' = pos + bundleTotal + c - 1
    BY <1>4 DEF LeaveOption
  <2>2. StageUse'
    <3>1. pos' = Following + c - 1
      BY <1>1, <2>1 DEF Following
    <3> QED
      BY <1>2, <2>1, <3>1 DEF StageUse, UsedUpTo
  <2>3. BundleUse'
    BY <2>1 DEF BundleUse
  <2> QED
    BY <1>2, <2>2, <2>3 DEF Use, OptionUse, RestUse, WordsUse, SubcommandUse, TestsUse, Testing
<1> QED
  BY <1>3, <1>4

(***************************************************************************)
(* The options.                                                            *)
(***************************************************************************)
LEMMA OptionTokens ==
    ASSUME Inv, OutcomeEnds, ~Misaligned, Use, Option
    PROVE  Use'
<1>1. PICK a \in Arg : ApplyOption(a) /\ LeaveOption(Width(P.spec[a]))
  BY DEF Option
<1> DEFINE arg == P.spec[a]
<1>2. /\ phase = "stage"
      /\ Width(arg) \in {1, 2}
      /\ bundleAt \in Nat \ {0} /\ bundleTotal \in Nat \ {0}
  BY <1>1, AcceptedOption, ApplyOptionStep, OptionValueType, InputsType DEF Inv, TypeOK
<1>3. UNCHANGED <<inputs, outcome, overrun>>
  BY <1>1, ApplyOptionStep
<1>4. ~Succeeded
  BY <1>2 DEF OutcomeEnds, Succeeded
<1>5. \A j \in 1..N : claims'[j] = IF j < Following + Width(arg) - 1 THEN 1 ELSE 0
  BY <1>1, ApplyOptionUse DEF Use
<1>6. ASSUME InBundle, bundleTotal + Width(arg) - 1 > 1
      PROVE  \/ bundleTotal + Width(arg) - 1 = Remaining
             \/ \E m \in 1..bundleAt : LetterTakesValue(m)
  <2>1. CASE TakesNext(arg)
    <3>1. LetterTakesValue(bundleAt)
      BY <1>1, <1>6, <2>1, AlignedOption DEF Use
    <3> QED
      BY <1>2, <3>1
  <2>2. CASE ~TakesNext(arg)
    <3>1. Width(arg) = 1
      BY <2>2 DEF Width
    <3>2. bundleTotal > 1 /\ bundleTotal + Width(arg) - 1 = bundleTotal
      BY <1>2, <1>6, <3>1
    <3> QED
      BY <1>2, <3>2 DEF Use, BundleUse
  <2> QED
    BY <2>1, <2>2
<1> QED
  BY <1>1, <1>2, <1>3, <1>4, <1>5, <1>6, LeaveOptionUse DEF Use

LEMMA OptionWithWordsTokens ==
    ASSUME Inv, OutcomeEnds, ~Misaligned, Use, OptionWithValues \/ OptionWithRest
    PROVE  Use'
<1>1. PICK a \in Arg :
         /\ ApplyOption(a)
         /\ UNCHANGED <<pos, bundleVars>>
         /\ \/ /\ P.spec[a].nargs > 1
               /\ phase' = "option_values"
               /\ consumed' = Width(P.spec[a])
               /\ next' = Following + 1
            \/ /\ TakesRest(P.spec[a])
               /\ phase' = "rest"
               /\ consumed' = Remaining
               /\ next' = Following + Width(P.spec[a]) - 1
               /\ left' = Remaining - Width(P.spec[a])
  BY DEF OptionWithValues, OptionWithRest
<1> DEFINE arg == P.spec[a]
<1>2. /\ phase = "stage" /\ pos \in 1..N /\ N \in Nat
      /\ Width(arg) \in {1, 2}
      /\ bundleAt \in Nat \ {0}
  BY <1>1, AcceptedOption, ApplyOptionStep, OptionValueType, InputsType DEF Inv, TypeOK
<1>3. UNCHANGED <<inputs, outcome, overrun>>
  BY <1>1, ApplyOptionStep
<1>4. ~Succeeded'
  BY <1>2, <1>3 DEF OutcomeEnds, Succeeded, outcome
<1>5. bundleTotal = 1 /\ (arg.nargs > 1 => TakesNext(arg))
  BY <1>1, AlignedOption DEF Use
<1>6. Following = pos + 1 /\ N' = N /\ InBundle' = InBundle /\ Remaining' = Remaining
  BY <1>1, <1>3, <1>5, SameLetter DEF Following
<1>7. UsedUpTo(next)'
  <2>1. next' = Following + Width(arg) - 1
    BY <1>1, <1>2, <1>5, <1>6 DEF Width
  <2> QED
    BY <1>1, <1>6, <2>1, ApplyOptionUse DEF Use, UsedUpTo
<1>8. BundleUse'
  BY <1>1, <1>5, <1>3 DEF BundleUse, bundleVars
<1>9. CASE arg.nargs > 1 /\ phase' = "option_values"
  <2>1. consumed' = 2 /\ next' = pos' + consumed'
    BY <1>1, <1>2, <1>5, <1>6, <1>9 DEF Width
  <2>2. InBundle' => LetterTakesValue(bundleAt)'
    <3>1. InBundle => LetterTakesValue(bundleAt)
      BY <1>1, <1>5, <1>9, AlignedOption DEF Use
    <3> QED
      BY <1>1, <1>3, <1>6, <3>1, SameLetter
      DEF LetterTakesValue, bundleVars, P, Tok, inputs
  <2>3. OptionUse'
    BY <1>1, <1>5, <2>1, <2>2 DEF OptionUse, bundleVars
  <2> QED
    BY <1>3, <1>4, <1>7, <1>8, <1>9, <2>3
    DEF Use, RestUse, StageUse, WordsUse, SubcommandUse, TestsUse, Testing
<1>10. CASE TakesRest(arg) /\ phase' = "rest"
  <2>1. next' + left' = N' + 1 /\ consumed' = Remaining' /\ bundleTotal' = 1
    BY <1>1, <1>2, <1>5, <1>6, <1>10 DEF Remaining, bundleVars
  <2>2. RestUse'
    BY <2>1 DEF RestUse
  <2> QED
    BY <1>3, <1>4, <1>7, <1>8, <1>10, <2>2
    DEF Use, OptionUse, StageUse, WordsUse, SubcommandUse, TestsUse, Testing
<1> QED
  BY <1>1, <1>9, <1>10

(***************************************************************************)
(* The words that an option, a positional or the rest of the line takes:   *)
(* each the first that is not used, none of them past the last.            *)
(***************************************************************************)
LEMMA ClaimFirstUnused ==
    ASSUME NEW i \in Nat, UsedUpTo(i), Claim({i})
    PROVE  \A j \in 1..N : claims'[j] = IF j < i + 1 THEN 1 ELSE 0
<1> SUFFICES ASSUME NEW j \in 1..N
             PROVE  claims'[j] = IF j < i + 1 THEN 1 ELSE 0
  OBVIOUS
<1>1. claims[j] = IF j < i THEN 1 ELSE 0
  BY DEF UsedUpTo
<1>2. claims'[j] = IF j = i THEN claims[j] + 1 ELSE claims[j]
  BY DEF Claim
<1> QED
  BY <1>1, <1>2

LEMMA NextOptionValueTokens ==
    ASSUME Inv, OutcomeEnds, ~Misaligned, Use, NextOptionValue
    PROVE  Use'
<1>1. /\ phase = "option_values"
      /\ OptionValueError(P.spec[current]) = "NONE"
      /\ consumed' = consumed + 1
      /\ next' = next + 1
      /\ Claim({next})
      /\ overrun' = (overrun \/ next > N)
      /\ UNCHANGED <<inputs, outcome>>
  BY DEF NextOptionValue
<1>2. /\ pos \in Nat \ {0} /\ next \in Nat /\ consumed \in Nat \ {0} /\ left \in Nat \ {0}
      /\ bundleAt \in Nat \ {0} /\ N \in Nat
  BY <1>1, InputsType DEF Inv, TypeOK, WordsInv, OptionInv
<1>3. /\ bundleTotal = 1
      /\ next = pos + consumed
      /\ InBundle => LetterTakesValue(bundleAt)
      /\ UsedUpTo(next)
      /\ ~overrun
  BY <1>1 DEF Use, OptionUse, WordsUse
<1>4. next <= N
  <2>1. ~(consumed + 1 > Remaining)
    BY <1>1 DEF OptionValueError
  <2> QED
    BY <1>2, <1>3, <2>1 DEF Remaining
<1>5. ~overrun'
  <2>1. ~(next > N)
    BY <1>2, <1>4
  <2> QED
    BY <1>1, <1>3, <2>1, Zenon
<1>6. ~Succeeded /\ ~Succeeded'
  BY <1>1 DEF OutcomeEnds, Succeeded, outcome
<1>7. \A j \in 1..N : claims'[j] = IF j < next + 1 THEN 1 ELSE 0
  BY <1>1, <1>2, <1>3, ClaimFirstUnused
<1>8. CASE left = 1
  <2>1. LeaveOption(consumed + 1) /\ consumed + 1 \in Nat \ {0}
    BY <1>2, <1>8 DEF NextOptionValue
  <2>2. \A j \in 1..N :
           claims'[j] = IF j < Following + (consumed + 1) - 1 THEN 1 ELSE 0
    BY <1>2, <1>3, <1>7 DEF Following
  <2>3. InBundle => \E m \in 1..bundleAt : LetterTakesValue(m)
    BY <1>2, <1>3
  <2> QED
    BY <1>1, <1>5, <1>6, <2>1, <2>2, <2>3, LeaveOptionUse
<1>9. CASE left # 1
  <2>1. UNCHANGED <<phase, pos, bundleVars>>
    BY <1>9 DEF NextOptionValue
  <2>2. N' = N /\ InBundle' = InBundle /\ Remaining' = Remaining
    BY <1>1, <2>1, SameLetter
  <2>3. InBundle' => LetterTakesValue(bundleAt)'
    BY <1>1, <1>3, <2>1, <2>2 DEF LetterTakesValue, bundleVars, P, Tok, inputs
  <2>4. next' = pos' + consumed'
    BY <1>1, <1>2, <1>3, <2>1
  <2>5. OptionUse' /\ BundleUse'
    BY <1>3, <2>1, <2>3, <2>4 DEF OptionUse, BundleUse, bundleVars, Use
  <2>6. WordsUse'
    BY <1>1, <1>7, <2>2 DEF WordsUse, UsedUpTo
  <2> QED
    BY <1>1, <1>5, <1>6, <2>1, <2>5, <2>6
    DEF Use, RestUse, StageUse, SubcommandUse, TestsUse, Testing
<1> QED
  BY <1>8, <1>9

LEMMA RestWordTokens ==
    ASSUME Inv, OutcomeEnds, ~Misaligned, Use, RestWord
    PROVE  Use'
<1>1. /\ phase = "rest"
      /\ next' = next + 1
      /\ left' = left - 1
      /\ Claim({next})
      /\ overrun' = (overrun \/ next > N)
      /\ UNCHANGED <<inputs, parsingOptions, consumed, outcome>>
  BY DEF RestWord
<1>2. /\ pos \in Nat \ {0} /\ next \in Nat /\ left \in Nat \ {0}
      /\ bundleAt \in Nat \ {0} /\ bundleTotal \in Nat \ {0} /\ N \in Nat
  BY <1>1, InputsType DEF Inv, TypeOK, WordsInv
<1>3. /\ next + left = N + 1
      /\ parsingOptions => bundleTotal = 1 /\ consumed = Remaining
      /\ UsedUpTo(next)
      /\ ~overrun
  BY <1>1 DEF Use, RestUse, WordsUse
<1>4. ~overrun'
  <2>1. ~(next > N)
    BY <1>2, <1>3
  <2> QED
    BY <1>1, <1>3, <2>1, Zenon
<1>5. ~Succeeded /\ ~Succeeded'
  BY <1>1 DEF OutcomeEnds, Succeeded, outcome
<1>6. \A j \in 1..N : claims'[j] = IF j < next + 1 THEN 1 ELSE 0
  BY <1>1, <1>2, <1>3, ClaimFirstUnused
<1>7. CASE left > 1
  <2>1. UNCHANGED <<phase, pos, bundleVars>>
    BY <1>7 DEF RestWord
  <2>2. N' = N /\ Remaining' = Remaining /\ \A m : LetterTakesValue(m)' <=> LetterTakesValue(m)
    BY <1>1, <2>1, SameLetter
  <2>3. next' + left' = N' + 1
    BY <1>1, <1>2, <1>3, <2>2
  <2>4. RestUse'
    BY <1>1, <1>3, <2>1, <2>2, <2>3 DEF RestUse, bundleVars
  <2>5. BundleUse'
    BY <2>1, <2>2 DEF Use, BundleUse, bundleVars
  <2>6. WordsUse'
    BY <1>1, <1>6, <2>2 DEF WordsUse, UsedUpTo
  <2> QED
    BY <1>1, <1>4, <1>5, <2>1, <2>4, <2>5, <2>6
    DEF Use, OptionUse, StageUse, SubcommandUse, TestsUse, Testing
<1>8. CASE ~(left > 1) /\ parsingOptions
  <2>1. LeaveOption(consumed) /\ next = N /\ pos <= N /\ consumed \in Nat \ {0}
    BY <1>1, <1>2, <1>3, <1>8 DEF RestWord, Inv, TypeOK, OptionInv
  <2>2. Following + consumed - 1 = N + 1 /\ bundleTotal + consumed - 1 = Remaining
    BY <1>2, <1>3, <1>8, <2>1 DEF Following, Remaining
  <2>3. \A j \in 1..N : claims'[j] = IF j < Following + consumed - 1 THEN 1 ELSE 0
    BY <1>6, <2>1, <2>2
  <2> QED
    BY <1>1, <1>4, <1>5, <2>1, <2>2, <2>3, LeaveOptionUse
<1>9. CASE ~(left > 1) /\ ~parsingOptions
  <2>1. /\ phase' = "required_positionals"
        /\ UNCHANGED <<pos, bundleVars>>
        /\ next = N
    BY <1>1, <1>2, <1>3, <1>9 DEF RestWord
  <2>2. N' = N /\ Remaining' = Remaining /\ \A m : LetterTakesValue(m)' <=> LetterTakesValue(m)
    BY <1>1, <2>1, SameLetter
  <2>3. BundleUse'
    BY <2>1, <2>2 DEF Use, BundleUse, bundleVars
  <2>4. \A j \in 1..N : claims'[j] = 1
    BY <1>2, <1>6, <2>1
  <2>5. TestsUse'
    BY <2>2, <2>4 DEF TestsUse, AllUsed
  <2> QED
    BY <1>4, <2>1, <2>3, <2>5
    DEF Use, OptionUse, RestUse, StageUse, WordsUse, SubcommandUse
<1> QED
  BY <1>7, <1>8, <1>9

(***************************************************************************)
(* The positionals: no bundle is in progress when a word that is not an    *)
(* option is met, and none comes after it.                                 *)
(***************************************************************************)
LEMMA PositionalTokens ==
    ASSUME Inv, OutcomeEnds, ~Misaligned, Use,
           \/ PositionalRest \/ PositionalValues
           \/ PositionalOneOfMany \/ PositionalSingle
    PROVE  Use'
<1>1. PICK a \in Arg :
         /\ AcceptPositional(a)
         /\ \/ BeginWords(a, N - pos + 1, "rest")
            \/ BeginWords(a, P.spec[a].nargs, "positional_values")
            \/ pos' = pos + 1 /\ Claim({pos}) /\ UNCHANGED phase
  BY DEF PositionalRest, PositionalValues, PositionalOneOfMany, PositionalSingle
<1>2. /\ phase = "stage" /\ pos \in 1..N /\ N \in Nat
      /\ bundleAt = 1
      /\ parsingOptions' = FALSE
      /\ UNCHANGED <<inputs, bundleVars, outcome, overrun>>
  BY <1>1, AcceptPositionalStep, InputsType DEF Inv
<1>3. bundleTotal = 1 /\ UsedUpTo(pos) /\ N' = N
  BY <1>2 DEF Use, BundleUse, StageUse, N, inputs
<1>4. ~Succeeded'
  BY <1>2 DEF OutcomeEnds, Succeeded, outcome
<1>5. BundleUse'
  BY <1>2, <1>3 DEF BundleUse, bundleVars
<1>6. CASE \/ BeginWords(a, N - pos + 1, "rest")
           \/ BeginWords(a, P.spec[a].nargs, "positional_values")
  <2>1. /\ phase' \in {"rest", "positional_values"}
        /\ next' = pos
        /\ UNCHANGED claims
        /\ phase' = "rest" => left' = N - pos + 1
    BY <1>6 DEF BeginWords
  <2>2. WordsUse'
    BY <1>3, <2>1 DEF WordsUse, UsedUpTo
  <2>3. RestUse'
    BY <1>2, <1>3, <2>1 DEF RestUse
  <2> QED
    BY <1>2, <1>4, <1>5, <2>1, <2>2, <2>3
    DEF Use, OptionUse, StageUse, SubcommandUse, TestsUse, Testing
<1>7. CASE pos' = pos + 1 /\ Claim({pos}) /\ UNCHANGED phase
  <2>1. \A j \in 1..N : claims'[j] = IF j < pos + 1 THEN 1 ELSE 0
    BY <1>2, <1>3, <1>7, ClaimFirstUnused
  <2>2. StageUse'
    BY <1>2, <1>3, <1>7, <2>1 DEF StageUse, UsedUpTo, bundleVars
  <2> QED
    BY <1>2, <1>4, <1>5, <1>7, <2>2
    DEF Use, OptionUse, RestUse, WordsUse, SubcommandUse, TestsUse, Testing
<1> QED
  BY <1>1, <1>6, <1>7

LEMMA NextPositionalValueTokens ==
    ASSUME Inv, OutcomeEnds, ~Misaligned, Use, NextPositionalValue
    PROVE  Use'
<1>1. /\ phase = "positional_values"
      /\ next' = next + 1
      /\ Claim({next})
      /\ UNCHANGED <<inputs, bundleVars, outcome, overrun>>
  BY DEF NextPositionalValue
<1>2. /\ next \in Nat /\ left \in Nat \ {0} /\ N \in Nat /\ pos \in Nat
      /\ bundleAt = 1
      /\ next + left = pos + P.spec[current].nargs
      /\ P.spec[current].nargs \in Int
  <2>1. /\ TypeOK /\ current \in Arg /\ left \in Nat \ {0}
        /\ ~parsingOptions
        /\ next + left = pos + P.spec[current].nargs
    BY <1>1 DEF Inv, TypeOK, WordsInv, PositionalInv
  <2>2. bundleAt = 1
    BY <2>1 DEF Inv, TypeOK, BundleInv
  <2>3. next \in Nat /\ pos \in Nat
    BY <2>1 DEF TypeOK
  <2> QED
    BY <2>1, <2>2, <2>3, InputsType DEF ArgumentSpec
<1>3. bundleTotal = 1 /\ UsedUpTo(next) /\ N' = N
  BY <1>1, <1>2 DEF Use, BundleUse, WordsUse, N, inputs
<1>4. ~Succeeded'
  BY <1>1 DEF OutcomeEnds, Succeeded, outcome
<1>5. BundleUse'
  BY <1>1, <1>2, <1>3 DEF BundleUse, bundleVars
<1>6. \A j \in 1..N : claims'[j] = IF j < next + 1 THEN 1 ELSE 0
  BY <1>1, <1>2, <1>3, ClaimFirstUnused
<1>7. CASE left = 1
  <2>1. phase' = "stage" /\ pos' = pos + P.spec[current].nargs
    BY <1>7 DEF NextPositionalValue
  <2>2. pos' = next + 1 /\ bundleAt' = 1
    BY <1>1, <1>2, <1>7, <2>1 DEF bundleVars
  <2>3. StageUse'
    BY <1>3, <1>6, <2>2 DEF StageUse, UsedUpTo
  <2> QED
    BY <1>1, <1>4, <1>5, <2>1, <2>3
    DEF Use, OptionUse, RestUse, WordsUse, SubcommandUse, TestsUse, Testing
<1>8. CASE left # 1
  <2>1. UNCHANGED phase
    BY <1>8 DEF NextPositionalValue
  <2>2. WordsUse'
    BY <1>1, <1>3, <1>6 DEF WordsUse, UsedUpTo
  <2> QED
    BY <1>1, <1>4, <1>5, <2>1, <2>2
    DEF Use, OptionUse, RestUse, StageUse, SubcommandUse, TestsUse, Testing
<1> QED
  BY <1>7, <1>8

(***************************************************************************)
(* The ends of the parse stage, and the steps before and after it.         *)
(***************************************************************************)
LEMMA StageTokens ==
    ASSUME Inv, OutcomeEnds, ~Misaligned, Use,
           AnalyzeAccepts \/ StopToken \/ EndOfLine
    PROVE  Use'
<1>1. /\ phase \in {"analyze", "stage"}
      /\ pos \in Nat \ {0} /\ bundleAt \in Nat \ {0} /\ bundleTotal \in Nat \ {0}
      /\ N \in Nat
      /\ UNCHANGED <<inputs, bundleVars, outcome, overrun>>
  BY InputsType
  DEF Inv, TypeOK, AnalyzeAccepts, StopToken, AtToken, EndOfLine, history
<1>2. ~Succeeded' /\ N' = N
  BY <1>1 DEF OutcomeEnds, Succeeded, outcome, N, inputs
<1>3. UsedUpTo(IF bundleAt = 1 THEN pos ELSE pos + bundleTotal)
  BY <1>1 DEF Use, StageUse
<1>4. CASE AnalyzeAccepts
  <2>1. phase' = "stage" /\ UNCHANGED <<pos, claims>>
    BY <1>4 DEF AnalyzeAccepts, stageVars, history
  <2>2. StageUse'
    BY <1>1, <1>2, <1>3, <2>1 DEF StageUse, UsedUpTo, bundleVars
  <2>3. BundleUse'
    BY <1>1, <2>1, SameLetter DEF Use, BundleUse, bundleVars
  <2> QED
    BY <1>1, <1>2, <2>1, <2>2, <2>3
    DEF Use, OptionUse, RestUse, WordsUse, SubcommandUse, TestsUse, Testing
<1>5. CASE StopToken
  <2>1. phase = "stage" /\ phase' = phase /\ pos' = pos + 1 /\ Claim({pos})
    BY <1>5 DEF StopToken, AtToken
  <2>2. bundleAt = 1 /\ bundleTotal = 1
    BY <1>1, <1>5 DEF StopToken, AtToken, Inv, BundleInv, InBundle, Use, BundleUse
  <2>3. \A j \in 1..N : claims'[j] = IF j < pos + 1 THEN 1 ELSE 0
    BY <1>1, <1>3, <2>1, <2>2, ClaimFirstUnused
  <2>4. StageUse' /\ BundleUse'
    BY <1>1, <1>2, <2>1, <2>2, <2>3 DEF StageUse, UsedUpTo, BundleUse, bundleVars
  <2> QED
    BY <1>1, <1>2, <2>1, <2>4
    DEF Use, OptionUse, RestUse, WordsUse, SubcommandUse, TestsUse, Testing
<1>6. CASE EndOfLine
  <2>1. /\ pos > N
        /\ phase' = "required_positionals"
        /\ UNCHANGED <<pos, claims>>
    BY <1>6 DEF EndOfLine, stageVars, history
  <2>2. bundleAt = 1 /\ bundleTotal = 1
    BY <1>1, <2>1 DEF Inv, BundleInv, Use, BundleUse
  <2>3. \A j \in 1..N : claims[j] = 1
    BY <1>1, <1>3, <2>1, <2>2 DEF UsedUpTo
  <2>4. TestsUse' /\ BundleUse'
    BY <1>1, <1>2, <2>1, <2>2, <2>3 DEF TestsUse, AllUsed, BundleUse, bundleVars
  <2> QED
    BY <1>1, <2>1, <2>4 DEF Use, OptionUse, RestUse, StageUse, WordsUse, SubcommandUse
<1> QED
  BY <1>4, <1>5, <1>6

(***************************************************************************)
(* A step that ends the call without a success.                            *)
(***************************************************************************)
LEMMA EndTokens ==
    ASSUME Use, phase' \in {"done", "crashed"}, ~Succeeded', ~overrun',
           UNCHANGED <<inputs, pos, bundleVars>>
    PROVE  Use'
<1>1. BundleUse'
  BY SameLetter DEF Use, BundleUse, bundleVars
<1> QED
  BY <1>1 DEF Use, OptionUse, RestUse, StageUse, WordsUse, SubcommandUse, TestsUse, Testing

LEMMA FailTokens ==
    ASSUME Use, NEW code, Fail(code)
    PROVE  Use'
  BY EndTokens DEF Fail, Succeeded, Use, stageVars, history

LEMMA SubcommandTokens ==
    ASSUME Inv, OutcomeEnds, ~Misaligned, Use,
           EnterSubcommand \/ \E r \in SubReturns : SubcommandReturns(r)
    PROVE  Use'
<1>1. UNCHANGED <<inputs, pos, bundleVars, claims, overrun>>
  BY DEF EnterSubcommand, SubcommandReturns, stageVars, history
<1>2. N' = N /\ P' = P /\ line' = line /\ BundleUse'
  BY <1>1, SameLetter DEF Use, BundleUse, bundleVars, inputs
<1>3. CASE EnterSubcommand
  <2>1. /\ phase = "stage" /\ phase' = "subcommand"
        /\ Tok(pos).kind # "STOP"
        /\ ~parsingOptions \/ Tok(pos).kind = "POSITIONAL"
        /\ line[pos] \in P.commands
        /\ UNCHANGED outcome
    BY <1>3 DEF EnterSubcommand, AtPositional, AtToken, NamesCommand
  <2>2. bundleAt = 1
    BY <2>1 DEF Inv, TypeOK, BundleInv, InBundle
  <2>3. UsedUpTo(pos)
    BY <2>1, <2>2 DEF Use, StageUse
  <2>4. SubcommandUse'
    BY <1>1, <1>2, <2>1, <2>3 DEF SubcommandUse, UsedUpTo
  <2>5. ~Succeeded'
    BY <2>1 DEF OutcomeEnds, Succeeded, outcome
  <2> QED
    BY <1>1, <1>2, <2>1, <2>4, <2>5
    DEF Use, OptionUse, RestUse, StageUse, WordsUse, TestsUse, Testing
<1>4. CASE \E r \in SubReturns : SubcommandReturns(r)
  <2>1. PICK r \in SubReturns : SubcommandReturns(r)
    BY <1>4
  <2>2. CASE r.result = "SUCCESS"
    <3>1. phase = "subcommand" /\ phase' = "required_positionals"
      BY <2>1, <2>2 DEF SubcommandReturns
    <3>2. UsedUpTo(pos) /\ line[pos] \in P.commands
      BY <3>1 DEF Use, SubcommandUse
    <3>3. pos \in Nat /\ N \in Nat
      BY InputsType DEF Inv, TypeOK
    <3>4. AllUsed
      BY <3>2, <3>3 DEF AllUsed, UsedUpTo
    <3>5. TestsUse'
      BY <1>1, <1>2, <3>4 DEF TestsUse, AllUsed
    <3> QED
      BY <1>1, <1>2, <3>1, <3>5
      DEF Use, OptionUse, RestUse, StageUse, WordsUse, SubcommandUse
  <2>3. CASE r.result # "SUCCESS"
    BY <1>1, <2>1, <2>3, EndTokens DEF SubcommandReturns, Succeeded, Use
  <2> QED
    BY <2>2, <2>3
<1> QED
  BY <1>3, <1>4

LEMMA CheckTokens ==
    ASSUME Use,
           \/ CheckRequiredPositionals \/ CheckRequiredOptions \/ CheckPositionalNargs
           \/ CheckRequiredGroups \/ CheckDependencies \/ ApplyDefaults
    PROVE  Use'
<1>1. CASE \E code : Fail(code)
  BY <1>1, FailTokens
<1>2. CASE ~ \E code : Fail(code)
  <2>1. /\ Testing
        /\ phase' \in {"required_options", "positional_nargs", "required_groups",
                       "dependencies", "defaults", "done"}
        /\ UNCHANGED <<inputs, pos, bundleVars, claims, overrun>>
    BY <1>2
    DEF CheckRequiredPositionals, CheckRequiredOptions, CheckPositionalNargs,
        CheckRequiredGroups, CheckDependencies, ApplyDefaults, Pass, Testing,
        stageVars, history
  <2>2. N' = N /\ P' = P /\ line' = line /\ BundleUse'
    BY <2>1, SameLetter DEF Use, BundleUse, bundleVars, inputs
  <2>3. TestsUse'
    BY <2>1, <2>2 DEF Use, TestsUse, AllUsed
  <2> QED
    BY <2>1, <2>2, <2>3
    DEF Use, OptionUse, RestUse, StageUse, WordsUse, SubcommandUse
<1> QED
  BY <1>1, <1>2

LEMMA EndingTokens ==
    ASSUME Inv, OutcomeEnds, ~Misaligned, Use, InformationOption \/ Crash
    PROVE  Use'
<1>1. CASE InformationOption
  BY <1>1, EndTokens DEF InformationOption, Succeeded, Use, stageVars, history
<1>2. CASE Crash
  <2>1. /\ next \in Nat /\ left \in Nat /\ pos \in Nat /\ consumed \in Nat /\ N \in Nat
        /\ next > N
        /\ \/ phase = "option_values" /\ consumed + 1 <= Remaining
           \/ phase = "rest" /\ left >= 1
    BY <1>2, InputsType DEF Inv, TypeOK, WordsInv, Crash, ReadPastEnd
  <2> QED
    BY <2>1 DEF Use, OptionUse, RestUse, Remaining
<1> QED
  BY <1>1, <1>2

-----------------------------------------------------------------------------
LEMMA TokensInit == Init => OutcomeEnds /\ TokensInv
<1> SUFFICES ASSUME Init PROVE OutcomeEnds /\ Use
  BY DEF TokensInv
<1>1. N \in Nat
  BY InitInv, InputsType DEF Inv
<1>2. StageUse
  BY <1>1 DEF Init, StageUse, UsedUpTo, N
<1> QED
  BY <1>2
  DEF Init, OutcomeEnds, Use, BundleUse, OptionUse, RestUse, WordsUse, SubcommandUse,
      TestsUse, Testing, Succeeded

LEMMA TokensNext == Inv /\ OutcomeEnds /\ TokensInv /\ [Next]_vars => TokensInv'
<1> SUFFICES ASSUME Inv, OutcomeEnds, TokensInv, [Next]_vars, ~Misaligned'
             PROVE  Use'
  BY DEF TokensInv
<1>1. ~Misaligned /\ Use
  BY InputsSame, SameAlignment DEF TokensInv
<1>2. CASE \/ AnalyzeRejects \/ UnknownOption \/ ConflictingOption \/ TooManyArguments
           \/ RejectedOption \/ RejectedValue \/ RejectedPositional
  <2>1. \E code : Fail(code)
    BY <1>2 DEF AnalyzeRejects, UnknownOption, ConflictingOption, TooManyArguments,
                RejectedOption, RejectedValue, RejectedPositional
  <2> QED
    BY <1>1, <2>1, FailTokens
<1>3. CASE AnalyzeAccepts \/ StopToken \/ EndOfLine
  BY <1>1, <1>3, StageTokens
<1>4. CASE Option
  BY <1>1, <1>4, OptionTokens
<1>5. CASE OptionWithValues \/ OptionWithRest
  BY <1>1, <1>5, OptionWithWordsTokens
<1>6. CASE NextOptionValue
  BY <1>1, <1>6, NextOptionValueTokens
<1>7. CASE RestWord
  BY <1>1, <1>7, RestWordTokens
<1>8. CASE \/ PositionalRest \/ PositionalValues
           \/ PositionalOneOfMany \/ PositionalSingle
  BY <1>1, <1>8, PositionalTokens
<1>9. CASE NextPositionalValue
  BY <1>1, <1>9, NextPositionalValueTokens
<1>10. CASE EnterSubcommand \/ \E r \in SubReturns : SubcommandReturns(r)
  BY <1>1, <1>10, SubcommandTokens
<1>11. CASE \/ CheckRequiredPositionals \/ CheckRequiredOptions \/ CheckPositionalNargs
            \/ CheckRequiredGroups \/ CheckDependencies \/ ApplyDefaults
  BY <1>1, <1>11, CheckTokens
<1>12. CASE InformationOption \/ Crash
  BY <1>1, <1>12, EndingTokens
<1>13. CASE UNCHANGED vars
  <2>1. UNCHANGED <<inputs, stageVars, bundleVars, loopVars, outcome, phase, claims,
                    overrun>>
    BY <1>13 DEF vars, history
  <2>2. P' = P /\ N' = N /\ line' = line /\ Remaining' = Remaining
        /\ InBundle' = InBundle /\ BundleUse'
    BY <1>1, <2>1, SameLetter DEF Use, BundleUse, stageVars, bundleVars, inputs
  <2>3. OptionUse'
    BY <1>1, <2>1, <2>2
    DEF Use, OptionUse, LetterTakesValue, P, Tok, inputs, stageVars, bundleVars, loopVars
  <2>4. RestUse' /\ StageUse' /\ WordsUse' /\ SubcommandUse' /\ TestsUse'
    BY <1>1, <2>1, <2>2
    DEF Use, RestUse, StageUse, WordsUse, SubcommandUse, TestsUse, AllUsed, Testing,
        UsedUpTo, Succeeded, stageVars, bundleVars, loopVars, outcome
  <2> QED
    BY <1>1, <2>1, <2>2, <2>3, <2>4 DEF Use
<1> QED
  BY <1>2, <1>3, <1>4, <1>5, <1>6, <1>7, <1>8, <1>9, <1>10, <1>11, <1>12, <1>13
  DEF Next, Returned

LEMMA TokensAlways == Spec => [](OutcomeEnds /\ TokensInv)
<1>1. Init => Inv /\ OutcomeEnds /\ TokensInv
  BY InitInv, TokensInit
<1>2. Inv /\ OutcomeEnds /\ TokensInv /\ [Next]_vars => (Inv /\ OutcomeEnds /\ TokensInv)'
  BY NextInv, OutcomeNext, TokensNext
<1> QED
  BY <1>1, <1>2, PTL DEF Spec

(***************************************************************************)
(* No read of parse_single_option or of clap_parse_with_pattern leaves the *)
(* token array, whatever the parser and the line, unless the line is one   *)
(* of those on which an option looks in the wrong place.                   *)
(***************************************************************************)
THEOREM ReadsStayInRange == Spec => []ReadsInRange
<1>1. TokensInv => ReadsInRange
  BY DEF TokensInv, Use, ReadsInRange
<1> QED
  BY <1>1, TokensAlways, PTL

(***************************************************************************)
(* On every such line that is parsed with success, every token was used    *)
(* exactly once, or follows a subcommand's name.                           *)
(***************************************************************************)
THEOREM TokensAreUsedOnce == Spec => []TokensUsedOnce
<1>1. TokensInv => TokensUsedOnce
  BY DEF TokensInv, Use, TestsUse, AllUsed, TokensUsedOnce
<1> QED
  BY <1>1, TokensAlways, PTL

-----------------------------------------------------------------------------
(***************************************************************************)
(* Options come first.  The action property needs to know that the options *)
(* so far have not used a "--" as a value, which would hide it: only the   *)
(* rest of the line goes over one, and then no token is left.              *)
(***************************************************************************)
NoStopBefore(i) == \A j \in 1..(i - 1) : Tok(j).kind # "STOP"

Frontier == IF bundleAt = 1 THEN pos ELSE pos + bundleTotal

OptionsSoFar ==
    /\ \A a \in Positionals : occurrences[a] = 0
    /\ pos <= N => NoStopBefore(pos)
    /\ phase \in {"analyze", "stage"} /\ Frontier <= N => NoStopBefore(Frontier)
    /\ phase = "option_values" => NoStopBefore(next)

FirstInv == parsingOptions /\ ~Misaligned => OptionsSoFar

LEMMA LeaveOptionFirst ==
    ASSUME Inv, NEW c \in Nat \ {0}, LeaveOption(c),
           UNCHANGED <<inputs, parsingOptions>>,
           \A a \in Positionals : occurrences'[a] = 0,
           pos <= N => NoStopBefore(pos),
           Following + c - 1 <= N => NoStopBefore(Following + c - 1)
    PROVE  OptionsSoFar'
<1>1. /\ pos \in Nat \ {0} /\ bundleAt \in Nat \ {0} /\ bundleTotal \in Nat \ {0}
      /\ N \in Nat
  BY InputsType DEF Inv, TypeOK
<1>2. phase' = "stage" /\ N' = N /\ Positionals' = Positionals
  BY DEF LeaveOption, inputs, N, P, Positionals
<1>3. Frontier' = Following + c - 1 /\ pos' \in {pos, Following + c - 1}
  BY <1>1 DEF LeaveOption, Frontier, Following
<1>4. pos' <= N' => NoStopBefore(pos)'
  <2>1. pos' <= N => NoStopBefore(pos')
    BY <1>3
  <2> QED
    BY <1>2, <2>1 DEF NoStopBefore, Tok, inputs
<1>5. Frontier' <= N' => NoStopBefore(Frontier)'
  <2>1. Frontier' <= N => NoStopBefore(Frontier')
    BY <1>3
  <2> QED
    BY <1>2, <2>1 DEF NoStopBefore, Tok, inputs
<1> QED
  BY <1>2, <1>4, <1>5 DEF OptionsSoFar

LEMMA ApplyOptionFirst ==
    ASSUME Inv, ~Misaligned, Use, OptionsSoFar, NEW a \in Arg, ApplyOption(a)
    PROVE  /\ \A b \in Positionals : occurrences'[b] = 0
           /\ pos \in 1..N /\ NoStopBefore(pos)
           /\ LET k == Following + Width(P.spec[a]) - 1
              IN  k \in Nat /\ (k <= N => NoStopBefore(k))
           /\ TakesNext(P.spec[a]) => Following <= N /\ NoStopBefore(Following + 1)
<1> DEFINE arg == P.spec[a]
<1>1. /\ phase = "stage" /\ pos \in 1..N /\ N \in Nat
      /\ Tok(pos).kind # "STOP"
      /\ bundleAt \in Nat \ {0} /\ bundleTotal \in Nat \ {0}
      /\ Following \in Nat
      /\ bundleAt = 1 => Following = pos + 1
      /\ \A i \in 1..N : line[i] \in Word
  BY AcceptedOption, InputsType DEF Inv, TypeOK, Use, BundleUse, Following
<1>2. \A b \in Positionals : occurrences'[b] = 0
  <2>1. a \in Registered(P)
    <3>1. Lookup(P, OptionToken) = a
      BY AcceptedOption
    <3> QED
      BY <3>1, AtomsAssumption, LookupType, InputsType DEF Inv
  <2>2. a \notin Positionals /\ Positionals \subseteq Arg
    BY <2>1, ParsersAssumption, InputsType
    DEF Inv, TypeOK, P, Positionals, PositionalArgs, ParserSpec
  <2>3. occurrences' = [occurrences EXCEPT ![a] = @ + 1] /\ occurrences \in [Arg -> Nat]
    BY DEF ApplyOption, Inv, TypeOK
  <2> QED
    BY <2>2, <2>3 DEF OptionsSoFar
<1>3. NoStopBefore(pos)
  BY <1>1 DEF OptionsSoFar
<1>4. Following <= N => NoStopBefore(Following)
  <2>1. CASE bundleAt = 1
    BY <1>1, <1>3, <2>1 DEF NoStopBefore
  <2>2. CASE bundleAt # 1 /\ Following <= N
    <3>1. Frontier = Following
      BY <2>2 DEF Frontier, Following
    <3> QED
      BY <1>1, <2>2, <3>1 DEF OptionsSoFar
  <2> QED
    BY <2>1, <2>2
<1>5. TakesNext(arg) => Following <= N /\ NoStopBefore(Following + 1)
  <2> SUFFICES ASSUME TakesNext(arg)
               PROVE  Following <= N /\ NoStopBefore(Following + 1)
    OBVIOUS
  <2>1. Following \in 1..N
    BY <1>1 DEF TakesNext, NextIsValue, Following
  <2>2. Tok(Following).kind # "STOP"
    BY <2>1, <1>1, WordsAssumption DEF TakesNext, NextIsValue, Tok
  <2> QED
    BY <1>4, <2>1, <2>2 DEF NoStopBefore
<1>6. LET k == Following + Width(arg) - 1
      IN  k \in Nat /\ (k <= N => NoStopBefore(k))
  <2>1. CASE TakesNext(arg)
    <3>1. Following + Width(arg) - 1 = Following + 1
      BY <1>1, <2>1 DEF Width
    <3> QED
      BY <1>1, <1>5, <2>1, <3>1
  <2>2. CASE ~TakesNext(arg)
    <3>1. Following + Width(arg) - 1 = Following
      BY <1>1, <2>2 DEF Width
    <3> QED
      BY <1>1, <1>4, <3>1
  <2> QED
    BY <2>1, <2>2
<1> QED
  BY <1>1, <1>2, <1>3, <1>5, <1>6

LEMMA FirstNext ==
    Inv /\ TokensInv /\ FirstInv /\ [Next]_vars => FirstInv'
<1> SUFFICES ASSUME Inv, TokensInv, FirstInv, [Next]_vars,
                    parsingOptions', ~Misaligned'
             PROVE  OptionsSoFar'
  BY DEF FirstInv
<1>1. /\ UNCHANGED inputs /\ ~Misaligned /\ Use
      /\ P' = P /\ N' = N /\ Positionals' = Positionals
  BY InputsSame, SameAlignment DEF TokensInv, inputs, P, N, Positionals
<1>2. CASE /\ UNCHANGED <<pos, bundleVars, parsingOptions, occurrences>>
           /\ phase' \in {"analyze", "stage", "option_values"} =>
                 phase \in {"analyze", "stage"} /\ phase' = "stage"
  <2>1. OptionsSoFar
    BY <1>1, <1>2 DEF FirstInv
  <2>2. Frontier' = Frontier
    BY <1>2 DEF Frontier, bundleVars
  <2>3. N \in Nat
    BY InputsType DEF Inv
  <2> QED
    BY <1>1, <1>2, <2>1, <2>2 DEF OptionsSoFar, NoStopBefore, Tok, inputs
<1>3. CASE parsingOptions' = FALSE
  BY <1>3
<1>4. ASSUME NEW a \in Arg, ApplyOption(a)
      PROVE  /\ \A b \in Positionals : occurrences'[b] = 0
             /\ pos \in 1..N /\ NoStopBefore(pos)
             /\ Following + Width(P.spec[a]) - 1 <= N =>
                   NoStopBefore(Following + Width(P.spec[a]) - 1)
             /\ TakesNext(P.spec[a]) => NoStopBefore(Following + 1)
             /\ UNCHANGED parsingOptions
             /\ Width(P.spec[a]) \in {1, 2}
  <2>1. OptionsSoFar
    BY <1>1, <1>4, AcceptedOption DEF FirstInv
  <2>2. Width(P.spec[a]) \in {1, 2} /\ UNCHANGED parsingOptions
    BY <1>4, ApplyOptionStep, OptionValueType, InputsType DEF Inv
  <2> QED
    BY <1>1, <1>4, <2>1, <2>2, ApplyOptionFirst
<1>5. CASE Option
  <2>1. PICK a \in Arg : ApplyOption(a) /\ LeaveOption(Width(P.spec[a]))
    BY <1>5 DEF Option
  <2>2. Width(P.spec[a]) \in Nat \ {0}
    BY DEF Width
  <2> QED
    BY <1>1, <1>4, <2>1, <2>2, LeaveOptionFirst
<1>6. CASE OptionWithValues \/ OptionWithRest
  <2>1. PICK a \in Arg :
           /\ ApplyOption(a)
           /\ pos' = pos
           /\ \/ /\ P.spec[a].nargs > 1
                 /\ phase' = "option_values"
                 /\ next' = Following + 1
              \/ phase' = "rest"
    BY <1>6 DEF OptionWithValues, OptionWithRest
  <2>2. phase' = "option_values" => NoStopBefore(next')
    <3>1. phase' = "option_values" => P.spec[a].nargs > 1 /\ next' = Following + 1
      BY <2>1
    <3>2. P.spec[a].nargs > 1 => TakesNext(P.spec[a])
      BY <1>1, <2>1, AlignedOption DEF Use
    <3> QED
      BY <1>4, <2>1, <3>1, <3>2
  <2> QED
    BY <1>1, <1>4, <2>1, <2>2 DEF OptionsSoFar, NoStopBefore, Tok, inputs
<1>7. CASE NextOptionValue
  <2>1. /\ phase = "option_values"
        /\ OptionValueError(P.spec[current]) = "NONE"
        /\ next' = next + 1
        /\ UNCHANGED <<parsingOptions, occurrences>>
    BY <1>7 DEF NextOptionValue
  <2>2. /\ OptionsSoFar
        /\ bundleTotal = 1 /\ next = pos + consumed
        /\ pos \in 1..N /\ consumed \in Nat \ {0} /\ N \in Nat
    BY <1>1, <2>1, InputsType DEF FirstInv, Use, OptionUse, Inv, TypeOK, OptionInv
  <2>3. next \in 1..N /\ Tok(next).kind # "STOP"
    <3>1. ~(consumed + 1 > Remaining) /\ ~(next <= N /\ Tok(next).kind = "STOP")
      BY <2>1 DEF OptionValueError
    <3> QED
      BY <2>2, <3>1 DEF Remaining
  <2>4. NoStopBefore(next + 1)
    BY <2>1, <2>2, <2>3 DEF OptionsSoFar, NoStopBefore
  <2>5. CASE left = 1
    <3>1. LeaveOption(consumed + 1)
      BY <1>7, <2>5 DEF NextOptionValue
    <3>2. Following + (consumed + 1) - 1 = next + 1 /\ consumed + 1 \in Nat \ {0}
      BY <2>2 DEF Following
    <3> QED
      BY <1>1, <2>1, <2>2, <2>4, <3>1, <3>2, LeaveOptionFirst DEF OptionsSoFar
  <2>6. CASE left # 1
    <3>1. UNCHANGED <<phase, pos>>
      BY <1>7, <2>6 DEF NextOptionValue
    <3> QED
      BY <1>1, <2>1, <2>2, <2>4, <3>1 DEF OptionsSoFar, NoStopBefore, Tok, inputs
  <2> QED
    BY <2>5, <2>6
<1>8. CASE RestWord
  <2>1. phase = "rest" /\ UNCHANGED <<parsingOptions, occurrences>>
    BY <1>8 DEF RestWord
  <2>2. /\ OptionsSoFar
        /\ bundleTotal = 1 /\ consumed = Remaining
        /\ pos \in 1..N /\ consumed \in Nat \ {0} /\ N \in Nat
    BY <1>1, <2>1, InputsType DEF FirstInv, Use, RestUse, Inv, TypeOK, OptionInv
  <2>3. CASE left > 1
    <3>1. UNCHANGED <<phase, pos>>
      BY <1>8, <2>3 DEF RestWord
    <3> QED
      BY <1>1, <2>1, <2>2, <3>1 DEF OptionsSoFar, NoStopBefore, Tok, inputs
  <2>4. CASE ~(left > 1)
    <3>1. LeaveOption(consumed)
      BY <1>8, <2>1, <2>4 DEF RestWord
    <3>2. Following + consumed - 1 = N + 1
      BY <2>2 DEF Following, Remaining
    <3>3. ~(N + 1 <= N)
      BY <2>2
    <3> QED
      BY <1>1, <2>1, <2>2, <3>1, <3>2, <3>3, LeaveOptionFirst DEF OptionsSoFar
  <2> QED
    BY <2>3, <2>4
<1>9. CASE \/ StopToken \/ EnterSubcommand
           \/ PositionalRest \/ PositionalValues
           \/ PositionalOneOfMany \/ PositionalSingle
  BY <1>3, <1>9
  DEF StopToken, EnterSubcommand, PositionalRest, PositionalValues, PositionalOneOfMany,
      PositionalSingle, AcceptPositional
<1>10. CASE NextPositionalValue
  BY <1>3, <1>10 DEF NextPositionalValue, Inv, PositionalInv
<1>11. CASE \E code : Fail(code)
  BY <1>2, <1>11 DEF Fail, stageVars, history
<1>12. CASE AnalyzeAccepts \/ EndOfLine \/ InformationOption \/ Crash
  BY <1>2, <1>12
  DEF AnalyzeAccepts, EndOfLine, InformationOption, Crash, stageVars, history
<1>13. CASE \E r \in SubReturns : SubcommandReturns(r)
  BY <1>2, <1>13 DEF SubcommandReturns, stageVars, history
<1>14. CASE /\ ~ \E code : Fail(code)
            /\ \/ CheckRequiredPositionals \/ CheckRequiredOptions \/ CheckPositionalNargs
               \/ CheckRequiredGroups \/ CheckDependencies \/ ApplyDefaults
  BY <1>2, <1>14
  DEF CheckRequiredPositionals, CheckRequiredOptions, CheckPositionalNargs,
      CheckRequiredGroups, CheckDependencies, ApplyDefaults, Pass, stageVars, history
<1>15. CASE \/ AnalyzeRejects \/ UnknownOption \/ ConflictingOption \/ TooManyArguments
            \/ RejectedOption \/ RejectedValue \/ RejectedPositional
  BY <1>11, <1>15
  DEF AnalyzeRejects, UnknownOption, ConflictingOption, TooManyArguments,
      RejectedOption, RejectedValue, RejectedPositional
<1>16. CASE UNCHANGED vars
  <2>1. UNCHANGED <<phase, pos, bundleVars, parsingOptions, next, occurrences>>
    BY <1>16 DEF vars, stageVars, loopVars, history
  <2>2. OptionsSoFar /\ Frontier' = Frontier
    BY <1>1, <2>1 DEF FirstInv, Frontier, bundleVars
  <2> QED
    BY <1>1, <2>1, <2>2 DEF OptionsSoFar, NoStopBefore, Tok, inputs
<1> QED
  BY <1>5, <1>6, <1>7, <1>8, <1>9, <1>10, <1>11, <1>12, <1>13, <1>14, <1>15, <1>16
  DEF Next, Returned

(***************************************************************************)
(* Only an option that is accepted is taken for one.                       *)
(***************************************************************************)
LEMMA OnlyOptionsAreTaken ==
    ASSUME [Next]_vars, asOption' # asOption
    PROVE  \E a \in Arg : ApplyOption(a)
<1>1. CASE Option \/ OptionWithValues \/ OptionWithRest
  BY <1>1 DEF Option, OptionWithValues, OptionWithRest
<1>2. CASE \/ PositionalRest \/ PositionalValues
           \/ PositionalOneOfMany \/ PositionalSingle
  BY <1>2 DEF PositionalRest, PositionalValues, PositionalOneOfMany, PositionalSingle,
              AcceptPositional
<1>3. CASE \E code : Fail(code)
  BY <1>3 DEF Fail, history
<1>4. CASE \/ AnalyzeRejects \/ UnknownOption \/ ConflictingOption \/ TooManyArguments
           \/ RejectedOption \/ RejectedValue \/ RejectedPositional
  BY <1>3, <1>4
  DEF AnalyzeRejects, UnknownOption, ConflictingOption, TooManyArguments,
      RejectedOption, RejectedValue, RejectedPositional
<1>5. CASE AnalyzeAccepts \/ EndOfLine \/ StopToken \/ InformationOption \/ Crash
  BY <1>5 DEF AnalyzeAccepts, EndOfLine, StopToken, InformationOption, Crash, history
<1>6. CASE NextOptionValue \/ RestWord \/ NextPositionalValue
  BY <1>6 DEF NextOptionValue, RestWord, NextPositionalValue
<1>7. CASE EnterSubcommand \/ \E r \in SubReturns : SubcommandReturns(r)
  BY <1>7 DEF EnterSubcommand, SubcommandReturns, history
<1>8. CASE /\ ~ \E code : Fail(code)
           /\ \/ CheckRequiredPositionals \/ CheckRequiredOptions \/ CheckPositionalNargs
              \/ CheckRequiredGroups \/ CheckDependencies \/ ApplyDefaults
  BY <1>8
  DEF CheckRequiredPositionals, CheckRequiredOptions, CheckPositionalNargs,
      CheckRequiredGroups, CheckDependencies, ApplyDefaults, Pass, history
<1> QED
  BY <1>1, <1>2, <1>3, <1>4, <1>5, <1>6, <1>7, <1>8 DEF Next, Returned, vars, history

LEMMA FirstInit == Init => FirstInv
<1> SUFFICES ASSUME Init PROVE OptionsSoFar
  BY DEF FirstInv
<1>1. Positionals \subseteq Arg
  BY InitInv, InputsType DEF Inv, Positionals, PositionalArgs, ParserSpec
<1> QED
  BY <1>1 DEF Init, OptionsSoFar, NoStopBefore, Frontier

(***************************************************************************)
(* No token after a "--" or after the first positional is taken for an     *)
(* option, on every line where none looks in the wrong place.              *)
(***************************************************************************)
THEOREM OptionsAreFirst == Spec => OptionsComeFirst
<1>1. Init => FirstInv
  BY FirstInit
<1>2. Inv /\ TokensInv /\ FirstInv /\ [Next]_vars => FirstInv'
  BY FirstNext
<1>3. Inv /\ FirstInv /\ [Next]_vars =>
         (asOption' # asOption /\ ~Misaligned =>
            /\ \A a \in Positionals : occurrences[a] = 0
            /\ \A i \in 1..(pos - 1) : Tok(i).kind # "STOP")
  <2> SUFFICES ASSUME Inv, FirstInv, [Next]_vars, asOption' # asOption, ~Misaligned
               PROVE  /\ \A a \in Positionals : occurrences[a] = 0
                      /\ \A i \in 1..(pos - 1) : Tok(i).kind # "STOP"
    OBVIOUS
  <2>1. PICK a \in Arg : ApplyOption(a)
    BY OnlyOptionsAreTaken
  <2> QED
    BY <2>1, AcceptedOption DEF FirstInv, OptionsSoFar, NoStopBefore
<1> QED
  BY <1>1, <1>2, <1>3, Invariance, TokensAlways, PTL DEF Spec, OptionsComeFirst

-----------------------------------------------------------------------------
(***************************************************************************)
(* What a parse makes of the values on the line, for every parser and      *)
(* line: only values among an argument's choices are accepted, and when    *)
(* the parse succeeds, what it requires was given, every dependency is     *)
(* met, and the namespace says what the line said.                         *)
(***************************************************************************)
(***************************************************************************)
(* The arguments of the parser, and the phases in which the words of one   *)
(* of them are being taken: of which one, is known from how each of these  *)
(* loops is entered.  At the first word of a positional the loop is where  *)
(* the parse stage stood, at a word and not at "--".                       *)
(***************************************************************************)
Accepted == Optionals \cup Positionals

TakingWords == phase \in {"option_values", "rest", "positional_values"}

LoopInv ==
    /\ phase = "option_values" => current \in Optionals /\ P.spec[current].nargs > 1
    /\ phase = "rest" =>
          /\ P.spec[current].nargs = REMAINDER
          /\ current \in IF parsingOptions THEN Optionals ELSE Positionals
    /\ phase = "positional_values" =>
          current \in Positionals /\ P.spec[current].nargs > 1
    /\ TakingWords /\ ~parsingOptions =>
          /\ next >= pos
          /\ next = pos => pos <= N /\ Tok(pos).kind # "STOP"

\* No value without an acceptance, no acceptance of an argument not registered.
AcceptInv ==
    /\ \A a \in Arg : occurrences[a] = 0 => given[a] = << >>
    /\ \A a \in Arg \ Accepted : occurrences[a] = 0
    /\ TakingWords => occurrences[current] > 0

-----------------------------------------------------------------------------
(***************************************************************************)
(* The arguments that are looked up or come next are the parser's own.     *)
(***************************************************************************)
LEMMA AcceptedType ==
    ASSUME TypeOK
    PROVE  /\ Accepted \subseteq Arg
           /\ Optionals \cap Positionals = {}
           /\ Accepted = {P.arguments[i] : i \in DOMAIN P.arguments}
<1>1. P \in ParserSpec
  BY InputsType
<1>2. Accepted \subseteq Arg
  BY <1>1 DEF ParserSpec, Accepted, Optionals, Positionals, Registered, PositionalArgs
<1> QED
  BY <1>2, ParsersAssumption DEF TypeOK, P, Accepted, Optionals, Positionals

LEMMA OptionAccepted ==
    ASSUME TypeOK, NEW a \in Arg, ApplyOption(a)
    PROVE  a \in Optionals
<1>1. Lookup(P, OptionToken) = a
  BY DEF ApplyOption, UsableOption, FoundOption
<1>2. a # NoArg /\ a # AmbiguousArg
  BY AtomsAssumption
<1> QED
  BY <1>1, <1>2, InputsType, LookupType DEF Optionals

LEMMA PositionalAccepted ==
    ASSUME TypeOK, NEW a \in Arg, AcceptPositional(a)
    PROVE  a \in Positionals
<1>1. positionalIndex \in Nat /\ positionalIndex < Len(P.positionals)
  BY DEF TypeOK, AcceptPositional, AtPositionalOf
<1>2. P.positionals \in Seq(Arg)
  BY InputsType DEF ParserSpec
<1>3. positionalIndex + 1 \in DOMAIN P.positionals
  BY <1>1, <1>2
<1>4. P.positionals[positionalIndex + 1] = a
  BY DEF AcceptPositional, AtPositionalOf
<1> QED
  BY <1>3, <1>4 DEF Positionals, PositionalArgs

LEMMA LoopSteps ==
    ASSUME [Next]_vars
    PROVE  \/ ~TakingWords'
           \/ UNCHANGED <<inputs, phase, pos, parsingOptions, current, next, occurrences>>
           \/ OptionWithValues \/ OptionWithRest
           \/ NextOptionValue \/ RestWord \/ NextPositionalValue
           \/ PositionalRest \/ PositionalValues
<1> USE DEF TakingWords
<1>1. CASE Option
  BY <1>1 DEF Option, LeaveOption
<1>2. CASE OptionWithValues \/ OptionWithRest \/ PositionalRest \/ PositionalValues
  BY <1>2
<1>3. CASE AnalyzeRejects \/ UnknownOption \/ ConflictingOption \/ TooManyArguments
  BY <1>3 DEF AnalyzeRejects, UnknownOption, ConflictingOption, TooManyArguments, Fail
<1>4. CASE RejectedOption \/ RejectedValue \/ RejectedPositional
  BY <1>4 DEF RejectedOption, RejectedValue, RejectedPositional, Fail
<1>5. CASE AnalyzeAccepts \/ EndOfLine \/ InformationOption \/ Crash
  BY <1>5 DEF AnalyzeAccepts, EndOfLine, InformationOption, Crash
<1>6. CASE StopToken
  BY <1>6 DEF StopToken, AtToken
<1>7. CASE NextOptionValue \/ RestWord \/ NextPositionalValue
  BY <1>7
<1>8. CASE PositionalOneOfMany \/ PositionalSingle
  BY <1>8 DEF PositionalOneOfMany, PositionalSingle, AcceptPositional, AtPositionalOf,
              AtPositional, AtToken
<1>9. CASE EnterSubcommand \/ \E r \in SubReturns : SubcommandReturns(r)
  BY <1>9 DEF EnterSubcommand, SubcommandReturns
<1>10. CASE \/ CheckRequiredPositionals \/ CheckRequiredOptions \/ CheckPositionalNargs
            \/ CheckRequiredGroups \/ CheckDependencies
  BY <1>10 DEF CheckRequiredPositionals, CheckRequiredOptions, CheckPositionalNargs,
               CheckRequiredGroups, CheckDependencies, Pass, Fail
<1>11. CASE ApplyDefaults \/ UNCHANGED vars
  BY <1>11 DEF ApplyDefaults, Fail, vars, inputs, stageVars, loopVars, history
<1> QED
  BY <1>1, <1>2, <1>3, <1>4, <1>5, <1>6, <1>7, <1>8, <1>9, <1>10, <1>11
  DEF Next, Returned

LEMMA LoopNext == Inv /\ LoopInv /\ [Next]_vars => LoopInv'
<1> SUFFICES ASSUME Inv, LoopInv, [Next]_vars PROVE LoopInv'
  OBVIOUS
<1> USE DEF TakingWords
<1>1. CASE ~TakingWords'
  BY <1>1 DEF LoopInv
<1>2. CASE UNCHANGED <<inputs, phase, pos, parsingOptions, current, next, occurrences>>
  BY <1>2 DEF LoopInv, Optionals, Positionals, P, N, Tok, inputs
<1>3. CASE OptionWithValues \/ OptionWithRest
  <2>1. PICK a \in Arg : /\ ApplyOption(a)
                         /\ current' = a
                         /\ \/ phase' = "option_values" /\ P.spec[a].nargs > 1
                            \/ phase' = "rest" /\ TakesRest(P.spec[a])
    BY <1>3 DEF OptionWithValues, OptionWithRest
  <2>2. AtOption /\ UNCHANGED <<inputs, parsingOptions>>
    BY <2>1, ApplyOptionStep
  <2>3. a \in Optionals
    BY <2>1, OptionAccepted DEF Inv
  <2> QED
    BY <2>1, <2>2, <2>3 DEF LoopInv, TakesRest, AtOption, Optionals, P, inputs
<1>4. CASE PositionalRest \/ PositionalValues
  <2>1. PICK a \in Arg : /\ AcceptPositional(a)
                         /\ current' = a /\ next' = pos /\ pos' = pos
                         /\ \/ phase' = "rest" /\ P.spec[a].nargs = REMAINDER
                            \/ phase' = "positional_values" /\ P.spec[a].nargs > 1
    BY <1>4 DEF PositionalRest, PositionalValues, BeginWords
  <2>2. pos \in 1..N /\ parsingOptions' = FALSE /\ UNCHANGED inputs /\ N \in Nat
    BY <2>1, AcceptPositionalStep, InputsType
  <2>3. a \in Positionals /\ Tok(pos).kind # "STOP"
    BY <2>1, PositionalAccepted
    DEF Inv, AcceptPositional, AtPositionalOf, AtPositional
  <2> QED
    BY <2>1, <2>2, <2>3 DEF LoopInv, Positionals, P, N, Tok, inputs
<1>5. CASE (NextOptionValue \/ RestWord \/ NextPositionalValue) /\ TakingWords'
  <2>1. UNCHANGED <<inputs, phase, pos, parsingOptions, current>> /\ next' = next + 1
    BY <1>5 DEF NextOptionValue, RestWord, NextPositionalValue, LeaveOption
  <2>2. pos \in Nat /\ next \in Nat
    BY DEF Inv, TypeOK
  <2> QED
    BY <2>1, <2>2 DEF LoopInv, Optionals, Positionals, P, N, Tok, inputs
<1> QED
  BY <1>1, <1>2, <1>3, <1>4, <1>5, LoopSteps

-----------------------------------------------------------------------------
\* The arguments each of whose values is compared with their choices.
Compared(a) ==
    /\ P.spec[a].choices # {}
    /\ P.spec[a].nargs # REMAINDER
    /\ a \in Positionals => P.spec[a].nargs <= 1

(***************************************************************************)
(* An action that succeeds has compared its value (clap_validate_choice).  *)
(***************************************************************************)
LEMMA ActionCompares ==
    ASSUME NEW arg, NEW w, ActionError(arg, w) = "NONE", w # NoWord
    PROVE  arg.choices = {} \/ w \in arg.choices
  BY DEF ActionError, ChoiceRejects

LEMMA GiveCompared ==
    ASSUME TypeOK, ChoicesKept, NEW a \in Arg, NEW w \in Word \cup {NoWord},
           Give(a, w), parser' = parser,
           Compared(a) /\ w # NoWord => w \in P.spec[a].choices
    PROVE  ChoicesKept'
<1>1. P' = P /\ Optionals' = Optionals /\ Positionals' = Positionals
  BY DEF P, Optionals, Positionals
<1>2. CASE w = NoWord
  BY <1>1, <1>2 DEF Give, ChoicesKept
<1>3. CASE w # NoWord
  <2>1. given' = [given EXCEPT ![a] = Append(given[a], w)]
    BY <1>3 DEF Give
  <2>2. given \in [Arg -> Seq(Word)] /\ given[a] \in Seq(Word) /\ w \in Word
    BY <1>3 DEF TypeOK
  <2> SUFFICES ASSUME NEW b \in Optionals \cup Positionals, Compared(b),
                      NEW i \in DOMAIN given'[b]
               PROVE  given'[b][i] \in P.spec[b].choices
    BY <1>1 DEF ChoicesKept, Compared
  <2>3. \A j \in DOMAIN given[b] : given[b][j] \in P.spec[b].choices
    BY DEF ChoicesKept, Compared
  <2>4. CASE b = a
    <3>1. given'[b] = Append(given[a], w)
      BY <2>1, <2>2, <2>4
    <3>2. CASE i = Len(given[a]) + 1
      BY <1>3, <2>2, <2>4, <3>1, <3>2
    <3>3. CASE i # Len(given[a]) + 1
      <4>1. i \in DOMAIN given[a] /\ Append(given[a], w)[i] = given[a][i]
        BY <2>2, <3>1, <3>3
      <4> QED
        BY <2>3, <2>4, <3>1, <4>1
    <3> QED
      BY <3>2, <3>3
  <2>5. CASE b # a
    <3>1. given'[b] = given[b]
      BY <2>1, <2>2, <2>5
    <3> QED
      BY <2>3, <3>1
  <2> QED
    BY <2>4, <2>5
<1> QED
  BY <1>2, <1>3

LEMMA GivingSteps ==
    ASSUME [Next]_vars
    PROVE  \/ UNCHANGED <<parser, given>>
           \/ \E a \in Arg : ApplyOption(a)
           \/ NextOptionValue \/ RestWord \/ NextPositionalValue
           \/ PositionalOneOfMany \/ PositionalSingle
<1>1. CASE Option \/ OptionWithValues \/ OptionWithRest
  BY <1>1 DEF Option, OptionWithValues, OptionWithRest
<1>2. CASE PositionalRest \/ PositionalValues
  BY <1>2 DEF PositionalRest, PositionalValues, AcceptPositional, BeginWords, inputs
<1>3. CASE AnalyzeRejects \/ UnknownOption \/ ConflictingOption \/ TooManyArguments
  BY <1>3 DEF AnalyzeRejects, UnknownOption, ConflictingOption, TooManyArguments, Fail,
              inputs, history
<1>4. CASE RejectedOption \/ RejectedValue \/ RejectedPositional
  BY <1>4 DEF RejectedOption, RejectedValue, RejectedPositional, Fail, inputs, history
<1>5. CASE AnalyzeAccepts \/ EndOfLine \/ StopToken \/ InformationOption \/ Crash
  BY <1>5 DEF AnalyzeAccepts, EndOfLine, StopToken, InformationOption, Crash,
              inputs, history
<1>6. CASE EnterSubcommand \/ \E r \in SubReturns : SubcommandReturns(r)
  BY <1>6 DEF EnterSubcommand, SubcommandReturns, inputs, history
<1>7. CASE \/ CheckRequiredPositionals \/ CheckRequiredOptions \/ CheckPositionalNargs
           \/ CheckRequiredGroups \/ CheckDependencies
  BY <1>7 DEF CheckRequiredPositionals, CheckRequiredOptions, CheckPositionalNargs,
              CheckRequiredGroups, CheckDependencies, Pass, Fail, inputs, history
<1>8. CASE ApplyDefaults \/ UNCHANGED vars
  BY <1>8 DEF ApplyDefaults, Fail, vars, inputs, history
<1> QED
  BY <1>1, <1>2, <1>3, <1>4, <1>5, <1>6, <1>7, <1>8 DEF Next, Returned

LEMMA ChoicesNext ==
    Inv /\ LoopInv /\ ChoicesKept /\ [Next]_vars => ChoicesKept'
<1> SUFFICES ASSUME Inv, LoopInv, ChoicesKept, [Next]_vars
             PROVE  ChoicesKept'
  OBVIOUS
<1>1. TypeOK
  BY DEF Inv
<1>2. CASE UNCHANGED <<parser, given>>
  BY <1>2 DEF ChoicesKept, Optionals, Positionals, P
<1>3. CASE \E a \in Arg : ApplyOption(a)
  <2>1. PICK a \in Arg : ApplyOption(a)
    BY <1>3
  <2> DEFINE w == OptionValue(P.spec[a])
  <2>2. AtOption /\ parser' = parser
    BY <2>1, ApplyOptionStep DEF inputs
  <2>3. w \in Word \cup {NoWord}
    BY <1>1, <2>2, OptionValueType, InputsType
  <2>4. ActionError(P.spec[a], w) = "NONE"
    BY <2>1 DEF ApplyOption, OptionError
  <2>5. Compared(a) /\ w # NoWord => w \in P.spec[a].choices
    BY <2>4, ActionCompares DEF Compared
  <2>6. Give(a, w)
    BY <2>1 DEF ApplyOption
  <2> QED
    BY <1>1, <2>2, <2>3, <2>5, <2>6, GiveCompared
<1>4. CASE NextOptionValue
  <2> DEFINE w == WordAt(next)
  <2>1. current \in Arg /\ next \in Nat \ {0} /\ parser' = parser
    BY <1>1, <1>4 DEF Inv, TypeOK, WordsInv, NextOptionValue, inputs
  <2>2. w \in Word \cup {NoWord}
    BY <1>1, <2>1, WordAtType
  <2>3. ActionError(P.spec[current], w) = "NONE"
    BY <1>4 DEF NextOptionValue, OptionValueError
  <2>4. Compared(current) /\ w # NoWord => w \in P.spec[current].choices
    BY <2>3, ActionCompares DEF Compared
  <2>5. Give(current, w)
    BY <1>4 DEF NextOptionValue
  <2> QED
    BY <1>1, <2>1, <2>2, <2>4, <2>5, GiveCompared
<1>5. CASE RestWord
  <2> DEFINE w == IF next <= N /\ Tok(next).kind = "STOP" THEN NoWord ELSE WordAt(next)
  <2>1. current \in Arg /\ next \in Nat \ {0} /\ parser' = parser
    BY <1>1, <1>5 DEF Inv, TypeOK, WordsInv, RestWord, inputs
  <2>2. w \in Word \cup {NoWord}
    BY <1>1, <2>1, WordAtType
  <2>3. ~Compared(current)
    BY <1>5 DEF RestWord, LoopInv, Compared
  <2>4. Give(current, w)
    BY <1>5 DEF RestWord
  <2> QED
    BY <1>1, <2>1, <2>2, <2>3, <2>4, GiveCompared
<1>6. CASE NextPositionalValue
  <2>1. current \in Arg /\ next \in 1..N /\ parser' = parser
    BY <1>1, <1>6, InputsType
    DEF Inv, TypeOK, WordsInv, PositionalInv, NextPositionalValue, inputs
  <2>2. line[next] \in Word
    BY <1>1, <2>1, InputsType
  <2>3. P.spec[current].nargs \in Int
    BY <1>1, <2>1, InputsType DEF ArgumentSpec
  <2>4. ~Compared(current)
    BY <1>6, <2>3 DEF NextPositionalValue, LoopInv, Compared
  <2>5. Give(current, line[next])
    BY <1>6 DEF NextPositionalValue
  <2> QED
    BY <1>1, <2>1, <2>2, <2>4, <2>5, GiveCompared
<1>7. CASE PositionalOneOfMany \/ PositionalSingle
  <2>1. PICK a \in Arg : AcceptPositional(a) /\ Give(a, line[pos])
    BY <1>7 DEF PositionalOneOfMany, PositionalSingle
  <2>2. line[pos] \in Word /\ parser' = parser /\ PositionalError(P.spec[a]) = "NONE"
    BY <2>1, AcceptPositionalStep DEF inputs
  <2>3. Compared(a) => line[pos] \in P.spec[a].choices
    BY <2>2 DEF PositionalError, ChoiceRejects, Compared
  <2> QED
    BY <1>1, <2>1, <2>2, <2>3, GiveCompared
<1> QED
  BY <1>2, <1>3, <1>4, <1>5, <1>6, <1>7, GivingSteps

(***************************************************************************)
(* Every value an argument with choices accepts is one of them, for every  *)
(* parser and every line: ChoicesKept names the arguments of which only    *)
(* the first word is compared.                                             *)
(***************************************************************************)
THEOREM ChoicesAreKept == Spec => []ChoicesKept
<1>1. Init => Inv /\ LoopInv /\ ChoicesKept
  <2> SUFFICES ASSUME Init PROVE LoopInv /\ ChoicesKept
    BY InitInv
  <2>1. \A a \in Optionals \cup Positionals : a \in Arg => given[a] = << >>
    BY DEF Init
  <2>2. Optionals \cup Positionals \subseteq Arg
    BY InitInv, InputsType
    DEF Inv, ParserSpec, Optionals, Positionals, Registered, PositionalArgs
  <2> QED
    BY <2>1, <2>2 DEF Init, LoopInv, TakingWords, ChoicesKept
<1>2. Inv /\ LoopInv /\ ChoicesKept /\ [Next]_vars
      => (Inv /\ LoopInv /\ ChoicesKept)'
  BY NextInv, LoopNext, ChoicesNext
<1> QED
  BY <1>1, <1>2, PTL DEF Spec

-----------------------------------------------------------------------------
(***************************************************************************)
(* What the namespace says of the line.  Until the defaults come, a key    *)
(* that one argument owns is in the namespace exactly if the argument was  *)
(* provided, and its entry is made of the values handed over; only between *)
(* the acceptance of a positional of several words and its first word      *)
(* there is nothing yet.  That needs to be known of every argument, also   *)
(* of one that the parser does not have but a dependency names.            *)
(***************************************************************************)
Begun(a) == TakingWords /\ ~parsingOptions /\ current = a /\ next = pos

\* An entry v of an argument accepted n times and given the values g.
StoresValues(a) == P.spec[a].action \in {"STORE", "APPEND", "CUSTOM"}

Present(a, v, g, n) ==
    v.type # "ABSENT" <=> n > 0 /\ (StoresValues(a) => g # << >>)

\* Flags and constants, of which every occurrence sets the entry anew.
Settled(a) ==
    /\ P.spec[a].action \in {"STORE_TRUE", "STORE_FALSE", "STORE_CONST"}
    /\ ~Multiple(P.spec[a]) /\ P.spec[a].nargs # REMAINDER

SettledType(arg) ==
    IF arg.action = "STORE_CONST" THEN Converted(arg.type, arg.const).type ELSE "BOOL"

Kept(a, v, g, n) ==
    /\ ListKept(a) => IF g = << >> THEN v.type = "ABSENT"
                                   ELSE v.type = "ARRAY" /\ v.items = g
    /\ LastKept(a) /\ g # << >> => v = Converted(P.spec[a].type, g[Len(g)])
    /\ Counted(a) /\ n > 0 => v.type = "INT" /\ v.num = n
    /\ Settled(a) /\ n > 0 => v.type = SettledType(P.spec[a])

Entry(a) == ns[P.spec[a].dest]

KeyMatches(a) ==
    /\ Kept(a, Entry(a), given[a], occurrences[a])
    /\ ~Begun(a) => Present(a, Entry(a), given[a], occurrences[a])

KeysMatch ==
    OwnLine /\ phase \notin {"done", "crashed"} =>
        /\ phase # "subcommand"
        /\ \A a \in Arg : OwnsKey(a) => KeyMatches(a)

-----------------------------------------------------------------------------
(***************************************************************************)
(* What an action, or an append of a word as it is, makes of an entry.     *)
(***************************************************************************)
Handed(g, w) == IF w = NoWord THEN g ELSE Append(g, w)

LEMMA HandedLast ==
    ASSUME NEW g \in Seq(Word), NEW w \in Word
    PROVE  /\ Handed(g, w) = Append(g, w)
           /\ Handed(g, w) # << >>
           /\ Handed(g, w)[Len(Handed(g, w))] = w
           /\ g = << >> => Handed(g, w) = <<w>>
<1>1. Handed(g, w) = Append(g, w)
  BY AtomsAssumption DEF Handed
<1>2. Append(g, w) # << >> /\ Append(g, w)[Len(Append(g, w))] = w
  OBVIOUS
<1>3. Append(<< >>, w) = <<w>>
  OBVIOUS
<1> QED
  BY <1>1, <1>2, <1>3

LEMMA ConvertedPresent ==
    ASSUME NEW type, NEW w
    PROVE  Converted(type, w).type # "ABSENT"
  BY DEF Converted, IntValue, FloatValue, BoolValue, StringValue

\* Which of the actions that run without an error set the entry, and to what.
LEMMA AppliedSets ==
    ASSUME NEW a \in Arg, P.spec[a] \in ArgumentSpec, NEW w, NEW old,
           ActionError(P.spec[a], w) = "NONE"
    PROVE  LET arg == P.spec[a]
               new == Applied(arg, w, old)
           IN  /\ StoresValues(a) /\ w = NoWord => new = old
               /\ ~StoresValues(a) \/ w # NoWord => new.type # "ABSENT"
               /\ arg.action = "STORE" /\ w # NoWord => new = Converted(arg.type, w)
               /\ arg.action = "APPEND" /\ w # NoWord => new = Appended(old, w)
               /\ arg.action = "COUNT" =>
                     new = IntValue((IF old.type = "INT" THEN old.num ELSE 0) + 1)
<1> DEFINE arg == P.spec[a]
           new == Applied(arg, w, old)
<1>1. arg.action \in Action
  BY DEF ArgumentSpec
<1>2. arg.action \notin {"HELP", "VERSION"}
  BY DEF ActionError
<1>3. CASE StoresValues(a)
  <2>1. CASE w = NoWord
    BY <1>3, <2>1 DEF StoresValues, Applied
  <2>2. CASE w # NoWord
    BY <1>3, <2>2, ConvertedPresent DEF StoresValues, Applied, Appended, IntValue
  <2> QED
    BY <1>3, <2>1, <2>2 DEF StoresValues
<1>4. CASE arg.action \in {"STORE_CONST", "APPEND_CONST"}
  BY <1>4, ConvertedPresent DEF StoresValues, Applied, Appended
<1>5. CASE arg.action \in {"STORE_TRUE", "STORE_FALSE", "COUNT"}
  BY <1>5 DEF StoresValues, Applied, BoolValue, IntValue
<1> QED
  BY <1>1, <1>2, <1>3, <1>4, <1>5 DEF Action, StoresValues

LEMMA AppliedSettles ==
    ASSUME NEW a \in Arg, NEW w, NEW old, Settled(a)
    PROVE  Applied(P.spec[a], w, old).type = SettledType(P.spec[a])
  BY DEF Settled, SettledType, Applied, BoolValue

(***************************************************************************)
(* An action with the value w keeps the entry in step with the values, now *)
(* accepted m times; the list of an argument that is no APPEND is not      *)
(* written by its action.                                                  *)
(***************************************************************************)
LEMMA AppliedKeeps ==
    ASSUME NEW a \in Arg, P.spec[a] \in ArgumentSpec,
           NEW w \in Word \cup {NoWord}, NEW old \in Value, NEW g \in Seq(Word),
           NEW n \in Nat, NEW m \in Nat \ {0}, n = 0 => g = << >>,
           m = n + 1 \/ (m = n /\ ~Counted(a)),
           ActionError(P.spec[a], w) = "NONE",
           ListKept(a) => P.spec[a].action = "APPEND",
           Kept(a, old, g, n), Present(a, old, g, n)
    PROVE  /\ Kept(a, Applied(P.spec[a], w, old), Handed(g, w), m)
           /\ Present(a, Applied(P.spec[a], w, old), Handed(g, w), m)
<1> DEFINE arg == P.spec[a]
           new == Applied(arg, w, old)
<1>1. /\ StoresValues(a) /\ w = NoWord => new = old
      /\ ~StoresValues(a) \/ w # NoWord => new.type # "ABSENT"
      /\ arg.action = "STORE" /\ w # NoWord => new = Converted(arg.type, w)
      /\ arg.action = "APPEND" /\ w # NoWord => new = Appended(old, w)
      /\ arg.action = "COUNT" =>
            new = IntValue((IF old.type = "INT" THEN old.num ELSE 0) + 1)
      /\ Settled(a) => new.type = SettledType(arg)
  BY AppliedSets, AppliedSettles
<1>2. w = NoWord => Handed(g, w) = g
  BY DEF Handed
<1> HIDE DEF new
<1>3. ListKept(a) => IF Handed(g, w) = << >>
                     THEN new.type = "ABSENT"
                     ELSE new.type = "ARRAY" /\ new.items = Handed(g, w)
  <2> SUFFICES ASSUME ListKept(a)
               PROVE  IF Handed(g, w) = << >>
                      THEN new.type = "ABSENT"
                      ELSE new.type = "ARRAY" /\ new.items = Handed(g, w)
    OBVIOUS
  <2>1. arg.action = "APPEND" /\ StoresValues(a)
    BY DEF StoresValues
  <2>2. IF g = << >> THEN old.type = "ABSENT" ELSE old.type = "ARRAY" /\ old.items = g
    BY DEF Kept
  <2>3. CASE w = NoWord
    BY <1>1, <1>2, <2>1, <2>2, <2>3
  <2>4. CASE w # NoWord
    <3>1. new = Appended(old, w) /\ w \in Word
      BY <1>1, <2>1, <2>4
    <3>2. CASE g = << >>
      BY <2>2, <3>1, <3>2, HandedLast DEF Appended
    <3>3. CASE g # << >>
      BY <2>2, <3>1, <3>3, HandedLast DEF Appended
    <3> QED
      BY <3>2, <3>3
  <2> QED
    BY <2>3, <2>4
<1>4. LastKept(a) /\ Handed(g, w) # << >> =>
          new = Converted(arg.type, Handed(g, w)[Len(Handed(g, w))])
  <2>1. CASE w = NoWord
    BY <1>1, <1>2, <2>1 DEF LastKept, StoresValues, Kept
  <2>2. CASE w # NoWord
    BY <1>1, <2>2, HandedLast DEF LastKept
  <2> QED
    BY <2>1, <2>2
<1>5. Counted(a) => new.type = "INT" /\ new.num = m
  <2> SUFFICES ASSUME Counted(a) PROVE new.type = "INT" /\ new.num = m
    OBVIOUS
  <2>1. arg.action = "COUNT" /\ m = n + 1
    BY DEF Counted
  <2>2. n > 0 => old.type = "INT" /\ old.num = n
    BY DEF Kept
  <2>3. n = 0 => old.type = "ABSENT"
    BY DEF Present
  <2> QED
    BY <1>1, <2>1, <2>2, <2>3 DEF IntValue
<1>6. Present(a, new, Handed(g, w), m)
  <2>1. m > 0
    OBVIOUS
  <2>2. CASE w = NoWord /\ StoresValues(a)
    <3>1. new = old /\ Handed(g, w) = g
      BY <1>1, <1>2, <2>2
    <3>2. old.type # "ABSENT" <=> g # << >>
      BY <2>2 DEF Present
    <3> QED
      BY <2>1, <2>2, <3>1, <3>2 DEF Present
  <2>3. CASE w # NoWord
    <3>1. new.type # "ABSENT" /\ Handed(g, w) # << >>
      BY <1>1, <2>3, HandedLast
    <3> QED
      BY <2>1, <3>1 DEF Present
  <2>4. CASE ~StoresValues(a)
    BY <1>1, <2>1, <2>4 DEF Present
  <2> QED
    BY <2>2, <2>3, <2>4
<1> QED
  BY <1>1, <1>3, <1>4, <1>5, <1>6 DEF Kept, new

\* A word appended as it is, to the list of an argument of several words.
LEMMA AppendedKeeps ==
    ASSUME NEW a \in Arg, NEW w \in Word, NEW old, NEW g \in Seq(Word),
           NEW n \in Nat, NEW m \in Nat \ {0},
           ~LastKept(a), ~Counted(a), ~Settled(a), Kept(a, old, g, n)
    PROVE  /\ Kept(a, Appended(old, w), Handed(g, w), m)
           /\ Present(a, Appended(old, w), Handed(g, w), m)
<1>1. Present(a, Appended(old, w), Handed(g, w), m)
  BY HandedLast DEF Present, Appended
<1>2. ASSUME ListKept(a)
      PROVE  Appended(old, w).type = "ARRAY" /\ Appended(old, w).items = Handed(g, w)
  BY <1>2, HandedLast DEF Kept, Appended
<1> QED
  BY <1>1, <1>2, HandedLast DEF Kept

-----------------------------------------------------------------------------
(***************************************************************************)
(* The steps by what they record: v in the key of c, which has now been    *)
(* accepted m times and given the values g.                                *)
(***************************************************************************)
Records(c, v, g, m) ==
    /\ parser' = parser
    /\ ns' = [ns EXCEPT ![P.spec[c].dest] = v]
    /\ given' = [given EXCEPT ![c] = g]
    /\ occurrences' = [occurrences EXCEPT ![c] = m]

InStep(c) ==
    \E v \in Value, g \in Seq(Word), m \in Nat \ {0} :
        /\ Records(c, v, g, m)
        /\ KeyMatches(c) => Kept(c, v, g, m) /\ (Begun(c)' \/ Present(c, v, g, m))

\* A step on one argument: the one whose words are being taken, if one's are.
RecordsOne ==
    /\ phase \notin {"subcommand", "done", "crashed"} /\ phase' # "subcommand"
    /\ \E c \in Accepted : /\ TakingWords => current = c
                           /\ TakingWords' => current' = c
                           /\ InStep(c)

LEMMA GiveHands ==
    ASSUME TypeOK, NEW a \in Arg, NEW w \in Word \cup {NoWord}, Give(a, w)
    PROVE  /\ given' = [given EXCEPT ![a] = Handed(given[a], w)]
           /\ Handed(given[a], w) \in Seq(Word)
<1>1. given \in [Arg -> Seq(Word)] /\ given[a] \in Seq(Word)
  BY DEF TypeOK
<1>2. CASE w = NoWord
  BY <1>1, <1>2 DEF Give, Handed
<1>3. CASE w # NoWord
  BY <1>1, <1>3 DEF Give, Handed
<1> QED
  BY <1>2, <1>3

LEMMA OptionRecords ==
    ASSUME Inv, AcceptInv, NEW a \in Arg, ApplyOption(a)
    PROVE  a \in Optionals /\ InStep(a)
<1> DEFINE arg == P.spec[a]
           w   == OptionValue(arg)
           v   == Applied(arg, w, ns[arg.dest])
           n   == occurrences[a]
<1>1. TypeOK /\ AtOption /\ UNCHANGED <<inputs, parsingOptions>> /\ arg \in ArgumentSpec
  BY ApplyOptionStep, InputsType DEF Inv
<1>2. a \in Optionals
  BY <1>1, OptionAccepted
<1>3. w \in Word \cup {NoWord} /\ ActionError(arg, w) = "NONE"
  BY <1>1, OptionValueType DEF ApplyOption, OptionError
<1>4. ns[arg.dest] \in Value /\ v \in Value
  BY <1>1, <1>3, EntryType, AppliedType
<1>5. n \in Nat /\ n + 1 \in Nat \ {0} /\ (n = 0 => given[a] = << >>)
  BY <1>1 DEF TypeOK, AcceptInv
<1>6. /\ given' = [given EXCEPT ![a] = Handed(given[a], w)]
      /\ Handed(given[a], w) \in Seq(Word) /\ given[a] \in Seq(Word)
  BY <1>1, <1>3, GiveHands DEF ApplyOption, TypeOK
<1>7. Records(a, v, Handed(given[a], w), n + 1)
  BY <1>1, <1>6 DEF ApplyOption, Records, inputs
<1>8. ListKept(a) => arg.action = "APPEND"
  BY <1>1, <1>2, AcceptedType DEF ListKept
<1>9. ASSUME KeyMatches(a)
      PROVE  /\ Kept(a, v, Handed(given[a], w), n + 1)
             /\ Present(a, v, Handed(given[a], w), n + 1)
  <2>1. ~Begun(a)
    BY <1>1 DEF Begun, TakingWords, AtOption, AtToken
  <2>2. Kept(a, ns[arg.dest], given[a], n) /\ Present(a, ns[arg.dest], given[a], n)
    BY <1>9, <2>1 DEF KeyMatches, Entry
  <2> QED
    BY <1>1, <1>3, <1>4, <1>5, <1>6, <1>8, <2>2, AppliedKeeps
<1> QED
  BY <1>2, <1>4, <1>5, <1>6, <1>7, <1>9 DEF InStep

LEMMA NextOptionValueRecords ==
    ASSUME Inv, AcceptInv, LoopInv, NextOptionValue
    PROVE  InStep(current)
<1> DEFINE arg == P.spec[current]
           w   == WordAt(next)
           v   == Applied(arg, w, ns[arg.dest])
           n   == occurrences[current]
<1>1. /\ TypeOK /\ parser' = parser /\ parsingOptions
      /\ current \in Arg /\ next \in Nat \ {0}
      /\ current \in Optionals /\ arg.nargs > 1
      /\ occurrences' = occurrences
  BY DEF Inv, TypeOK, WordsInv, OptionInv, LoopInv, NextOptionValue, inputs
<1>2. arg \in ArgumentSpec
  BY <1>1, InputsType
<1>3. w \in Word \cup {NoWord} /\ ActionError(arg, w) = "NONE"
  BY <1>1, WordAtType DEF NextOptionValue, OptionValueError
<1>4. ns[arg.dest] \in Value /\ v \in Value
  BY <1>1, <1>2, <1>3, EntryType, AppliedType
<1>5. n \in Nat \ {0}
  BY <1>1 DEF TypeOK, AcceptInv, TakingWords, NextOptionValue
<1>6. /\ given' = [given EXCEPT ![current] = Handed(given[current], w)]
      /\ Handed(given[current], w) \in Seq(Word) /\ given[current] \in Seq(Word)
  BY <1>1, <1>3, GiveHands DEF NextOptionValue, TypeOK
<1>7. Records(current, v, Handed(given[current], w), n)
  BY <1>1, <1>6 DEF NextOptionValue, Records, TypeOK
<1>8. /\ ListKept(current) => arg.action = "APPEND"
      /\ ~Counted(current)
  <2>1. arg.nargs \in Int
    BY <1>2 DEF ArgumentSpec
  <2> QED
    BY <1>1, <2>1, AcceptedType DEF ListKept, Counted
<1>9. ASSUME KeyMatches(current)
      PROVE  /\ Kept(current, v, Handed(given[current], w), n)
             /\ Present(current, v, Handed(given[current], w), n)
  <2>1. ~Begun(current)
    BY <1>1 DEF Begun
  <2>2. /\ Kept(current, ns[arg.dest], given[current], n)
        /\ Present(current, ns[arg.dest], given[current], n)
    BY <1>9, <2>1 DEF KeyMatches, Entry
  <2> QED
    BY <1>1, <1>2, <1>3, <1>4, <1>5, <1>6, <1>8, <2>2, AppliedKeeps
<1> QED
  BY <1>4, <1>5, <1>6, <1>7, <1>9 DEF InStep

\* A word appended, of a loop that takes words as they are or of a '*' positional.
LEMMA AppendRecords ==
    ASSUME TypeOK, NEW a \in Arg, NEW w \in Word, NEW m \in Nat \ {0},
           ~LastKept(a), ~Counted(a), ~Settled(a),
           parser' = parser,
           ns' = [ns EXCEPT ![P.spec[a].dest] = Appended(ns[P.spec[a].dest], w)],
           Give(a, w),
           occurrences' = [occurrences EXCEPT ![a] = m]
    PROVE  InStep(a)
<1> DEFINE old == ns[P.spec[a].dest]
<1>1. old \in Value /\ Appended(old, w) \in Value
  BY EntryType, ConstructorsType
<1>2. /\ given' = [given EXCEPT ![a] = Handed(given[a], w)]
      /\ Handed(given[a], w) \in Seq(Word) /\ given[a] \in Seq(Word)
  BY GiveHands DEF TypeOK
<1>3. Records(a, Appended(old, w), Handed(given[a], w), m)
  BY <1>2 DEF Records
<1>4. occurrences[a] \in Nat
  BY DEF TypeOK
<1>5. ASSUME KeyMatches(a)
      PROVE  /\ Kept(a, Appended(old, w), Handed(given[a], w), m)
             /\ Present(a, Appended(old, w), Handed(given[a], w), m)
  <2>1. Kept(a, old, given[a], occurrences[a])
    BY <1>5 DEF KeyMatches, Entry
  <2> QED
    BY <1>1, <1>2, <1>4, <2>1, AppendedKeeps
<1> QED
  BY <1>1, <1>2, <1>3, <1>5 DEF InStep

\* No word of the rest: "--", or past the end of the line.
LEMMA RestWordRecords ==
    ASSUME Inv, AcceptInv, LoopInv, RestWord
    PROVE  InStep(current)
<1> DEFINE d == P.spec[current].dest
           w == IF next <= N /\ Tok(next).kind = "STOP" THEN NoWord ELSE WordAt(next)
           n == occurrences[current]
<1>1. /\ TypeOK /\ parser' = parser
      /\ current \in Arg /\ next \in Nat \ {0}
      /\ P.spec[current].nargs = REMAINDER
      /\ occurrences' = occurrences
      /\ Give(current, w)
  BY DEF Inv, TypeOK, WordsInv, LoopInv, RestWord, inputs
<1>2. w \in Word \cup {NoWord} /\ P.spec[current] \in ArgumentSpec /\ N \in Nat
  BY <1>1, WordAtType, InputsType
<1>3. n \in Nat \ {0} /\ occurrences' = [occurrences EXCEPT ![current] = n]
  BY <1>1 DEF TypeOK, AcceptInv, TakingWords, RestWord
<1>4. CASE w # NoWord
  <2>1. ns' = [ns EXCEPT ![d] = Appended(ns[d], w)]
    BY <1>4 DEF RestWord
  <2>2. ~LastKept(current) /\ ~Counted(current) /\ ~Settled(current)
    BY <1>1 DEF LastKept, Counted, Settled
  <2> QED
    BY <1>1, <1>2, <1>3, <1>4, <2>1, <2>2, AppendRecords
<1>5. CASE w = NoWord
  <2>1. ns[d] \in Value /\ given[current] \in Seq(Word)
    BY <1>1, EntryType DEF TypeOK
  <2>2. ns' = ns /\ given' = given
    BY <1>1, <1>5 DEF RestWord, Give
  <2>3. Records(current, ns[d], given[current], n)
    BY <1>1, <1>3, <2>2 DEF Records, TypeOK, Namespace
  <2>4. ~Begun(current)
    <3> SUFFICES ASSUME Begun(current) PROVE FALSE
      OBVIOUS
    <3>1. next <= N /\ Tok(next).kind # "STOP"
      BY DEF Begun, LoopInv
    <3>2. line[next] \in Word
      BY <1>1, <1>2, <3>1, InputsType
    <3> QED
      BY <1>5, <3>1, <3>2, AtomsAssumption DEF WordAt
  <2>5. KeyMatches(current) => /\ Kept(current, ns[d], given[current], n)
                               /\ Present(current, ns[d], given[current], n)
    BY <2>4 DEF KeyMatches, Entry
  <2> QED
    BY <1>3, <2>1, <2>3, <2>5 DEF InStep
<1> QED
  BY <1>4, <1>5

LEMMA NextPositionalValueRecords ==
    ASSUME Inv, AcceptInv, LoopInv, NextPositionalValue
    PROVE  InStep(current)
<1> DEFINE d == P.spec[current].dest
<1>1. /\ TypeOK /\ parser' = parser
      /\ current \in Positionals /\ P.spec[current].nargs > 1
      /\ current \in Arg /\ next \in 1..N
      /\ occurrences' = occurrences
  BY InputsType
  DEF Inv, TypeOK, WordsInv, PositionalInv, LoopInv, NextPositionalValue, inputs
<1>2. P.spec[current].nargs \in Int /\ line[next] \in Word
  BY <1>1, InputsType DEF ArgumentSpec
<1>3. /\ occurrences[current] \in Nat \ {0}
      /\ occurrences' = [occurrences EXCEPT ![current] = occurrences[current]]
  BY <1>1 DEF TypeOK, AcceptInv, TakingWords, NextPositionalValue
<1>4. ns' = [ns EXCEPT ![d] = Appended(ns[d], line[next])] /\ Give(current, line[next])
  BY DEF NextPositionalValue
<1>5. ~LastKept(current) /\ ~Counted(current) /\ ~Settled(current)
  BY <1>1, <1>2 DEF LastKept, Counted, Settled, Multiple
<1> QED
  BY <1>1, <1>2, <1>3, <1>4, <1>5, AppendRecords

(***************************************************************************)
(* A positional is accepted: with one word, or with nothing yet.           *)
(***************************************************************************)
LEMMA AcceptRecords ==
    ASSUME Inv, NEW a \in Arg, AcceptPositional(a)
    PROVE  /\ a \in Positionals
           /\ TypeOK /\ parser' = parser /\ P.spec[a] \in ArgumentSpec
           /\ line[pos] \in Word
           /\ occurrences[a] \in Nat /\ occurrences[a] + 1 \in Nat \ {0}
           /\ occurrences' = [occurrences EXCEPT ![a] = occurrences[a] + 1]
           /\ ~TakingWords
<1>1. /\ phase = "stage" /\ TypeOK /\ line[pos] \in Word
      /\ P.spec[a] \in ArgumentSpec /\ parser' = parser
  BY AcceptPositionalStep DEF inputs
<1>2. a \in Positionals
  BY <1>1, PositionalAccepted
<1>3. occurrences[a] \in Nat
  BY <1>1 DEF TypeOK
<1>4. occurrences' = [occurrences EXCEPT ![a] = occurrences[a] + 1]
  BY DEF AcceptPositional
<1> QED
  BY <1>1, <1>2, <1>3, <1>4 DEF TakingWords

LEMMA OneOfManyRecords ==
    ASSUME Inv, PositionalOneOfMany
    PROVE  \E a \in Positionals : InStep(a)
<1>1. PICK a \in Arg :
        /\ AcceptPositional(a)
        /\ P.spec[a].nargs \in {ZERO_OR_MORE, ONE_OR_MORE}
        /\ ns' = [ns EXCEPT ![P.spec[a].dest] = Appended(ns[P.spec[a].dest], line[pos])]
        /\ Give(a, line[pos])
  BY DEF PositionalOneOfMany
<1>2. a \in Positionals
  BY <1>1, AcceptRecords
<1>3. ~LastKept(a) /\ ~Counted(a) /\ ~Settled(a)
  BY <1>1, <1>2 DEF LastKept, Counted, Settled, ListKept, Multiple
<1>4. InStep(a)
  BY <1>1, <1>3, AcceptRecords, AppendRecords
<1> QED
  BY <1>2, <1>4

LEMMA SingleRecords ==
    ASSUME Inv, AcceptInv, PositionalSingle
    PROVE  \E a \in Positionals : InStep(a)
<1>1. PICK a \in Arg :
        /\ AcceptPositional(a)
        /\ P.spec[a].nargs # REMAINDER
        /\ ~Multiple(P.spec[a])
        /\ ns' = [ns EXCEPT ![P.spec[a].dest] =
                      Applied(P.spec[a], line[pos], ns[P.spec[a].dest])]
        /\ Give(a, line[pos])
  BY DEF PositionalSingle
<1> DEFINE arg == P.spec[a]
           w   == line[pos]
           v   == Applied(arg, w, ns[arg.dest])
           n   == occurrences[a]
<1>2. /\ a \in Positionals
      /\ TypeOK /\ parser' = parser /\ arg \in ArgumentSpec
      /\ w \in Word
      /\ n \in Nat /\ n + 1 \in Nat \ {0}
      /\ occurrences' = [occurrences EXCEPT ![a] = n + 1]
      /\ ~TakingWords
  BY <1>1, AcceptRecords
<1>3. ActionError(arg, w) = "NONE"
  BY <1>1, AcceptPositionalStep DEF PositionalError, Multiple
<1>4. ns[arg.dest] \in Value /\ v \in Value
  BY <1>2, <1>3, EntryType, AppliedType
<1>5. /\ given' = [given EXCEPT ![a] = Handed(given[a], w)]
      /\ Handed(given[a], w) \in Seq(Word) /\ given[a] \in Seq(Word)
  BY <1>1, <1>2, GiveHands DEF TypeOK
<1>6. Records(a, v, Handed(given[a], w), n + 1)
  BY <1>1, <1>2, <1>5 DEF Records
<1>7. ListKept(a) => arg.action = "APPEND"
  BY <1>1 DEF ListKept
<1>8. ASSUME KeyMatches(a)
      PROVE  /\ Kept(a, v, Handed(given[a], w), n + 1)
             /\ Present(a, v, Handed(given[a], w), n + 1)
  <2>1. Kept(a, ns[arg.dest], given[a], n) /\ Present(a, ns[arg.dest], given[a], n)
    BY <1>2, <1>8 DEF KeyMatches, Entry, Begun
  <2>2. n = 0 => given[a] = << >>
    BY DEF AcceptInv
  <2> QED
    BY <1>2, <1>3, <1>4, <1>5, <1>7, <2>1, <2>2, AppliedKeeps
<1>9. InStep(a)
  BY <1>2, <1>4, <1>5, <1>6, <1>8 DEF InStep
<1> QED
  BY <1>2, <1>9

LEMMA WordsBeginRecords ==
    ASSUME Inv, PositionalRest \/ PositionalValues
    PROVE  \E a \in Positionals : InStep(a) /\ current' = a
<1>1. PICK a \in Arg :
        /\ AcceptPositional(a)
        /\ P.spec[a].nargs = REMAINDER \/ P.spec[a].nargs > 1
        /\ phase' \in {"rest", "positional_values"}
        /\ current' = a /\ next' = pos
        /\ UNCHANGED <<pos, ns, given>>
  BY DEF PositionalRest, PositionalValues, BeginWords
<1> DEFINE v == ns[P.spec[a].dest]
           n == occurrences[a]
<1>2. /\ a \in Positionals
      /\ TypeOK /\ parser' = parser /\ P.spec[a] \in ArgumentSpec
      /\ n \in Nat /\ n + 1 \in Nat \ {0}
      /\ occurrences' = [occurrences EXCEPT ![a] = n + 1]
  BY <1>1, AcceptRecords
<1>3. v \in Value /\ given[a] \in Seq(Word)
  BY <1>2, EntryType DEF TypeOK
<1>4. Records(a, v, given[a], n + 1)
  BY <1>1, <1>2 DEF Records, TypeOK, Namespace
<1>5. ~Counted(a) /\ ~Settled(a)
  <2>1. P.spec[a].nargs \in Int
    BY <1>2 DEF ArgumentSpec
  <2> QED
    BY <1>1, <2>1 DEF Counted, Settled, Multiple
<1>6. KeyMatches(a) => Kept(a, v, given[a], n + 1)
  BY <1>5 DEF KeyMatches, Kept, Entry
<1>7. Begun(a)'
  <2>1. parsingOptions' = FALSE
    BY <1>1, AcceptPositionalStep
  <2> QED
    BY <1>1, <2>1 DEF Begun, TakingWords
<1>8. InStep(a)
  BY <1>2, <1>3, <1>4, <1>6, <1>7 DEF InStep
<1> QED
  BY <1>1, <1>2, <1>8

(***************************************************************************)
(* The other steps: they leave the entries and what is known of the values *)
(* as they are, or the call is over, or a subcommand's parser takes over.  *)
(***************************************************************************)
Quiet == /\ UNCHANGED <<parser, ns, given, occurrences>>
         /\ phase \notin {"done", "crashed"}
         /\ phase' # "subcommand"
         /\ ~TakingWords /\ ~TakingWords'

Ends == phase' \in {"done", "crashed"} /\ UNCHANGED <<parser, given, occurrences>>

HandsOver == /\ UNCHANGED <<parser, given, occurrences>>
             /\ ~TakingWords'
             /\ phase = "subcommand" \/ P.commands # {}

LEMMA RecordSteps ==
    ASSUME Inv, AcceptInv, LoopInv, [Next]_vars
    PROVE  RecordsOne \/ Quiet \/ Ends \/ HandsOver \/ UNCHANGED vars
<1> USE DEF TakingWords
<1>1. CASE Option \/ OptionWithValues \/ OptionWithRest
  <2>1. PICK a \in Arg :
          /\ ApplyOption(a)
          /\ phase' \in {"stage", "option_values", "rest"}
          /\ phase' # "stage" => current' = a
    BY <1>1 DEF Option, OptionWithValues, OptionWithRest, LeaveOption
  <2>2. phase = "stage"
    BY <2>1, ApplyOptionStep DEF AtOption, AtToken
  <2> QED
    BY <2>1, <2>2, OptionRecords DEF RecordsOne, Accepted
<1>2. CASE NextOptionValue
  <2>1. current \in Optionals /\ phase = "option_values"
    BY <1>2 DEF LoopInv, NextOptionValue
  <2>2. current' = current /\ phase' \in {phase, "stage"}
    BY <1>2 DEF NextOptionValue, LeaveOption
  <2> QED
    BY <1>2, <2>1, <2>2, NextOptionValueRecords DEF RecordsOne, Accepted
<1>3. CASE RestWord
  <2>1. current \in Accepted /\ phase = "rest"
    BY <1>3 DEF LoopInv, RestWord, Accepted
  <2>2. current' = current /\ phase' \in {phase, "stage", "required_positionals"}
    BY <1>3 DEF RestWord, LeaveOption
  <2> QED
    BY <1>3, <2>1, <2>2, RestWordRecords DEF RecordsOne
<1>4. CASE NextPositionalValue
  <2>1. current \in Positionals /\ phase = "positional_values"
    BY <1>4 DEF LoopInv, NextPositionalValue
  <2>2. current' = current /\ phase' \in {phase, "stage"}
    BY <1>4 DEF NextPositionalValue
  <2> QED
    BY <1>4, <2>1, <2>2, NextPositionalValueRecords DEF RecordsOne, Accepted
<1>5. CASE PositionalOneOfMany \/ PositionalSingle
  <2>1. phase = "stage" /\ phase' = "stage"
    BY <1>5 DEF PositionalOneOfMany, PositionalSingle, AcceptPositional, AtPositionalOf,
                AtPositional, AtToken
  <2> QED
    BY <1>5, <2>1, OneOfManyRecords, SingleRecords DEF RecordsOne, Accepted
<1>6. CASE PositionalRest \/ PositionalValues
  <2>1. phase = "stage" /\ phase' \in {"rest", "positional_values"}
    BY <1>6 DEF PositionalRest, PositionalValues, BeginWords, AcceptPositional,
                AtPositionalOf, AtPositional, AtToken
  <2> QED
    BY <1>6, <2>1, WordsBeginRecords DEF RecordsOne, Accepted
<1>7. CASE AnalyzeRejects \/ UnknownOption \/ ConflictingOption \/ TooManyArguments
  BY <1>7 DEF AnalyzeRejects, UnknownOption, ConflictingOption, TooManyArguments, Fail,
              inputs, history, Ends
<1>8. CASE RejectedOption \/ RejectedValue \/ RejectedPositional
  BY <1>8 DEF RejectedOption, RejectedValue, RejectedPositional, Fail, inputs, history,
              Ends
<1>9. CASE InformationOption \/ Crash
  BY <1>9 DEF InformationOption, Crash, inputs, history, Ends
<1>10. CASE AnalyzeAccepts \/ EndOfLine \/ StopToken
  BY <1>10 DEF AnalyzeAccepts, EndOfLine, StopToken, AtToken, inputs, store, history,
               Quiet
<1>11. CASE EnterSubcommand \/ \E r \in SubReturns : SubcommandReturns(r)
  BY <1>11 DEF EnterSubcommand, NamesCommand, SubcommandReturns, inputs, history,
               HandsOver
<1>12. CASE \/ CheckRequiredPositionals \/ CheckRequiredOptions \/ CheckPositionalNargs
            \/ CheckRequiredGroups \/ CheckDependencies
  BY <1>12 DEF CheckRequiredPositionals, CheckRequiredOptions, CheckPositionalNargs,
               CheckRequiredGroups, CheckDependencies, Pass, Fail, inputs, store, history,
               Quiet, Ends
<1>13. CASE ApplyDefaults
  BY <1>13 DEF ApplyDefaults, Fail, inputs, history, Ends
<1> QED
  BY <1>1, <1>2, <1>3, <1>4, <1>5, <1>6, <1>7, <1>8, <1>9, <1>10, <1>11, <1>12, <1>13
  DEF Next, Returned

LEMMA AcceptNext == Inv /\ AcceptInv /\ LoopInv /\ [Next]_vars => AcceptInv'
<1> SUFFICES ASSUME Inv, AcceptInv, LoopInv, [Next]_vars PROVE AcceptInv'
  OBVIOUS
<1>1. CASE RecordsOne
  <2>1. PICK c \in Accepted : (TakingWords' => current' = c) /\ InStep(c)
    BY <1>1 DEF RecordsOne
  <2>2. PICK v \in Value, g \in Seq(Word), m \in Nat \ {0} : Records(c, v, g, m)
    BY <2>1 DEF InStep
  <2>3. /\ occurrences \in [Arg -> Nat] /\ given \in [Arg -> Seq(Word)]
        /\ c \in Arg /\ m # 0
    BY AcceptedType DEF Inv, TypeOK
  <2>4. Accepted' = Accepted
    BY <2>2 DEF Records, Accepted, Optionals, Positionals, P
  <2>5. \A a \in Arg : /\ occurrences'[a] = IF a = c THEN m ELSE occurrences[a]
                       /\ given'[a] = IF a = c THEN g ELSE given[a]
    BY <2>2, <2>3 DEF Records
  <2>6. TakingWords' => occurrences'[current'] > 0
    BY <2>1, <2>3, <2>5
  <2> QED
    BY <2>1, <2>3, <2>4, <2>5, <2>6 DEF AcceptInv
<1>2. CASE Quiet \/ Ends \/ HandsOver
  <2>1. UNCHANGED <<parser, given, occurrences>> /\ ~TakingWords'
    BY <1>2 DEF Quiet, Ends, HandsOver, TakingWords
  <2> QED
    BY <2>1 DEF AcceptInv, Accepted, Optionals, Positionals, P
<1>3. CASE UNCHANGED vars
  BY <1>3 DEF AcceptInv, TakingWords, Accepted, Optionals, Positionals, P, vars, inputs,
              loopVars, history
<1> QED
  BY <1>1, <1>2, <1>3, RecordSteps

(***************************************************************************)
(* A key is judged in the next state as in this one: the parser stays.     *)
(***************************************************************************)
LEMMA SameKeys ==
    ASSUME parser' = parser
    PROVE  /\ P' = P /\ Accepted' = Accepted /\ OwnLine' = OwnLine
           /\ \A a \in Arg : OwnsKey(a)' <=> OwnsKey(a)
  BY DEF P, OwnLine, OwnsKey, Accepted, Optionals, Positionals

LEMMA KeyMatchesNext ==
    ASSUME parser' = parser, NEW a \in Arg, NEW v, NEW g, NEW n,
           ns'[P.spec[a].dest] = v, given'[a] = g, occurrences'[a] = n,
           Kept(a, v, g, n), Begun(a)' \/ Present(a, v, g, n)
    PROVE  KeyMatches(a)'
<1>1. P' = P /\ Positionals' = Positionals
  BY DEF P, Positionals
<1>2. /\ ListKept(a)' <=> ListKept(a)
      /\ LastKept(a)' <=> LastKept(a)
      /\ StoresValues(a)' <=> StoresValues(a)
  BY <1>1 DEF ListKept, LastKept, StoresValues
<1>3. (Counted(a)' <=> Counted(a)) /\ (Settled(a)' <=> Settled(a))
  BY <1>1, <1>2 DEF Counted, Settled
<1>4. Kept(a, Entry(a), given[a], occurrences[a])'
  BY <1>1, <1>2, <1>3 DEF Kept, Entry
<1>5. ~Begun(a)' => Present(a, Entry(a), given[a], occurrences[a])'
  BY <1>1, <1>2 DEF Present, Entry
<1> QED
  BY <1>4, <1>5 DEF KeyMatches

LEMMA KeysNext ==
    Inv /\ AcceptInv /\ LoopInv /\ KeysMatch /\ [Next]_vars => KeysMatch'
<1> SUFFICES ASSUME Inv, AcceptInv, LoopInv, KeysMatch, [Next]_vars,
                    OwnLine', phase' \notin {"done", "crashed"}
             PROVE  /\ phase' # "subcommand"
                    /\ \A a \in Arg : OwnsKey(a)' => KeyMatches(a)'
  BY DEF KeysMatch
<1>1. CASE RecordsOne
  <2>1. PICK c \in Accepted :
          (TakingWords => current = c) /\ (TakingWords' => current' = c) /\ InStep(c)
    BY <1>1 DEF RecordsOne
  <2>2. PICK v \in Value, g \in Seq(Word), m \in Nat \ {0} :
          /\ Records(c, v, g, m)
          /\ KeyMatches(c) => Kept(c, v, g, m) /\ (Begun(c)' \/ Present(c, v, g, m))
    BY <2>1 DEF InStep
  <2>3. /\ parser' = parser /\ OwnLine
        /\ phase \notin {"done", "crashed"} /\ phase' # "subcommand"
    BY <1>1, <2>2, SameKeys DEF Records, RecordsOne
  <2>4. /\ occurrences \in [Arg -> Nat] /\ given \in [Arg -> Seq(Word)]
        /\ ns \in [Dest -> Value]
        /\ c \in Arg /\ \A a \in Arg : P.spec[a].dest \in Dest
    BY AcceptedType, InputsType DEF Inv, TypeOK, Namespace, ArgumentSpec
  <2>5. ASSUME NEW a \in Arg, OwnsKey(a)
        PROVE  KeyMatches(a)'
    <3>1. KeyMatches(a)
      BY <2>3, <2>5 DEF KeysMatch
    <3>2. CASE a = c
      <4>1. ns'[P.spec[c].dest] = v /\ given'[c] = g /\ occurrences'[c] = m
        BY <2>2, <2>4 DEF Records
      <4> QED
        BY <2>2, <2>3, <3>1, <3>2, <4>1, KeyMatchesNext
    <3>3. CASE a # c
      <4>1. P.spec[c].dest # P.spec[a].dest
        BY <2>5, <3>3 DEF OwnsKey, Accepted
      <4>2. /\ ns'[P.spec[a].dest] = ns[P.spec[a].dest]
            /\ given'[a] = given[a] /\ occurrences'[a] = occurrences[a]
        BY <2>2, <2>4, <3>3, <4>1 DEF Records
      <4>3. ~Begun(a)
        BY <2>1, <3>3 DEF Begun
      <4>4. /\ Kept(a, ns[P.spec[a].dest], given[a], occurrences[a])
            /\ Present(a, ns[P.spec[a].dest], given[a], occurrences[a])
        BY <3>1, <4>3 DEF KeyMatches, Entry
      <4> QED
        BY <2>3, <4>2, <4>4, KeyMatchesNext
    <3> QED
      BY <3>2, <3>3
  <2> QED
    BY <2>3, <2>5, SameKeys
<1>2. CASE Quiet
  <2>1. parser' = parser /\ OwnLine /\ phase' # "subcommand"
    BY <1>2, SameKeys DEF Quiet
  <2>2. ASSUME NEW a \in Arg, OwnsKey(a), KeyMatches(a)
        PROVE  KeyMatches(a)'
    <3>1. /\ ns' = ns /\ given' = given /\ occurrences' = occurrences
          /\ ~Begun(a)
      BY <1>2 DEF Quiet, Begun
    <3>2. /\ Kept(a, ns[P.spec[a].dest], given[a], occurrences[a])
          /\ Present(a, ns[P.spec[a].dest], given[a], occurrences[a])
      BY <2>2, <3>1 DEF KeyMatches, Entry
    <3> QED
      BY <2>1, <3>1, <3>2, KeyMatchesNext
  <2>3. phase \notin {"done", "crashed"}
    BY <1>2 DEF Quiet
  <2> QED
    BY <2>1, <2>2, <2>3, SameKeys DEF KeysMatch
<1>3. CASE HandsOver
  <2>1. parser' = parser /\ OwnLine
    BY <1>3, SameKeys DEF HandsOver
  <2> QED
    BY <1>3, <2>1 DEF HandsOver, KeysMatch, OwnLine
<1>4. CASE UNCHANGED vars
  <2>1. UNCHANGED <<parser, phase, pos, parsingOptions, current, next, ns, given,
                    occurrences>>
    BY <1>4 DEF vars, inputs, stageVars, loopVars, store, history
  <2>2. /\ OwnLine /\ phase \notin {"done", "crashed"} /\ phase' # "subcommand"
    BY <2>1, SameKeys DEF KeysMatch
  <2>3. ASSUME NEW a \in Arg, OwnsKey(a)
        PROVE  KeyMatches(a)'
    <3>1. KeyMatches(a)
      BY <2>2, <2>3 DEF KeysMatch
    <3>2. Begun(a)' <=> Begun(a)
      BY <2>1 DEF Begun, TakingWords
    <3> QED
      BY <2>1, <3>1, <3>2, KeyMatchesNext DEF KeyMatches, Entry
  <2> QED
    BY <2>1, <2>2, <2>3, SameKeys
<1> QED
  BY <1>1, <1>2, <1>3, <1>4, RecordSteps DEF Ends

-----------------------------------------------------------------------------
(***************************************************************************)
(* What the tests passed so far say, put in terms of the line.             *)
(***************************************************************************)
After(earlier) ==
    \/ Succeeded
    \/ phase \in {"required_options", "positional_nargs", "required_groups",
                  "dependencies", "defaults"} \ earlier

RequiredOf(S) == \A a \in S : Required(a) /\ OwnsKey(a) => Provided(a)

DependenciesOf ==
    \A a \in Accepted :
        OwnsKey(a) /\ Provided(a) =>
            /\ \A b \in P.spec[a].requires : OwnsKey(b) => Provided(b)
            /\ \A b \in P.spec[a].conflicts : OwnsKey(b) => ~Provided(b)

TestsInv ==
    OwnLine =>
        /\ After({}) => RequiredOf(Positionals)
        /\ After({"required_options"}) => RequiredOf(Optionals)
        /\ After({"required_options", "positional_nargs", "required_groups",
                  "dependencies"}) => DependenciesOf

Late == {"required_options", "positional_nargs", "required_groups", "dependencies",
         "defaults"}

(***************************************************************************)
(* After the parse stage, a key is there exactly if its argument was given. *)
(***************************************************************************)
LEMMA PresentIfProvided ==
    ASSUME TypeOK, KeysMatch, OwnLine, phase \notin {"done", "crashed"}, ~TakingWords,
           NEW a \in Arg, OwnsKey(a)
    PROVE  Has(ns, P.spec[a].dest) <=> Provided(a)
<1>1. Present(a, Entry(a), given[a], occurrences[a])
  BY DEF KeysMatch, KeyMatches, Begun
<1> QED
  BY <1>1 DEF Present, Entry, StoresValues, Has, Provided

LEMMA PositionalsRequired ==
    ASSUME Inv, KeysMatch, OwnLine, phase = "required_positionals",
           \A i \in DOMAIN P.positionals : ~PositionalMissing(P.spec[P.positionals[i]], ns)
    PROVE  RequiredOf(Positionals)
<1> SUFFICES ASSUME NEW a \in Positionals, Required(a), OwnsKey(a)
             PROVE  Provided(a)
  BY DEF RequiredOf
<1>1. TypeOK /\ a \in Arg /\ a \notin Optionals
  BY AcceptedType DEF Inv, Accepted
<1>2. ~PositionalMissing(P.spec[a], ns)
  BY DEF Positionals, PositionalArgs
<1>3. Has(ns, P.spec[a].dest)
  BY <1>1, <1>2 DEF Required, PositionalMissing, IsArray, Has
<1> QED
  BY <1>1, <1>3, PresentIfProvided DEF TakingWords

LEMMA OptionsRequired ==
    ASSUME Inv, KeysMatch, OwnLine, phase = "required_options",
           \A i \in DOMAIN P.optionals : ~OptionMissing(P.spec[P.optionals[i]], ns)
    PROVE  RequiredOf(Optionals)
<1> SUFFICES ASSUME NEW a \in Optionals, Required(a), OwnsKey(a)
             PROVE  Provided(a)
  BY DEF RequiredOf
<1>1. TypeOK /\ a \in Arg
  BY AcceptedType DEF Inv, Accepted
<1>2. ~OptionMissing(P.spec[a], ns)
  BY DEF Optionals, Registered
<1>3. Has(ns, P.spec[a].dest)
  BY <1>2 DEF Required, OptionMissing, IsArray, Has
<1> QED
  BY <1>1, <1>3, PresentIfProvided DEF TakingWords

LEMMA DependenciesHold ==
    ASSUME Inv, KeysMatch, OwnLine, phase = "dependencies", ~DependencyViolated(P, ns)
    PROVE  DependenciesOf
<1> SUFFICES ASSUME NEW a \in Accepted, OwnsKey(a), Provided(a)
             PROVE  /\ \A b \in P.spec[a].requires : OwnsKey(b) => Provided(b)
                    /\ \A b \in P.spec[a].conflicts : OwnsKey(b) => ~Provided(b)
  BY DEF DependenciesOf
<1>1. TypeOK /\ a \in Arg
  BY AcceptedType DEF Inv
<1>2. P.spec[a].requires \subseteq Arg /\ P.spec[a].conflicts \subseteq Arg
  BY <1>1, InputsType DEF ArgumentSpec
<1>3. \A b \in Arg : OwnsKey(b) => (Has(ns, P.spec[b].dest) <=> Provided(b))
  BY <1>1, PresentIfProvided DEF TakingWords
<1>4. PICK i \in DOMAIN P.arguments : P.arguments[i] = a
  BY <1>1, AcceptedType
<1>5. /\ \A b \in P.spec[a].requires : Has(ns, P.spec[b].dest)
      /\ \A b \in P.spec[a].conflicts : ~Has(ns, P.spec[b].dest)
  BY <1>1, <1>3, <1>4 DEF DependencyViolated
<1> QED
  BY <1>2, <1>3, <1>5

(***************************************************************************)
(* No step but the tests comes to the phases behind them, and no step but  *)
(* the last makes the parse succeed.                                       *)
(***************************************************************************)
Before == phase' \notin Late /\ (result' = "SUCCESS" => result = "SUCCESS")
             /\ phase # "done"

LEMMA TestSteps ==
    ASSUME [Next]_vars
    PROVE  \/ Before
           \/ CheckRequiredPositionals \/ CheckRequiredOptions \/ CheckPositionalNargs
           \/ CheckRequiredGroups \/ CheckDependencies \/ ApplyDefaults
           \/ UNCHANGED vars
<1> USE DEF Late, Before
<1>1. CASE Option \/ OptionWithValues \/ OptionWithRest
  BY <1>1 DEF Option, OptionWithValues, OptionWithRest, LeaveOption, ApplyOption,
              UsableOption, FoundOption, AtOption, AtToken, outcome
<1>2. CASE NextOptionValue \/ RestWord \/ NextPositionalValue
  BY <1>2 DEF NextOptionValue, RestWord, NextPositionalValue, LeaveOption, outcome
<1>3. CASE PositionalRest \/ PositionalValues
  BY <1>3 DEF PositionalRest, PositionalValues, BeginWords, AcceptPositional,
              AtPositionalOf, AtPositional, AtToken, outcome
<1>4. CASE PositionalOneOfMany \/ PositionalSingle
  BY <1>4 DEF PositionalOneOfMany, PositionalSingle, AcceptPositional, AtPositionalOf,
              AtPositional, AtToken, outcome
<1>5. CASE AnalyzeRejects \/ UnknownOption \/ ConflictingOption \/ TooManyArguments
  BY <1>5 DEF AnalyzeRejects, UnknownOption, ConflictingOption, TooManyArguments, Fail,
              FoundOption, AtOption, AtPositional, AtToken
<1>6. CASE RejectedOption \/ RejectedValue \/ RejectedPositional
  BY <1>6 DEF RejectedOption, RejectedValue, RejectedPositional, Fail, UsableOption,
              FoundOption, AtOption, AtPositionalOf, AtPositional, AtToken
<1>7. CASE InformationOption \/ Crash
  BY <1>7 DEF InformationOption, Crash, ReadPastEnd, FoundOption, AtOption, AtToken,
              outcome
<1>8. CASE AnalyzeAccepts \/ EndOfLine \/ StopToken
  BY <1>8 DEF AnalyzeAccepts, EndOfLine, StopToken, AtToken, outcome
<1>9. CASE EnterSubcommand \/ \E r \in SubReturns : SubcommandReturns(r)
  BY <1>9 DEF EnterSubcommand, SubcommandReturns, AtPositional, AtToken, outcome
<1> QED
  BY <1>1, <1>2, <1>3, <1>4, <1>5, <1>6, <1>7, <1>8, <1>9 DEF Next, Returned

LEMMA SameTests ==
    ASSUME UNCHANGED <<parser, given, occurrences>>
    PROVE  /\ RequiredOf(Positionals)' <=> RequiredOf(Positionals)
           /\ RequiredOf(Optionals)' <=> RequiredOf(Optionals)
           /\ DependenciesOf' <=> DependenciesOf
  BY DEF RequiredOf, DependenciesOf, Required, Provided, OwnsKey, Accepted, Optionals,
         Positionals, P

LEMMA PassTests ==
    ASSUME NEW there, Pass(there)
    PROVE  UNCHANGED <<parser, given, occurrences, result>> /\ phase' = there
  BY DEF Pass, inputs, history, outcome

LEMMA TestsNext ==
    Inv /\ OutcomeEnds /\ KeysMatch /\ TestsInv /\ [Next]_vars => TestsInv'
<1> SUFFICES ASSUME Inv, OutcomeEnds, KeysMatch, TestsInv, [Next]_vars, OwnLine'
             PROVE  TestsInv'
  BY DEF TestsInv
<1> USE DEF After, Late, Succeeded
<1>1. CASE Before
  BY <1>1 DEF Before, OutcomeEnds, TestsInv
<1>2. CASE phase' = "done" /\ result' = "ERROR"
  BY <1>2 DEF TestsInv
<1>3. ASSUME phase # "done" PROVE result # "SUCCESS"
  BY <1>3 DEF OutcomeEnds
<1>4. CASE CheckRequiredPositionals /\ Pass("required_options")
  <2>1. /\ phase = "required_positionals"
        /\ \A i \in DOMAIN P.positionals :
              ~PositionalMissing(P.spec[P.positionals[i]], ns)
    BY <1>4 DEF CheckRequiredPositionals, Pass, Fail
  <2>2. UNCHANGED <<parser, given, occurrences, result>> /\ phase' = "required_options"
    BY <1>4, PassTests
  <2>3. OwnLine
    BY <2>2, SameKeys
  <2>4. RequiredOf(Positionals)'
    BY <2>1, <2>2, <2>3, PositionalsRequired, SameTests
  <2> QED
    BY <1>3, <2>1, <2>2, <2>4 DEF TestsInv
<1>5. CASE CheckRequiredOptions /\ Pass("positional_nargs")
  <2>1. /\ phase = "required_options"
        /\ \A i \in DOMAIN P.optionals : ~OptionMissing(P.spec[P.optionals[i]], ns)
    BY <1>5 DEF CheckRequiredOptions, Pass, Fail
  <2>2. UNCHANGED <<parser, given, occurrences, result>> /\ phase' = "positional_nargs"
    BY <1>5, PassTests
  <2>3. OwnLine
    BY <2>2, SameKeys
  <2>4. RequiredOf(Optionals)'
    BY <2>1, <2>2, <2>3, OptionsRequired, SameTests
  <2>5. RequiredOf(Positionals)'
    BY <2>1, <2>2, <2>3, SameTests DEF TestsInv
  <2> QED
    BY <1>3, <2>1, <2>2, <2>4, <2>5 DEF TestsInv
<1>6. CASE \/ CheckPositionalNargs /\ Pass("required_groups")
           \/ CheckRequiredGroups /\ Pass("dependencies")
  <2>1. phase \in {"positional_nargs", "required_groups"}
    BY <1>6 DEF CheckPositionalNargs, CheckRequiredGroups
  <2>2. /\ UNCHANGED <<parser, given, occurrences, result>>
        /\ phase' \in {"required_groups", "dependencies"}
    BY <1>6, PassTests
  <2>3. RequiredOf(Positionals)' /\ RequiredOf(Optionals)'
    BY <2>1, <2>2, SameKeys, SameTests DEF TestsInv
  <2> QED
    BY <1>3, <2>1, <2>2, <2>3 DEF TestsInv
<1>7. CASE CheckDependencies /\ Pass("defaults")
  <2>1. phase = "dependencies" /\ ~DependencyViolated(P, ns)
    BY <1>7 DEF CheckDependencies, Pass, Fail
  <2>2. UNCHANGED <<parser, given, occurrences, result>> /\ phase' = "defaults"
    BY <1>7, PassTests
  <2>3. OwnLine
    BY <2>2, SameKeys
  <2>4. DependenciesOf'
    BY <2>1, <2>2, <2>3, DependenciesHold, SameTests
  <2>5. RequiredOf(Positionals)' /\ RequiredOf(Optionals)'
    BY <2>1, <2>2, <2>3, SameTests DEF TestsInv
  <2> QED
    BY <2>2, <2>4, <2>5 DEF TestsInv
<1>8. CASE ApplyDefaults /\ result' = "SUCCESS"
  <2>1. /\ phase = "defaults"
        /\ UNCHANGED <<parser, given, occurrences>>
    BY <1>8 DEF ApplyDefaults, Fail, inputs, history
  <2>2. /\ RequiredOf(Positionals)' /\ RequiredOf(Optionals)' /\ DependenciesOf'
    BY <2>1, SameKeys, SameTests DEF TestsInv
  <2> QED
    BY <2>2 DEF TestsInv
<1>9. CASE UNCHANGED vars
  <2>1. UNCHANGED <<parser, phase, result, given, occurrences>>
    BY <1>9 DEF vars, inputs, outcome, history
  <2> QED
    BY <2>1, SameKeys, SameTests DEF TestsInv
<1> QED
  <2>1. ASSUME NEW code, Fail(code)
        PROVE  phase' = "done" /\ result' = "ERROR"
    BY <2>1 DEF Fail
  <2>2. CASE CheckRequiredPositionals
    BY <1>2, <1>4, <2>1, <2>2 DEF CheckRequiredPositionals
  <2>3. CASE CheckRequiredOptions
    BY <1>2, <1>5, <2>1, <2>3 DEF CheckRequiredOptions
  <2>4. CASE CheckPositionalNargs
    BY <1>2, <1>6, <2>1, <2>4 DEF CheckPositionalNargs
  <2>5. CASE CheckRequiredGroups \/ CheckDependencies
    BY <1>2, <1>6, <1>7, <2>1, <2>5 DEF CheckRequiredGroups, CheckDependencies
  <2>6. CASE ApplyDefaults
    BY <1>2, <1>8, <2>1, <2>6 DEF ApplyDefaults
  <2> QED
    BY <1>1, <1>9, <2>2, <2>3, <2>4, <2>5, <2>6, TestSteps

-----------------------------------------------------------------------------
(***************************************************************************)
(* The defaults fill in what was not given, and nothing else.              *)
(***************************************************************************)
LEMMA DefaultPresent ==
    ASSUME NEW arg
    PROVE  DefaultValue(arg).type # "ABSENT"
<1>1. CASE arg.default # NoWord
  BY <1>1, ConvertedPresent DEF DefaultValue
<1>2. CASE arg.default = NoWord
  BY <1>2 DEF DefaultValue, BoolValue, IntValue
<1> QED
  BY <1>1, <1>2

LEMMA DefaultsFill ==
    ASSUME TypeOK, NEW a \in Accepted, OwnsKey(a), ~Has(ns, P.spec[a].dest)
    PROVE  WithDefaults(P, ns)[P.spec[a].dest].type = "ABSENT" <=> ~HasDefault(P.spec[a])
<1> DEFINE d == P.spec[a].dest
           Holds(i) == i \in Defaulting(P, ns) /\ P.spec[P.arguments[i]].dest = d
<1>1. /\ a \in Arg /\ d \in Dest
      /\ Accepted = {P.arguments[i] : i \in DOMAIN P.arguments}
      /\ DOMAIN P.arguments \subseteq Nat
      /\ \A i \in DOMAIN P.arguments :
            i \in Nat \ {0} /\ 1..(i - 1) \subseteq DOMAIN P.arguments
  BY AcceptedType, InputsType DEF ArgumentSpec, ParserSpec
<1>2. \A i \in DOMAIN P.arguments : P.spec[P.arguments[i]].dest = d <=> P.arguments[i] = a
  BY <1>1 DEF OwnsKey, Accepted
<1>3. CASE HasDefault(P.spec[a])
  <2>1. \E i \in DOMAIN P.arguments : P.arguments[i] = a
    BY <1>1
  <2> DEFINE S == {i \in DOMAIN P.arguments : P.arguments[i] = a}
  <2>2. S \in SUBSET Nat /\ S # {}
    BY <1>1, <2>1
  <2> HIDE DEF S
  <2>3. PICK i \in S : \A j \in S : i <= j
    BY <2>2, LeastNatural
  <2> USE DEF S
  <2>4. Holds(i)
    <3>1. i \in DOMAIN P.arguments /\ P.arguments[i] = a
      BY <2>3
    <3>2. ASSUME NEW j \in 1..(i - 1), P.spec[P.arguments[j]].dest = d
          PROVE  FALSE
      <4>1. j \in DOMAIN P.arguments /\ j \in Nat /\ i \in Nat /\ j < i
        BY <1>1, <3>1, <3>2
      <4>2. j \in S
        BY <1>2, <3>2, <4>1
      <4> QED
        BY <2>3, <4>1, <4>2
    <3> QED
      BY <1>3, <3>1, <3>2 DEF Defaulting
  <2>5. \E i1 \in Defaulting(P, ns) : P.spec[P.arguments[i1]].dest = d
    BY <2>4
  <2>6. PICK e : WithDefaults(P, ns)[d] = DefaultValue(e)
    BY <1>1, <2>5 DEF WithDefaults
  <2> QED
    BY <1>3, <2>6, DefaultPresent
<1>4. CASE ~HasDefault(P.spec[a])
  <2>1. ~ \E i \in Defaulting(P, ns) : P.spec[P.arguments[i]].dest = d
    BY <1>2, <1>4 DEF Defaulting
  <2>2. WithDefaults(P, ns)[d] = ns[d]
    BY <1>1, <2>1 DEF WithDefaults
  <2> QED
    BY <1>4, <2>2 DEF Has
<1> QED
  BY <1>3, <1>4

LEMMA DefaultsMatch ==
    ASSUME Inv, AcceptInv, KeysMatch, OwnLine, phase = "defaults",
           NEW a \in Accepted, OwnsKey(a), NEW v,
           v = WithDefaults(P, ns)[P.spec[a].dest]
    PROVE  IF ~Provided(a)
           THEN v.type = "ABSENT" <=> ~HasDefault(P.spec[a])
           ELSE /\ ListKept(a) => v.type = "ARRAY" /\ v.items = given[a]
                /\ LastKept(a) =>
                      v = Converted(P.spec[a].type, given[a][Len(given[a])])
                /\ Counted(a) => v.type = "INT" /\ v.num = occurrences[a]
<1>1. TypeOK /\ a \in Arg /\ P.spec[a].dest \in Dest
  BY AcceptedType, InputsType DEF Inv, ArgumentSpec
<1>2. Has(ns, P.spec[a].dest) <=> Provided(a)
  BY <1>1, PresentIfProvided DEF TakingWords
<1>3. CASE ~Provided(a)
  BY <1>1, <1>2, <1>3, DefaultsFill
<1>4. CASE Provided(a)
  <2>1. v = ns[P.spec[a].dest] /\ v.type # "ABSENT"
    BY <1>1, <1>2, <1>4, DefaultsKeep DEF Has
  <2>2. Kept(a, v, given[a], occurrences[a])
    BY <1>1, <2>1 DEF KeysMatch, KeyMatches, Entry
  <2>3. occurrences[a] > 0 /\ (LastKept(a) => given[a] # << >>)
    BY <1>4 DEF Provided, LastKept
  <2> QED
    BY <1>4, <2>1, <2>2, <2>3 DEF Kept
<1> QED
  BY <1>3, <1>4

LEMMA MatchNext ==
    Inv /\ OutcomeEnds /\ AcceptInv /\ KeysMatch /\ NamespaceMatchesLine /\ [Next]_vars
    => NamespaceMatchesLine'
<1> SUFFICES ASSUME Inv, OutcomeEnds, AcceptInv, KeysMatch, NamespaceMatchesLine,
                    [Next]_vars, Succeeded', OwnLine'
             PROVE  NamespaceMatchesLine'
  BY DEF NamespaceMatchesLine
<1>1. CASE UNCHANGED vars
  BY <1>1 DEF NamespaceMatchesLine, vars, inputs, store, outcome, history, Succeeded,
              OwnLine, Optionals, Positionals, OwnsKey, Provided, ListKept, LastKept,
              Counted, P
<1>2. CASE ApplyDefaults
  <2>1. /\ phase = "defaults"
        /\ ns' = WithDefaults(P, ns)
        /\ UNCHANGED <<parser, given, occurrences>>
    BY <1>2 DEF ApplyDefaults, Fail, Succeeded, inputs, history
  <2>2. P' = P /\ OwnLine /\ Optionals' = Optionals /\ Positionals' = Positionals
    BY <2>1 DEF P, Optionals, Positionals, OwnLine
  <2>3. /\ \A a : (OwnsKey(a)' <=> OwnsKey(a)) /\ (ListKept(a)' <=> ListKept(a))
                  /\ (LastKept(a)' <=> LastKept(a)) /\ (Provided(a)' <=> Provided(a))
    BY <2>1, <2>2 DEF OwnsKey, ListKept, LastKept, Provided
  <2>4. \A a : Counted(a)' <=> Counted(a)
    BY <2>2, <2>3 DEF Counted
  <2>5. ASSUME NEW a \in Accepted, OwnsKey(a), NEW v, v = ns'[P.spec[a].dest]
        PROVE  IF ~Provided(a)
               THEN v.type = "ABSENT" <=> ~HasDefault(P.spec[a])
               ELSE /\ ListKept(a) => v.type = "ARRAY" /\ v.items = given[a]
                    /\ LastKept(a) =>
                          v = Converted(P.spec[a].type, given[a][Len(given[a])])
                    /\ Counted(a) => v.type = "INT" /\ v.num = occurrences[a]
    BY <2>1, <2>2, <2>5, DefaultsMatch
  <2> QED
    BY <2>1, <2>2, <2>3, <2>4, <2>5 DEF NamespaceMatchesLine, Accepted
<1>3. CASE ~ApplyDefaults /\ ~UNCHANGED vars
  <2>1. Before \/ (phase # "done" /\ result' \in {result, "ERROR"})
    BY <1>3, TestSteps
    DEF CheckRequiredPositionals, CheckRequiredOptions, CheckPositionalNargs,
        CheckRequiredGroups, CheckDependencies, Pass, Fail, outcome
  <2> QED
    BY <2>1 DEF Before, OutcomeEnds, Succeeded
<1> QED
  BY <1>1, <1>2, <1>3

-----------------------------------------------------------------------------
(***************************************************************************)
(* None of the three properties is inductive: they speak of the end, and   *)
(* rest on what holds of every key from the first token on.                *)
(***************************************************************************)
ValuesInv ==
    /\ OutcomeEnds
    /\ LoopInv /\ AcceptInv
    /\ KeysMatch
    /\ TestsInv
    /\ NamespaceMatchesLine

LEMMA ValuesInit == Init => Inv /\ ValuesInv
<1> SUFFICES ASSUME Init PROVE ValuesInv
  BY InitInv
<1>1. /\ phase = "analyze" /\ result = "NONE" /\ error = "NONE"
      /\ \A a \in Arg : occurrences[a] = 0 /\ given[a] = << >>
      /\ ns = NewNamespace
  BY DEF Init
<1>2. OutcomeEnds /\ LoopInv /\ AcceptInv
  BY <1>1 DEF OutcomeEnds, LoopInv, AcceptInv, TakingWords
<1>3. TestsInv /\ NamespaceMatchesLine
  BY <1>1 DEF TestsInv, After, NamespaceMatchesLine, Succeeded
<1>4. ASSUME NEW a \in Arg PROVE KeyMatches(a)
  <2>1. P.spec[a].dest \in Dest
    BY InitInv, InputsType DEF Inv, ArgumentSpec
  <2>2. Entry(a).type = "ABSENT"
    BY <1>1, <2>1 DEF Entry, NewNamespace, Absent
  <2> QED
    BY <1>1, <2>2 DEF KeyMatches, Kept, Present
<1> QED
  BY <1>1, <1>2, <1>3, <1>4 DEF ValuesInv, KeysMatch

LEMMA ValuesInvariance == Spec => [](Inv /\ ValuesInv)
<1>1. Inv /\ ValuesInv /\ [Next]_vars => (Inv /\ ValuesInv)'
  <2> SUFFICES ASSUME Inv, ValuesInv, [Next]_vars PROVE Inv' /\ ValuesInv'
    OBVIOUS
  <2>1. Inv' /\ OutcomeEnds' /\ LoopInv' /\ AcceptInv'
    BY NextInv, OutcomeNext, LoopNext, AcceptNext DEF ValuesInv
  <2>2. KeysMatch' /\ TestsInv' /\ NamespaceMatchesLine'
    BY KeysNext, TestsNext, MatchNext DEF ValuesInv
  <2> QED
    BY <2>1, <2>2 DEF ValuesInv
<1> QED
  BY <1>1, ValuesInit, PTL DEF Spec

(***************************************************************************)
(* What a parse that succeeds requires was on the command line, for every  *)
(* parser and line.                                                        *)
(***************************************************************************)
THEOREM RequiredAreGiven == Spec => []RequiredGiven
<1>1. ValuesInv => RequiredGiven
  BY DEF ValuesInv, TestsInv, After, RequiredOf, RequiredGiven
<1> QED
  BY <1>1, ValuesInvariance, PTL

(***************************************************************************)
(* A parse that succeeds meets every dependency, for every parser and line. *)
(***************************************************************************)
THEOREM DependenciesAreMet == Spec => []DependenciesMet
<1>1. ValuesInv => DependenciesMet
  BY DEF ValuesInv, TestsInv, After, DependenciesOf, Accepted, DependenciesMet
<1> QED
  BY <1>1, ValuesInvariance, PTL

(***************************************************************************)
(* The namespace of a parse that succeeds says what the line said, for     *)
(* every parser and line.                                                  *)
(***************************************************************************)
THEOREM NamespaceIsTheLine == Spec => []NamespaceMatchesLine
<1>1. ValuesInv => NamespaceMatchesLine
  BY DEF ValuesInv
<1> QED
  BY <1>1, ValuesInvariance, PTL
=============================================================================
