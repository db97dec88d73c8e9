-------------------------------- MODULE Figures --------------------------------
(***************************************************************************)
(* The figures of a report and of the command line: percentages, context   *)
(* windows, costs and prices (tokm-cli/src/output.rs, args.rs).            *)
(***************************************************************************)
EXTENDS Iterators

CONSTANTS
  Decimals,   \* digits after the point of a price: 6
  Divisor,    \* what a cost is divided by: 100_000_000
  MaxNumber,  \* u64::MAX
  Invalid,    \* a price or size that is rejected
  Kilo,       \* the bytes of a K: 1024
  Unlimited   \* MaxFileSize::Unlimited, and the word for it

ASSUME FiguresAssumption == Kilo \in Nat

\* Mutant of Percentages: every share is rounded by itself.
Percentages_rounded(tokens) ==
  LET total == Total(tokens)
  IN  IF total = 0 THEN [i \in DOMAIN tokens |-> 0]
      ELSE [i \in DOMAIN tokens |-> (tokens[i] * 1000 + total \div 2) \div total]

\* allocated_percent_tenths: what the floors leave of 1000 goes, one each, to the
\* greatest remainders, the first of equal ones first.
Percentages(tokens) ==
  LET total == Total(tokens)
      floor(i) == (tokens[i] * 1000) \div total
      remainder(i) == (tokens[i] * 1000) % total
      left == 1000 - Total([i \in DOMAIN tokens |-> floor(i)])
      ahead(i, j) ==
        \/ remainder(j) > remainder(i)
        \/ remainder(j) = remainder(i) /\ j < i
      place(i) == Cardinality({j \in DOMAIN tokens : ahead(i, j)})
  IN  IF total = 0 THEN [i \in DOMAIN tokens |-> 0]
      ELSE [i \in DOMAIN tokens |-> floor(i) + (IF place(i) < left THEN 1 ELSE 0)]

SaturatingSub(a, b) == IF a > b THEN a - b ELSE 0

\* Mutant of ContextComparison: the exceeded tokens are those that remain.
ContextComparison_swapped(tokens, window) ==
  [percent   |-> (tokens * 1000 + window \div 2) \div window,
   remaining |-> SaturatingSub(tokens, window),
   exceeded  |-> SaturatingSub(window, tokens)]

\* ContextComparison::new
ContextComparison(tokens, window) ==
  [percent   |-> (tokens * 1000 + window \div 2) \div window,
   remaining |-> SaturatingSub(window, tokens),
   exceeded  |-> SaturatingSub(tokens, window)]

\* Mutant of CostEstimate: a half is rounded down.
CostEstimate_truncated(tokens, price) == (tokens * price) \div Divisor

\* CostEstimate::new, in the last digit shown.
CostEstimate(tokens, price) ==
  LET numerator == tokens * price
  IN  numerator \div Divisor + (IF numerator % Divisor >= Divisor \div 2 THEN 1 ELSE 0)

-----------------------------------------------------------------------------
(* Prices and sizes.  A text is a sequence of digits, points and letters, the *)
(* letters of units in either case being one.                                 *)

Point == 10
Letter == 11    \* none of those of units
LetterB == 12
LetterI == 13

\* str::parse::<u64> of digits.
Number(digits) == FoldLeft(LAMBDA number, digit : number * 10 + digit, 0, digits)

\* split_once('.')
Whole(text) ==
  IF Point \in ToSet(text)
  THEN SubSeq(text, 1, (CHOOSE i \in DOMAIN text :
                          text[i] = Point /\ Point \notin ToSet(SubSeq(text, 1, i - 1))) - 1)
  ELSE text
Fraction(text) == SubSeq(text, Len(Whole(text)) + 2, Len(text))

\* Mutant of ParsePrice: the fraction is not brought to the last digit.
ParsePrice_unscaled(text) ==
  LET price == Number(Whole(text)) * 10 ^ Decimals + Number(Fraction(text))
  IN  IF \/ Whole(text) = <<>>
         \/ ~ (ToSet(Whole(text)) \cup ToSet(Fraction(text)) \subseteq 0 .. 9)
         \/ Len(Fraction(text)) > Decimals
         \/ price > MaxNumber
      THEN Invalid
      ELSE price

\* parse_price: in units of the last digit.
ParsePrice(text) ==
  LET price == Number(Whole(text)) * 10 ^ Decimals
                 + Number(Fraction(text)) * 10 ^ (Decimals - Len(Fraction(text)))
  IN  IF \/ Whole(text) = <<>>
         \/ ~ (ToSet(Whole(text)) \cup ToSet(Fraction(text)) \subseteq 0 .. 9)
         \/ Len(Fraction(text)) > Decimals
         \/ price > MaxNumber
      THEN Invalid
      ELSE price

\* The digits of a number, at least width of them.
Digits(number, width) ==
  LET count == CHOOSE n \in 1 .. 12 :
                 /\ n >= width /\ number < 10 ^ n
                 /\ n = 1 \/ n = width \/ number >= 10 ^ (n - 1)
  IN  [i \in 1 .. count |-> (number \div 10 ^ (count - i)) % 10]

\* format_input_price: the fraction without trailing zeros.
FormatPrice(price) ==
  LET whole == Digits(price \div 10 ^ Decimals, 1)
      fraction == Digits(price % 10 ^ Decimals, Decimals)
      kept == CHOOSE n \in 1 .. Decimals :
                /\ fraction[n] # 0
                /\ \A i \in n + 1 .. Decimals : fraction[i] = 0
  IN  IF price % 10 ^ Decimals = 0 THEN whole
      ELSE whole \o <<Point>> \o SubSeq(fraction, 1, kept)

\* The letters of K, M and G, and how their powers of Kilo are spelled.
UnitLetter == <<14, 15, 16>>
Multiplier(power) == <<1, Kilo, Kilo * Kilo, Kilo * Kilo * Kilo>>[power + 1]
Spellings(power) ==
  IF power = 0 THEN {<<>>, <<LetterB>>}
  ELSE LET unit == UnitLetter[power]
       IN  {<<unit>>, <<unit, LetterB>>, <<unit, LetterI, LetterB>>}

\* split_at the first character that is no digit.
NumberPart(text) ==
  LET first == SelectInSeq(text, LAMBDA character : character \notin 0 .. 9)
  IN  IF first = 0 THEN text ELSE SubSeq(text, 1, first - 1)
Suffix(text) == SubSeq(text, Len(NumberPart(text)) + 1, Len(text))

\* parse_file_size: a number of bytes that fits, or Unlimited.
ParseFileSize(text) ==
  IF text = Unlimited THEN Unlimited
  ELSE LET powers == {power \in 0 .. 3 : Suffix(text) \in Spellings(power)}
           sizes == {Number(NumberPart(text)) * Multiplier(power) : power \in powers}
       IN  IF NumberPart(text) # <<>> /\ \E bytes \in sizes : bytes =< MaxNumber
           THEN CHOOSE bytes \in sizes : bytes =< MaxNumber
           ELSE Invalid
=============================================================================
