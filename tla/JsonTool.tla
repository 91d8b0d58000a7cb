-------------------------------- MODULE JsonTool --------------------------------
(***************************************************************************)
(* The conversions of the jsoncpp copy: json_tool.h and the first part of  *)
(* json_writer.cpp, as functions of their arguments.                       *)
(*                                                                         *)
(* A numeral is its sign and its decimal digits; another text is a         *)
(* sequence of one-character strings, but for the control characters that  *)
(* TLA+ has no escape for: "BS", and those that ControlCode names.         *)
(***************************************************************************)
EXTENDS Integers, Sequences, FiniteSets, SequencesExt

CONSTANTS
  Bytes,        \* of LargestInt and LargestUInt: 8 in the code
  Precision,    \* significant digits of a double: 16 in the code
  CodePoints,   \* unsigned ints given to codePointToUTF8
  ControlCode,  \* the code of each control character that has no letter
  MaxText       \* bound: characters of a text

HexDigit ==
  [d \in 0 .. 15 |->
     <<"0", "1", "2", "3", "4", "5", "6", "7", "8", "9",
       "A", "B", "C", "D", "E", "F">>[d + 1]]

\* The letter of each character that has an escape of its own.
Escape ==
  [c \in {"\"", "\\", "BS", "\f", "\n", "\r", "\t"} |->
     CASE c = "BS" -> "b" [] c = "\f" -> "f" [] c = "\n" -> "n"
       [] c = "\r" -> "r" [] c = "\t" -> "t" [] OTHER -> c]

\* The other control characters, and what escapes are made of.
Control == DOMAIN ControlCode
EscapeChar ==
  {HexDigit[d] : d \in 0 .. 15} \cup {Escape[c] : c \in DOMAIN Escape} \cup {"u"}

ASSUME ToolAssumption ==
  /\ Bytes \in Nat /\ Bytes >= 2
  /\ Precision \in Nat \ {0}
  /\ CodePoints \subseteq Nat
  /\ ControlCode \in [Control -> 1 .. 31]
  /\ \A c, d \in Control : ControlCode[c] = ControlCode[d] => c = d
  /\ Control \cap (DOMAIN Escape \cup EscapeChar) = {}
  /\ MaxText \in Nat

PowerOf256[n \in Nat] == IF n = 0 THEN 1 ELSE 256 * PowerOf256[n - 1]

Modulus == PowerOf256[Bytes]
LargestUInt == 0 .. Modulus - 1
LargestInt  == -(Modulus \div 2) .. Modulus \div 2 - 1

-----------------------------------------------------------------------------
(* Integers. *)

uintToStringBufferSize == 3 * Bytes + 1

uintToString[value \in LargestUInt] ==
  IF value < 10 THEN <<value>>
                ELSE Append(uintToString[value \div 10], value % 10)

SmallestInt == -(Modulus \div 2)

\* -value, which for the smallest LargestInt is undefined.
Negation(value) == IF value = SmallestInt THEN LargestInt ELSE {-value}

\* What the build may make of an int; the conversion to LargestUInt wraps.
valueToString(value) ==
  {[negative |-> value < 0, digits |-> uintToString[v % Modulus]] :
     v \in IF value < 0 THEN Negation(value) ELSE {value}}

-----------------------------------------------------------------------------
(* Code points. *)

codePointToUTF8(cp) ==
  CASE cp <= 127 -> <<cp>>
    [] 127 < cp /\ cp <= 2047 ->
         <<192 + ((cp \div 64) % 32), 128 + (cp % 64)>>
    [] 2047 < cp /\ cp <= 65535 ->
         <<224 + ((cp \div 4096) % 16), 128 + ((cp \div 64) % 64), 128 + (cp % 64)>>
    [] 65535 < cp /\ cp <= 1114111 ->
         <<240 + ((cp \div 262144) % 8), 128 + ((cp \div 4096) % 64),
           128 + ((cp \div 64) % 64), 128 + (cp % 64)>>
    [] OTHER -> <<>>

-----------------------------------------------------------------------------
(* Doubles.  Of the digits only zero and "1", any other, are told apart.   *)

DigitChar == {"0", "1"}

Exponents == {-100, -10} \cup -5 .. Precision \cup {10, 100}

ExponentText(exponent) ==
  <<"e", IF exponent < 0 THEN "-" ELSE "+">> \o
    CASE exponent \in {-100, 100} -> <<"1", "0", "0">>
      [] exponent \in {-10, 10}   -> <<"1", "0">>
      [] OTHER                    -> <<"0", "1">>

\* sprintf("%#.16g") of a number of these digits, the first before the point,
\* times 10^exponent.
FormatDouble(digits, exponent) ==
  CASE exponent < -4 \/ exponent >= Precision ->
         <<digits[1], ".">> \o Tail(digits) \o ExponentText(exponent)
    [] exponent \in 0 .. Precision - 1 ->
         SubSeq(digits, 1, exponent + 1) \o <<".">>
           \o SubSeq(digits, exponent + 2, Precision)
    [] OTHER ->
         <<"0", ".">> \o [k \in 1 .. -exponent - 1 |-> "0"] \o digits

LastNonzero(s) == SelectLastInSeq(s, LAMBDA c : c # "0")

\* The last of the first n characters that is no digit.
LastNondigit(s, n) == SelectLastInSubSeq(s, 1, n, LAMBDA c : c \notin DigitChar)

\* Zeroes at the end are cut, but for one, if a point comes before them.
valueToStringDouble(buffer) ==
  LET last_nonzero == LastNonzero(buffer)
      stop         == LastNondigit(buffer, last_nonzero)
  IN  IF Last(buffer) = "0" /\ stop > 0 /\ buffer[stop] = "."
      THEN SubSeq(buffer, 1, last_nonzero + 1)
      ELSE buffer

-----------------------------------------------------------------------------
(* Strings. *)

isControlCharacter(c) == c \in Control \cup {"BS", "\f", "\n", "\r", "\t"}

containsControlCharacter_Fault(str) == FALSE

containsControlCharacter(str) ==
  \E k \in 1 .. Len(str) : isControlCharacter(str[k])

\* Four hexadecimal digits, in upper case and filled with zeroes.
Hexadecimal(n) ==
  <<HexDigit[(n \div 4096) % 16], HexDigit[(n \div 256) % 16],
    HexDigit[(n \div 16) % 16], HexDigit[n % 16]>>

Escaped(c) ==
  CASE c \in DOMAIN Escape -> <<"\\", Escape[c]>>
    [] isControlCharacter(c) /\ c \notin DOMAIN Escape ->
         <<"\\", "u">> \o Hexadecimal(ControlCode[c])
    [] OTHER -> <<c>>

\* What the first k characters give.
EscapedText(value) ==
  LET upTo[k \in 0 .. Len(value)] ==
        IF k = 0 THEN <<>> ELSE upTo[k - 1] \o Escaped(value[k])
  IN  upTo

valueToQuotedString(value) ==
  LET plain == /\ \A k \in 1 .. Len(value) : value[k] \notin DOMAIN Escape
               /\ ~containsControlCharacter(value)
      body  == IF plain THEN value ELSE EscapedText(value)[Len(value)]
  IN  <<"\"">> \o body \o <<"\"">>

\* A carriage return, with the new-line after it if there is one, is a new-line;
\* what the characters from the k-th on give.
NormalizedFrom(text) ==
  LET from[k \in 1 .. Len(text) + 1] ==
        IF k > Len(text) THEN <<>>
        ELSE IF text[k] = "\r"
        THEN <<"\n">> \o from[IF k < Len(text) /\ text[k + 1] = "\n"
                              THEN k + 2 ELSE k + 1]
        ELSE <<text[k]>> \o from[k + 1]
  IN  from

normalizeEOL(text) == NormalizedFrom(text)[1]

-----------------------------------------------------------------------------
(* One behaviour for each argument. *)

VARIABLE arg

Text(C) == UNION {[1 .. n -> C] : n \in 0 .. MaxText}

JsonToolInit ==
  \/ \E v \in LargestInt \cup LargestUInt : arg = [of |-> "int", value |-> v]
  \/ \E cp \in CodePoints : arg = [of |-> "codepoint", value |-> cp]
  \/ \E d \in [1 .. Precision -> DigitChar], e \in Exponents :
       d[1] = "1" /\ arg = [of |-> "double", value |-> FormatDouble(d, e)]
  \/ \E s \in Text(DOMAIN Escape \cup Control \cup {"u"}) :
       arg = [of |-> "string", value |-> s]
  \/ \E s \in Text({"\r", "\n", "a"}) : arg = [of |-> "comment", value |-> s]

JsonToolSpec == JsonToolInit /\ [][UNCHANGED arg]_arg

-----------------------------------------------------------------------------
(* Properties. *)

\* The number that the first k of some digits stand for.
DecimalOf(digits) ==
  LET upTo[k \in 0 .. Len(digits)] ==
        IF k = 0 THEN 0 ELSE 10 * upTo[k - 1] + digits[k]
  IN  upTo

Decimal(n) == DecimalOf(n.digits)[Len(n.digits)]

(* Every int is written as a numeral that reads as that int, but for the   *)
(* smallest, whose negation is undefined; and whatever becomes of that     *)
(* one, the numeral, with its sign and the null character, fits the buffer *)
(* (the assertion json_writer.cpp:45).                                     *)
IntReadsBack ==
  arg.of = "int" =>
    \A n \in valueToString(arg.value) :
      /\ arg.value # SmallestInt =>
           arg.value = IF n.negative THEN -Decimal(n) ELSE Decimal(n)
      /\ Len(n.digits) + 1 + (IF n.negative THEN 1 ELSE 0)
           <= uintToStringBufferSize

\* The number that the first k bytes of a UTF-8 form stand for.
CodePointOf(bytes) ==
  LET lead == <<0, 192, 224, 240>>
      upTo[k \in 0 .. Len(bytes)] ==
        IF k = 0 THEN 0
        ELSE 64 * upTo[k - 1] + (IF k = 1 THEN bytes[1] - lead[Len(bytes)]
                                          ELSE bytes[k] % 64)
  IN  upTo

(* Every code point is written in the shortest form UTF-8 has for it, and  *)
(* what is no code point as nothing.                                       *)
CodePointReadsBack ==
  arg.of = "codepoint" =>
    LET b == codePointToUTF8(arg.value)
        least == <<0, 128, 2048, 65536>>
    IN  IF arg.value > 1114111 THEN b = <<>>
        ELSE /\ arg.value = CodePointOf(b)[Len(b)]
             /\ arg.value >= least[Len(b)]
             /\ \A k \in 2 .. Len(b) : b[k] \in 128 .. 191

FirstOf(s, a) == SelectInSeq(s, LAMBDA c : c = a)

\* A text of a double as its parts, without the zeroes that end its fraction.
Number(s) ==
  LET point == FirstOf(s, ".")
      e     == FirstOf(s, "e")
      end   == IF e = 0 THEN Len(s) ELSE e - 1
      frac  == SubSeq(s, point + 1, end)
  IN  [whole    |-> SubSeq(s, 1, point - 1),
       fraction |-> SubSeq(frac, 1, LastNonzero(frac)),
       exponent |-> SubSeq(s, end + 1, Len(s))]

(* Cutting zeroes does not change the number, in whatever form it was      *)
(* printed: zeroes of the whole part and of the exponent stay.             *)
CutKeepsNumber ==
  arg.of = "double" => Number(valueToStringDouble(arg.value)) = Number(arg.value)

HexValue(digit) == CHOOSE d \in 0 .. 15 : HexDigit[d] = digit

CodeOf(h, i, j, k) ==
  HexValue(h) * 4096 + HexValue(i) * 256 + HexValue(j) * 16 + HexValue(k)

\* The character whose code four digits of s give, from the k-th on.
CharOfCode(s, k) ==
  CHOOSE c \in Control : ControlCode[c] = CodeOf(s[k], s[k + 1], s[k + 2], s[k + 3])

\* What a reader makes of the k-th and the following characters of a string.
UnescapedFrom(s) ==
  LET from[k \in 1 .. Len(s) + 6] ==
        IF k > Len(s) THEN <<>>
        ELSE IF s[k] # "\\" THEN <<s[k]>> \o from[k + 1]
        ELSE IF s[k + 1] = "u" THEN <<CharOfCode(s, k + 2)>> \o from[k + 6]
        ELSE <<CHOOSE c \in DOMAIN Escape : Escape[c] = s[k + 1]>> \o from[k + 2]
  IN  from

Unescape(s) == UnescapedFrom(s)[1]

(* A quoted string reads as the string, whether it was found to need no    *)
(* escapes or was walked, and holds no control character.                  *)
QuotedReadsBack ==
  arg.of = "string" =>
    LET q == valueToQuotedString(arg.value)
        body == SubSeq(q, 2, Len(q) - 1)
    IN  /\ Unescape(body) = arg.value
        /\ \A k \in 1 .. Len(body) : ~isControlCharacter(body[k])

\* All but the new-lines that follow a carriage return.
Kept(text) == {k \in 1 .. Len(text) :
                 ~(text[k] = "\n" /\ k > 1 /\ text[k - 1] = "\r")}

(* Comments keep their lines: an end of line of any of the three kinds is  *)
(* one new-line, and every other character stays, in its place.            *)
LinesKept ==
  arg.of = "comment" =>
    LET text == arg.value
    IN  /\ Len(normalizeEOL(text)) = Cardinality(Kept(text))
        /\ \A k \in Kept(text) :
             normalizeEOL(text)[Cardinality({j \in Kept(text) : j <= k})] =
               IF text[k] = "\r" THEN "\n" ELSE text[k]

(* Whatever is converted, the result stands for it and for nothing else.   *)
ConversionsReadBack ==
  /\ IntReadsBack /\ CodePointReadsBack /\ CutKeepsNumber
  /\ QuotedReadsBack /\ LinesKept

=============================================================================
