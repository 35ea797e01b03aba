------------------------------- MODULE Format -------------------------------
(***************************************************************************)
(* The conversions of lib/stdio.c: what __vprintf hands to its output       *)
(* function, character by character, for a format and its arguments. A      *)
(* string is a sequence of characters without its terminator. A loop is a   *)
(* recursive function over positions or values.                             *)
(*                                                                          *)
(* An integer argument is the integer whose two's complement the register   *)
(* holds. The types are narrower than on the machine (TLC's integers have   *)
(* 32 bits). A double is given in eighths, which the machine holds exactly. *)
(***************************************************************************)
EXTENDS Integers, SequencesExt

CONSTANTS
  CharBits, ShortBits, IntBits,
  LongBits,    \* long, long long, intmax_t, ptrdiff_t, size_t and pointers
  NULL         \* a null string

ASSUME FormatAssumption ==
  /\ {CharBits, ShortBits, IntBits, LongBits} \subseteq Nat \ {0}
  /\ CharBits <= ShortBits /\ ShortBits <= IntBits /\ IntBits <= LongBits
  /\ LongBits < 31

NUL == "NUL"

MINUS == "-"
PLUS == "+"
SPACE == " "
POUND == "#"
ZERO == "0"
GROUP == "'"
Flags == {MINUS, PLUS, SPACE, POUND, ZERO, GROUP}

Digits == <<"0", "1", "2", "3", "4", "5", "6", "7", "8", "9">>
base_d == [base |-> 10, digits |-> Digits, x |-> <<>>, group |-> 3]
base_o == [base |-> 8, digits |-> Digits, x |-> <<>>, group |-> 3]
base_x == [base |-> 16, digits |-> Digits \o <<"a", "b", "c", "d", "e", "f">>,
           x |-> <<"0", "x">>, group |-> 4]
base_X == [base |-> 16, digits |-> Digits \o <<"A", "B", "C", "D", "E", "F">>,
           x |-> <<"0", "X">>, group |-> 4]

BufferSize == 64    \* format_integer's buf
DEFAULT_FLOAT_PRECISION == 6
MAX_FLOAT_PRECISION == 9

Bits == [hh |-> CharBits, h |-> ShortBits, int |-> IntBits, j |-> LongBits, l |-> LongBits,
         ll |-> LongBits, t |-> LongBits, z |-> LongBits]

(* What the casts and va_arg make of an argument.                           *)
Unsigned(value, type) == value % (2 ^ Bits[type])
Signed(value, type) ==
  LET u == Unsigned(value, type) IN IF 2 * u >= 2 ^ Bits[type] THEN u - 2 ^ Bits[type] ELSE u

Magnitude(v) == IF v < 0 THEN -v ELSE v
AtLeast(n, m) == IF n < m THEN m ELSE n
AtMost(n, m) == IF n > m THEN m ELSE n

----------------------------------------------------------------------------
output_dup(ch, cnt) == [i \in 1 .. cnt |-> ch]

(* Digits from the last to the first, a comma in front of each full group.  *)
AccumulatedDigits(value, b, c) ==
  LET rest[v \in Nat, digit_cnt \in Nat] ==
        IF v = 0 THEN <<>>
        ELSE rest[v \div b.base, digit_cnt + 1]
               \o <<b.digits[(v % b.base) + 1]>>
               \o (IF GROUP \in c.flags /\ digit_cnt > 0 /\ digit_cnt % b.group = 0
                   THEN <<",">> ELSE <<>>)
  IN  rest[value, 0]

(* Takes a precision that is not given for one of 0.                        *)
RenderedPrecision_zero(c) == IF c.precision < 0 THEN 0 ELSE c.precision

RenderedPrecision(c) == IF c.precision < 0 THEN 1 ELSE c.precision

(* The precision counts characters, those commas included.                  *)
WithZeros(digits, c) ==
  output_dup("0", AtLeast(AtMost(RenderedPrecision(c), BufferSize - 1) - Len(digits), 0))
    \o digits

WithOctalZero(number, b, c) ==
  IF POUND \in c.flags /\ b.base = 8 /\ (number = <<>> \/ Head(number) # "0")
  THEN <<"0">> \o number ELSE number

RenderedDigits(value, b, c) ==
  WithOctalZero(WithZeros(AccumulatedDigits(value, b, c), c), b, c)

SignOf(is_signed, negative, c) ==
  CASE ~ is_signed -> <<>>
    [] is_signed /\ negative -> <<"-">>
    [] is_signed /\ ~ negative /\ PLUS \in c.flags -> <<"+">>
    [] is_signed /\ ~ negative /\ PLUS \notin c.flags /\ SPACE \in c.flags -> <<" ">>
    [] OTHER -> <<>>

PrefixOf(value, b, c) == IF POUND \in c.flags /\ value # 0 THEN b.x ELSE <<>>

(* The field with its pads, any of the three.                               *)
Padded(sign, x, number, c) ==
  LET pad_cnt == AtLeast(c.width - Len(number) - Len(x) - Len(sign), 0)
      pad(ch, wanted) == IF wanted THEN output_dup(ch, pad_cnt) ELSE <<>>
  IN  pad(" ", {MINUS, ZERO} \cap c.flags = {}) \o sign \o x
        \o pad("0", ZERO \in c.flags) \o number \o pad(" ", MINUS \in c.flags)

format_integer(value, is_signed, negative, b, c) ==
  Padded(SignOf(is_signed, negative, c), PrefixOf(value, b, c), RenderedDigits(value, b, c), c)

format_string(string, c) ==
  LET pad == output_dup(" ", AtLeast(c.width - Len(string), 0)) IN
  IF MINUS \in c.flags THEN string \o pad ELSE pad \o string

(* The first decimals of a number of eighths; an eighth is 0.125.           *)
Decimals(d, precision) ==
  IF precision < 3 THEN ((d % 8) * 10 ^ precision) \div 8
  ELSE (d % 8) * 125 * 10 ^ (precision - 3)

(* The whole part and then the decimals, as integers, with the same width   *)
(* and flags. powers[0] is 0.                                               *)
format_float(eighths, c) ==
  LET precision == IF c.precision < 0 THEN DEFAULT_FLOAT_PRECISION
                   ELSE AtMost(c.precision, MAX_FLOAT_PRECISION)
      d == Magnitude(eighths)
      rest == IF precision = 0 THEN 0 ELSE Decimals(d, precision)
  IN  format_integer(d \div 8, TRUE, eighths < 0, base_d, [c EXCEPT !.precision = -1])
        \o <<".">>
        \o format_integer(rest, FALSE, FALSE, base_d,
                          [c EXCEPT !.precision = AtLeast(precision, 1)])

----------------------------------------------------------------------------
(* Formats                                                                  *)

CharAt(format, i) == IF i <= Len(format) THEN format[i] ELSE NUL

(* The first position from i on that has none of these characters.          *)
Past(format, i, characters) ==
  LET past[j \in Nat] == IF CharAt(format, j) \in characters THEN past[j + 1] ELSE j IN past[i]

Number(format, from, to) ==
  LET value[j \in Nat] ==
        IF j <= from THEN 0 ELSE value[j - 1] * 10 + SelectInSeq(Digits, LAMBDA d : d = format[j - 1]) - 1
  IN  value[to]

(* A number from i on, or an argument: its value, and where to go on.       *)
WidthOrStar(format, i, args, a) ==
  LET past == Past(format, i, ToSet(Digits)) IN
  IF CharAt(format, i) = "*" THEN [value |-> args[a], i |-> i + 1, a |-> a + 1]
  ELSE [value |-> Number(format, i, past), i |-> past, a |-> a]

PrecisionIfAny(format, i, args, a) ==
  IF CharAt(format, i) = "." THEN WidthOrStar(format, i + 1, args, a)
  ELSE [value |-> -1, i |-> i, a |-> a]

LengthModifier(format, i) ==
  LET two == CharAt(format, i) \in {"h", "l"} /\ CharAt(format, i + 1) = CharAt(format, i) IN
  CASE two -> [type |-> IF format[i] = "h" THEN "hh" ELSE "ll", i |-> i + 2]
    [] ~ two /\ CharAt(format, i) \in {"h", "j", "l", "t", "z"} -> [type |-> format[i], i |-> i + 1]
    [] OTHER -> [type |-> "int", i |-> i]

(* A width that is negative sets MINUS when ZERO has been settled.          *)
FlagsInForce(given, width, precision) ==
  LET dropped == (IF MINUS \in given THEN {ZERO} ELSE {}) \cup (IF PLUS \in given THEN {SPACE} ELSE {})
  IN  ((given \ dropped) \cup (IF width < 0 THEN {MINUS} ELSE {}))
        \ (IF precision >= 0 THEN {ZERO} ELSE {})

Conversion(given, width, precision, modifier) ==
  [ flags |-> FlagsInForce(given, width.value, precision.value),
    width |-> Magnitude(width.value),
    precision |-> AtLeast(precision.value, -1),
    type |-> modifier.type,
    i |-> modifier.i, a |-> precision.a ]

(* From the character after the % on.                                       *)
parse_conversion(format, from, args, arg) ==
  LET past_flags == Past(format, from, Flags)
      width == WidthOrStar(format, past_flags, args, arg)
      precision == PrecisionIfAny(format, width.i, args, width.a)
  IN  Conversion({ format[j] : j \in from .. past_flags - 1 }, width, precision,
                 LengthModifier(format, precision.i))

Base(conversion) ==
  CASE conversion = "o" -> base_o [] conversion = "x" -> base_x
    [] conversion = "X" -> base_X [] OTHER -> base_d

(* The conversions that take an argument, and what they make of it.         *)
Converts == {"d", "i", "o", "u", "x", "X", "c", "s", "p", "f"}

Converted(conversion, c, arg) ==
  CASE conversion \in {"d", "i"} ->
         LET v == Signed(arg, c.type) IN format_integer(Magnitude(v), TRUE, v < 0, base_d, c)
    [] conversion \in {"o", "u", "x", "X"} ->
         format_integer(Unsigned(arg, c.type), FALSE, FALSE, Base(conversion), c)
    [] conversion = "c" -> format_string(<<arg>>, c)
    [] conversion = "s" ->
         LET s == IF arg = NULL THEN <<"(", "n", "u", "l", "l", ")">> ELSE arg
             length == IF c.precision < 0 THEN Len(s) ELSE AtMost(Len(s), c.precision)
         IN  format_string(SubSeq(s, 1, length), c)
    [] conversion = "p" ->
         format_integer(Unsigned(arg, "l"), FALSE, FALSE, base_x, [c EXCEPT !.flags = {POUND}])
    [] conversion = "f" -> format_float(arg, c)

Refusal(conversion) ==
  IF conversion \in {"e", "E", "g", "G", "n"} THEN <<"no", conversion, "in kernel">>
  ELSE <<"no", conversion, "conversion">>

vprintf(format, args) ==
  LET output[i \in Nat, a \in Nat] ==
        IF i > Len(format) THEN <<>>
        ELSE IF format[i] # "%" THEN <<format[i]>> \o output[i + 1, a]
        ELSE IF CharAt(format, i + 1) = "%" THEN <<"%">> \o output[i + 2, a]
        ELSE LET convert(c) ==
                   LET conversion == CharAt(format, c.i) IN
                   IF conversion \in Converts
                   THEN Converted(conversion, c, args[c.a]) \o output[c.i + 1, c.a + 1]
                   ELSE Refusal(conversion) \o output[c.i + 1, c.a]
             IN  convert(parse_conversion(format, i + 1, args, a))
  IN  output[1, 1]

----------------------------------------------------------------------------
(* What a programmer asks for, how that is written, and what it means.      *)
(* star: width and precision are arguments, which may be negative; -1 is a  *)
(* precision that is not given.                                             *)

Numeral(n) ==
  (IF n < 10 THEN <<>> ELSE <<Digits[(n \div 10) + 1]>>) \o <<Digits[(n % 10) + 1]>>

Spelled(r) ==
  <<"%">> \o SelectSeq(<<MINUS, PLUS, SPACE, POUND, ZERO, GROUP>>, LAMBDA f : f \in r.flags)
    \o (IF r.star THEN <<"*">> ELSE IF r.width = 0 THEN <<>> ELSE Numeral(r.width))
    \o (IF r.star THEN <<".", "*">>
        ELSE IF r.precision < 0 THEN <<>> ELSE <<".">> \o Numeral(r.precision))
    \o (CASE r.type = "int" -> <<>> [] r.type = "hh" -> <<"h", "h">>
          [] r.type = "ll" -> <<"l", "l">> [] OTHER -> <<r.type>>)
    \o <<r.conversion>>

Arguments(r) == (IF r.star THEN <<r.width, r.precision>> ELSE <<>>) \o <<r.argument>>

(* A negative width from an argument leaves ZERO set, and both pads are     *)
(* written; the decimals of %f are padded and grouped like its whole part.  *)
FieldIsDefined(r) ==
  /\ r.star /\ r.width < 0 /\ ZERO \in r.flags => MINUS \in r.flags \/ r.precision >= 0
  /\ r.conversion = "f" => r.width = 0 /\ GROUP \notin r.flags

Without(s, ch) == SelectSeq(s, LAMBDA c : c # ch)
Value(number, b) ==
  FoldLeft(LAMBDA v, d : v * b.base + SelectInSeq(b.digits, LAMBDA e : e = d) - 1, 0,
           Without(number, ","))

(* t is a number in base b: read as a person would it gives v, with the     *)
(* sign and prefix asked for, as many digits as its precision says and no   *)
(* other leading zero, commas between groups and only there, and padded on  *)
(* the right side to just the width.                                        *)
ReadsAs(t, v, is_signed, negative, b, flags, width, precision) ==
  LET plus == IF PLUS \in flags THEN "+" ELSE IF SPACE \in flags THEN " " ELSE ""
      sign == IF ~ is_signed THEN "" ELSE IF negative THEN "-" ELSE plus
      core == Without(t, " ")
      before == IF sign = " " THEN 1 ELSE 0
      pad == Len(t) - Len(core) - before
      blanks(n) == output_dup(" ", n)
      head == (IF sign \in {"", " "} THEN <<>> ELSE <<sign>>)
                \o (IF POUND \in flags /\ v # 0 THEN b.x ELSE <<>>)
      number == SubSeq(core, Len(head) + 1, Len(core))
      wanted == AtMost(IF precision < 0 THEN 1 ELSE precision, BufferSize - 1)
  IN  /\ pad >= 0 /\ Len(t) >= width
      /\ pad > 0 => Len(t) = width /\ ZERO \notin flags
      /\ t = IF MINUS \in flags THEN blanks(before) \o core \o blanks(pad)
             ELSE blanks(pad + before) \o core
      /\ IsPrefix(head, core)
      /\ ToSet(number) \subseteq ToSet(b.digits) \cup {","}
      /\ Value(number, b) = v
      /\ Len(number) >= wanted
      /\ number # <<>> /\ Head(number) = "0" =>
           \/ Len(number) = wanted
           \/ ZERO \in flags /\ Len(t) = width
           \/ POUND \in flags /\ b.base = 8
      /\ POUND \in flags /\ b.base = 8 => number # <<>> /\ Head(number) = "0"
      /\ \A i \in DOMAIN number :
           LET behind == Len(number) - i
               groups == (behind + 1) \div (b.group + 1)
           IN  number[i] = "," <=>
                 /\ GROUP \in flags
                 /\ (behind + 1) % (b.group + 1) = 0
                 /\ v >= b.base ^ (groups * b.group)

(* The text for r, whatever the conversion.                                 *)
Answers(r, t) ==
  LET minus == MINUS \in r.flags \/ r.width < 0
      precision == AtLeast(r.precision, -1)
      dropped == (IF minus \/ precision >= 0 THEN {ZERO} ELSE {})
      flags == (r.flags \ dropped) \cup (IF minus THEN {MINUS} ELSE {})
      width == Magnitude(r.width)
      s == IF r.argument = NULL THEN <<"(", "n", "u", "l", "l", ")">> ELSE r.argument
      shown == IF r.conversion = "c" THEN <<r.argument>>
               ELSE IF precision < 0 THEN s ELSE SubSeq(s, 1, AtMost(precision, Len(s)))
      blanks == output_dup(" ", AtLeast(width - Len(shown), 0))
      point == SelectInSeq(t, LAMBDA c : c = ".")
      decimals == IF precision < 0 THEN DEFAULT_FLOAT_PRECISION
                  ELSE AtMost(precision, MAX_FLOAT_PRECISION)
  IN  CASE r.conversion \in {"d", "i"} ->
             LET v == Signed(r.argument, r.type) IN
             ReadsAs(t, Magnitude(v), TRUE, v < 0, base_d, flags, width, precision)
        [] r.conversion \in {"o", "u", "x", "X"} ->
             ReadsAs(t, Unsigned(r.argument, r.type), FALSE, FALSE,
                     Base(r.conversion), flags, width, precision)
        [] r.conversion = "p" ->
             ReadsAs(t, Unsigned(r.argument, "l"), FALSE, FALSE, base_x, {POUND}, width, precision)
        [] r.conversion \in {"c", "s"} -> t = IF minus THEN shown \o blanks ELSE blanks \o shown
        [] r.conversion = "f" ->
             /\ point > 0
             /\ Len(t) - point = AtLeast(decimals, 1)
             /\ decimals > 0 =>
                  Value(Without(SubSeq(t, point + 1, Len(t)), " "), base_d)
                    = Decimals(Magnitude(r.argument), decimals)
             /\ ReadsAs(SubSeq(t, 1, point - 1), Magnitude(r.argument) \div 8, TRUE,
                        r.argument < 0, base_d, flags, 0, -1)

=============================================================================
