------------------------------- MODULE PrintfC -------------------------------
(* What the C standard says printf prints, for calls put together from parts:  *)
(* text, or a conversion [flags, width, precision, length, conv, value].       *)
(* Width and precision: <<>>, <<n>>, or <<"*", n>> for an argument.            *)
EXTENDS Printf

Text(chars) == [text |-> chars]
IsText(part) == "text" \in DOMAIN part

NumberText(v) == Reverse(DigitsOf(v, 10, LowerDigits))
FieldText(f) == CASE Len(f) = 0 -> <<>> [] Len(f) = 1 -> NumberText(f[1]) [] OTHER -> <<"*">>
FieldArgs(f) == IF Len(f) = 2 THEN <<f[2]>> ELSE <<>>

\* The format and the arguments of a part.
FormatOf(part) ==
  IF IsText(part) THEN part.text
  ELSE <<"%">> \o SetToSeq(part.flags) \o FieldText(part.width)
         \o (IF part.precision = <<>> THEN <<>> ELSE <<".">> \o FieldText(part.precision))
         \o part.length \o <<part.conv>>
ArgsOf(part) ==
  IF IsText(part) THEN <<>>
  ELSE FieldArgs(part.width) \o FieldArgs(part.precision) \o (IF part.conv = "%" THEN <<>> ELSE <<part.value>>)

-----------------------------------------------------------------------------
(* One conversion.                                                            *)

Asked(f) == IF f = <<>> THEN 0 ELSE Last(f)
Leftwards(c) == "-" \in c.flags \/ Asked(c.width) < 0
Room(c) == Magnitude(Asked(c.width))
Precise(c) == c.precision # <<>> /\ Last(c.precision) >= 0   \* a negative argument is as none

\* Padding goes to the left, to the right, or as zeros between sign and digits.
Laid(c, sign, digits, zeros) ==
  LET missing == AtLeast(Room(c) - Len(sign) - Len(digits))
  IN IF Leftwards(c) THEN sign \o digits \o Copies(" ", missing)
     ELSE IF zeros THEN sign \o Copies("0", missing) \o digits
     ELSE Copies(" ", missing) \o sign \o digits

SignOf(c, negative) ==
  IF negative THEN <<"-">> ELSE IF "+" \in c.flags THEN <<"+">> ELSE IF " " \in c.flags THEN <<" ">> ELSE <<>>

BaseOf(c) == CASE c.conv \in {"x", "X"} -> 16 [] c.conv = "o" -> 8 [] c.conv = "b" -> 2 [] OTHER -> 10
BitsOf(c) == CASE c.length = <<"l", "l">> \/ c.length = <<"j">> -> LongLongBits [] c.length = <<"h", "h">> -> CharBits
               [] c.length = <<"h">> -> ShortBits [] OTHER -> IntBits

CDigits(v, base, digits) == [k \in 1 .. DigitCount(v, base) |->
                              digits[((v \div base ^ (DigitCount(v, base) - k)) % base) + 1]]

IntegerOf(c) == IF c.conv \in SignedInt THEN AsSigned(c.value, BitsOf(c)) ELSE AsUnsigned(c.value, BitsOf(c))

\* At least as many digits as the precision; none for a 0 with precision 0.
CDigitsOf(c) ==
  LET v == Magnitude(IntegerOf(c))
      ds == IF Precise(c) /\ v = 0 THEN <<>>
            ELSE CDigits(v, BaseOf(c), IF c.conv = "X" THEN UpperDigits ELSE LowerDigits)
  IN Copies("0", AtLeast(Asked(c.precision) - Len(ds))) \o ds

PrefixOf(c) ==
  IF "#" \notin c.flags \/ IntegerOf(c) = 0 THEN <<>>
  ELSE CASE c.conv \in {"x", "X", "b"} -> <<"0", c.conv>>
         [] c.conv = "o" /\ Head(CDigitsOf(c)) # "0" -> <<"0">>
         [] OTHER -> <<>>

CInteger(c) ==
  LET sign == IF c.conv \in SignedInt THEN SignOf(c, IntegerOf(c) < 0) ELSE <<>>
  IN Laid(c, sign \o PrefixOf(c), CDigitsOf(c), "0" \in c.flags /\ ~Precise(c))

\* Rounded to the nearest, ties to even; digits beyond the ninth are zeros here.
CFloat(c) ==
  LET wanted == IF Precise(c) THEN Asked(c.precision) ELSE 6
      shown == Smaller(wanted, 9)
      size == Magnitude(c.value.num)
      den == c.value.den
      w == size \div den
      scaled == (size % den) * 10 ^ shown
      q == scaled \div den
      even == IF shown = 0 THEN w % 2 = 0 ELSE q % 2 = 0
      r == 2 * (scaled % den)
      f == IF r > den \/ (r = den /\ ~even) THEN q + 1 ELSE q
      whole == IF f = 10 ^ shown THEN w + 1 ELSE w
      fraction == IF f = 10 ^ shown THEN 0 ELSE f
      tail == CDigits(fraction, 10, LowerDigits)
      digits == CDigits(whole, 10, LowerDigits)
                  \o (IF wanted = 0 THEN <<>>
                      ELSE <<".">> \o Copies("0", shown - Len(tail)) \o tail \o Copies("0", wanted - shown))
  IN Laid(c, SignOf(c, c.value.num < 0), digits, "0" \in c.flags)

CText(c) ==
  LET chars == IF c.conv = "c" THEN <<c.value>>
               ELSE IF Precise(c) THEN SubSeq(c.value, 1, Smaller(Len(c.value), Asked(c.precision))) ELSE c.value
  IN Laid(c, <<>>, chars, FALSE)

Prints(part) ==
  IF IsText(part) THEN part.text
  ELSE CASE part.conv \in SignedInt \cup UnsignedInt -> CInteger(part)
         [] part.conv \in {"f", "F"} -> CFloat(part)
         [] part.conv \in {"c", "s"} -> CText(part)
         [] part.conv = "p" -> LET ds == CDigits(part.value, 16, UpperDigits)
                               IN Copies("0", IntBits \div 4 - Len(ds)) \o ds
         [] part.conv = "%" -> <<"%">>

-----------------------------------------------------------------------------
(* Where printf.c knowingly or not departs from C; everything else agrees.    *)

\* %f gives up above thres_max and returns an index of 0; not a number is not padded.
FloatDeparts(c) == c.conv \in {"f", "F"} /\ (c.value.den = 0 \/ TooLarge([c.value EXCEPT !.num = Magnitude(@)]))

\* A number longer than its buffer loses its first characters.
Longest(c) == Len(Prints([c EXCEPT !.width = <<>>]))
IsNumber(c) == c.conv \in SignedInt \cup UnsignedInt \cup {"f", "F"}
Overlong(c) ==
  IsNumber(c) /\ \/ Longest(c) > BufferSize
                 \/ "0" \in c.flags /\ Room(c) > BufferSize

\* Aligned to the left, a number does not get the zeros of its precision.
LeftDeparts(c) == c.conv \in SignedInt \cup UnsignedInt /\ Leftwards(c) /\ Asked(c.precision) > 1

\* Digits that fill the width are taken for padding and overwritten by the prefix;
\* an octal number with a precision gets a zero too many.
HashDeparts(c) ==
  /\ "#" \in c.flags /\ c.conv \in {"x", "X", "o", "b"}
  /\ IF Precise(c) THEN c.conv = "o"
     ELSE Len(CDigitsOf(c)) \in {Room(c), Room(c) - 1}

\* A char is unsigned: %hhd prints no negative number.
CharDeparts(c) == c.conv \in SignedInt /\ c.length = <<"h", "h">> /\ IntegerOf(c) < 0

\* A negative argument for the precision counts as 0, not as absent.
PrecisionDeparts(c) == c.precision # <<>> /\ Last(c.precision) < 0

Agrees(part) ==
  IsText(part) \/ ~(FloatDeparts(part) \/ Overlong(part) \/ LeftDeparts(part) \/ HashDeparts(part)
                      \/ CharDeparts(part) \/ PrecisionDeparts(part))

Whole(parts) == FlattenSeq([i \in DOMAIN parts |-> Prints(parts[i])])
Format(parts) == FlattenSeq([i \in DOMAIN parts |-> FormatOf(parts[i])])
Values(parts) == FlattenSeq([i \in DOMAIN parts |-> ArgsOf(parts[i])])

Request(fct, max, parts, size) == CallPrintf(fct, max, Format(parts), Values(parts), size, parts)

\* The buffer holds what fits, the terminating zero and no change beyond.
Holds(b, chars, max) ==
  LET end == IF max = 0 THEN 0 ELSE Smaller(Len(chars), max - 1)
  IN \A k \in DOMAIN b : b[k] = IF k < end THEN chars[k + 1] ELSE IF k = end /\ max > 0 THEN Nul ELSE "?"

\* Nothing is written where the buffer has ended (printf.c 107-112, 778-781).
BufferKept == sink.fct = "buffer" => \A k \in DOMAIN buffer : k >= sink.max => buffer[k] = "?"

\* The number returned.  Of a text that is cut off printf.h 79 promises the size of the
\* buffer and C the length of the text: either tells the caller that it did not fit, and
\* no more is asked.  A zero character is counted but never given to _putchar or fct,
\* while printf.h 93 promises the number of characters given to it: nothing is asked.
CutOff == sink.fct = "buffer" /\ Len(Whole(request)) >= sink.max
ZeroDropped == sink.fct \in {"putchar", "fct"} /\ Nul \in Range(Whole(request))
CountRight ==
  \/ CutOff /\ idx >= sink.max
  \/ ZeroDropped
  \/ ~CutOff /\ idx = Len(Whole(request))

\* A call prints what C says it prints, whatever the flags, widths, precisions and
\* lengths of its conversions, wherever the buffer ends, through every output function,
\* and returns how much that was or, for a buffer too small, that it was too small
\* (printf.c 90-790).  Where printf.c departs from C, the buffer is still kept.
ConversionsRight ==
  stage = "done" =>
    /\ (\A i \in DOMAIN request : Agrees(request[i])) =>
         /\ CountRight
         /\ CASE sink.fct = "buffer" -> Holds(buffer, Whole(request), sink.max)
              [] sink.fct = "null" -> sent = <<>>
              [] OTHER -> sent = SelectSeq(Whole(request), LAMBDA c : c # Nul)
    /\ BufferKept
=============================================================================
