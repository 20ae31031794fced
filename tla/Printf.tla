------------------------------- MODULE Printf -------------------------------
(* The formatted output of the firmware (printf.c): the format is read         *)
(* character by character, each conversion is one step.  A character is a      *)
(* string of length one; a double is a dyadic rational.                        *)
EXTENDS Integers, SequencesExt

CONSTANTS
  CharBits, ShortBits, IntBits, LongLongBits,  \* widths of the integer types
  BufferSize,  \* PRINTF_NTOA_BUFFER_SIZE and PRINTF_FTOA_BUFFER_SIZE (32)
  SizeMax      \* (size_t)-1

VARIABLES
  todo,     \* what is left of the format
  args,     \* what is left of the arguments
  spec,     \* flags, width, precision and length of the conversion being read
  stage,    \* where in _vsnprintf
  idx,      \* characters written so far
  sink,     \* the output function and maxlen
  buffer,   \* the caller's buffer
  sent,     \* history: the characters given to _putchar or fct
  request   \* history: the call

printfVars == <<todo, args, spec, stage, idx, sink, buffer, sent, request>>

Nul == "NUL"
NoSpec == [flags |-> {}, width |-> 0, precision |-> 0, length |-> ""]
Set(flag) == flag \in spec.flags

-----------------------------------------------------------------------------
(* Output.                                                                    *)

\* What an output function does with characters at index i and after.
Out(chars, i) ==
  /\ buffer' = IF sink.fct = "buffer"
               THEN [k \in DOMAIN buffer |->
                      IF k \in i .. i + Len(chars) - 1 /\ k < sink.max THEN chars[k - i + 1] ELSE buffer[k]]
               ELSE buffer
  /\ sent' = IF sink.fct \in {"putchar", "fct"} THEN sent \o SelectSeq(chars, LAMBDA c : c # Nul) ELSE sent

Emit(chars) == Out(chars, idx) /\ idx' = idx + Len(chars)

Copies(c, n) == [i \in 1 .. n |-> c]
AtLeast(n) == IF n > 0 THEN n ELSE 0

\* Padded with spaces to the width; zero padding has been done before.
Justified(chars) ==
  LET spaces == Copies(" ", AtLeast(spec.width - Len(chars)))
  IN IF Set("-") THEN chars \o spaces ELSE IF Set("0") THEN chars ELSE spaces \o chars

\* Text ignores the zero flag.
TextAligned(chars) ==
  LET spaces == Copies(" ", AtLeast(spec.width - Len(chars)))
  IN IF Set("-") THEN chars \o spaces ELSE spaces \o chars

-----------------------------------------------------------------------------
(* Numbers are built from their last digit on.                                *)

LowerDigits == <<"0","1","2","3","4","5","6","7","8","9","a","b","c","d","e","f">>
UpperDigits == <<"0","1","2","3","4","5","6","7","8","9","A","B","C","D","E","F">>

Put(buf, c) == IF Len(buf) < BufferSize THEN Append(buf, c) ELSE buf
Smaller(a, b) == IF a < b THEN a ELSE b
Zeros(buf, n) == buf \o Copies("0", AtLeast(Smaller(n, BufferSize) - Len(buf)))

DigitCount(v, base) == CHOOSE n \in 1 .. LongLongBits : v < base ^ n /\ (n = 1 \/ v >= base ^ (n - 1))
DigitsOf(v, base, digits) ==
  [k \in 1 .. Smaller(DigitCount(v, base), BufferSize) |-> digits[((v \div base ^ (k - 1)) % base) + 1]]

\* The width zeros may fill: a sign takes one place.
ZeroWidth(negative) ==
  IF spec.width > 0 /\ Set("0") /\ (negative \/ Set("+") \/ Set(" ")) THEN spec.width - 1 ELSE spec.width

Signed(buf, negative) ==
  IF negative THEN Put(buf, "-") ELSE IF Set("+") THEN Put(buf, "+")
  ELSE IF Set(" ") THEN Put(buf, " ") ELSE buf

\* The prefix takes the place of padding zeros, if the number fills its width.
Prefixed(buf, base, width) ==
  LET full == ~Set(".") /\ buf # <<>> /\ Len(buf) \in {spec.precision, width}
      drop == IF ~full THEN 0 ELSE IF base = 16 /\ Len(buf) > 1 THEN 2 ELSE 1
      room == SubSeq(buf, 1, Len(buf) - drop)
      letter == CASE base = 16 -> IF Set("X") THEN Put(room, "X") ELSE Put(room, "x")
                  [] base = 2 -> Put(room, "b")
                  [] OTHER -> room
  IN Put(letter, "0")

\* Wrong: the place of the sign is not set aside.
NtoaFormatNoSign(buf, negative, base, hash) ==
  LET padded == IF Set("-") THEN buf
                ELSE IF Set("0") THEN Zeros(Zeros(buf, spec.precision), spec.width) ELSE Zeros(buf, spec.precision)
  IN Justified(Reverse(Signed(IF hash THEN Prefixed(padded, base, spec.width) ELSE padded, negative)))

NtoaFormat(buf, negative, base, hash) ==
  LET width == IF Set("-") THEN spec.width ELSE ZeroWidth(negative)
      padded == IF Set("-") THEN buf
                ELSE IF Set("0") THEN Zeros(Zeros(buf, spec.precision), width) ELSE Zeros(buf, spec.precision)
  IN Justified(Reverse(Signed(IF hash THEN Prefixed(padded, base, width) ELSE padded, negative)))

\* _ntoa_long and _ntoa_long_long differ in the width of the value only.
Ntoa(v, negative, base) ==
  NtoaFormat(IF Set(".") /\ v = 0 THEN <<>>
             ELSE DigitsOf(v, base, IF Set("X") THEN UpperDigits ELSE LowerDigits),
             negative, base, Set("#") /\ v # 0)

-----------------------------------------------------------------------------
(* Doubles: [num, den], den a power of two; not a number: den = 0.            *)

Pow10(n) == 10 ^ n
MaxWhole == 2 ^ (IntBits - 1) - 1   \* thres_max
TooLarge(x) == x.num > MaxWhole * x.den

\* Digits after the point and the whole part, rounded: half to even.
Rounded(x, prec) ==
  LET whole == x.num \div x.den
      tmp == (x.num % x.den) * Pow10(prec)
      frac == tmp \div x.den
      twice == 2 * (tmp % x.den)
      up == twice > x.den \/ (twice = x.den /\ (frac = 0 \/ frac % 2 = 1))
      over == twice > x.den /\ frac + 1 >= Pow10(prec)
      w == IF over THEN whole + 1 ELSE whole
      rest == 2 * (x.num - w * x.den)   \* twice diff, for precision 0
  IN [frac |-> IF over THEN 0 ELSE IF up THEN frac + 1 ELSE frac,
      whole |-> IF prec = 0 /\ (rest > x.den \/ (rest = x.den /\ w % 2 = 1)) THEN w + 1 ELSE w]

Ftoa(x, negative) ==
  LET wanted == IF Set(".") THEN spec.precision ELSE 6
      zeros == AtLeast(wanted - 9)
      prec == wanted - zeros
      head == Copies("0", Smaller(zeros, BufferSize))
      r == Rounded(x, prec)
      fraction == IF prec = 0 THEN <<>>
                  ELSE LET f == Zeros(DigitsOf(r.frac, 10, LowerDigits), prec) IN Append(f, ".")
      all == head \o fraction \o DigitsOf(r.whole, 10, LowerDigits)
      number == SubSeq(all, 1, Smaller(Len(all), BufferSize))
      padded == IF Set("-") \/ ~Set("0") THEN number ELSE Zeros(number, ZeroWidth(negative))
  IN Justified(Reverse(Signed(padded, negative)))

-----------------------------------------------------------------------------
(* _vsnprintf.                                                                *)

\* printf_, sprintf_, snprintf_, vsnprintf_ and fctprintf differ in the output function
\* and in maxlen; a null pointer makes the output function "null".
CallPrintf(fct, max, format, values, size, history) ==
  /\ todo = format /\ args = values /\ spec = NoSpec /\ stage = "text" /\ idx = 0
  /\ sink = [fct |-> fct, max |-> max]
  /\ buffer = [k \in 0 .. size - 1 |-> "?"] /\ sent = <<>> /\ request = history

Char == IF todo = <<>> THEN Nul ELSE Head(todo)   \* *format
Reading(s) == stage = s
Goto(s) == stage' = s
NoOutput == UNCHANGED <<idx, buffer, sent>>
SameCall == UNCHANGED <<sink, request>>
Flagged(fs) == [spec EXCEPT !.flags = @ \cup fs]

Decimal == {"0","1","2","3","4","5","6","7","8","9"}
IsDigit(c) == c \in Decimal
DigitValue(c) == CHOOSE d \in 0 .. 9 : LowerDigits[d + 1] = c

\* The number of digits at the head of the format, and their value.
Leading == IF \A i \in DOMAIN todo : IsDigit(todo[i]) THEN Len(todo)
           ELSE (CHOOSE i \in DOMAIN todo : ~IsDigit(todo[i]) /\ \A j \in 1 .. i - 1 : IsDigit(todo[j])) - 1
Atoi == FoldSeq(LAMBDA c, v : 10 * v + DigitValue(c), 0, Reverse(SubSeq(todo, 1, Leading)))
AfterNumber == SubSeq(todo, Leading + 1, Len(todo))

Literal ==
  /\ Reading("text") /\ todo # <<>> /\ Char # "%"
  /\ Emit(<<Char>>) /\ todo' = Tail(todo) /\ UNCHANGED <<args, spec, stage>> /\ SameCall

Percent ==
  /\ Reading("text") /\ Char = "%" /\ Goto("flags")
  /\ todo' = Tail(todo) /\ spec' = NoSpec /\ UNCHANGED args /\ NoOutput /\ SameCall

Flags == {"0", "-", "+", " ", "#"}
Flag ==
  /\ Reading("flags")
  /\ IF Char \in Flags
     THEN todo' = Tail(todo) /\ spec' = Flagged({Char}) /\ UNCHANGED stage
     ELSE Goto("width") /\ UNCHANGED <<todo, spec>>
  /\ UNCHANGED args /\ NoOutput /\ SameCall

\* Wrong: a negative width is taken as it is.
WidthSigned ==
  /\ Reading("width") /\ Goto("precision") /\ NoOutput /\ SameCall
  /\ CASE IsDigit(Char) -> spec' = [spec EXCEPT !.width = Atoi] /\ todo' = AfterNumber /\ UNCHANGED args
       [] Char = "*" -> /\ spec' = [spec EXCEPT !.width = Head(args)]
                         /\ todo' = Tail(todo) /\ args' = Tail(args)
       [] OTHER -> UNCHANGED <<spec, todo, args>>

Width ==
  /\ Reading("width") /\ Goto("precision") /\ NoOutput /\ SameCall
  /\ CASE IsDigit(Char) -> spec' = [spec EXCEPT !.width = Atoi] /\ todo' = AfterNumber /\ UNCHANGED args
       [] Char = "*" ->
            LET w == Head(args)
            IN /\ spec' = IF w < 0 THEN [Flagged({"-"}) EXCEPT !.width = -w] ELSE [spec EXCEPT !.width = w]
               /\ todo' = Tail(todo) /\ args' = Tail(args)
       [] OTHER -> UNCHANGED <<spec, todo, args>>

NoPrecision == Reading("precision") /\ Char # "." /\ Goto("length")
               /\ UNCHANGED <<todo, args, spec>> /\ NoOutput /\ SameCall

Point == Reading("precision") /\ Char = "." /\ Goto("digits")
         /\ todo' = Tail(todo) /\ spec' = Flagged({"."}) /\ UNCHANGED args /\ NoOutput /\ SameCall

Precision ==
  /\ Reading("digits") /\ Goto("length") /\ NoOutput /\ SameCall
  /\ CASE IsDigit(Char) -> spec' = [spec EXCEPT !.precision = Atoi] /\ todo' = AfterNumber /\ UNCHANGED args
       [] Char = "*" -> /\ spec' = [spec EXCEPT !.precision = AtLeast(Head(args))]
                         /\ todo' = Tail(todo) /\ args' = Tail(args)
       [] OTHER -> UNCHANGED <<spec, todo, args>>

\* l, ll, h and hh; t, j and z by the sizes of their types (4, 8 and 4 bytes).
Length ==
  /\ Reading("length") /\ Goto("specifier") /\ UNCHANGED args /\ NoOutput /\ SameCall
  /\ LET twice == Len(todo) > 1 /\ todo[2] = Char
         Takes(n, l) == todo' = SubSeq(todo, n + 1, Len(todo)) /\ spec' = [spec EXCEPT !.length = l]
     IN CASE Char = "l" -> IF twice THEN Takes(2, "ll") ELSE Takes(1, "l")
          [] Char = "h" -> IF twice THEN Takes(2, "hh") ELSE Takes(1, "h")
          [] Char \in {"t", "z"} -> Takes(1, "l")
          [] Char = "j" -> Takes(1, "ll")
          [] OTHER -> UNCHANGED <<todo, spec>>

-----------------------------------------------------------------------------
(* The specifiers.                                                            *)

SignedInt == {"d", "i"}
UnsignedInt == {"u", "x", "X", "o", "b"}
Base == CASE Char \in {"x", "X", "p"} -> 16 [] Char = "o" -> 8 [] Char = "b" -> 2 [] OTHER -> 10

\* The specifier changes the flags: no hash for decimals, no sign for unsigned
\* numbers, no zeros with a precision; a pointer has a width of its own.
Specifier ==
  /\ Reading("specifier") /\ todo # <<>> /\ Goto("convert") /\ UNCHANGED <<todo, args>> /\ NoOutput /\ SameCall
  /\ LET dropped == (IF Base = 10 THEN {"#"} ELSE {}) \cup (IF Set(".") THEN {"0"} ELSE {})
                      \cup (IF Char \in SignedInt THEN {} ELSE {"+", " "})
         upper == IF Char = "X" THEN {"X"} ELSE {}
     IN spec' = CASE Char \in SignedInt \cup UnsignedInt ->
                       [spec EXCEPT !.flags = (@ \ dropped) \cup upper]
                  [] Char = "p" -> [Flagged({"0", "X"}) EXCEPT !.width = IntBits \div 4]
                  [] OTHER -> spec

\* A long is as wide as an int; a char is unsigned.
WidthOf(l) == CASE l = "ll" -> LongLongBits [] l = "hh" -> CharBits [] l = "h" -> ShortBits [] OTHER -> IntBits
AsUnsigned(v, bits) == v % 2 ^ bits
AsSigned(v, bits) == LET u == AsUnsigned(v, bits) IN IF u >= 2 ^ (bits - 1) THEN u - 2 ^ bits ELSE u
Promoted(v) == IF spec.length = "hh" THEN AsUnsigned(v, CharBits) ELSE AsSigned(v, WidthOf(spec.length))
Magnitude(v) == IF v > 0 THEN v ELSE -v

Converted(chars) ==
  /\ Reading("convert") /\ Goto("text") /\ Emit(chars)
  /\ todo' = Tail(todo) /\ args' = Tail(args) /\ UNCHANGED spec /\ SameCall

ConvertSigned == /\ Char \in SignedInt
                 /\ LET v == Promoted(Head(args)) IN Converted(Ntoa(Magnitude(v), v < 0, Base))

ConvertUnsigned == /\ Char \in UnsignedInt
                   /\ Converted(Ntoa(AsUnsigned(Head(args), WidthOf(spec.length)), FALSE, Base))

ConvertPointer == Char = "p" /\ Converted(Ntoa(Head(args), FALSE, Base))

\* A double above thres_max returns 0 for the index.
ConvertFloat ==
  /\ Reading("convert") /\ Char \in {"f", "F"}
  /\ LET x == Head(args)
         size == [x EXCEPT !.num = Magnitude(@)]
     IN IF x.den # 0 /\ TooLarge(size)
        THEN /\ idx' = 0 /\ Goto("text") /\ todo' = Tail(todo) /\ args' = Tail(args)
             /\ UNCHANGED <<spec, buffer, sent>> /\ SameCall
        ELSE Converted(IF x.den = 0 THEN <<"n", "a", "n">> ELSE Ftoa(size, x.num < 0))

ConvertChar == Char = "c" /\ Converted(TextAligned(<<Head(args)>>))

\* _strnlen_s counts up to the precision; a precision of 0 prints nothing.
ConvertString ==
  /\ Char = "s"
  /\ Converted(TextAligned(IF Set(".") THEN SubSeq(Head(args), 1, Smaller(Len(Head(args)), spec.precision))
                       ELSE Head(args)))

\* %% and whatever is not a specifier print themselves.
Specifiers == SignedInt \cup UnsignedInt \cup {"p", "f", "F", "c", "s"}
ConvertOther ==
  /\ Reading("convert") /\ Char \notin Specifiers /\ Emit(<<Char>>) /\ Goto("text")
  /\ todo' = Tail(todo) /\ UNCHANGED <<args, spec>> /\ SameCall

\* The terminating zero goes to the last place of a buffer that is too small.
Terminate ==
  /\ Reading("text") /\ todo = <<>> /\ Goto("done")
  /\ Out(<<Nul>>, IF idx < sink.max THEN idx ELSE sink.max - 1)
  /\ UNCHANGED <<todo, args, spec, idx>> /\ SameCall

PrintfStep ==
  \/ Literal \/ Percent \/ Flag \/ Width \/ NoPrecision \/ Point \/ Precision \/ Length \/ Specifier
  \/ ConvertSigned \/ ConvertUnsigned \/ ConvertPointer \/ ConvertFloat \/ ConvertChar
  \/ ConvertString \/ ConvertOther \/ Terminate
=============================================================================
