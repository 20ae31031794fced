----------------------------- MODULE MCLibrary ------------------------------
(* An instance of Library for TLC: the calls each part is given.  The integer  *)
(* types have half their width and printf's buffers with them; the cycle       *)
(* counter wraps after sixteen cycles.                                         *)
EXTENDS Library

-----------------------------------------------------------------------------
(* Strings over two letters, one above 127, at every alignment of interest;    *)
(* what follows them in memory is not zero.                                    *)

Strings == {[i \in 1 .. k |-> IF i = j THEN 200 ELSE 1] : k \in 0 .. 5, j \in 0 .. 5}
Laid2(s, a, t, b) ==
  [i \in 0 .. MemSize - 1 |->
    CASE i \in a .. a + Len(s) - 1 -> s[i - a + 1]
      [] i \in b .. b + Len(t) - 1 -> t[i - b + 1]
      [] i = a + Len(s) \/ i = b + Len(t) -> 0
      [] OTHER -> IF i < 8 THEN 1 ELSE 200]

MCString(fn, a, b, k, s, t) ==
  [call |-> [fn |-> fn, p |-> a, q |-> b, n |-> k], mem |-> Laid2(s, a, t, b % MemSize)]
MCStringCalls == {
  {MCString(fn, a, b, 0, s, t) :
    fn \in {"strcmp", "strcpy"}, a \in {0, 1}, b \in {8, 9, 10}, s \in Strings, t \in Strings},
  {MCString("strstr", 0, 8, 0, s, t) : s \in Strings, t \in Strings},
  {MCString(fn, 1, 8, k, s, t) :
         fn \in {"memcmp", "memcpy"}, k \in {0, 2, 5}, s \in Strings, t \in Strings},
  {MCString("memset", a, 264, k, <<1, 1, 1>>, <<1>>) : a \in {0, 1}, k \in {0, 2, 5}}}

-----------------------------------------------------------------------------
(* Conversions: every flag and pair of flags with every width and precision.   *)

Conv(fl, w, pr, l, c, v) ==
  [flags |-> fl, width |-> w, precision |-> pr, length |-> l, conv |-> c, value |-> v]
FewFlags == {S \in SUBSET Flags : Cardinality(S) <= 2}
Widths == {<<>>, <<1>>, <<2>>, <<6>>, <<20>>, <<"*", -5>>, <<"*", 4>>}
Precisions == {<<>>, <<0>>, <<3>>, <<20>>, <<"*", 2>>, <<"*", -1>>}
Lengths == {<<>>, <<"l">>, <<"l", "l">>, <<"h">>, <<"h", "h">>, <<"z">>, <<"j">>, <<"t">>}
Double(num, den) == [num |-> num, den |-> den]
Doubles == {Double(0, 1), Double(1, 2), Double(3, 2), Double(-5, 2), Double(3, 4), Double(127, 128),
            Double(-1999, 2), Double(32767, 1), Double(32768, 1), Double(1, 0)}

Integers2 == {Conv(fl, w, pr, <<>>, c, v) : fl \in FewFlags, w \in Widths, pr \in Precisions,
               c \in {"d", "u", "x", "o"}, v \in {0, 9, 255, -8}}
Lengthened == {Conv({}, <<>>, <<>>, l, c, v) : l \in Lengths, c \in {"i", "d", "u", "X", "o", "b"},
                v \in {0, 1, 7, 8, 9, 100, 32767, -1, -32768}}
Floats == {Conv(fl, w, pr, <<>>, "f", v) : fl \in FewFlags, w \in Widths,
            pr \in {<<>>, <<0>>, <<1>>, <<2>>}, v \in Doubles}
LongFloats == {Conv({}, <<>>, <<11>>, <<>>, "F", v) : v \in {Double(0, 1), Double(1, 2), Double(3, 2)}}
Strings2 == {Conv(fl, w, pr, <<>>, "s", v) : fl \in FewFlags, w \in Widths, pr \in {<<>>, <<0>>, <<2>>},
              v \in {<<>>, <<"h", "i", "!">>}}
Chars == {Conv(fl, w, <<>>, <<>>, "c", v) : fl \in FewFlags, w \in Widths, v \in {"x", Nul}}
Others == {Conv({}, <<>>, <<>>, <<>>, "p", 43), Conv({"0"}, <<3>>, <<>>, <<>>, "%", 0)}

Alone(c) == [fct |-> "buffer", max |-> SizeMax, parts |-> <<c>>, size |-> 48]
Mixed == {Conv({"0"}, <<4>>, <<>>, <<>>, "x", 43), Conv({}, <<>>, <<>>, <<>>, "s", <<"h", "i", "!">>),
          Conv({}, <<>>, <<>>, <<>>, "c", Nul), Conv({}, <<>>, <<>>, <<>>, "f", Double(32768, 1))}
Between(c, d) == <<Text(<<"a">>), c, Text(<<"b">>), d>>

MCPrintfCalls == {
  {Alone(c) : c \in Integers2}, {Alone(c) : c \in Lengthened}, {Alone(c) : c \in Floats},
  {Alone(c) : c \in LongFloats}, {Alone(c) : c \in Strings2}, {Alone(c) : c \in Chars},
  {Alone(c) : c \in Others},
  {[fct |-> "buffer", max |-> m, parts |-> Between(c, d), size |-> 12] :
    c \in Mixed, d \in Mixed, m \in 0 .. 9},
  {[fct |-> f, max |-> SizeMax, parts |-> Between(c, d), size |-> 0] :
    c \in Mixed, d \in Mixed, f \in {"putchar", "fct", "null"}}}

-----------------------------------------------------------------------------
(* Two transfers in a row, to the device or to an address nobody has.          *)

MCDeviceData == [k \in 0 .. 3 |-> <<165, 0, 255, 60>>[k + 1]]
Transfer(fn, adr, data) == [fn |-> fn, adr |-> adr, reg |-> 1, data |-> data]
MCTransfers ==
  {Transfer("write_reg_nr", 52, <<>>), Transfer("write_reg", 52, <<90>>), Transfer("write_reg", 54, <<90>>),
   Transfer("write_regs", 52, <<7, 128>>), Transfer("read_reg", 52, <<0>>),
   Transfer("read_regs", 52, <<0, 0, 0>>)}
MCI2cCalls == {<<t, u>> : t \in MCTransfers, u \in MCTransfers}
=============================================================================
