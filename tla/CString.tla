------------------------------- MODULE CString -------------------------------
(* The string functions of the firmware (stdlib.c).  strcpy and strcmp go byte *)
(* by byte until both pointers are aligned and then by words, which reads past *)
(* the end of the strings.  A char is unsigned on this target.                 *)
EXTENDS Integers, FiniteSetsExt

CONSTANT MemSize   \* bytes of memory, a multiple of four

VARIABLES
  mem,      \* the memory
  p, q, n,  \* the two pointers and the counter of the function
  ret,      \* what it has returned, or Running
  called    \* history: the call and the memory it found

stringVars == <<mem, p, q, n, ret, called>>

Running == [running |-> TRUE]
Returned(v) == [value |-> v]
Null == -1

\* A call is [fn, p, q, n]; memset passes its character as q, and returns nothing.
CallString(call, memory) ==
  /\ mem = memory /\ p = call.p /\ q = call.q /\ n = call.n
  /\ ret = Running /\ called = [call |-> call, mem |-> memory]

In(fn) == ret = Running /\ called.call.fn = fn
First == called.call.p
Goes(p2, q2, n2) == p' = p2 /\ q' = q2 /\ n' = n2 /\ UNCHANGED <<ret, called>>
Gives(v) == ret' = Returned(v) /\ UNCHANGED <<p, q, n, called>>
Ordered(v, w) == IF v < w THEN -1 ELSE 1

-----------------------------------------------------------------------------
(* One turn of each loop.                                                     *)

Memcpy ==
  /\ In("memcpy")
  /\ \/ n # 0 /\ mem' = [mem EXCEPT ![p] = mem[q]] /\ Goes(p + 1, q + 1, n - 1)
     \/ n = 0 /\ UNCHANGED mem /\ Gives(First)

Memset ==
  /\ In("memset")
  /\ \/ n # 0 /\ mem' = [mem EXCEPT ![p] = q % 256] /\ Goes(p + 1, q, n - 1)
     \/ n = 0 /\ UNCHANGED mem /\ Gives(Null)

Memcmp ==
  /\ In("memcmp") /\ UNCHANGED mem
  /\ \/ n # 0 /\ mem[p] = mem[q] /\ Goes(p + 1, q + 1, n - 1)
     \/ n # 0 /\ mem[p] # mem[q] /\ Gives(mem[p] - mem[q])
     \/ n = 0 /\ Gives(0)

BothAligned == p % 4 = 0 /\ q % 4 = 0
Lane == 0 .. 3
\* Wrong: only the first byte of the word is tested.
HasZeroFirst(a) == mem[a] = 0
\* (v - 0x01010101) & ~v & 0x80808080
HasZero(a) == \E k \in Lane : mem[a + k] = 0

\* The bytes of the last word, up to and with the zero; n is not used.
Strcpy ==
  /\ In("strcpy")
  /\ \/ /\ ~BothAligned /\ mem' = [mem EXCEPT ![p] = mem[q]]
        /\ IF mem[q] = 0 THEN Gives(First) ELSE Goes(p + 1, q + 1, n)
     \/ /\ BothAligned /\ HasZero(q) /\ Gives(First)
        /\ LET end == Min({k \in Lane : k = 3 \/ mem[q + k] = 0})
           IN mem' = [a \in DOMAIN mem |-> IF a \in p .. p + end THEN mem[q + a - p] ELSE mem[a]]
     \/ /\ BothAligned /\ ~HasZero(q) /\ Goes(p + 4, q + 4, n)
        /\ mem' = [a \in DOMAIN mem |-> IF a \in p .. p + 3 THEN mem[q + a - p] ELSE mem[a]]

SameWord == \A k \in Lane : mem[p + k] = mem[q + k]

\* Words that differ are compared byte by byte, up to the first zero.
Strcmp ==
  /\ In("strcmp") /\ UNCHANGED mem
  /\ \/ ~BothAligned /\ mem[p] # mem[q] /\ Gives(Ordered(mem[p], mem[q]))
     \/ ~BothAligned /\ mem[p] = mem[q]
          /\ IF mem[p] = 0 THEN Gives(0) ELSE Goes(p + 1, q + 1, n)
     \/ /\ BothAligned /\ ~SameWord
        /\ LET k == Min({i \in Lane : mem[p + i] # mem[q + i] \/ mem[p + i] = 0})
           IN Gives(IF mem[p + k] = mem[q + k] THEN 0 ELSE Ordered(mem[p + k], mem[q + k]))
     \/ BothAligned /\ SameWord /\ IF HasZero(p) THEN Gives(0) ELSE Goes(p + 4, q + 4, n)

\* Wrong: after a mismatch the search does not go on.
StrstrStays ==
  /\ In("strstr") /\ UNCHANGED mem
  /\ \/ mem[p] = 0 /\ Gives(IF p = First /\ mem[q] = 0 THEN p ELSE Null)
     \/ mem[p] # 0 /\ mem[q + n] = 0 /\ Gives(p)
     \/ /\ mem[p] # 0 /\ mem[q + n] # 0
        /\ IF mem[q + n] # mem[p + n] THEN Goes(p, q, 0) ELSE Goes(p, q, n + 1)

\* n is i, the length of the match at p.
Strstr ==
  /\ In("strstr") /\ UNCHANGED mem
  /\ \/ mem[p] = 0 /\ Gives(IF p = First /\ mem[q] = 0 THEN p ELSE Null)
     \/ mem[p] # 0 /\ mem[q + n] = 0 /\ Gives(p)
     \/ /\ mem[p] # 0 /\ mem[q + n] # 0
        /\ IF mem[q + n] # mem[p + n] THEN Goes(p + 1, q, 0) ELSE Goes(p, q, n + 1)

StringStep == Memcpy \/ Memset \/ Memcmp \/ Strcpy \/ Strcmp \/ Strstr

-----------------------------------------------------------------------------
(* What C asks of a caller and what it promises in return, over the memory m   *)
(* as the call c finds it.                                                     *)

EndOf(m, a) == Min({i \in a .. MemSize - 1 : m[i] = 0})
StrLen(m, a) == EndOf(m, a) - a

Inside(a, k) == a + k <= MemSize
Disjoint(a, b, k) == a + k <= b \/ b + k <= a
Terminated(m, a) == \E i \in a .. MemSize - 1 : m[i] = 0

\* Bytes in the memory, strings with their end, and no copy into what is copied.
Legal(c, m) ==
  /\ m \in [0 .. MemSize - 1 -> 0 .. 255] /\ {c.p, c.q, c.n} \subseteq Nat
  /\ \/ c.fn = "memcpy" /\ Inside(c.p, c.n) /\ Inside(c.q, c.n) /\ Disjoint(c.p, c.q, c.n)
     \/ c.fn = "memset" /\ Inside(c.p, c.n)
     \/ c.fn = "memcmp" /\ Inside(c.p, c.n) /\ Inside(c.q, c.n)
     \/ c.fn = "strcpy" /\ Terminated(m, c.q) /\ LET size == StrLen(m, c.q) + 1
                                                 IN Inside(c.p, size) /\ Disjoint(c.p, c.q, size)
     \/ c.fn \in {"strcmp", "strstr"} /\ c.n = 0 /\ Terminated(m, c.p) /\ Terminated(m, c.q)

SameBytes(m, a, b, k) == \A i \in 0 .. k - 1 : m[a + i] = m[b + i]
FirstDifference(m, a, b, k) == Min({i \in 0 .. k - 1 : m[a + i] # m[b + i]})
Copied(m, a, b, k) == [i \in DOMAIN m |-> IF i \in a .. a + k - 1 THEN m[b + i - a] ELSE m[i]]
Filled(m, a, v, k) == [i \in DOMAIN m |-> IF i \in a .. a + k - 1 THEN v % 256 ELSE m[i]]

Compared(m, a, b) ==
  LET len == StrLen(m, a) + 1
  IN IF SameBytes(m, a, b, len) THEN 0
     ELSE LET d == FirstDifference(m, a, b, len) IN Ordered(m[a + d], m[b + d])

Positions(m, a, b) == {i \in a .. EndOf(m, a) - StrLen(m, b) : SameBytes(m, i, b, StrLen(m, b))}

Promised(c, m) ==
  CASE c.fn = "memcpy" -> [mem |-> Copied(m, c.p, c.q, c.n), value |-> c.p]
    [] c.fn = "memset" -> [mem |-> Filled(m, c.p, c.q, c.n), value |-> Null]
    [] c.fn = "memcmp" -> [mem |-> m, value |->
         IF SameBytes(m, c.p, c.q, c.n) THEN 0
         ELSE LET d == FirstDifference(m, c.p, c.q, c.n) IN m[c.p + d] - m[c.q + d]]
    [] c.fn = "strcpy" -> [mem |-> Copied(m, c.p, c.q, StrLen(m, c.q) + 1), value |-> c.p]
    [] c.fn = "strcmp" -> [mem |-> m, value |-> Compared(m, c.p, c.q)]
    [] c.fn = "strstr" -> [mem |-> m, value |->
         IF Positions(m, c.p, c.q) = {} THEN Null ELSE Min(Positions(m, c.p, c.q))]

\* Whatever the alignments of the two strings and whatever follows them in memory, a
\* function returns what C promises and changes no byte besides (stdlib.c 31-195).
StringsRight ==
  ret # Running => LET promised == Promised(called.call, called.mem)
                   IN ret = Returned(promised.value) /\ mem = promised.mem
=============================================================================
