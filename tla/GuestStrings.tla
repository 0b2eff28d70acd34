------------------------------ MODULE GuestStrings ------------------------------
(***************************************************************************)
(* The C library calls on memory and strings, on numbers in text and on    *)
(* the fields of printf that the compat layer carries out itself.  Memory  *)
(* is read in chunks, up to a limit, and may end in the middle of one.     *)
(*                                                                         *)
(* A byte is 0, or a letter in one of two cases: 1 folds to 2.  A call     *)
(* answers [ok, ret, memory]: ok is FALSE where the code answers EFAULT or *)
(* leaves the call to others.  Each call is checked against what C says of *)
(* it, wherever C says something.                                          *)
(***************************************************************************)
EXTENDS Integers, Sequences, FiniteSets, SequencesExt

CONSTANTS MemSize,      \* addresses are 1..MemSize, 0 is NULL
          ChunkSize,    \* CSTRING_READ_CHUNK_BYTES
          StringLimit,  \* MAX_GUEST_STRING_BYTES
          WordBits,     \* bits of a long
          MaxText,      \* a bound of the model on the text of a number
          MaxWidth      \* and on widths and precisions

ASSUME StringAssumption ==
  /\ {MemSize, ChunkSize, StringLimit, WordBits, MaxText, MaxWidth} \subseteq Nat \ {0}

VARIABLES memory,       \* the guest's memory
          text,         \* characters of a number the guest parses
          field,        \* PrintfField of the directive that is being read
          stage         \* which of these is looked at, and how far the directive is read
stringvars == <<memory, text, field, stage>>

Gone == -1      \* not mapped
Letters == {1, 2}
Min2(a, b) == IF a < b THEN a ELSE b
Max2(a, b) == IF a < b THEN b ELSE a
LeastOf(S) == CHOOSE x \in S : \A y \in S : x <= y

-------------------------------------------------------------------------------
(***************************************************************************)
(* Reading and comparing.                                                  *)
(***************************************************************************)
ByteAt(p) == IF p \in DOMAIN memory THEN memory[p] ELSE Gone
Present(p, n) == \A i \in 0..(n - 1) : ByteAt(p + i) # Gone
Chars(p, n) == [i \in 1..n |-> memory[p + i - 1]]
Stop(bytes) == SelectInSeq(bytes, LAMBDA b : b = 0)

\* read_cstring_bytes_with_truncation: a chunk that is not wholly mapped is scanned
\* byte by byte.
\* Mutant: it is an error.
Scanned(p, n) ==
  LET end == LeastOf({i \in 0..(n - 1) : ByteAt(p + i) \in {0, Gone}})
  IN IF ByteAt(p + end) = 0 THEN Append(Chars(p, end), 0) ELSE <<Gone>>
ChunkWhole(p, n) == IF Present(p, n) THEN Chars(p, n) ELSE <<Gone>>
Chunk(p, n) == IF Present(p, n) THEN Chars(p, n) ELSE Scanned(p, n)
CString(p, max) ==
  LET step(r, offset) ==
        LET bytes == Chunk(p + offset, Min2(ChunkSize, max - offset))
        IN IF r.done \/ ~r.ok THEN r
           ELSE IF bytes = <<Gone>> THEN [r EXCEPT !.ok = FALSE]
           ELSE IF Stop(bytes) # 0 THEN [r EXCEPT !.done = TRUE, !.bytes = @ \o SubSeq(bytes, 1, Stop(bytes) - 1)]
           ELSE [r EXCEPT !.bytes = @ \o bytes]
  IN FoldLeft(step, [ok |-> TRUE, done |-> FALSE, bytes |-> <<>>],
              [k \in 1..((max + ChunkSize - 1) \div ChunkSize) |-> (k - 1) * ChunkSize])

Get(bytes, i) == IF i \in DOMAIN bytes THEN bytes[i] ELSE 0
Fold(b) == IF b = 1 THEN 2 ELSE b
Compared(l, r, n) ==
  LET differ == {i \in 1..n : Get(l, i) # Get(r, i)}
  IN IF differ = {} THEN 0 ELSE Get(l, LeastOf(differ)) - Get(r, LeastOf(differ))
\* compare_cstring_bytes and its folding twin; no limit is the longer string and one.
ComparedStrings(l, r, limit, fold) ==
  LET key(b) == IF fold THEN Fold(b) ELSE b
      n == IF limit = Gone THEN Max2(Len(l), Len(r)) + 1 ELSE limit
      ends == {i \in 1..n : key(Get(l, i)) # key(Get(r, i)) \/ Get(l, i) = 0}
  IN IF ends = {} THEN 0 ELSE key(Get(l, LeastOf(ends))) - key(Get(r, LeastOf(ends)))

Answer(ok, ret) == [ok |-> ok, ret |-> ret, memory |-> memory]
Memcmp(l, r, n) ==
  IF n = 0 THEN Answer(TRUE, 0)
  ELSE IF l = 0 \/ r = 0 \/ ~Present(l, n) \/ ~Present(r, n) THEN Answer(FALSE, 0)
  ELSE Answer(TRUE, Compared(Chars(l, n), Chars(r, n), n))
Memchr(p, b, n) ==
  IF n = 0 THEN Answer(TRUE, 0)
  ELSE IF p = 0 \/ ~Present(p, n) THEN Answer(FALSE, 0)
  ELSE LET found == SelectInSeq(Chars(p, n), LAMBDA c : c = b)
       IN Answer(TRUE, IF found = 0 THEN 0 ELSE p + found - 1)

\* The first window of a haystack that is the needle.
Window(p, haystack, needle, fold) ==
  LET key(b) == IF fold THEN Fold(b) ELSE b
      at == {i \in 0..(Len(haystack) - Len(needle)) :
               \A j \in DOMAIN needle : key(haystack[i + j]) = key(needle[j])}
  IN IF at = {} THEN 0 ELSE p + LeastOf(at)
Memmem(p, n, q, k) ==
  IF k = 0 THEN Answer(TRUE, p)
  ELSE IF n = 0 \/ k > n THEN Answer(TRUE, 0)
  ELSE IF p = 0 \/ q = 0 \/ ~Present(p, n) \/ ~Present(q, k) THEN Answer(FALSE, 0)
  ELSE Answer(TRUE, Window(p, Chars(p, n), Chars(q, k), FALSE))

Strlen(p) == LET s == CString(p, StringLimit) IN Answer(s.ok, Len(s.bytes))
Strcmp(l, r) ==
  LET s == CString(l, StringLimit)
      t == CString(r, StringLimit)
  IN Answer(s.ok /\ t.ok, ComparedStrings(s.bytes, t.bytes, Gone, FALSE))
Strncmp(l, r, n) ==
  LET s == CString(l, Min2(n, StringLimit))
      t == CString(r, Min2(n, StringLimit))
  IN Answer(s.ok /\ t.ok, ComparedStrings(s.bytes, t.bytes, n, FALSE))
\* strcasecmp has no limit, strncasecmp has one.
Strcasecmp(l, r, limit) ==
  LET max == IF limit = Gone THEN StringLimit ELSE Min2(limit, StringLimit)
      s == CString(l, max)
      t == CString(r, max)
  IN Answer(s.ok /\ t.ok, ComparedStrings(s.bytes, t.bytes, limit, TRUE))
Strchr(p, b, last) ==
  LET s == CString(p, StringLimit)
      at == {i \in DOMAIN s.bytes : s.bytes[i] = b}
      found == IF b = 0 THEN Len(s.bytes) + 1
               ELSE IF last THEN CHOOSE i \in at : \A j \in at : j <= i ELSE LeastOf(at)
  IN Answer(s.ok, IF b # 0 /\ at = {} THEN 0 ELSE p + found - 1)
Strstr(p, q, fold) ==
  LET s == CString(p, StringLimit)
      t == CString(q, StringLimit)
  IN Answer(s.ok /\ t.ok, IF t.bytes = <<>> THEN p ELSE Window(p, s.bytes, t.bytes, fold))

-------------------------------------------------------------------------------
(***************************************************************************)
(* Writing: the whole write fails if a byte of it is not mapped.           *)
(***************************************************************************)
Stored(p, bytes, ret) ==
  IF p = 0 \/ ~Present(p, Len(bytes)) THEN Answer(FALSE, 0)
  ELSE [ok |-> TRUE, ret |-> ret,
        memory |-> [a \in DOMAIN memory |->
                      IF a \in p..(p + Len(bytes) - 1) THEN bytes[a - p + 1] ELSE memory[a]]]
Memcpy(d, s, n) ==
  IF n = 0 THEN Answer(TRUE, d)
  ELSE IF d = 0 \/ s = 0 \/ ~Present(s, n) THEN Answer(FALSE, 0)
  ELSE Stored(d, Chars(s, n), d)
Memset(d, b, n) == IF n = 0 THEN Answer(TRUE, d) ELSE Stored(d, [i \in 1..n |-> b], d)
Strcpy(d, s) ==
  LET r == CString(s, StringLimit)
  IN IF ~r.ok THEN Answer(FALSE, 0) ELSE Stored(d, Append(r.bytes, 0), d)
Strncpy(d, s, n) ==
  LET r == CString(s, Min2(n, StringLimit))
  IN IF ~r.ok THEN Answer(FALSE, 0)
     ELSE IF n = 0 THEN Answer(TRUE, d)
     ELSE Stored(d, [i \in 1..n |-> Get(r.bytes, i)], d)
Strlcpy(d, s, n) ==
  LET r == CString(s, StringLimit)
  IN IF ~r.ok THEN Answer(FALSE, 0)
     ELSE IF n = 0 THEN Answer(TRUE, Len(r.bytes))
     ELSE Stored(d, Append(SubSeq(r.bytes, 1, Min2(Len(r.bytes), n - 1)), 0), Len(r.bytes))
\* strlcat: a destination that has no end within its size is left alone.
Strlcat(d, s, n) ==
  LET r == CString(s, StringLimit)
      found == Stop(Chars(d, Min2(n, StringLimit)))
      length == IF found = 0 THEN n ELSE found - 1
      space == n - length - 1
  IN IF ~r.ok THEN Answer(FALSE, 0)
     ELSE IF n = 0 THEN Answer(TRUE, Len(r.bytes))
     ELSE IF d = 0 \/ ~Present(d, Min2(n, StringLimit)) THEN Answer(FALSE, 0)
     ELSE IF length >= n THEN Answer(TRUE, n + Len(r.bytes))
     ELSE IF space = 0 THEN Answer(TRUE, length + Len(r.bytes))
     ELSE Stored(d + length, Append(SubSeq(r.bytes, 1, Min2(Len(r.bytes), space)), 0),
                 length + Len(r.bytes))
Strcat(d, s) ==
  LET to == CString(d, StringLimit)
      from == CString(s, StringLimit)
  IN IF ~to.ok \/ ~from.ok THEN Answer(FALSE, 0)
     ELSE Stored(d + Len(to.bytes), Append(from.bytes, 0), d)
\* snprintf of a text that is rendered.
Snprintf(d, n, rendered) ==
  IF n = 0 THEN Answer(TRUE, Len(rendered))
  ELSE Stored(d, Append(SubSeq(rendered, 1, Min2(Len(rendered), n - 1)), 0), Len(rendered))

-------------------------------------------------------------------------------
(***************************************************************************)
(* Numbers in text: strtol and strtoul.  Values are of WordBits bits; the  *)
(* code computes in 128.                                                   *)
(***************************************************************************)
Digits == [c \in {"0", "1", "9", "f"} |-> CASE c = "0" -> 0 [] c = "1" -> 1 [] c = "9" -> 9 [] OTHER -> 15]
DigitAt(i) == IF i \in DOMAIN text /\ text[i] \in DOMAIN Digits THEN Digits[text[i]] ELSE 99
CharAt(i) == IF i \in DOMAIN text THEN text[i] ELSE "end"
Word == 2^WordBits
Signs == {"-", "+"}

Strto(base, signed) ==
  LET skipped == LeastOf({i \in 1..(Len(text) + 1) : CharAt(i) # " "})
      negative == CharAt(skipped) = "-"
      body == IF CharAt(skipped) \in Signs THEN skipped + 1 ELSE skipped
      hex == CharAt(body) = "0" /\ CharAt(body + 1) = "x" /\ DigitAt(body + 2) < 16
      radix == IF base # 0 THEN base
               ELSE IF hex THEN 16 ELSE IF CharAt(body) = "0" THEN 8 ELSE 10
      first == IF radix = 16 /\ hex THEN body + 2 ELSE body
      last == LeastOf({i \in first..(Len(text) + 1) : DigitAt(i) >= radix})
      limit == IF ~signed THEN Word - 1 ELSE IF negative THEN Word \div 2 ELSE Word \div 2 - 1
      step(r, digit) ==
        IF r.value > Max2(limit - digit, 0) \div radix THEN [over |-> TRUE, value |-> limit]
        ELSE IF r.over THEN r ELSE [r EXCEPT !.value = @ * radix + digit]
      r == FoldLeft(step, [over |-> FALSE, value |-> 0], [k \in 1..(last - first) |-> DigitAt(first + k - 1)])
  IN IF base # 0 /\ base \notin 2..36 THEN [ret |-> 0, end |-> 0, errno |-> "EINVAL"]
     ELSE IF last = first THEN [ret |-> 0, end |-> 0, errno |-> "none"]
     ELSE [ret |-> IF ~negative THEN r.value
                   ELSE IF signed THEN -r.value ELSE (Word - r.value) % Word,
           end |-> last - 1, errno |-> IF r.over THEN "ERANGE" ELSE "none"]

-------------------------------------------------------------------------------
(***************************************************************************)
(* printf: a directive's flags, width and precision are read one after the *)
(* other; a `*` takes an argument of 32 bits, which may be negative.       *)
(***************************************************************************)
Absent == -1
NewField == [zero |-> FALSE, left |-> FALSE, sign |-> FALSE, space |-> FALSE, alternate |-> FALSE,
             width |-> Absent, precision |-> Absent]
Flag(name) ==
  /\ stage = "flags" /\ field' = [field EXCEPT ![name] = TRUE]
  /\ UNCHANGED <<memory, text, stage>>
Width(n) ==
  /\ stage = "flags" /\ stage' = "width" /\ field' = [field EXCEPT !.width = n]
  /\ UNCHANGED <<memory, text>>
DynamicWidth(n) ==
  /\ stage = "flags" /\ stage' = "width"
  /\ field' = IF n < 0 THEN [field EXCEPT !.left = TRUE, !.width = -n] ELSE [field EXCEPT !.width = n]
  /\ UNCHANGED <<memory, text>>
Precision(n) ==
  /\ stage \in {"flags", "width"} /\ stage' = "precision" /\ field' = [field EXCEPT !.precision = n]
  /\ UNCHANGED <<memory, text>>
DynamicPrecision(n) ==
  /\ stage \in {"flags", "width"} /\ stage' = "precision"
  /\ field' = IF n < 0 THEN field ELSE [field EXCEPT !.precision = n]
  /\ UNCHANGED <<memory, text>>

\* A rendered value is its prefix (sign or 0x) and its digits.
Rep(c, n) == [i \in 1..n |-> c]
Precise(v) == [v EXCEPT !.digits = Rep("0", field.precision - Len(@)) \o @]
Widened(v, zeros) ==
  LET n == field.width - Len(v.prefix) - Len(v.digits)
  IN IF n <= 0 THEN v.prefix \o v.digits
     ELSE IF field.left THEN v.prefix \o v.digits \o Rep(" ", n)
     ELSE IF field.zero /\ zeros /\ field.precision = Absent THEN v.prefix \o Rep("0", n) \o v.digits
     ELSE Rep(" ", n) \o v.prefix \o v.digits
Signed(negative, digits) ==
  Widened(Precise([digits |-> digits,
                   prefix |-> IF negative THEN <<"-">> ELSE IF field.sign THEN <<"+">>
                              ELSE IF field.space THEN <<" ">> ELSE <<>>]), TRUE)
Unsigned(digits) == Widened(Precise([digits |-> digits, prefix |-> <<>>]), TRUE)
Hex(digits) ==
  Widened(Precise([digits |-> digits,
                   prefix |-> IF field.alternate /\ digits # <<"0">> THEN <<"0", "x">> ELSE <<>>]), TRUE)
Text(chars) ==
  Widened([prefix |-> <<>>, digits |-> IF field.precision = Absent THEN chars
                                       ELSE SubSeq(chars, 1, Min2(field.precision, Len(chars)))], FALSE)

-------------------------------------------------------------------------------
StringInit ==
  /\ memory \in [1..MemSize -> {0} \cup Letters] \cup {Append(m, Gone) : m \in [1..(MemSize - 1) -> {0} \cup Letters]}
  /\ text = <<>> /\ field = NewField /\ stage \in {"memory", "number", "flags"}
  /\ stage # "memory" => \A p \in 1..MemSize : memory[p] = 0

Places == 0..MemSize
Sizes == 0..(MemSize - 1)
Texts == {<<>>, <<1>>, <<2, 1, 1>>}
Took(answer) == memory' = answer.memory
WriteCall ==
  /\ stage = "memory" /\ UNCHANGED <<text, field, stage>>
  /\ \E d, s \in Places, n \in Sizes :
       \/ Took(Memcpy(d, s, n)) \/ Took(Strncpy(d, s, n))
       \/ Took(Strlcpy(d, s, n)) \/ Took(Strlcat(d, s, n))
       \/ Took(Strcpy(d, s)) \/ Took(Strcat(d, s))
       \/ \E b \in Letters : Took(Memset(d, b, n))
       \/ \E t \in Texts : Took(Snprintf(d, n, t))
Type == /\ stage = "number" /\ Len(text) < MaxText
        /\ \E c \in {" ", "x"} \cup Signs \cup DOMAIN Digits : text' = Append(text, c)
        /\ UNCHANGED <<memory, field, stage>>
Directive ==
  \/ \E name \in {"zero", "left", "sign", "space", "alternate"} : Flag(name)
  \/ \E n \in 0..MaxWidth : Width(n) \/ Precision(n)
  \/ \E n \in -MaxWidth..MaxWidth : DynamicWidth(n) \/ DynamicPrecision(n)
StringNext == WriteCall \/ Type \/ Directive
StringSpec == StringInit /\ [][StringNext]_stringvars

-------------------------------------------------------------------------------
(***************************************************************************)
(* What C says, of strings that end within memory and within the limit.    *)
(***************************************************************************)
EndsAt(p, n) == ByteAt(p + n) = 0 /\ \A i \in 0..(n - 1) : ByteAt(p + i) \notin {0, Gone}
IsString(p) == \E n \in 0..StringLimit : EndsAt(p, n)
StringAt(p) == Chars(p, CHOOSE n \in 0..StringLimit : EndsAt(p, n))
Ended(s) == Append(s, 0)
UpTo(s, n) == SubSeq(s, 1, Min2(n, Len(s)))
Folded(s) == [i \in DOMAIN s |-> Fold(s[i])]

\* What a comparison of two byte sequences must say.
Orders3(ret, s, t) ==
  /\ ret = 0 <=> s = t
  /\ ret < 0 <=> \E i \in DOMAIN s \cap DOMAIN t : SubSeq(s, 1, i - 1) = SubSeq(t, 1, i - 1) /\ s[i] < t[i]
FirstOccurrence(ret, p, s, t) ==
  LET at(i) == IsPrefix(t, SubSeq(s, i + 1, Len(s)))
  IN IF ret = 0 THEN \A i \in 0..Len(s) : ~at(i)
     ELSE at(ret - p) /\ \A i \in 0..(ret - p - 1) : ~at(i)

\* Comparisons and searches, wherever the strings lie, also when memory ends in the
\* chunk behind them.
ReadersAgree ==
  \A p, q \in Places : IsString(p) /\ IsString(q) =>
    LET s == StringAt(p)
        t == StringAt(q)
        said(answer, holds) == answer.ok /\ holds /\ answer.memory = memory
    IN /\ said(Strlen(p), Strlen(p).ret = Len(s))
       /\ said(Strcmp(p, q), Orders3(Strcmp(p, q).ret, Ended(s), Ended(t)))
       /\ said(Strcasecmp(p, q, Gone), Orders3(Strcasecmp(p, q, Gone).ret, Ended(Folded(s)), Ended(Folded(t))))
       /\ \A n \in Sizes :
            LET l == UpTo(Ended(s), n)
                r == UpTo(Ended(t), n)
            IN /\ said(Strncmp(p, q, n), Orders3(Strncmp(p, q, n).ret, l, r))
               /\ said(Strcasecmp(p, q, n), Orders3(Strcasecmp(p, q, n).ret, Folded(l), Folded(r)))
               /\ Present(p, n) /\ Present(q, n) =>
                    /\ Orders3(Memcmp(p, q, n).ret, Chars(p, n), Chars(q, n))
                    /\ Len(t) <= n => FirstOccurrence(Memmem(p, n, q, Len(t)).ret, p, Chars(p, n), t)
       /\ \A b \in Letters :
            LET at == {i \in DOMAIN s : s[i] = b}
            IN /\ FirstOccurrence(Strchr(p, b, FALSE).ret, p, s, <<b>>)
               /\ FirstOccurrence(Memchr(p, b, Len(s)).ret, p, s, <<b>>)
               /\ Strchr(p, b, TRUE).ret = IF at = {} THEN 0 ELSE p - 1 + CHOOSE i \in at : \A j \in at : j <= i
       /\ Strchr(p, 0, FALSE).ret = p + Len(s)
       /\ said(Strstr(p, q, FALSE), FirstOccurrence(Strstr(p, q, FALSE).ret, p, s, t))
       /\ said(Strstr(p, q, TRUE), FirstOccurrence(Strstr(p, q, TRUE).ret, p, Folded(s), Folded(t)))

\* A call that has room leaves exactly these bytes at d, and the rest of memory alone.
Leaves(answer, ret, d, bytes) ==
  answer.ok /\ answer.ret = ret /\ answer.memory =
    [a \in DOMAIN memory |-> IF a \in d..(d + Len(bytes) - 1) THEN bytes[a - d + 1] ELSE memory[a]]
\* Writers see the source as it was, although it may overlap; a size is never exceeded,
\* and what is cut is told.
WritersAgree ==
  \A d \in Places \ {0}, q \in Places, n \in Sizes :
    LET s == StringAt(q)
        dest == StringAt(d)
        cut(bytes) == UpTo(bytes, n - 1)
    IN /\ IsString(q) =>
            /\ Present(d, Len(s) + 1) => Leaves(Strcpy(d, q), d, d, Ended(s))
            /\ Present(d, n) =>
                 /\ Leaves(Strncpy(d, q, n), d, d, [i \in 1..n |-> Get(s, i)])
                 /\ Leaves(Strlcpy(d, q, n), Len(s), d, IF n = 0 THEN <<>> ELSE Ended(cut(s)))
                 /\ IF IsString(d) /\ Len(dest) < n
                    THEN Leaves(Strlcat(d, q, n), Len(dest) + Len(s), d, Ended(cut(dest \o s)))
                    ELSE Leaves(Strlcat(d, q, n), n + Len(s), d, <<>>)
                 /\ Leaves(Snprintf(d, n, s), Len(s), d, IF n = 0 THEN <<>> ELSE Ended(cut(s)))
            /\ IsString(d) /\ Present(d, Len(dest) + Len(s) + 1) => Leaves(Strcat(d, q), d, d, Ended(dest \o s))
       /\ Present(d, n) =>
            /\ q # 0 /\ Present(q, n) => Leaves(Memcpy(d, q, n), d, d, Chars(q, n))
            /\ Leaves(Memset(d, 2, n), d, d, Rep(2, n))

\* A number is the longest text of its grammar, its value clipped to the word.  The
\* code answers 1 for an unsigned number below -(2^WordBits), where C says ULONG_MAX.
Numeral(base, end, blanks, sign, hex) ==
  LET first == blanks + sign + hex + 1
      radix == IF base # 0 THEN base ELSE IF hex = 2 THEN 16 ELSE IF CharAt(first) = "0" THEN 8 ELSE 10
  IN [ok |-> /\ \A i \in 1..blanks : text[i] = " "
             /\ sign = 1 => CharAt(blanks + 1) \in Signs
             /\ hex = 2 => base \in {0, 16} /\ CharAt(first - 2) = "0" /\ CharAt(first - 1) = "x"
             /\ first <= end /\ \A i \in first..end : DigitAt(i) < radix,
      end |-> end, negative |-> sign = 1 /\ CharAt(blanks + 1) = "-",
      value |-> FoldLeft(LAMBDA v, i : v * radix + DigitAt(i), 0, [k \in 1..(end - first + 1) |-> first + k - 1])]
NumbersAgree ==
  \A base \in {0, 8, 10, 16}, signed \in BOOLEAN :
    LET n == Len(text)
        numerals == {m \in {Numeral(base, end, blanks, sign, hex) :
                              end \in 1..n, blanks \in 0..(n - 1), sign \in 0..1, hex \in {0, 2}} : m.ok}
        m == CHOOSE m \in numerals : \A k \in numerals : k.end <= m.end
        answer == Strto(base, signed)
        low == IF signed THEN -(Word \div 2) ELSE 1 - Word
        high == IF signed THEN Word \div 2 - 1 ELSE Word - 1
        value == IF m.negative THEN -m.value ELSE m.value
    IN IF numerals = {} THEN answer.end = 0 /\ answer.ret = 0
       ELSE /\ answer.end = m.end
            /\ answer.errno = "ERANGE" <=> value \notin low..high
            /\ value > high => answer.ret = high
            /\ value < low /\ signed => answer.ret = low
            /\ value \in low..high => answer.ret = IF signed THEN value ELSE value % Word

\* A directive's text is blanks, the prefix, zeros, the digits and blanks; its length
\* follows from width and precision, its sides from the flags.  Of a zero with
\* precision 0 the code prints the digit, which C does not.
Layout(out, prefix, digits) ==
  /\ Len(out) = Max2(field.width, Len(prefix) + Max2(field.precision, Len(digits)))
  /\ \E a, z, b \in 0..MaxWidth :
       /\ out = Rep(" ", a) \o prefix \o Rep("0", z) \o digits \o Rep(" ", b)
       /\ IF field.left THEN a = 0 ELSE b = 0
       /\ IF field.zero /\ ~field.left /\ field.precision = Absent
          THEN a = 0 ELSE z = Max2(0, field.precision - Len(digits))
FieldsAgree ==
  \A digits \in {<<"0">>, <<"7">>, <<"1", "2">>} :
    digits # <<"0">> \/ field.precision # 0 =>
      /\ Layout(Signed(TRUE, digits), <<"-">>, digits)
      /\ Layout(Signed(FALSE, digits),
                IF field.sign THEN <<"+">> ELSE IF field.space THEN <<" ">> ELSE <<>>, digits)
      /\ Layout(Unsigned(digits), <<>>, digits)
      /\ Layout(Hex(digits), IF field.alternate /\ digits # <<"0">> THEN <<"0", "x">> ELSE <<>>, digits)
      /\ Len(Text(digits)) = Max2(field.width, IF field.precision = Absent THEN Len(digits)
                                               ELSE Min2(field.precision, Len(digits)))

StringsAgree == CASE stage = "memory" -> ReadersAgree /\ WritersAgree
                  [] stage = "number" -> NumbersAgree
                  [] OTHER -> FieldsAgree
===============================================================================
