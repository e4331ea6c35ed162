------------------------------- MODULE Printf -------------------------------
(***************************************************************************)
(* The formatted output of the teaching operating system (os/src/printf.c, *)
(* as built: no floating point).  The format is not a variable: each step  *)
(* of the scan finds the character it finds, but a format does not end     *)
(* inside a conversion.  A character is a string of length one.            *)
(***************************************************************************)
EXTENDS Integers, Sequences, FiniteSets, Powers

CONSTANTS
  BufferSize,   \* PRINTF_NTOA_BUFFER_SIZE
  Bits,         \* width of "char", "short", "int", "long", "long long"
  Ints,         \* arguments: numbers,
  Strings,      \* and strings
  Digits,       \* digits a width or a precision is written with
  MaxLens,      \* sizes of the buffer given to snprintf
  MaxField,     \* bound: widths and precisions
  MaxText       \* bound: characters before and after the conversion

ASSUME PrintfAssumption ==
  /\ BufferSize \in Nat \ {0} /\ MaxLens \subseteq Nat /\ Strings \subseteq Seq(STRING)
  /\ Digits \subseteq 0 .. 9 /\ MaxField \in Nat /\ MaxText \in Nat /\ Ints \subseteq Int
  /\ \A s \in {"char", "short", "int", "long", "long long"} : Bits[s] \in 1 .. 64

Nul == "nul"
Untouched == "untouched"
None == -1

VARIABLES
  pc,         \* where the scan is: "text" or in which field, "done"
  flags,      \* FLAGS_...
  width, precision,
  size,       \* what the length field leaves in the flags
  buffer,     \* snprintf's buffer, with the byte behind it
  maxlen,
  idx,
  full,       \* history: every character handed to out()
  given       \* history: the conversion as it is written, and its argument

vars == <<pc, flags, width, precision, size, buffer, maxlen, idx, full, given>>

Fresh == [flags |-> {}, width |-> 0, precision |-> None, size |-> "int",
          spec |-> "", arg |-> 0, at |-> 0, to |-> 0]

Init ==
  /\ pc = "text"
  /\ flags = {} /\ width = 0 /\ precision = 0 /\ size = "int"
  /\ maxlen \in MaxLens
  /\ buffer = [k \in 0 .. maxlen |-> Untouched]
  /\ idx = 0 /\ full = <<>>
  /\ given = Fresh

------------------------------------------------------------------------------
(* Output. *)

\* _out_buffer: what the buffer holds when s has been put out from index i on.
_out_buffer(b, s, i) ==
  [k \in DOMAIN b |-> IF k \in i .. i + Len(s) - 1 /\ k < maxlen THEN s[k - i + 1] ELSE b[k]]

out(s) ==
  /\ buffer' = _out_buffer(buffer, s, idx)
  /\ idx' = idx + Len(s)
  /\ full' = full \o s
  /\ UNCHANGED maxlen

Fill(c, n) == [k \in 1 .. n |-> c]
Smaller(a, b) == IF a < b THEN a ELSE b
Larger(a, b) == IF a > b THEN a ELSE b

\* The number in buf stands there with its last digit first.
_out_rev(buf, w, f) ==
  LET blanks == Fill(" ", w - Len(buf))
      text == [k \in 1 .. Len(buf) |-> buf[Len(buf) + 1 - k]]
  IN (IF f \cap {"left", "zeropad"} = {} THEN blanks ELSE <<>>)
     \o text \o (IF "left" \in f THEN blanks ELSE <<>>)

------------------------------------------------------------------------------
(* Numbers. *)

HasRoom(buf) == Len(buf) < BufferSize
Put(buf, c) == IF HasRoom(buf) THEN Append(buf, c) ELSE buf

\* Zeros up to length n, as far as there is room.
PutZeros(buf, n) == buf \o Fill("0", Smaller(n, BufferSize) - Len(buf))

\* Mutant: no place for the sign.
PadWidth_all(negative, w, f) == w

\* Padding leaves a place for the sign, if there will be one.
PadWidth(negative, w, f) ==
  IF "left" \notin f /\ "zeropad" \in f /\ w > 0 /\ (negative \/ f \cap {"plus", "space"} # {})
  THEN w - 1 ELSE w

LeadingZeros(buf, prec, w, f) ==
  IF "left" \in f THEN buf
  ELSE LET precise == PutZeros(buf, prec)
       IN IF "zeropad" \in f THEN PutZeros(precise, w) ELSE precise

\* The prefix replaces digits, taken to be padding, that fill the field.
Prefix(buf, base, prec, w, f) ==
  LET n == Len(buf)
      cut == IF "precision" \notin f /\ n > 0 /\ n \in {prec, w}
             THEN IF n > 1 /\ base = 16 THEN 2 ELSE 1
             ELSE 0
      rest == SubSeq(buf, 1, n - cut)
      marked == CASE base = 16 /\ "uppercase" \notin f -> Put(rest, "x")
                  [] base = 16 /\ "uppercase" \in f -> Put(rest, "X")
                  [] base = 2 -> Put(rest, "b")
                  [] OTHER -> rest
  IN Put(marked, "0")

Sign(buf, negative, f) ==
  CASE negative -> Put(buf, "-")
    [] ~negative /\ "plus" \in f -> Put(buf, "+")
    [] ~negative /\ "plus" \notin f /\ "space" \in f -> Put(buf, " ")
    [] OTHER -> buf

_ntoa_format(buf, negative, base, prec, w, f) ==
  LET pw == PadWidth(negative, w, f)
      zeros == LeadingZeros(buf, prec, pw, f)
      hashed == IF "hash" \in f THEN Prefix(zeros, base, prec, pw, f) ELSE zeros
  IN _out_rev(Sign(hashed, negative, f), pw, f)

Numerals == <<"0", "1", "2", "3", "4", "5", "6", "7", "8", "9", "a", "b", "c", "d", "e", "f">>
Capitals == <<"0", "1", "2", "3", "4", "5", "6", "7", "8", "9", "A", "B", "C", "D", "E", "F">>

Numeral(d, upper) == IF upper THEN Capitals[d + 1] ELSE Numerals[d + 1]

\* The number of digits of v; 0 has one, and 64 bits have at most 64.
Places(v, base) ==
  LET Enough(n) == n = 64 \/ v < Power(base)[n]
  IN CHOOSE n \in 1 .. 64 : Enough(n) /\ \A k \in 1 .. n - 1 : ~Enough(k)

DigitsOf(v, base, upper) ==
  [k \in 1 .. Smaller(Places(v, base), BufferSize) |->
     Numeral((v \div Power(base)[k - 1]) % base, upper)]

_ntoa_long(v, negative, base, prec, w, f) ==
  LET g == IF v = 0 THEN f \ {"hash"} ELSE f
      buf == IF "precision" \in g /\ v = 0 THEN <<>>
             ELSE DigitsOf(v, base, "uppercase" \in g)
  IN _ntoa_format(buf, negative, base, prec, w, g)

------------------------------------------------------------------------------
(* _vsnprintf. *)

\* A character that is not %.
PlainChar ==
  /\ pc = "text" /\ idx < MaxText
  /\ out(<<"t">>)
  /\ UNCHANGED <<given, pc, flags, width, precision, size>>

Percent ==
  /\ pc = "text" /\ given.spec = ""
  /\ pc' = "flags" /\ flags' = {} /\ width' = 0 /\ precision' = 0 /\ size' = "int"
  /\ given' = [Fresh EXCEPT !.at = idx]
  /\ UNCHANGED <<buffer, maxlen, idx, full>>

Flag(x) ==
  /\ pc = "flags"
  /\ flags' = flags \cup {x}
  /\ given' = [given EXCEPT !.flags = flags']
  /\ UNCHANGED <<pc, width, precision, size, buffer, maxlen, idx, full>>

\* One digit of _atoi.  A width does not begin with 0.
WidthDigit(d) ==
  /\ pc \in {"flags", "width"} /\ (pc = "flags" => d # 0)
  /\ width' = 10 * width + d /\ width' <= MaxField
  /\ pc' = "width"
  /\ given' = [given EXCEPT !.width = width']
  /\ UNCHANGED <<flags, precision, size, buffer, maxlen, idx, full>>

WidthStar(w) ==
  /\ pc = "flags"
  /\ IF w < 0 THEN flags' = flags \cup {"left"} /\ width' = -w
              ELSE width' = w /\ UNCHANGED flags
  /\ pc' = "width done"
  /\ given' = [given EXCEPT !.width = w]
  /\ UNCHANGED <<precision, size, buffer, maxlen, idx, full>>

Point ==
  /\ pc \in {"flags", "width", "width done"}
  /\ flags' = flags \cup {"precision"}
  /\ pc' = "point"
  /\ given' = [given EXCEPT !.precision = 0]
  /\ UNCHANGED <<width, precision, size, buffer, maxlen, idx, full>>

PrecisionDigit(d) ==
  /\ pc \in {"point", "precision"}
  /\ pc' = "precision"
  /\ precision' = 10 * precision + d /\ precision' <= MaxField
  /\ given' = [given EXCEPT !.precision = precision']
  /\ UNCHANGED <<flags, width, size, buffer, maxlen, idx, full>>

\* For the standard a negative precision is none at all.
PrecisionStar(p) ==
  /\ pc = "point"
  /\ precision' = Larger(p, 0)
  /\ pc' = "length"
  /\ given' = [given EXCEPT !.precision = Larger(p, None)]
  /\ UNCHANGED <<flags, width, size, buffer, maxlen, idx, full>>

\* l and z, h, hh, and ll and j.
LengthField(s) ==
  /\ pc \in {"flags", "width", "width done", "point", "precision", "length"}
  /\ size' = s /\ pc' = "specifier"
  /\ given' = [given EXCEPT !.size = s]
  /\ UNCHANGED <<flags, width, precision, buffer, maxlen, idx, full>>

InConversion == pc \notin {"text", "done"}

\* The character that ends a conversion, and what it puts out.
Converted(spec, arg, s) ==
  /\ InConversion
  /\ out(s)
  /\ pc' = "text"
  /\ given' = [given EXCEPT !.spec = spec, !.arg = arg, !.to = idx']
  /\ UNCHANGED <<flags, width, precision, size>>

Unsigned(v, bits) == v % Pow2[bits]
Signed(v, bits) ==
  LET u == Unsigned(v, bits) IN IF u < Pow2[bits - 1] THEN u ELSE u - Pow2[bits]

\* A plain char has no sign on this machine.
Narrowed(v) == IF size = "char" THEN Unsigned(v, Bits[size]) ELSE Signed(v, Bits[size])

Base(spec) == CASE spec \in {"x", "X"} -> 16 [] spec = "o" -> 8 [] spec = "b" -> 2
                [] OTHER -> 10

\* The flags a conversion of a number heeds.
Heeded(spec) ==
  (flags \ ((IF Base(spec) = 10 THEN {"hash"} ELSE {})
            \cup (IF spec \notin {"d", "i"} THEN {"plus", "space"} ELSE {})
            \cup (IF "precision" \in flags THEN {"zeropad"} ELSE {})))
  \cup (IF spec = "X" THEN {"uppercase"} ELSE {})

Number(spec, v) ==
  LET value == IF spec \in {"d", "i"} THEN Narrowed(v) ELSE Unsigned(v, Bits[size])
      magnitude == IF value > 0 THEN value ELSE -value
  IN Converted(spec, v,
       _ntoa_long(magnitude, value < 0, Base(spec), precision, width, Heeded(spec)))

\* s, put out to the left or the right in the width, n characters of it counted.
Padded(s, n) ==
  LET blanks == Fill(" ", width - n) IN IF "left" \in flags THEN s \o blanks ELSE blanks \o s

Character(c) == Converted("c", c, Padded(<<c>>, 1))

_strnlen_s(s, maxsize) == Smaller(Len(s), maxsize)

String(s) ==
  LET n == IF precision > 0 THEN _strnlen_s(s, precision) ELSE Len(s)
      l == IF "precision" \in flags THEN Smaller(n, precision) ELSE n
      shown == IF "precision" \in flags THEN SubSeq(s, 1, Smaller(Len(s), precision)) ELSE s
  IN Converted("s", s, Padded(shown, l))

\* A pointer has as many digits as its type, whatever the width says.
Pointer(v) ==
  Converted("p", v, _ntoa_long(v, FALSE, 16, precision, 8, flags \cup {"zeropad", "uppercase"}))

\* %, and any other character, stands for itself.
Itself == Converted("%", 0, <<"%">>)

\* Mutant: behind the buffer if the output does not fit.
Terminate_at_idx ==
  /\ pc = "text"
  /\ buffer' = _out_buffer(buffer, <<Nul>>, idx)
  /\ pc' = "done"
  /\ UNCHANGED <<flags, width, precision, size, maxlen, idx, full, given>>

\* The end of the format: the terminating 0, inside the buffer.
Terminate ==
  /\ pc = "text"
  /\ buffer' = _out_buffer(buffer, <<Nul>>, Smaller(idx, maxlen - 1))
  /\ pc' = "done"
  /\ UNCHANGED <<flags, width, precision, size, maxlen, idx, full, given>>

Sizes == {"char", "short", "long", "long long"}

_vsnprintf ==
  \/ PlainChar \/ Percent
  \/ \E x \in {"zeropad", "left", "plus", "space", "hash"} : Flag(x)
  \/ \E d \in Digits : WidthDigit(d) \/ PrecisionDigit(d)
  \/ \E w \in {-3, 3} : WidthStar(w)
  \/ Point
  \/ \E p \in {-3, 3} : PrecisionStar(p)
  \/ \E s \in Sizes : LengthField(s)
  \/ \E v \in Ints, spec \in {"d", "u", "x", "X", "o", "b"} : Number(spec, v)
  \/ \E c \in {"c", Nul} : Character(c)
  \/ \E s \in Strings : String(s)
  \/ \E v \in Ints : v >= 0 /\ Pointer(v)
  \/ Itself
  \/ Terminate

Spec == Init /\ [][_vsnprintf]_vars

------------------------------------------------------------------------------
(* What the C standard says of a conversion as it is written in g. *)

ToLeft(g) == "left" \in g.flags \/ g.width < 0
FieldWidth(g) == IF g.width < 0 THEN -g.width ELSE g.width

IsSigned(g) == g.spec \in {"d", "i"}
ArgOf(g) == IF IsSigned(g) THEN Signed(g.arg, Bits[g.size]) ELSE Unsigned(g.arg, Bits[g.size])
Magnitude(g) == IF ArgOf(g) < 0 THEN -ArgOf(g) ELSE ArgOf(g)

\* Digits needed without a precision, and with it.
Needed(g) == IF g.precision = 0 /\ Magnitude(g) = 0 THEN 0 ELSE Places(Magnitude(g), Base(g.spec))
Least(g) == Larger(Needed(g), g.precision)

Written(g, n) ==
  LET places == Smaller(n, Places(Magnitude(g), Base(g.spec)))
  IN Fill("0", n - places)
     \o [k \in 1 .. places |->
          Numeral((Magnitude(g) \div Power(Base(g.spec))[places - k]) % Base(g.spec), g.spec = "X")]

\* 0 gets no prefix.
HasHash(g) == "hash" \in g.flags /\ Base(g.spec) # 10 /\ Magnitude(g) # 0

Marks(g) ==
  CASE HasHash(g) /\ g.spec \in {"x", "X", "b"} -> <<"0", g.spec>>
    [] IsSigned(g) /\ ArgOf(g) < 0 -> <<"-">>
    [] IsSigned(g) /\ ArgOf(g) >= 0 /\ "plus" \in g.flags -> <<"+">>
    [] IsSigned(g) /\ ArgOf(g) >= 0 /\ "plus" \notin g.flags /\ "space" \in g.flags -> <<" ">>
    [] OTHER -> <<>>

\* With # an octal number begins with a 0: one is put in front if there is none,
\* and for a 0 with precision 0 it is all that is written.
Begun(g) ==
  IF "hash" \in g.flags /\ g.spec = "o"
  THEN Larger(Least(g), IF Magnitude(g) = 0 THEN 1 ELSE Needed(g) + 1)
  ELSE Least(g)

Filled(g) ==
  LET least == Begun(g)
  IN IF "zeropad" \in g.flags /\ ~ToLeft(g) /\ g.precision = None
     THEN Larger(least, FieldWidth(g) - Len(Marks(g))) ELSE least

Figures(g) == Marks(g) \o Written(g, Filled(g))

Field(g, s) ==
  LET blanks == Fill(" ", FieldWidth(g) - Len(s))
  IN IF ToLeft(g) THEN s \o blanks ELSE blanks \o s

Standard(g) ==
  CASE g.spec = "c" -> Field(g, <<g.arg>>)
    [] g.spec = "s" -> Field(g, IF g.precision = None THEN g.arg
                                ELSE SubSeq(g.arg, 1, Smaller(Len(g.arg), g.precision)))
    [] OTHER -> Field(g, Figures(g))

ZeroFilled(g) ==
  HasHash(g) /\ g.precision = None /\ "zeropad" \in g.flags /\ ~ToLeft(g)

\* Where printf.c does something else with a string: a negative precision
\* counts as 0,
NoPrecision(g) == "precision" \in flags /\ g.precision = None

\* and with a number:
Deviates(g) ==
  \/ NoPrecision(g)
  \* - what does not fit the conversion's buffer, with all zeros and marks, is cut,
  \/ Len(Figures(g)) > BufferSize
  \* - a number set to the left gets no zeros for its precision, 0 not even one,
  \/ ToLeft(g) /\ g.precision > (IF Magnitude(g) = 0 THEN 0 ELSE Needed(g))
  \* - hhd takes its argument for unsigned,
  \/ IsSigned(g) /\ g.size = "char" /\ ArgOf(g) < 0
  \* - # adds a 0 to an octal number that has one already,
  \/ HasHash(g) /\ g.spec = "o" /\ g.precision > Needed(g)
  \* - and none to an octal 0 with precision 0, of which nothing is left,
  \/ "hash" \in g.flags /\ g.spec = "o" /\ g.precision = 0 /\ Magnitude(g) = 0
  \* - its prefix overwrites digits when they fill the field by themselves,
  \/ HasHash(g) /\ g.precision = None /\ FieldWidth(g) = Needed(g)
  \* - or, padded with zeros, all but one place of it,
  \/ ZeroFilled(g) /\ FieldWidth(g) = Needed(g) + 1 /\ g.spec \in {"x", "X"}
  \* - and makes a binary number padded with zeros one too long.
  \/ ZeroFilled(g) /\ FieldWidth(g) > Needed(g) /\ g.spec = "b"

------------------------------------------------------------------------------
(* Properties. *)

\* snprintf leaves in the buffer as much of the output as fits, a 0 behind it
\* and the bytes after that, the one behind the buffer too, as they were; it
\* returns the length of the whole output.
Truncates ==
  pc = "done" =>
    LET n == Smaller(Len(full), maxlen - 1)
    IN /\ idx = Len(full)
       /\ buffer = [k \in 0 .. maxlen |-> IF k < n THEN full[k + 1]
                                         ELSE IF k = n THEN Nul ELSE Untouched]

\* A conversion puts out what the C standard says it does, except where
\* Deviates says.
AsTheStandardSays ==
  given.spec # "" =>
    \/ given.spec \in {"p", "%"}
    \/ SubSeq(full, given.at + 1, given.to) = Standard(given)
    \/ given.spec = "s" /\ NoPrecision(given)
    \/ given.spec \notin {"c", "s"} /\ Deviates(given)
=============================================================================
