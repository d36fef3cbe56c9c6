--------------------------------- MODULE Json ---------------------------------
(***************************************************************************)
(* The I-JSON reader and the canonical writer behind every fingerprint of  *)
(* the binding lock.  A text is a sequence of tokens: one character each,  *)
(* "q" the quote, "0061" the four digits of a Unicode escape, "null" a     *)
(* literal; Plain gives the UTF-16 units and Utf8 the bytes of a token.    *)
(* A number is its sign, its significant digits and its decimal exponent.  *)
(***************************************************************************)
EXTENDS Integers, Sequences, FiniteSets, SequencesExt

CONSTANTS Texts,        \* the texts to read
          Constructed,  \* values built in memory
          LimitSets     \* JsonParseLimits

VARIABLES phase, text, limits, value,
          pending,      \* ConstructedJsonPreflight: the frames still to visit
          spent,        \* and what it has counted
          output
vars == <<phase, text, limits, value, pending, spent, output>>

Digits == {"0", "1", "2", "3", "4", "5", "6", "7", "8", "9"}
Ascii(n) == [i \in 1 .. n |-> 48]
Plain(t) ==
    CASE t = "emo" -> <<55357, 56832>> [] t = "pua" -> <<57344>>
      [] t = "eac" -> <<233>> [] t = "nl" -> <<10>> [] t = "ctl" -> <<1>>
      [] t = "q" -> <<34>> [] t = "\\" -> <<92>> [] t = "a" -> <<97>>
      [] t = "b" -> <<98>> [] t = "u" -> <<117>> [] t = "n" -> <<110>>
      [] t = "." -> <<46>> [] t = "-" -> <<45>> [] t = "e" -> <<101>>
      [] t = " " -> <<32>> [] t = "," -> <<44>> [] t = ":" -> <<58>>
      [] t = "]" -> <<93>> [] t = "}" -> <<125>> [] t = "nul" -> <<110, 117, 108>>
      [] t = "null" -> <<110, 117, 108, 108>> [] t = "00zz" -> <<48, 48, 122, 122>>
      [] t = "true" -> <<116, 114, 117, 101>> [] t = "false" -> <<102, 97, 108, 115, 101>>
      [] t \in {"0061", "0001", "d83d", "de00"} -> Ascii(4)
      [] OTHER -> Ascii(1)
Utf8(t) ==
    CASE t = "emo" -> 4 [] t = "pua" -> 3 [] t = "eac" -> 2
      [] OTHER -> Len(Plain(t))
Total(s, F(_)) == FoldSeq(LAMBDA t, n : n + F(t), 0, s)
Size(s) == Total(s, Utf8)
At(s, i) == IF i \in DOMAIN s THEN s[i] ELSE "end"
Zeros(n) == [i \in 1 .. n |-> "0"]

Node(kind) == [kind |-> kind, chars |-> <<>>, neg |-> FALSE, digits |-> <<>>,
               exp |-> 0, kids |-> <<>>, names |-> <<>>]
Str(chars) == [Node("string") EXCEPT !.chars = chars]
Num(neg, digits, exp) ==
    [Node("number") EXCEPT !.neg = neg, !.digits = digits, !.exp = exp]
Arr(kids) == [Node("array") EXCEPT !.kids = kids]
Obj(names, kids) == [Node("object") EXCEPT !.names = names, !.kids = kids]

(***************************************************************************)
(* IJsonPreflight.  A cursor c has the position, the work and the string   *)
(* bytes so far; ok says whether the scan goes on, and node what was read  *)
(* (llvm::json::parse builds it from the same text).                       *)
(***************************************************************************)
Start == [ok |-> TRUE, pos |-> 1, work |-> 0, total |-> 0, node |-> Node("null")]
Fail(c) == [c EXCEPT !.ok = FALSE]
Move(c, n) == [c EXCEPT !.pos = @ + n]
Read(c, n, node) == [c EXCEPT !.pos = @ + n, !.node = node]
\* The first place from i on whose token is not in T.
Past(s, i, T) == Min({j \in i .. Len(s) + 1 : At(s, j) \notin T})
SkipWhitespace(s, c) == IF c.ok THEN [c EXCEPT !.pos = Past(s, @, {" "})] ELSE c

\* What an escape after the backslash at i stands for: [char, length].
Escape(s, i) ==
    CASE At(s, i + 1) \in {"q", "\\"} -> [char |-> s[i + 1], length |-> 2]
      [] At(s, i + 1) = "n" -> [char |-> "nl", length |-> 2]
      [] At(s, i + 1) = "u" /\ At(s, i + 2) = "0061" -> [char |-> "a", length |-> 3]
      [] At(s, i + 1) = "u" /\ At(s, i + 2) = "0001" -> [char |-> "ctl", length |-> 3]
      [] At(s, i + 1) = "u" /\ [k \in 1 .. 4 |-> At(s, i + 1 + k)]
                                      = <<"d83d", "\\", "u", "de00">> ->
             [char |-> "emo", length |-> 6]
      [] OTHER -> [char |-> "", length |-> 0]
RECURSIVE StringFrom(_, _, _)
\* The characters up to the closing quote and the place after it, or 0.
StringFrom(s, i, chars) ==
    LET e == Escape(s, i) IN
    CASE At(s, i) = "q" -> [end |-> IF "bad" \in Range(chars) THEN 0 ELSE i + 1,
                            chars |-> chars]
      [] At(s, i) \in {"end", "ctl"} -> [end |-> 0, chars |-> chars]
      [] At(s, i) = "\\" -> IF e.length = 0 THEN [end |-> 0, chars |-> chars]
                            ELSE StringFrom(s, i + e.length, Append(chars, e.char))
      [] OTHER -> StringFrom(s, i + 1, Append(chars, s[i]))
ScanString(s, c, l) ==
    LET r == StringFrom(s, c.pos + 1, <<>>)
        total == c.total + Size(r.chars) IN
    [c EXCEPT !.ok = r.end > 0 /\ Size(r.chars) <= l.string /\ total <= l.total,
              !.pos = r.end, !.total = total, !.node = Str(r.chars)]

DigitValue(d) == CHOOSE n \in 0 .. 9 : ToString(n) = d
Integer(ds) == FoldLeft(LAMBDA n, d : 10 * n + DigitValue(d), 0, ds)
Significant(ds) ==
    LET some == {i \in DOMAIN ds : ds[i] # "0"} IN
    IF some = {} THEN <<>> ELSE SubSeq(ds, Min(some), Max(some))
Leading(ds) == Past(ds, 1, {"0"}) - 1
\* The binary64 value a decimal text denotes, when it is finite and, unless
\* it is zero, not too small: the digits here are few enough to be exact.
Finite(n) == n.digits # <<>> => n.exp \in -323 .. 308
NumberOf(neg, whole, fraction, exponent) ==
    LET ds == whole \o fraction
        sig == Significant(ds) IN
    Num(neg, sig, IF sig = <<>> THEN 0
                  ELSE exponent + Len(whole) - Leading(ds) - 1)
ScanNumber(s, c) ==
    LET neg == s[c.pos] = "-"
        a == IF neg THEN c.pos + 1 ELSE c.pos
        b == IF At(s, a) = "0" THEN a + 1 ELSE Past(s, a, Digits)
        dot == At(s, b) = "."
        d == IF dot THEN Past(s, b + 1, Digits) ELSE b
        e == At(s, d) = "e"
        f == IF At(s, d + 1) \in {"+", "-"} THEN d + 2 ELSE d + 1
        g == IF e THEN Past(s, f, Digits) ELSE d
        size == IF e THEN Integer(SubSeq(s, f, g - 1)) ELSE 0
        n == NumberOf(neg, SubSeq(s, a, b - 1),
                      IF dot THEN SubSeq(s, b + 1, d - 1) ELSE <<>>,
                      IF e /\ At(s, d + 1) = "-" THEN -size ELSE size)
        wrong == \/ b = a
                 \/ At(s, a) = "0" /\ At(s, b) \in Digits
                 \/ dot /\ d = b + 1
                 \/ e /\ g = f
                 \/ ~Finite(n)
                 \/ neg /\ n.digits = <<>>
    IN  IF wrong THEN Fail(c) ELSE Read(c, g - c.pos, n)

RECURSIVE ScanValue(_, _, _, _), ScanArray(_, _, _, _, _), ScanObject(_, _, _, _, _),
          AfterElement(_, _, _, _, _), AfterMember(_, _, _, _, _)
\* A bracket has been read and the whitespace after it.
ScanOpened(s, c, l, depth, empty, close) ==
    CASE At(s, c.pos) = close -> Read(c, 1, empty)
      [] At(s, c.pos) # close /\ close = "]" -> ScanArray(s, c, l, depth, <<>>)
      [] OTHER -> ScanObject(s, c, l, depth, empty)
\* A value at the cursor, whose work is spent.
ScanToken(s, c, l, depth, t) ==
    CASE t \in {"null", "true", "false"} -> Read(c, 1, Node(t))
      [] t = "q" -> ScanString(s, c, l)
      [] t \in Digits \cup {"-"} -> ScanNumber(s, c)
      [] t \in {"[", "{"} ->
             ScanOpened(s, SkipWhitespace(s, Move(c, 1)), l, depth + 1,
                        IF t = "[" THEN Arr(<<>>) ELSE Obj(<<>>, <<>>),
                        IF t = "[" THEN "]" ELSE "}")
      [] OTHER -> Fail(c)
ScanValue(s, c, l, depth) ==
    IF depth > l.depth \/ c.work = l.work THEN Fail(c)
    ELSE LET start == [SkipWhitespace(s, c) EXCEPT !.work = @ + 1]
         IN  ScanToken(s, start, l, depth, At(s, start.pos))
ScanArray(s, c, l, depth, kids) ==
    IF Len(kids) = l.array THEN Fail(c)
    ELSE AfterElement(s, SkipWhitespace(s, ScanValue(s, c, l, depth)), l, depth, kids)
AfterElement(s, c, l, depth, kids) ==
    CASE c.ok /\ At(s, c.pos) = "]" -> Read(c, 1, Arr(Append(kids, c.node)))
      [] c.ok /\ At(s, c.pos) = "," ->
             ScanArray(s, SkipWhitespace(s, Move(c, 1)), l, depth, Append(kids, c.node))
      [] OTHER -> Fail(c)
ScanObjectRepeating(s, c, l, depth, before) ==
    LET name == SkipWhitespace(s, ScanString(s, c, l)) IN
    IF /\ Len(before.names) < l.object /\ At(s, c.pos) = "q" /\ name.ok
       /\ At(s, name.pos) = ":"
    THEN AfterMember(s, SkipWhitespace(s, ScanValue(s, Move(name, 1), l, depth)), l, depth,
                     [before EXCEPT !.names = Append(@, name.node.chars)])
    ELSE Fail(c)
ScanObject(s, c, l, depth, before) ==
    LET name == SkipWhitespace(s, ScanString(s, c, l)) IN
    IF /\ Len(before.names) < l.object /\ At(s, c.pos) = "q" /\ name.ok
       /\ name.node.chars \notin Range(before.names) /\ At(s, name.pos) = ":"
    THEN AfterMember(s, SkipWhitespace(s, ScanValue(s, Move(name, 1), l, depth)), l, depth,
                     [before EXCEPT !.names = Append(@, name.node.chars)])
    ELSE Fail(c)
AfterMember(s, c, l, depth, before) ==
    LET more == [before EXCEPT !.kids = Append(@, c.node)] IN
    CASE c.ok /\ At(s, c.pos) = "}" -> Read(c, 1, more)
      [] c.ok /\ At(s, c.pos) = "," ->
             ScanObject(s, SkipWhitespace(s, Move(c, 1)), l, depth, more)
      [] OTHER -> Fail(c)
\* run: [ok, node].
AtEnd(s, c) == [c EXCEPT !.ok = @ /\ c.pos = Len(s) + 1]
ParseIJson(s, l) ==
    IF Size(s) > l.input THEN Fail(Start)
    ELSE AtEnd(s, SkipWhitespace(s, ScanValue(s, Start, l, 1)))

(***************************************************************************)
(* The canonical writer.  std::to_chars gives the shortest digits in fixed *)
(* or in scientific notation; the writer lays them out again.              *)
(***************************************************************************)
Fixed(n) ==
    [neg |-> n.neg, exp |-> 0,
     mantissa |->
        CASE n.digits = <<>> -> <<"0">>
          [] n.digits # <<>> /\ n.exp < 0 -> <<"0", ".">> \o Zeros(-n.exp - 1) \o n.digits
          [] n.digits # <<>> /\ n.exp >= Len(n.digits) - 1 ->
                 n.digits \o Zeros(n.exp + 1 - Len(n.digits))
          [] OTHER -> SubSeq(n.digits, 1, n.exp + 1) \o <<".">>
                        \o SubSeq(n.digits, n.exp + 2, Len(n.digits))]
Scientific(n) ==
    [neg |-> n.neg, exp |-> n.exp,
     mantissa |-> IF Len(n.digits) < 2 THEN IF n.digits = <<>> THEN <<"0">> ELSE n.digits
                  ELSE <<n.digits[1], ".">> \o SubSeq(n.digits, 2, Len(n.digits))]
RECURSIVE Decimal(_)
Decimal(n) ==
    IF n < 10 THEN <<ToString(n)>> ELSE Append(Decimal(n \div 10), ToString(n % 10))
EcmascriptNumber(sp) ==
    LET point == {i \in DOMAIN sp.mantissa : sp.mantissa[i] = "."}
        decimal == IF point = {} THEN Len(sp.mantissa) ELSE Min(point) - 1
        all == SelectSeq(sp.mantissa, LAMBDA d : d # ".")
        ds == Significant(all)
        sci == sp.exp + decimal - Leading(all) - 1
        places == sci + 1
        layout ==
            CASE ds = <<>> -> <<"0">>
              [] ds # <<>> /\ sci >= 0 /\ sci < 21 ->
                     IF Len(ds) <= places THEN ds \o Zeros(places - Len(ds))
                     ELSE SubSeq(ds, 1, places) \o <<".">> \o SubSeq(ds, places + 1, Len(ds))
              [] ds # <<>> /\ sci >= -6 /\ sci < 0 -> <<"0", ".">> \o Zeros(-sci - 1) \o ds
              [] OTHER -> <<ds[1]>>
                            \o (IF Len(ds) > 1 THEN <<".">> \o Tail(ds) ELSE <<>>)
                            \o (IF sci >= 0 THEN <<"e", "+">> ELSE <<"e", "-">>)
                            \o Decimal(IF sci >= 0 THEN sci ELSE -sci)
    IN  IF sp.neg THEN <<"-">> \o layout ELSE layout
NumberText(n, l) == EcmascriptNumber(IF l.fixed THEN Fixed(n) ELSE Scientific(n))

WrittenChar(t) ==
    CASE t = "q" -> <<"\\", "q">> [] t = "\\" -> <<"\\", "\\">>
      [] t = "nl" -> <<"\\", "n">> [] t = "ctl" -> <<"\\", "u", "0001">>
      [] OTHER -> <<t>>
WriteEscapedString(chars) ==
    <<"q">> \o FlattenSeq([i \in DOMAIN chars |-> WrittenChar(chars[i])]) \o <<"q">>
Utf16Units(chars) == FlattenSeq([i \in DOMAIN chars |-> Plain(chars[i])])
\* std::lexicographical_compare of two sort keys.
Before(a, b) ==
    LET differ == {i \in DOMAIN a \cap DOMAIN b : a[i] # b[i]} IN
    IF differ = {} THEN Len(a) < Len(b) ELSE a[Min(differ)] < b[Min(differ)]
MemberOrderKept(names) == [i \in DOMAIN names |-> i]
MemberOrder(names) ==
    SortSeq([i \in DOMAIN names |-> i],
            LAMBDA i, j : Before(Utf16Units(names[i]), Utf16Units(names[j])))
Joined(parts) ==
    FlattenSeq([i \in DOMAIN parts |-> IF i = 1 THEN parts[i] ELSE <<",">> \o parts[i]])
RECURSIVE WriteCanonical(_, _)
WriteCanonical(v, l) ==
    CASE v.kind = "string" -> WriteEscapedString(v.chars)
      [] v.kind = "number" -> NumberText(v, l)
      [] v.kind = "array" ->
             <<"[">> \o Joined([i \in DOMAIN v.kids |-> WriteCanonical(v.kids[i], l)])
                     \o <<"]">>
      [] v.kind = "object" ->
             LET order == MemberOrder(v.names)
                 Member(i) == WriteEscapedString(v.names[i]) \o <<":">>
                                \o WriteCanonical(v.kids[i], l)
             IN  <<"{">> \o Joined([k \in DOMAIN order |-> Member(order[k])]) \o <<"}">>
      [] OTHER -> <<v.kind>>

(***************************************************************************)
(* ConstructedJsonPreflight: a stack of values, the bytes they will take.  *)
(***************************************************************************)
CanonicalStringSizeShort(chars) == 2 + Size(chars)
CanonicalStringSize(chars) ==
    2 + Total(chars, LAMBDA t : CASE t \in {"q", "\\", "nl"} -> 2
                                  [] t = "ctl" -> 6
                                  [] OTHER -> Utf8(t))
Valid(chars) == "bad" \notin Range(chars)
Raw(v) == IF v.kind = "string" THEN <<v.chars>> ELSE v.names
FrameBytes(v, l) ==
    CASE v.kind = "string" -> CanonicalStringSize(v.chars)
      [] v.kind = "number" -> Len(NumberText(v, l))
      [] v.kind = "array" -> 2 + (IF v.kids = <<>> THEN 0 ELSE Len(v.kids) - 1)
      [] v.kind = "object" -> 2 + (IF v.kids = <<>> THEN 0 ELSE 2 * Len(v.kids) - 1)
                                + Total(v.names, CanonicalStringSize)
      [] OTHER -> Utf8(v.kind)
\* What visiting the frame leaves of the counts, and whether it may.
Visited(f, l) ==
    [work |-> spent.work + 1, total |-> spent.total + Total(Raw(f.value), Size),
     bytes |-> spent.bytes + FrameBytes(f.value, l)]
MayVisit(f, l) ==
    LET v == f.value IN
    /\ f.depth <= l.depth /\ Visited(f, l).work <= l.work
    /\ \A n \in Range(Raw(v)) : Valid(n) /\ Size(n) <= l.string
    /\ v.kind = "number" => ~(v.neg /\ v.digits = <<>>) /\ Finite(v)
    /\ v.kind = "array" => Len(v.kids) <= l.array
    /\ v.kind = "object" => Len(v.kids) <= l.object
    /\ Visited(f, l).total <= l.total /\ Visited(f, l).bytes <= l.input

NoCounts == [work |-> 0, total |-> 0, bytes |-> 0]
Init ==
    /\ limits \in LimitSets /\ pending = <<>> /\ spent = NoCounts /\ output = <<>>
    /\ \/ phase = "text" /\ text \in Texts /\ value = Node("null")
       \/ phase = "value" /\ text = <<>> /\ value \in Constructed
Parse ==
    /\ phase = "text"
    /\ \E r \in {ParseIJson(text, limits)} :
           IF r.ok THEN phase' = "value" /\ value' = r.node
           ELSE phase' = "unread" /\ UNCHANGED value
    /\ UNCHANGED <<text, limits, pending, spent, output>>
Preflight ==
    /\ phase = "value" /\ phase' = "counting"
    /\ pending' = <<[value |-> value, depth |-> 1]>>
    /\ UNCHANGED <<text, limits, value, spent, output>>
Drain ==
    LET f == pending[Len(pending)]
        rest == SubSeq(pending, 1, Len(pending) - 1) IN
    /\ phase = "counting" /\ pending # <<>>
    /\ IF MayVisit(f, limits)
       THEN /\ spent' = Visited(f, limits)
            /\ pending' = rest \o [i \in DOMAIN f.value.kids |->
                                      [value |-> f.value.kids[i], depth |-> f.depth + 1]]
            /\ UNCHANGED phase
       ELSE phase' = "refused" /\ UNCHANGED <<spent, pending>>
    /\ UNCHANGED <<text, limits, value, output>>
Write ==
    /\ phase = "counting" /\ pending = <<>> /\ phase' = "written"
    /\ output' = WriteCanonical(value, limits)
    /\ UNCHANGED <<text, limits, value, pending, spent>>

Next == Parse \/ Preflight \/ Drain \/ Write
JsonSpec == Init /\ [][Next]_vars

(***************************************************************************)
(* Properties.                                                             *)
(***************************************************************************)
Ample == [input |-> 999, depth |-> 99, work |-> 99, string |-> 999, total |-> 999,
          array |-> 99, object |-> 99, fixed |-> TRUE]
RECURSIVE Trim(_), Characters(_), Means(_), Lists(_), Members(_)
Trim(s) == CASE s # <<>> /\ s[1] = " " -> Trim(Tail(s))
             [] s # <<>> /\ s[Len(s)] = " " -> Trim(SubSeq(s, 1, Len(s) - 1))
             [] OTHER -> s
Cuts(s, t) == {i \in DOMAIN s : s[i] = t}
Until(s, i) == SubSeq(s, 1, i - 1)
From(s, i) == SubSeq(s, i, Len(s))
\* What a text means, by where it may be cut: a set of at most one value.
Characters(s) ==
    LET n == Escape(s, 1).length IN
    CASE s = <<>> -> {<<>>}
      [] s # <<>> /\ s[1] = "\\" /\ n > 0 ->
             {<<Escape(s, 1).char>> \o r : r \in Characters(From(s, n + 1))}
      [] s # <<>> /\ s[1] \notin {"\\", "q", "ctl", "bad"} ->
             {<<s[1]>> \o r : r \in Characters(Tail(s))}
      [] OTHER -> {}
StringsOf(s) ==
    IF Len(s) >= 2 /\ s[1] = "q" /\ s[Len(s)] = "q"
    THEN Characters(SubSeq(s, 2, Len(s) - 1)) ELSE {}
NumbersOf(s) ==
    LET neg == s # <<>> /\ s[1] = "-"
        body == IF neg THEN Tail(s) ELSE s
        m == IF Cuts(body, "e") = {} THEN body ELSE Until(body, Min(Cuts(body, "e")))
        x == From(body, Len(m) + 2)
        whole == IF Cuts(m, ".") = {} THEN m ELSE Until(m, Min(Cuts(m, ".")))
        fraction == From(m, Len(whole) + 2)
        xs == IF x # <<>> /\ x[1] \in {"+", "-"} THEN Tail(x) ELSE x
        Run(ds) == ds # <<>> /\ Range(ds) \subseteq Digits
        n == IF xs = <<>> THEN 0 ELSE Integer(xs) IN
    IF /\ Run(whole) /\ (whole[1] = "0" => Len(whole) = 1)
       /\ m # whole => Run(fraction)
       /\ body # m => Run(xs)
    THEN {NumberOf(neg, whole, fraction, IF x # xs /\ x[1] = "-" THEN -n ELSE n)} ELSE {}
Means(s0) ==
    LET s == Trim(s0)
        inside == SubSeq(s, 2, Len(s) - 1)
        Closed(open, close) == Len(s) >= 2 /\ s[1] = open /\ s[Len(s)] = close IN
    CASE s \in {<<"null">>, <<"true">>, <<"false">>} -> {Node(s[1])}
      [] Closed("[", "]") -> {Arr(k) : k \in IF Trim(inside) = <<>> THEN {<<>>} ELSE Lists(inside)}
      [] Closed("{", "}") -> IF Trim(inside) = <<>> THEN {Obj(<<>>, <<>>)} ELSE Members(inside)
      [] OTHER -> {Str(c) : c \in StringsOf(s)} \cup NumbersOf(s)
Lists(s) ==
    {<<v>> : v \in Means(s)}
    \cup UNION {{<<v>> \o r : v \in Means(Until(s, i)), r \in Lists(From(s, i + 1))} :
                i \in Cuts(s, ",")}
Members(s) ==
    LET One(e) == UNION {{Obj(<<n>>, <<v>>) : n \in StringsOf(Trim(Until(e, i))),
                                             v \in Means(From(e, i + 1))} :
                         i \in Cuts(e, ":")}
    IN  One(s) \cup UNION {{Obj(o.names \o r.names, o.kids \o r.kids) :
                               o \in One(Until(s, i)), r \in Members(From(s, i + 1))} :
                           i \in Cuts(s, ",")}
RECURSIVE Within(_, _, _), Nodes(_), StringBytes(_)
Nodes(v) == 1 + Total(v.kids, Nodes)
StringBytes(v) == Total(Raw(v), Size) + Total(v.kids, StringBytes)
Within(v, l, depth) ==
    /\ depth <= l.depth /\ \A n \in Range(Raw(v)) : Size(n) <= l.string
    /\ Len(v.kids) <= (IF v.kind = "object" THEN l.object ELSE l.array)
    /\ Cardinality(Range(v.names)) = Len(v.names)
    /\ v.kind = "number" => Finite(v) /\ ~(v.neg /\ v.digits = <<>>)
    /\ \A k \in Range(v.kids) : Within(k, l, depth + 1)
RECURSIVE Turned(_), Sorted(_)
\* A value with the members of every object turned round, or sorted.
Turned(v) == [v EXCEPT !.kids = IF v.kind = "object" THEN Reverse([i \in DOMAIN @ |-> Turned(@[i])])
                                ELSE [i \in DOMAIN @ |-> Turned(@[i])],
                       !.names = Reverse(@)]
Sorted(v) ==
    LET order == MemberOrder(v.names) IN
    [v EXCEPT !.kids = IF v.kind = "object" THEN [i \in DOMAIN order |-> Sorted(v.kids[order[i]])]
                       ELSE [i \in DOMAIN @ |-> Sorted(@[i])],
              !.names = [i \in DOMAIN order |-> v.names[order[i]]]]

\* Binding.cpp:41-303: the scan accepts a text exactly when it means a value
\* without a repeated name, a negative zero or a number that is not finite,
\* and text and value keep every limit; what is then parsed is that value.
ScanExact ==
    LET ok == {v \in Means(text) : /\ Within(v, limits, 1) /\ Nodes(v) <= limits.work
                                   /\ StringBytes(v) <= limits.total
                                   /\ Size(text) <= limits.input} IN
    /\ phase = "unread" => ok = {}
    /\ (text # <<>> /\ phase \notin {"text", "unread"}) => ok = {value}

\* Binding.cpp:547-690: the canonical text says what the value says whatever
\* the order of its members and the notation std::to_chars took, and reading
\* and writing it again gives the same text.
CanonicalOnce ==
    phase = "written" =>
        /\ \A again \in {ParseIJson(output, Ample)} :
               /\ again.ok /\ again.node = Sorted(value)
               /\ WriteCanonical(again.node, limits) = output
        /\ WriteCanonical(Turned(value), [limits EXCEPT !.fixed = ~@]) = output

\* Binding.cpp:308-462: the preflight, which counts frame by frame off a
\* stack, has counted the bytes the writer then writes, no more than allowed.
SizeExact ==
    phase = "written" => spent.bytes = Size(output) /\ spent.bytes <= limits.input

-----------------------------------------------------------------------------
(* The small instance: texts around every production of the grammar, each  *)
(* also with one token left out, put in or changed, and values built in    *)
(* memory.                                                                 *)

Bases ==
    {<<"null">>, <<" ", "true", " ">>, <<"[", " ", "]">>, <<"{", " ", "}">>,
     <<"[", "0", ",", "[", "1", "]", "]">>,
     <<"{", "q", "a", "q", ":", "1", ",", " ", "q", "b", "q", ":", "false", "}">>,
     <<"{", "q", "a", "q", " ", ":", "{", "}", ",", "q", "\\", "u", "0061", "q", ":", "0", "}">>,
     <<"{", "q", "emo", "q", ":", "1", ",", "q", "pua", "q", ":", "2", "}">>,
     <<"q", "\\", "u", "d83d", "\\", "u", "de00", "q">>,
     <<"q", "\\", "n", "\\", "\\", "\\", "u", "0001", "eac", "q">>,
     <<"-", "1", "0", ".", "5", "e", "-", "1">>, <<"0", ".", "0", "1">>,
     <<"1", "e", "3", "0", "9">>, <<"-", "0", "e", "1">>, <<"1", "0", "e", "2", "0">>}
Alphabet == {"q", "\\", "u", "0", "-", ".", "e", " ", ",", ":", "]", "}", "nul", "00zz",
             "ctl", "bad"}
Edited(s) ==
    {Until(s, i) \o From(s, i + 1) : i \in DOMAIN s}
    \cup {Until(s, i) \o <<t>> \o From(s, i + n) :
              i \in DOMAIN s, t \in Alphabet, n \in {0, 1}}
SmallTexts == (Bases \cup UNION {Edited(s) : s \in Bases}) \ {<<>>}
Numbers == {Num(neg, ds, e) : neg \in BOOLEAN, ds \in {<<"1">>, <<"1", "5">>, <<"1", "0", "5">>},
                              e \in {-300, -7, -6, -1, 0, 1, 2, 19, 20, 21, 100, 308, 309}}
           \cup {Num(TRUE, <<>>, 0), Num(FALSE, <<>>, 0)}
Strings == {Str(<<>>), Str(<<"q", "nl">>), Str(<<"ctl", "eac">>), Str(<<"bad">>),
            Str(<<"pua">>), Str(<<"emo">>)}
SmallConstructed ==
    Numbers \cup Strings
    \cup {Obj(<<a.chars, b.chars>>, <<Node("true"), Arr(<<n>>)>>) :
             <<a, b>> \in {p \in Strings \X Strings : p[1] # p[2]}, n \in Strings \cup {Num(TRUE, <<"5">>, -2)}}
SmallLimits ==
    {Ample, [Ample EXCEPT !.fixed = FALSE, !.depth = 2, !.work = 3, !.object = 1],
     [Ample EXCEPT !.array = 1, !.string = 3, !.total = 4, !.input = 12]}
===============================================================================
