------------------------------ MODULE Library ------------------------------
(***************************************************************************)
(* The functions PH7 gives to scripts, checked on every input of a bounded *)
(* size: a subject is grown one character at a time, and each property     *)
(* says of every subject what the functions about it must agree on.        *)
(***************************************************************************)
EXTENDS Json, Vfs, Sources

CONSTANTS Letters, MaxSearched,    \* characters of the subjects to search in
          Patterns,                \* what is looked for
          Marks, MaxEscaped,       \* characters of the subjects to escape
          Bytes, MaxBytes,         \* bytes of the subjects to encode
          Numerals, MaxNumeral,    \* characters of the texts read as numbers
          Operands,                \* values that are computed with
          Documents,               \* documents that are written and read
          Directives, MaxFormat,   \* pieces of the formats
          Contents, Written,       \* what a file holds at first, what is written
          Modes, Sizes,            \* modes of fopen(), lengths and offsets
          Homes, MaxNodes,         \* paths of files, inodes of a disk
          PathMarks, MaxPath,      \* characters of the paths
          Globs, MaxGlob, Globbed, \* pieces of the patterns, names to match
          MaxLexemes, MaxChunks,   \* how long sources and pages are
          TwoSided, OneSided, Assigns, \* operators of the expressions
          DeepLeaves               \* what an expression of two operators is grown from

VARIABLE subject                   \* <<kind, value>>

Grown(kind, S, max) ==
    /\ subject[1] = kind /\ Len(subject[2]) < max
    /\ \E c \in S : subject' = <<kind, Append(subject[2], c)>>

GrowSearched == Grown("searched", Letters, MaxSearched)
GrowEscaped == Grown("escaped", Marks, MaxEscaped)
GrowBytes == Grown("bytes", Bytes, MaxBytes)
GrowNumeral == Grown("numeral", Numerals, MaxNumeral)
GrowFormat ==
    /\ subject[1] = "format"
    /\ \E d \in Directives : /\ Len(subject[2] \o d) <= MaxFormat
                              /\ subject' = <<"format", subject[2] \o d>>

GrowPath == Grown("path", PathMarks, MaxPath)
GrowGlob ==
    /\ subject[1] = "glob"
    /\ \E g \in Globs : /\ Len(subject[2] \o g) <= MaxGlob
                         /\ subject' = <<"glob", subject[2] \o g>>

(* A program: its tokens, its chunks, and one expression.                  *)
GrowSource ==
    /\ subject[1] = "source" /\ Len(subject[2]) < MaxLexemes
    /\ \E sep \in Separators, lex \in Lexemes :
         Follows(subject[2], sep, lex) /\ subject' = <<"source", Append(subject[2], <<sep, lex>>)>>
GrowPage ==
    /\ subject[1] = "page" /\ Len(subject[2]) < MaxChunks
    /\ \E raw \in Raws, tag \in Tags, chunk \in Chunks2 :
         subject' = <<"page", Append(subject[2], <<raw, tag, chunk>>)>>
GrowExpression ==
    /\ subject[1] \in {"leaf", "deepleaf", "operation"}
    /\ \E t \in Around(subject[2], TwoSided, OneSided, Assigns) :
         subject' = <<IF subject[1] = "deepleaf" THEN "operation" ELSE "expression", t>>

(* One handle on a file.                                                   *)
Becomes(r) == subject' = <<subject[1], r.io>>
ReadStream ==
    /\ subject[1] = "stream" /\ subject[2].h.ino # 0
    /\ \/ \E n \in Sizes : Becomes(fgets(subject[2], n)) \/ Becomes(fread(subject[2], n))
       \/ Becomes(fgetc(subject[2])) \/ Becomes(feof(subject[2])) \/ Becomes(fpassthru(subject[2]))
PlaceStream ==
    /\ subject[1] = "stream" /\ subject[2].h.ino # 0
    /\ \/ \E n \in Sizes, whence \in 0 .. 2 :
            fseek(subject[2], n, whence).io.h.pos <= MaxFile /\ Becomes(fseek(subject[2], n, whence))
       \/ \E n \in Sizes : Becomes(ftruncate(subject[2], n))
       \/ Becomes(rewind(subject[2])) \/ Becomes(fclose(subject[2])) \/ Becomes(fflush(subject[2]))
WriteStream ==
    /\ subject[1] = "stream" /\ subject[2].h.ino # 0
    /\ \E z \in Written : Becomes(fwrite(subject[2], z))
OpenStream ==
    /\ subject[1] = "stream" /\ subject[2].h.ino = 0
    /\ \E p \in Homes, m \in Modes : Becomes(fopen(subject[2], p, m))

(* The paths of a disk.                                                    *)
ChangeTree ==
    /\ subject[1] = "tree" /\ Len(subject[2].node) < MaxNodes
    /\ \E p \in Paths : \/ Becomes(mkdir(subject[2], p))
                        \/ Becomes(file_put_contents(subject[2], p, <<"x">>, FALSE))
                        \/ \E q \in Homes : Becomes(symlink(subject[2], q, p))
MoveTree ==
    /\ subject[1] = "tree"
    /\ \E p \in Paths : \/ Becomes(rmdir(subject[2], p)) \/ Becomes(unlink(subject[2], p))
                        \/ Becomes(touch(subject[2], p))
                        \/ \E q \in Paths : \/ Becomes(rename(subject[2], p, q))
                                             \/ Becomes(link(subject[2], p, q))

Disk(data) == [at |-> [p \in Paths |-> IF p \in Homes THEN 1 ELSE 0],
               node |-> <<File(data)>>, h |-> Closed]
Kinds == {"searched", "escaped", "bytes", "numeral", "format", "path", "glob", "source", "page"}
Init == subject \in {<<kind, <<>>>> : kind \in Kinds}
                    \cup {<<"pair", <<v, w>>>> : v, w \in Operands}
                    \cup {<<"document", d>> : d \in Documents}
                    \cup {<<"leaf", x.node>> : x \in {x \in Leaves2 : x.node.code \notin {"list", "construct"}}}
                    \cup {<<"deepleaf", t>> : t \in DeepLeaves}
                    \cup {<<"stream", Disk(data)>> : data \in Contents} \cup {<<"tree", Disk(<<>>)>>}
Next == \/ GrowSearched \/ GrowEscaped \/ GrowBytes \/ GrowNumeral \/ GrowFormat
        \/ GrowPath \/ GrowGlob \/ GrowSource \/ GrowPage \/ GrowExpression
        \/ ReadStream \/ PlaceStream \/ WriteStream \/ OpenStream \/ ChangeTree \/ MoveTree
Spec == Init /\ [][Next]_subject

Is(kind) == subject[1] = kind
S == subject[2]
----------------------------------------------------------------------------
(* Where p is in s.                                                        *)
At(s, p) == {o \in 0 .. Len(s) - Len(p) : Take(Drop(s, o), Len(p)) = p}

(* The functions that look for a pattern agree where it is: strpos() finds *)
(* the first place from its start on, strrpos() the last one (never the    *)
(* very first character), strstr() cuts there, and substr_count() counts   *)
(* as many places as do not overlap.                                       *)
PlacesAgree ==
    \A p \in Patterns, nocase \in BOOLEAN :
        LET at == IF nocase THEN At(Lower(S), Lower(p)) ELSE At(S, p)
            cut == strstr(S, p, TRUE, nocase)
        IN  /\ \A n \in 0 .. Len(S) - 1 :
                 /\ strpos(S, p, n, nocase) = IF \E o \in at : o >= n
                                              THEN Min({o \in at : o >= n}) ELSE -1
                 /\ strrpos(S, p, n, nocase) = IF \E o \in at : o > n THEN Max(at) ELSE -1
            /\ IF at = {} THEN cut = None
               ELSE Len(cut) = Min(at) /\ cut \o strstr(S, p, FALSE, nocase) = S
            /\ substr_count(S, p, 0, <<>>) =
                 Max({Cardinality(T) : T \in {U \in SUBSET At(S, p) :
                        \A o, q \in U : o < q => o + Len(p) <= q}})

(* What is cut out of S at a place is found there again, and what replaces *)
(* every place leaves no place and as many characters as were counted.     *)
CutsAgree ==
    /\ \A p \in Patterns, n \in 0 .. 4 :
         (strncmp(S, p, n, FALSE) = 0) = (Take(S, Min({n, Len(S)})) = Take(p, Min({n, Len(p)})))
    /\ \A p \in Patterns : strcmp(S, p, TRUE) = -strcmp(p, S, TRUE)
    /\ \A n, l \in 0 .. Len(S) - 1 :
         /\ substr(S, n, <<l>>) = SubSeq(S, n + 1, Min({n + l, Len(S)}))
         /\ n > 0 => substr(S, -n, <<>>) = Drop(S, Len(S) - n)
         /\ l > 0 /\ n + l < Len(S) => substr(S, n, <<-l>>) = SubSeq(S, n + 1, Len(S) - l)
         /\ l > 0 /\ n + l <= Len(S) =>
              substr_compare(S, substr(S, n, <<l>>), n, <<l>>, FALSE) = "equal"
    /\ \A p \in Patterns :
         LET gone == str_replace(<<p>>, <<"str", <<"-">>>>, S, FALSE)
             once == StringReplaceWalker(S, <<<<p, <<"-">>>>>>)
         IN  /\ str_replace(<<p>>, <<"str", p>>, S, FALSE) = S
             /\ At(gone, p) = {}
             /\ Len(gone) = Len(S) - substr_count(S, p, 0, <<>>) * (Len(p) - 1)
             /\ S # <<>> => explode(p, S, <<>>) = explode(<<"-">>, gone, <<>>)
             /\ str_replace(<<p>>, <<"str", <<"-">>>>, once, FALSE) = gone

(* Pieces put together again give the text, each has the size that was     *)
(* asked for and no delimiter inside; strtok() and explode() of one        *)
(* character give the same pieces; a padded text has its width and keeps   *)
(* the text where it belongs.                                              *)
PiecesJoin ==
    /\ S # <<>> => \A n \in 1 .. 4 :
         LET c == str_split(S, n)
         IN  /\ FlattenSeq(c) = S
             /\ \A i \in DOMAIN c : i < Len(c) => Len(c[i]) = n
             /\ \A t \in {chunk_split(S, n, <<"-">>), wordwrap(S, n, <<"-">>)} :
                  SelectSeq(t, LAMBDA x : x # "-") = S
    /\ S # <<>> => \A p \in Patterns :
         LET x == explode(p, S, <<>>)
         IN  /\ \A i \in DOMAIN x : At(x[i], p) = {} /\ x[i] # <<>>
             /\ Len(p) = 1 =>
                  /\ FlattenSeq(x) = SelectSeq(S, LAMBDA c : c # p[1])
                  /\ x = Drain(strtok(<<>>, S, p), p)
                  /\ x # <<>> => explode(p, implode(p, x), <<>>) = x
             /\ implode_recursive(p, [i \in DOMAIN x |-> <<"s", x[i]>>], TRUE).out = implode(p, x)
    /\ \A n \in 0 .. 7, type \in 0 .. 2, p \in Patterns :
         LET r == str_pad(S, n, p, type)
             lead == CASE type = STR_PAD_LEFT -> n - Len(S) [] type = STR_PAD_RIGHT -> 0
                       [] OTHER -> (n - Len(S)) \div 2
         IN  /\ Len(r) = Max({n, Len(S)})
             /\ n >= Len(S) /\ (Len(p) = 1 \/ type # STR_PAD_BOTH) =>
                  Take(Drop(r, lead), Len(S)) = S

(* Words: what trim() takes away, what a mask spans, and letter case.      *)
WordsAgree ==
    LET blank == {" "}
        t == trim(S, <<>>)
        word == ExtractNonSpaceToken(S)
    IN  /\ ltrim(rtrim(S, <<>>), <<>>) = t /\ rtrim(ltrim(S, <<>>), <<>>) = t
        /\ \E o \in 0 .. Len(S) - Len(t) :
             /\ Take(Drop(S, o), Len(t)) = t
             /\ ToSet(Take(S, o)) \cup ToSet(Drop(S, o + Len(t))) \subseteq blank
        /\ t # <<>> => t[1] # " " /\ Last(t) # " "
        /\ Len(t) # 1 => trim(S, <<" ">>) = t
        /\ \A v \in {ucwords(S), ucfirst(S), lcfirst(S), strtoupper(S), strtolower(S)} :
             Lower(v) = Lower(S)
        /\ S # <<>> => strrev(strrev(S)) = S /\ Len(str_repeat(S, 3)) = 3 * Len(S)
        /\ \A p \in Patterns :
             LET inside == strspn(S, p, 0, <<>>)
                 outside == strcspn(S, p, 0, <<>>)
                 hit == strpbrk(S, p)
             IN  /\ ToSet(Take(word, inside)) \subseteq ToSet(p)
                 /\ ToSet(Take(word, outside)) \cap ToSet(p) = {}
                 /\ word # <<>> => (inside = 0) # (outside = 0)
                 /\ IF ToSet(S) \cap ToSet(p) = {} THEN hit = None
                    ELSE /\ hit[1] \in ToSet(p) /\ IsSuffix(hit, S)
                         /\ ToSet(Take(S, Len(S) - Len(hit))) \cap ToSet(p) = {}
                 /\ strtr(strtr(S, p, <<"-", "+", "*">>), <<"-", "+", "*">>, p) = S \/ Len(p) > Cardinality(ToSet(p))
                 /\ strrchr(S, p[1]) = IF p[1] \in ToSet(S)
                                       THEN Drop(S, Max({i \in DOMAIN S : S[i] = p[1]}) - 1) ELSE None

(* The string functions of builtin.c and the searches of lib.c under them  *)
(* agree with each other and with what their names say.                    *)
TextAgrees == Is("searched") => PlacesAgree /\ CutsAgree /\ PiecesJoin /\ WordsAgree

----------------------------------------------------------------------------
(* What a function escapes its counterpart gives back, and only a text     *)
(* without tags passes strip_tags() as it is.                              *)
EscapesUndone == Is("escaped") =>
    /\ \A f \in {0, 2, 4, 6} :
         /\ htmlspecialchars_decode(htmlspecialchars(S, f), f) = S
         /\ html_entity_decode(htmlentities(S, f), f) = S
         /\ LET safe == htmlspecialchars(S, f) IN strip_tags(safe, <<>>) = safe
    /\ "\\" \notin ToSet(S) => stripslashes(addslashes(S)) = S
    /\ Len(addslashes(S)) = Len(S) + Len(SelectSeq(S, LAMBDA c : c \in Quotes))
    /\ ToSet(S) \cap {"\\", "\n"} = {} =>
         SelectSeq(addcslashes(quotemeta(S), <<"a">>), LAMBDA c : c # "\\") = S
    /\ SelectSeq(nl2br(S, TRUE), LAMBDA c : c # "<br>") = S
    /\ ToSet(S) \cap {"\"", "\\"} = {} /\ TrimSafe(S) # <<>> =>
         LET field == <<"\"">> \o S \o <<"\"">>
         IN  str_getcsv(field \o <<",">> \o field) = <<TrimSafe(S), TrimSafe(S)>>
    /\ LET line == <<"k", "=", "\"">> \o S \o <<"\"">>
        IN  ToSet(S) \cap {"\"", "\\"} = {} /\ S = TrimSafe(S) =>
            PH7_ParseIniString(line, FALSE) = <<<<<<>>, <<"k">>, FALSE, S>>>>

(* Bytes come back from base64 and UTF-8 (up to a NUL); from a URL they do *)
(* when none of them could begin a character of several bytes.             *)
BytesUndone == Is("bytes") =>
    /\ SyBase64Decode(SyBase64Encode(S)) = S
    /\ 0 \notin ToSet(S) => utf8_decode(utf8_encode(S)) = S
    /\ (\A i \in DOMAIN S : S[i] < 192) => SyUriDecode(SyUriEncode(S)) = S
    /\ SyUriDecode(SyUriEncode(utf8_encode(S))) = utf8_encode(S)
    /\ Len(bin2hex(S)) = 2 * Len(S) /\ ctype("xdigit", bin2hex(S)) = (S # <<>>)
    /\ S # <<>> => chr(ord(S)) = <<S[1]>>
    /\ ctype("graph", S) /\ ~ ctype("punct", S) => \E i \in DOMAIN S : ctype("alnum", <<S[i]>>)
    /\ S # <<>> => ctype("print", S) = \A i \in DOMAIN S : ~ ctype("cntrl", <<S[i]>>) /\ S[i] < 128

RECURSIVE Depth(_)
Depth(d) == IF d[1] = "scalar" \/ d[2] = <<>> THEN 0
            ELSE 1 + Max({Depth(d[2][k][2]) : k \in DOMAIN d[2]})
RECURSIVE Readable(_)
Readable(d) ==
    IF d[1] # "scalar" THEN \A k \in DOMAIN d[2] : Readable(d[2][k][2])
    ELSE /\ Has(d[2], {"int"}) => d[2].i >= 0
         /\ Has(d[2], {"string"}) /\ d[2].s # <<>> => Last(d[2].s) # "\\"
RECURSIVE AsArrays(_)
AsArrays(d) == IF d[1] = "scalar" THEN d
               ELSE <<"array", [k \in DOMAIN d[2] |-> <<d[2][k][1], AsArrays(d[2][k][2])>>]>>

(* A document comes back from JSON when it is not nested too deep and has  *)
(* no negative number and no string that ends in a backslash: the decoder  *)
(* knows no sign, and an escaped backslash hides the quote behind it.      *)
JsonUndone == Is("document") =>
    \A back \in {json_decode(json_encode(S, JSON_FORCE_OBJECT))} :
        /\ Readable(S) /\ Depth(S) < JsonDepth => back.ok /\ back.doc = AsArrays(S) /\ back.rest = <<>>
        /\ back.ok /\ Readable(S) => Depth(S) <= JsonDepth

(* What a function writes in an encoding its counterpart reads back.       *)
Undone == EscapesUndone /\ BytesUndone /\ JsonUndone

----------------------------------------------------------------------------
Exact(ds) == FoldLeft(LAMBDA v, c : v * 10 + SyHexToint(c), 0, ds)
InRange(n) == n >= SMALLEST_INT64 /\ n <= LARGEST_INT64

(* A text is read as the number its first digits name that is in range;    *)
(* the readers and the writers of the bases undo each other, but that a    *)
(* base is written without the sign.                                       *)
NumbersRead == Is("numeral") =>
    \A g \in {Signed(S)}, real \in {SyStrToReal(S)}, t \in {PH7_TokenValueToInt64(S)} :
    LET ds == Take(g.s, Lead(g.s, Digit))
        n(k) == IF g.neg THEN -Exact(Take(ds, k)) ELSE Exact(Take(ds, k))
        k == Max({j \in 0 .. Len(ds) : InRange(n(j))})
    IN  /\ SyStrToInt64(S).val = n(k)
        /\ SyStrToInt64(S).rest = <<>> =>
             real.rest = <<>> /\ (Len(ds) <= SXDBL_DIG => real.val = Real(n(Len(ds))))
        /\ SyStrIsNumeric(S).ok <=> ds # <<>>
        /\ t # SMALLEST_INT64 => PH7_TokenValueToInt64(IntText(t)) = t
        /\ hexdec(dechex(t)) = t % 2 ^ Half /\ octdec(decoct(t)) = t % 2 ^ Half
        /\ bindec(decbin(t)) = t % 2 ^ Half
        /\ \A b \in {2, 8, 16} : (b = 8 /\ Magnitude(t) >= 8 ^ ((W - 1) \div 3)) \/
             base_convert(base_convert(IntText(t), 10, b), b, 10) = IntText(Magnitude(t))
        /\ fmod(real.val, Real(1))[1] = 0 <=> round(real.val) = real.val
        /\ RealCmp(floor(real.val), real.val) <= 0 /\ RealCmp(real.val, ceil(real.val)) <= 0

V == S[1]
X == S[2]
Num(v) == Has(v, {"int", "real"})
Least(v) == Has(v, {"int"}) /\ v.i = SMALLEST_INT64
IntOf(v) == MemObjToInteger(v).i
Equal(v, w) == MemObjCmp(v, w, FALSE) = 0

(* The integer that is kept beside a real is that real.                    *)
Fresh(v) == {"int", "real"} \subseteq v.f => v.r = Real(v.i)
Computed == {MemObjAdd(V, X), MUL(V, X), SUB(V, X), DIV(V, X), DIV_STORE(V, X), MOD(V, X),
             UMINUS(V), UPLUS(V), MemObjToReal(V), MemObjToNumeric(V), CVT_INT(V), CVT_REAL(V)}

(* The laws of arithmetic as far as it wraps: a - b is a + (-b), division  *)
(* undoes a product that fits, the remainder fills up the quotient.        *)
SumsAgree ==
    /\ Num(V) /\ Num(X) =>
         /\ \A diff \in {SUB(V, X)} :
              /\ ~ Least(X) => Equal(diff, MemObjAdd(V, UMINUS(X)))
              /\ InRange(IntOf(V) - IntOf(X)) /\ LT(V, X) => LT(diff, InitFromInt(0))
         /\ \A Op \in {"add", "mul"} :
              LET Swapped(v, w) == IF Op = "add" THEN MemObjAdd(v, w) ELSE MUL(v, w)
              IN  Equal(Swapped(V, X), Swapped(X, V))
         /\ ~ MemObjIsEmpty(X) /\ (IsReal(V, X) \/ InRange(V.i * X.i)) => Equal(DIV(MUL(V, X), X), V)
    /\ \A a \in {IntOf(V)}, b \in {IntOf(X)}, bits \in {[op \in {"and", "or", "xor"} |-> Bitwise2(V, X, op).i]} :
           /\ b # 0 => Wrap(Sign(a) * Sign(b) * (Abs(a) \div Abs(b)) * b) + IntOf(MOD(V, X)) = a
           /\ Wrap(bits["and"] + bits["or"]) = Wrap(a + b)
           /\ bits["xor"] = Wrap(bits["or"] - bits["and"]) /\ BITNOT(V).i = Wrap(-a - 1)
           /\ b \in 0 .. W - 1 => Shift(Shift(V, X, "right"), X, "left").i = a - (a % 2 ^ b)

(* The comparisons are mirror images, identity is stricter than equality,  *)
(* and negation, "and" and "or" obey De Morgan's laws.                     *)
Relations(v, w) == [cmp |-> MemObjCmp(v, w, FALSE), teq |-> TEQ(v, w), eq |-> EQ(v, w),
                    lt |-> LT(v, w), le |-> LE(v, w), gt |-> GT(v, w), ge |-> GE(v, w)]
ComparesAgree ==
    /\ \A r \in {[k \in {1, 2} |-> Relations(S[k], S[3 - k])]} :
         /\ Fresh(V) /\ Fresh(X) => r[1].cmp = -r[2].cmp
         /\ r[1].teq = r[2].teq /\ (r[1].teq => r[1].eq)
         /\ r[1].ge = ~ r[1].lt /\ r[1].le = (r[1].lt \/ r[1].eq) /\ r[1].gt = r[2].lt
    /\ LNOT(Logic(and_logic, V, X)).i = Logic(or_logic, LNOT(V), LNOT(X)).i
    /\ LXOR(V, X).i =
         Logic(or_logic, Logic(and_logic, V, LNOT(X)), Logic(and_logic, LNOT(V), X)).i
    /\ MemObjIsEmpty(V) => ~ MemObjBooleanValue(V)
    /\ ~ MemObjBooleanValue(V) => MemObjIsEmpty(V) \/ Lower(V.s) = Lit("false")

(* Values keep what they are worth when they are cast.  A number survives  *)
(* being made a string, and ++ of anything but a real is an addition of    *)
(* one.                                                                    *)
ConversionsAgree ==
    /\ \A c \in {[kind \in {"int", "float", "empty"} |-> Cast(kind, V)]} :
         /\ c["int"] = IntOf(V) \/ IsA("int", V)
         /\ c["empty"] => c["int"] = 0 /\ c["float"][1] = 0
    /\ IsA("scalar", V) # (IsA("array", V) \/ IsA("obj", V))
    /\ Abs(IntOf(V)) < 2 ^ (Half - 1) /\ IsA("int", V) => \A v \in {V, InitFromInt(0)} : ~ LT(abs(V), v)
    /\ Num(V) /\ ~ Least(V) /\ (Has(V, {"real"}) => InRange(V.r[1] \div V.r[2])) =>
         Equal(MemObjToNumeric(MemObjToString(V)), V)
    /\ ~ Has(V, {"array"}) => LET s == MemObjToString(V).s
                                  t == MemObjToString(CAT(<<V, X, V>>)).s
                              IN  IsPrefix(s, t) /\ IsSuffix(s, t)
    /\ ~ Has(MemObjToNumeric(V), {"real"}) /\ ~ Has(V, {"array"}) =>
         Equal(INCR(V, TRUE).slot, MemObjAdd(V, InitFromInt(1)))
    /\ Has(V, {"string"}) /\ IntOf(X) \in 0 .. Len(V.s) - 1 => LOAD_IDX(V, X).s = <<V.s[IntOf(X) + 1]>>

(* The values of memobj.c, the arithmetic and the comparisons of vm.c, and *)
(* the numbers of lib.c fit together; integers that wrap and zero are in.  *)
ValuesAgree ==
    /\ NumbersRead
    /\ Is("pair") => /\ \A y \in Computed : Fresh(y)
                     /\ SumsAgree /\ ComparesAgree /\ ConversionsAgree

----------------------------------------------------------------------------
(* The arguments of the formats.                                           *)
FormatArgs == <<InitFromInt(-7), InitFromString(<<"a", "b">>), InitFromInt(12)>>

(* A format that ends behind a directive does what it does in front of any *)
(* other, which goes on with its next argument; it leaves nothing behind   *)
(* but the character for padding.  An integer in a width is read back.     *)
FormatsAgree == Is("format") =>
    /\ \A n \in 0 .. Len(S) :
         \A f \in {PH7_InputFormat(Take(S, n), FormatArgs, 1, " ")} :
             sprintf(Take(S, n) \o <<"-">>, FormatArgs) = f.out \o <<"-">> /\ f.pad = " " =>
               sprintf(S, FormatArgs) = f.out \o PH7_InputFormat(Drop(S, n), FormatArgs, f.next, " ").out
    /\ S # <<>> /\ Last(S) = "d" /\ ToSet(Front(S)) \cap {"%", "d", "s", "$", "'"} = {} =>
         \A v \in {-12, 0, 7} :
            \A out \in {sprintf(<<"%">> \o S, <<InitFromInt(v)>>)}, d \in {Directive(S, 1, " ")} :
                /\ d.rest = <<>> /\ d.type = "d" => SyStrToInt64(out).val = v /\ Len(out) >= d.width
                /\ d.rest = <<>> /\ d.type = "d" /\ d.precision < 0 =>
                     Len(out) <= Max({d.width, Len(IntText(v)) + 1})
    /\ \A n \in {100, 1023, 1024, 5000} :
         LET size == size_format(n * (Len(S) + 1)) IN size[1] \in 0 .. 999 /\ size[2] \in 0 .. 9

----------------------------------------------------------------------------
(* What is still to be read through the handle: its buffer, then what the  *)
(* device has from its place on.                                           *)
ToRead(io) == Buffered(io) \o (IF "read" \in io.h.can THEN Drop(Data(io), io.h.pos) ELSE <<>>)
FirstLine(s) == Take(s, IF "\n" \in ToSet(s) THEN Min({i \in DOMAIN s : s[i] = "\n"}) ELSE Len(s))
AtMost(s, n) == Take(s, Min({n, Len(s)}))
Text2(out) == IF out[1] = "str" THEN out[2] ELSE <<>>

(* Any mixture of the reading functions reads each byte once and in order: *)
(* a line up to its end, as many bytes as were asked for, and the end of   *)
(* the file is there when nothing is left.  Only fgets() with a length may *)
(* stop short of the line, with at least that length, and fpassthru()      *)
(* prints what there is only when it fits into one buffer.                 *)
StreamsRead(io) ==
    LET rest == ToRead(io)
        Gives(r, s) == r.out = StrOrFalse(s) /\ rest = s \o ToRead(r.io) /\ r.io.node = io.node
    IN  /\ Gives(fgetc(io), AtMost(rest, 1))
        /\ Gives(fgets(io, -1), FirstLine(rest))
        /\ \A n \in Sizes :
             /\ Gives(fread(io, n), AtMost(rest, IF n < 1 THEN EofChunk ELSE n))
             /\ \A r \in {fgets(io, n)} :
                    /\ Gives(r, Text2(r.out)) /\ IsPrefix(Text2(r.out), FirstLine(rest))
                    /\ Text2(r.out) # FirstLine(rest) => n > 0 /\ Len(Text2(r.out)) >= n
        /\ feof(io).out = Truth(rest = <<>>) /\ ToRead(feof(io).io) = rest
        /\ fgetcsv(io, -1).io = fgets(io, -1).io /\ fgetss(io, -1).io = fgets(io, -1).io
        /\ \A r \in {fpassthru(io)} :
               /\ r.out = Number(Len(rest)) /\ ToRead(r.io) = <<>>
               /\ Len(rest) <= Chunk => r.text = rest

(* A place counted from the start or the end is where reading goes on; one *)
(* counted from the place of the handle, and writing, only when nothing is *)
(* buffered.                                                               *)
StreamsPlaced(io) ==
    LET d == Data(io)
        Reads(r, data, n) == Data(r.io) = data /\ ToRead(r.io) = IF "read" \in io.h.can THEN Drop(data, n) ELSE <<>>
    IN  /\ Reads(rewind(io), d, 0) /\ fstat_size(io).out = Number(Len(d))
        /\ \A n \in Sizes \ {-1} : /\ Reads(fseek(io, n, 0), d, n)
                                   /\ n <= Len(d) => Reads(fseek(io, -n, 2), d, Len(d) - n)
        /\ Buffered(io) = <<>> =>
             /\ Reads(ftell(io), d, ftell(io).out[2])
             /\ \A n \in Sizes : fseek(io, n, 1).out = Number(0) => Reads(fseek(io, n, 1), d, io.h.pos + n)
             /\ \A z \in Written :
                  LET at == IF "append" \in io.h.can THEN Len(d) ELSE io.h.pos
                  IN  \A r \in {fwrite(io, z)} :
                      /\ r.out = Number(Len(z)) /\ at <= Len(d) =>
                           Reads(r, Take(d, at) \o z \o Drop(d, at + Len(z)), at + Len(z))
                      /\ r.out = Truth(FALSE) => "write" \notin io.h.can \/ at + Len(z) > MaxFile

(* The functions on whole files agree what is in a file.                   *)
WholeFiles(io) ==
    \A p \in Homes :
        \A d \in {io.node[io.at[p]].data}, lines \in {file(io, p, 0).out} : io.at[p] # 0 =>
            /\ file_get_contents(io, p, 0, 0).out = StrOrFalse(d)
            /\ readfile(io, p) = [io |-> io, out |-> Number(Len(d)), text |-> d]
            /\ lines[1] = "array" /\ FlattenSeq(lines[2]) = d
            /\ file(io, p, 2).out[2] = [i \in DOMAIN lines[2] |-> SelectSeq(lines[2][i], LAMBDA c : c # "\n")]
            /\ parse_ini_file(io, p, FALSE).out[1] = lines[1] \/ d = <<>>
            /\ \A n \in Sizes : n > 0 =>
                 \A s \in {Text2(file_get_contents(io, p, n, n).out)} :
                     IsPrefix(s, Drop(d, n)) /\ (n <= Chunk => s = AtMost(Drop(d, n), n))
            /\ \A q \in Paths : \A r \in {copy(io, p, q)} :
                                    r.out = Truth(TRUE) /\ io.at[q] # io.at[p] =>
                                      r.io.node[r.io.at[q]].data = d /\ r.io.node[r.io.at[p]].data = d
            /\ \A z \in Written, append \in BOOLEAN : \A r \in {file_put_contents(io, p, z, append)} :
                 r.out = Number(Len(z)) =>
                   file_get_contents(r.io, p, 0, 0).out = Chars(IF append THEN d \o z ELSE z)

Rows == {<<<<"a">>, <<>>, <<"b">>>>, <<<<"a", "b", "c">>>>}

(* Each mode lets one do what it says, and what is written by fputcsv() or *)
(* fprintf() is read back.                                                 *)
ModesAgree(io) ==
    \A p \in Homes, m \in Modes :
        LET was == io.at[p] # 0
            d == io.node[io.at[p]].data
        IN  \A r \in {fopen(io, p, m)} :
            /\ r.out = Truth(CASE m[1] = "r" -> was [] m[1] = "x" -> ~ was [] OTHER -> TRUE)
            /\ r.out = Truth(TRUE) =>
                 /\ Data(r.io) = IF was /\ m[1] # "w" THEN d ELSE <<>>
                 /\ (fread(r.io, 1).out = Truth(FALSE)) = (Data(r.io) = <<>> \/ (m[1] # "r" /\ Len(m) = 1))
                 /\ Len(Data(r.io)) < MaxFile =>
                      (fputcsv(r.io, <<<<"a">>, <<>>, <<"b", ",">>>>).io.node = r.io.node) = (m = <<"r">>)
                 /\ m = <<"w", "+">> =>
                      /\ \A row \in Rows :
                           fgetcsv(rewind(fputcsv(r.io, row).io).io, -1).out
                             = <<"array", SelectSeq(row, LAMBDA x : x # <<>>)>>
                      /\ \A w \in {fprintf(r.io, <<"%", "3", "d">>, <<InitFromInt(7)>>)} :
                             w.out = Number(3) /\ fgets(rewind(w.io).io, -1).out = Chars(<<" ", " ", "7">>)

RECURSIVE Listed(_)
Listed(d) ==
    LET r == readdir(d) IN IF r.out[1] = "bool" THEN <<>> ELSE <<r.out[2]>> \o Listed(r.dir)

(* The questions about a path agree, no file is left without the directory *)
(* it is in, and a directory lists what is in it.                          *)
TreesAgree(io) ==
    \A p \in Paths :
        LET seen == filetype(io, p)
        IN  /\ is_dir(io, p) = (seen = Chars("dir")) /\ is_file(io, p) = (seen = Chars("file"))
            /\ file_exists(io, p) = (is_dir(io, p) \/ is_file(io, p)) /\ ~ is_link(io, p)
            /\ stat(io, p)[1] = (IF file_exists(io, p) THEN "array" ELSE "bool")
            /\ touch(io, p).out = Truth(file_exists(io, p)) /\ opendir(io, p).ok = is_dir(io, p)
            /\ is_file(io, p) => filesize(io, p) = Number(Len(Text2(file_get_contents(io, p, 0, 0).out)))
            /\ LET d == opendir(io, p).dir
               IN  Listed(rewinddir(readdir(d).dir)) = Listed(d) /\ Listed(closedir(d)) = <<>>
            /\ lstat(io, p)[1] = "array" => Len(p) = 1 \/ is_dir(io, Front(p))
            /\ lstat(io, p)[1] = "array" /\ Kind(io, p) = "dir" =>
                 ToSet(Listed(opendir(io, p).dir)) =
                   {Last(q) : q \in {x \in Paths : Len(x) = Len(p) + 1 /\ IsPrefix(p, x) /\ lstat(io, x)[1] = "array"}}
            /\ \A q \in Paths :
                 LET r == rename(io, p, q)
                 IN  r.out = Truth(TRUE) => lstat(r.io, q) = lstat(io, p) /\ (io.at[p] # io.at[q] => r.io.at[p] = 0)

(* The parts of a path put together give the path.                         *)
PathsAgree ==
    LET o == LastSlash(S)
    IN  S # <<>> => \A info \in {ExtractPathInfo(S)} :
        /\ o > 1 => dirname(S) = Take(S, o - 1)
        /\ o < Len(S) /\ o # 1 => basename(S, <<>>) = Drop(S, o) /\ info.basename = Drop(S, o)
        /\ basename(S \o <<"/">>, <<>>) = basename(S, <<>>) \/ ToSet(S) = {"/"}
        /\ o < Len(S) => Len(info.filename) + Len(info.extension) \in {Len(info.basename), Len(info.basename) - 1}
        /\ info.extension # <<>> => /\ info.filename \o <<".">> \o info.extension = info.basename
                                    /\ basename(S, <<".">> \o info.extension) = info.filename \/ o = 1
        /\ DOMAIN pathinfo(S, "") = {k \in DOMAIN info : pathinfo(S, k) # <<>>}

(* What a pattern means: the pieces of it one after the other.             *)
RECURSIVE Means(_, _)
Means(p, s) ==
    IF p = <<>> THEN s = <<>>
    ELSE IF p[1] = "*" THEN Means(Tail(p), s) \/ (s # <<>> /\ Means(p, Tail(s)))
    ELSE /\ s # <<>>
         /\ IF p[1] = "?" THEN Means(Tail(p), Tail(s))
            ELSE IF p[1] = "\\" THEN Len(p) > 1 /\ p[2] = s[1] /\ Means(Drop(p, 2), Tail(s))
            ELSE IF p[1] = "["
                 THEN LET end == Min({i \in 3 .. Len(p) : p[i] = "]"})
                          in == Take(Tail(p), end - 2)
                          one == IF in[1] = "^" THEN s[1] \notin ToSet(in)
                                 ELSE IF Len(in) = 3 /\ in[2] = "-" THEN Code(s[1]) \in Code(in[1]) .. Code(in[3])
                                 ELSE s[1] \in ToSet(in)
                      IN  one /\ Means(Drop(p, end), Tail(s))
            ELSE p[1] = s[1] /\ Means(Tail(p), Tail(s))

(* A pattern matches what it means, unless a set stands behind a star (or  *)
(* the ? of one) or a backslash.                                           *)
GlobsAgree ==
    LET odd == \E i \in 2 .. Len(S) : S[i] = "[" /\ S[i - 1] \in {"*", "?", "\\"}
    IN  /\ ~ odd /\ (S = <<>> \/ Last(S) # "\\") => \A s \in Globbed : strglob(S, s) = Means(S, s)
        /\ ToSet(S) \cap {"\\", "["} = {} => \A s \in Globbed : fnmatch(S, s, 1) = strglob(S, s)
        /\ "[" \notin ToSet(S) => \A s \in Globbed : fnmatch(S, s, 8) = strglob(Lower(S), Lower(s))

(* The file functions of vfs.c agree with a plain file that is read and    *)
(* written at one place, with each other, and with the text of the paths.  *)
FilesAgree ==
    /\ Is("stream") => /\ S.h.ino # 0 /\ "read" \in S.h.can => StreamsRead(S)
                       /\ S.h.ino # 0 => StreamsPlaced(S)
                       /\ S.h.ino = 0 => WholeFiles(S) /\ ModesAgree(S)
    /\ Is("tree") => TreesAgree(S)
    /\ Is("path") => PathsAgree
    /\ Is("glob") => GlobsAgree

----------------------------------------------------------------------------
(* What is written is read back: the tokens and their lines by the lexer,  *)
(* the chunks of a page by the tokenizer of raw text, and the tree of an   *)
(* expression, with the precedence and the order of its operators, by the  *)
(* expression parser, however many parentheses it has.                     *)
SourceRead ==
    /\ Is("source") => TokensRead(S)
    /\ Is("page") => PagesSplit(S)
    /\ subject[1] \in {"leaf", "operation", "expression"} => ExpressionsRead(S)
=============================================================================
