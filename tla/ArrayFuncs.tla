----------------------------- MODULE ArrayFuncs -----------------------------
(***************************************************************************)
(* The array functions of PHP: the built-ins of hashmap.c, as operators    *)
(* from arrays to arrays.  A function that gives a new array starts from   *)
(* an empty one; the arguments have been checked to be arrays.  User       *)
(* callbacks are functions of values, or relations: the pairs of values    *)
(* that a comparison calls less or equal, the values that a filter keeps.  *)
(***************************************************************************)
EXTENDS Hashmap

CONSTANT PadMax   \* the longest array array_pad() makes

(* A value as a key: HashmapInsert makes an integer of what is no string. *)
AsKey(v) == IF v = NULL THEN 0 ELSE v

(* ph7_array_add_elem of a sequence of values *)
Added(m, vs) == FoldLeft(InsertAuto, m, vs)
Times(n, v) == [i \in 1..n |-> v]

(* The elements of xs in a new array, and those of a at the positions I *)
InsertNodes(m, xs, preserve) == FoldLeft(LAMBDA d, x : InsertNode(d, x, preserve), m, xs)
Gathered(xs, preserve) == InsertNodes(NewHashmap, xs, preserve)
At(a, I) == FoldLeft(LAMBDA xs, i : IF i \in I THEN Append(xs, a.node[i]) ELSE xs, <<>>,
                     [i \in DOMAIN a.node |-> i])

(* Mutation: the keys are not preserved. *)
KeptAnew(a, I) == Gathered(At(a, I), FALSE)
Kept(a, I) == Gathered(At(a, I), TRUE)

Pop(a) == IF a.node = <<>> THEN a ELSE Reset(UnlinkNode(a, Len(a.node)))
Push(a, vs) == Added(a, vs)
Shift(a) == IF a.node = <<>> THEN a ELSE Reset(Reindexed(UnlinkNode(a, 1)))
ArrayRange(lo, hi, step) ==
  Added(NewHashmap, IF lo > hi THEN <<>> ELSE [i \in 1..((hi - lo) \div step + 1) |-> lo + (i - 1) * step])
ArrayValues(a) == Added(NewHashmap, Values(a))
ArrayKeys(a) == Added(NewHashmap, [i \in DOMAIN a.node |-> a.node[i].key])

(* array_keys() with a value to search for releases the values it compares. *)
KeysSearched(a) == [a EXCEPT !.node = [i \in DOMAIN @ |-> [@[i] EXCEPT !.val = NULL]]]
KeysFound(a, v, strict) ==
  LET found == At(a, {i \in DOMAIN a.node : MemObjCmp(a.node[i].val, v, strict) = 0})
  IN Added(NewHashmap, [i \in DOMAIN found |-> found[i].key])

ArrayMerge(as) == FoldLeft(LAMBDA m, a : Merge(a, m), NewHashmap, as)
Copy(a) == Dup(a, NewHashmap)
Replace(as) == FoldLeft(LAMBDA m, a : Overwrite(a, m), NewHashmap, as)

(* Mutation: a negative offset counts from the last element. *)
SliceOffsetLast(n, off) ==
  LET o == IF off < 0 THEN n - 1 + off ELSE off IN IF o < 0 \/ o > n THEN n - 1 ELSE o

(* The offset and length of array_slice() and array_splice(): what is out of *)
(* range becomes the last element, or all from the offset on.                *)
SliceOffset(n, off) ==
  LET o == IF off < 0 THEN n + off ELSE off IN IF o < 0 \/ o > n THEN n - 1 ELSE o
SliceLength(n, o, len) ==
  LET l == IF len < 0 THEN n + len - o ELSE len IN IF l < 0 \/ o + l >= n THEN n - o ELSE l

(* The last element of an empty array: the offset -1 and, unless less was    *)
(* asked for, the length 1.  The code reads through the NULL pointer.        *)
Crashes(a, off, len) ==
  a.node = <<>> /\ SliceLength(0, SliceOffset(0, off), len) > 0

Slice(a, off, len, preserve) ==
  LET n == Len(a.node)  o == SliceOffset(n, off)
  IN Gathered(SubSeq(a.node, o + 1, o + SliceLength(n, o, len)), preserve)

(* array_splice(): replacements take the place of the values that go, and    *)
(* those left over go to the end; without replacement an element is unlinked. *)
Put(a, o, n, rep) ==
  [a EXCEPT !.node = [i \in DOMAIN @ |-> IF i \in (o + 1)..(o + n)
                        THEN [@[i] EXCEPT !.val = rep[i - o].val] ELSE @[i]]]
Unlinked(a, p, n) == FoldLeft(LAMBDA m, i : UnlinkNode(m, p), a, [i \in 1..n |-> i])
Spliced(a, off, len, rep) ==
  LET o == SliceOffset(Len(a.node), off)  l == SliceLength(Len(a.node), o, len)
      both == IF l < Len(rep) THEN l ELSE Len(rep)
      cut == Unlinked(Put(a, o, both, rep), o + both + 1, l - both)
  IN IF l < 1 THEN a ELSE InsertNodes(cut, SubSeq(rep, both + 1, Len(rep)), FALSE)

Fill(start, n, v) == Added(Insert(NewHashmap, start, v), Times(IF n > 1 THEN n - 1 ELSE 0, v))
FillKeys(a, v) == FoldLeft(LAMBDA m, x : Insert(m, AsKey(x.val), v), NewHashmap, a.node)
Combine(a, b) ==
  FoldLeft(LAMBDA m, i : Insert(m, AsKey(a.node[i].val), b.node[i].val), NewHashmap,
           [i \in DOMAIN a.node |-> i])
(* array_fill_keys() and array_combine() leave the keys they convert behind. *)
KeysForced(a) == [a EXCEPT !.node = [i \in DOMAIN @ |-> [@[i] EXCEPT !.val = AsKey(a.node[i].val)]]]

ArrayReverse(a, preserve) == Gathered(Reverse(a.node), preserve)
Unique(a, strict) ==
  FoldLeft(LAMBDA m, x : IF FindValue(m, x.val, strict) = 0 THEN InsertNode(m, x, TRUE) ELSE m,
           NewHashmap, a.node)
Flip(a) ==
  FoldLeft(LAMBDA m, x : IF x.val = NULL THEN m ELSE Insert(m, x.val, x.key), NewHashmap, a.node)
Sum(a) == FoldLeft(LAMBDA s, x : s + Num(x.val), 0, a.node)
Product(a) == IF a.node = <<>> THEN 0 ELSE FoldLeft(LAMBDA s, x : s * Num(x.val), 1, a.node)

(* array_rand() of one key, for the random number r *)
Rand(a, r) ==
  LET n == Len(a.node)  e == r % n  back == n - e
  IN IF e > n \div 2 THEN a.node[n - (IF back > 1 THEN back ELSE 0)].key ELSE a.node[e + 1].key

(* array_chunk(): a last chunk that is full is not in the result. *)
Chunk(a, size, preserve) ==
  LET n == Len(a.node)
      count == IF n % size = 0 THEN n \div size - 1 ELSE n \div size + 1
      upTo(i) == IF i * size < n THEN i * size ELSE n
  IN IF size >= n THEN <<a>>
     ELSE [i \in 1..count |-> Gathered(SubSeq(a.node, (i - 1) * size + 1, upTo(i)), preserve)]

Pad(a, size, v) ==
  LET want == IF size < 0 THEN -size ELSE size
      n == (IF want > PadMax THEN PadMax ELSE want) - Len(a.node)
  IN CASE size = 0 -> NewHashmap
       [] size # 0 /\ n <= 0 -> Copy(a)
       [] size < 0 /\ n > 0 -> Merge(a, Added(NewHashmap, Times(n, v)))
       [] OTHER -> Added(Merge(a, NewHashmap), Times(n, v))
----------------------------------------------------------------------------
(* Differences and intersections with the arrays bs: the positions in a *)
Common(a, b) == {i \in DOMAIN a.node : FindValue(b, a.node[i].val, TRUE) # 0}
SameKey(a, b) == {i \in DOMAIN a.node : Has(b, a.node[i].key)}

(* The element of b that has the key is the first one that has the value. *)
Same(a, b) == {i \in SameKey(a, b) : FindValue(b, a.node[i].val, TRUE) = Position(b, a.node[i].key)}

Diff(a, bs) == Kept(a, DOMAIN a.node \ UNION {Common(a, b) : b \in bs})
DiffAssoc(a, bs) == Kept(a, UNION {DOMAIN a.node \ Same(a, b) : b \in bs})
DiffKey(a, bs) == Kept(a, DOMAIN a.node \ UNION {SameKey(a, b) : b \in bs})
Intersect(a, bs) == Kept(a, {i \in DOMAIN a.node : \A b \in bs : i \in Common(a, b)})
IntersectAssoc(a, bs) == Kept(a, {i \in DOMAIN a.node : \A b \in bs : i \in Same(a, b)})
IntersectKey(a, bs) == Kept(a, {i \in DOMAIN a.node : \A b \in bs : i \in SameKey(a, b)})

(* The same with a callback: equal are the pairs for which it returns 0. *)
FindValueByCallback(m, v, equal) == SelectInSeq(m.node, LAMBDA x : <<v, x.val>> \in equal)
CommonBy(a, b, equal) == {i \in DOMAIN a.node : FindValueByCallback(b, a.node[i].val, equal) # 0}
Udiff(a, bs, equal) == Kept(a, DOMAIN a.node \ UNION {CommonBy(a, b, equal) : b \in bs})
Uintersect(a, bs, equal) == Kept(a, {i \in DOMAIN a.node : \A b \in bs : i \in CommonBy(a, b, equal)})
DiffUassoc(a, bs, equal) ==
  Kept(a, {i \in DOMAIN a.node :
             \E b \in bs : \/ i \notin SameKey(a, b)
                          \/ FindValueByCallback(b, a.node[i].val, equal) # Position(b, a.node[i].key)})

Filter(a, keep) == Kept(a, {i \in DOMAIN a.node : a.node[i].val \in keep})
IsEmpty(v) == v \in {0, NULL}
ArrayMap(a, f) == FoldLeft(LAMBDA m, x : Insert(m, x.key, f[x.val]), NewHashmap, a.node)
Reduce(a, f, init) == FoldLeft(LAMBDA s, x : f[s, x.val], init, a.node)
(* array_walk(), whose callback takes its argument by reference *)
Walk(a, f) == [a EXCEPT !.node = [i \in DOMAIN @ |-> [@[i] EXCEPT !.val = f[a.node[i].val]]]]
----------------------------------------------------------------------------
(* Sorting: nothing is done to an array with less than two elements. *)
Sorted(a, less) == IF Len(a.node) > 1 THEN MergeSort(a, less) ELSE a
SortedAnew(a, less) == IF Len(a.node) > 1 THEN SortRehash(MergeSort(a, less)) ELSE a

NumberLess(a) == {x \in Pairs(a) : Num(x[1].val) < Num(x[2].val)}
NumberGreater(a) == {x \in Pairs(a) : Num(x[1].val) > Num(x[2].val)}
Sort(a, numeric) == SortedAnew(a, IF numeric THEN NumberLess(a) ELSE ValueLess(a))
Rsort(a, numeric) == SortedAnew(a, IF numeric THEN NumberGreater(a) ELSE ValueGreater(a))
Asort(a, numeric) == Sorted(a, IF numeric THEN NumberLess(a) ELSE ValueLess(a))
Arsort(a, numeric) == Sorted(a, IF numeric THEN NumberGreater(a) ELSE ValueGreater(a))
Ksort(a) == Sorted(a, KeyLess(a))
Krsort(a) == Sorted(a, KeyGreater(a))
Usort(a, less) == SortedAnew(a, {x \in Pairs(a) : <<x[1].val, x[2].val>> \in less})
Uasort(a, less) == Sorted(a, {x \in Pairs(a) : <<x[1].val, x[2].val>> \in less})
Uksort(a, less) == Sorted(a, {x \in Pairs(a) : <<x[1].key, x[2].key>> \in less})
(* shuffle(): a random comparison puts the elements in any order. *)
Shuffles(a) == IF Len(a.node) > 1 THEN {Reset([a EXCEPT !.node = s]) : s \in
                    {[i \in DOMAIN a.node |-> a.node[p[i]]] : p \in
                       {p \in [DOMAIN a.node -> DOMAIN a.node] : \A i, j \in DOMAIN p : p[i] = p[j] => i = j}}}
               ELSE {a}
============================================================================
