---------------------------- MODULE ArrayScripts ----------------------------
(***************************************************************************)
(* A script with an array: every built-in of ArrayFuncs that changes its   *)
(* argument, and every one that gives a new array, in any order.  The      *)
(* properties compare what the functions give for the arrays a script can  *)
(* come to with what they promise.                                         *)
(***************************************************************************)
EXTENDS ArrayFuncs

CONSTANTS
  Keys, Vals,      \* the keys and the values of elements, bounds too
  Literals,        \* other arrays, as sequences of <<key, value>>
  MaxLen, MaxNext  \* bounds of the array and of its next index

ASSUME ScriptsAssumption ==
  /\ Keys \subseteq Key /\ Vals \subseteq Value /\ Literals \subseteq Seq(Key \X Value)
  /\ MaxLen \in Nat /\ MaxNext \in Nat /\ PadMax \in Nat

VARIABLE arr

Init == arr = NewHashmap

Literal(s) == FoldLeft(LAMBDA m, x : Insert(m, x[1], x[2]), NewHashmap, s)
Others == {Literal(s) : s \in Literals}

(* A script that goes on with the array m, if it is within the bounds *)
Goes(m) == /\ Len(m.node) <= MaxLen /\ m.next <= MaxNext
           /\ KeysOf(m) \subseteq Keys /\ Range(Values(m)) \subseteq Vals
           /\ arr' = m

(* No two elements have one key.                                            *)
Distinct(m) == \A i, j \in DOMAIN m.node : m.node[i].key = m.node[j].key => i = j

(* The next index is above all integer keys: it is not after Dup, Union and *)
(* InsertNode, which move keys without it.                                  *)
Above(m) == \A k \in KeysOf(m) : k \in Int => k < m.next

Offsets == (-MaxLen)..MaxLen
Cuts == {c \in Offsets \X Offsets : ~Crashes(arr, c[1], c[2])}
Compared == (Keys \cup Vals) \X (Keys \cup Vals)
Down == {p \in Compared : MemObjCmp(p[1], p[2], FALSE) > 0}
Failing == Compared        \* a callback that fails counts as -1
Congruent == {p \in Compared : Num(p[1]) = Num(p[2])}
ToKey == [v \in Vals |-> AsKey(v)]

(* $a[k] = v, $a[] = v, unset($a[k]) *)
Elements ==
  \/ \E k \in Keys, v \in Vals : Goes(Insert(arr, k, v))
  \/ \E v \in Vals : Goes(InsertAuto(arr, v))
  \/ \E i \in DOMAIN arr.node : Goes(UnlinkNode(arr, i))

(* reset(), end(), next() and each(), prev() *)
Cursor == Goes(Reset(arr)) \/ Goes(End(arr)) \/ Goes(NextEntry(arr)) \/ Goes(PrevEntry(arr))

InPlace ==
  \/ Goes(Pop(arr))
  \/ \E v \in Vals : Goes(Push(arr, <<v, v>>))
  \/ Goes(Shift(arr))
  \/ \E b \in Others : \E m \in {Spliced(arr, c[1], c[2], b.node) : c \in Cuts} : Goes(m)
  \/ \E b \in Others : Goes(Union(arr, b))
  \/ Goes(KeysSearched(arr))
  \/ Goes(KeysForced(arr))
  \/ Goes(Walk(arr, ToKey))

Sorts ==
  \/ \E numeric \in BOOLEAN : \/ Goes(Sort(arr, numeric)) \/ Goes(Rsort(arr, numeric))
                              \/ Goes(Asort(arr, numeric)) \/ Goes(Arsort(arr, numeric))
  \/ Goes(Ksort(arr)) \/ Goes(Krsort(arr))
  \/ Goes(Usort(arr, Down)) \/ Goes(Usort(arr, Failing))
  \/ Goes(Uasort(arr, Down)) \/ Goes(Uksort(arr, Down))
  \/ \E m \in Shuffles(arr) : Goes(m)

(* $a = array_...($a, ...) *)
Derives ==
  \/ Goes(ArrayValues(arr)) \/ Goes(ArrayKeys(arr))
  \/ \E v \in Vals, strict \in BOOLEAN : Goes(KeysFound(arr, v, strict))
  \/ \E b \in Others : \/ Goes(ArrayMerge(<<arr, b>>)) \/ Goes(Replace(<<arr, b>>))
                       \/ Len(b.node) = Len(arr.node) /\ Goes(Combine(arr, b))
                       \/ Goes(Diff(arr, {b})) \/ Goes(DiffAssoc(arr, {b})) \/ Goes(DiffKey(arr, {b}))
                       \/ Goes(Intersect(arr, {b})) \/ Goes(IntersectAssoc(arr, {b}))
                       \/ Goes(IntersectKey(arr, {b}))
                       \/ Goes(Udiff(arr, {b}, Congruent)) \/ Goes(Uintersect(arr, {b}, Congruent))
                       \/ Goes(DiffUassoc(arr, {b}, Congruent))
  \/ Goes(Copy(arr))
  \/ \E preserve \in BOOLEAN : \E m \in {Slice(arr, c[1], c[2], preserve) : c \in Cuts} : Goes(m)
  \/ \E v \in Vals : Goes(FillKeys(arr, v)) \/ \E n \in Offsets : Goes(Fill(n, n, v)) \/ Goes(Pad(arr, n, v))
  \/ \E preserve \in BOOLEAN : Goes(ArrayReverse(arr, preserve))
  \/ \E strict \in BOOLEAN : Goes(Unique(arr, strict))
  \/ Goes(Flip(arr))
  \/ Goes(Filter(arr, {v \in Vals : ~IsEmpty(v)})) \/ Goes(ArrayMap(arr, ToKey))
  \/ \E n \in 1..MaxLen : \E m \in {Chunk(arr, n, TRUE)[i] : i \in DOMAIN Chunk(arr, n, TRUE)} : Goes(m)
  \/ \E n \in 0..2 : Goes(ArrayRange(0, n, 1))

(* array_erase() *)
Emptied == Goes(Erase(arr))

(* An array with a key twice is only emptied: which of the two elements a   *)
(* lookup finds then depends on the order in their bucket, left out here.   *)
Next == (Distinct(arr) /\ (Elements \/ Cursor \/ InPlace \/ Sorts \/ Derives)) \/ Emptied
Spec == Init /\ [][Next]_arr
----------------------------------------------------------------------------
TypeOK == arr \in [node : Seq(Node), next : Int, cur : 0..Len(arr.node)]

(***************************************************************************)
(* Keys stay unique: "if a node with the given key already exists in the   *)
(* database then this function overwrite the old value" (hashmap.c:638),   *)
(* and whatever does not look has new keys to insert, through every array  *)
(* function in any order, with two exceptions.  An element is appended to  *)
(* an array whose next index has fallen behind its keys (hashmap.c:755),   *)
(* or array_splice() inserts a string key that is there (hashmap.c:4093).  *)
(***************************************************************************)
Unlooked ==
  \/ /\ ~Above(arr)
     /\ \E v \in Vals : arr' \in {InsertAuto(arr, v), Push(arr, <<v, v>>)}
  \/ \E c \in Cuts, b \in Others :
       /\ ~Above(arr) \/ KeysOf(b) \cap KeysOf(arr) \cap Strs # {}
       /\ arr' = Spliced(arr, c[1], c[2], b.node)
KeysUnique == [][Distinct(arr') \/ Unlooked]_arr

(* The keys are 0, 1, ... in order and the next one follows.               *)
Numbered(m) == (\A i \in DOMAIN m.node : m.node[i].key = i - 1) /\ m.next = Len(m.node)

(***************************************************************************)
(* while (list($k) = each($a)) unset($a[$k]) visits every element once,    *)
(* although each() has moved the cursor to the next before the one it gave *)
(* is unset; so does foreach.  The keys are unique, as unset() looks them  *)
(* up.                                                                     *)
(***************************************************************************)
Visited(s) ==
  IF s.map.cur = 0 THEN s
  ELSE [map |-> UnlinkNode(NextEntry(s.map), s.map.cur),
        seen |-> Append(s.seen, s.map.node[s.map.cur])]
Looped(a) == FoldLeft(LAMBDA s, i : Visited(s), [map |-> Reset(a), seen |-> <<>>],
                      [i \in DOMAIN a.node |-> i])

LoopUnsetsAll ==
  Distinct(arr) => LET end == Looped(arr) IN end.map.node = <<>> /\ end.seen = arr.node

(***************************************************************************)
(* array_slice() starts "at that offset", or "that far from the end", and  *)
(* has "that many elements" or stops "that many elements from the end"     *)
(* (hashmap.c:3835-3840); array_splice() takes out the same elements and   *)
(* leaves the others; the chunks of array_chunk(), unless the last is full,*)
(* hold all elements in order.  Offsets and lengths are in range.          *)
(***************************************************************************)
CutsExact ==
  LET n == Len(arr.node)  vs == Values(arr)
  IN /\ \A o \in 0..(n - 1), l \in 0..n : o + l <= n =>
          /\ Values(Slice(arr, o, l, FALSE)) = SubSeq(vs, o + 1, o + l)
          /\ Slice(arr, o - n, l, TRUE).node = SubSeq(arr.node, o + 1, o + l)
          /\ o + l < n => Slice(arr, o, l - (n - o), FALSE) = Slice(arr, o, l, FALSE)
          /\ Spliced(arr, o, l, <<>>).node = SubSeq(arr.node, 1, o) \o SubSeq(arr.node, o + l + 1, n)
     /\ \A s \in 1..n : s = n \/ n % s # 0 =>
          LET c == Chunk(arr, s, FALSE)
          IN /\ FlattenSeq([i \in DOMAIN c |-> Values(c[i])]) = vs
             /\ \A i \in DOMAIN c : i < Len(c) => Len(c[i].node) = s

(***************************************************************************)
(* Taking an array apart and putting it together again gives it back, if   *)
(* its keys are unique: what                                               *)
(* array_diff() leaves and what array_intersect() leaves, of values, keys  *)
(* or both; its keys and values combined, twice reversed, twice flipped,   *)
(* replaced by itself; a union, and a merged array has the elements of     *)
(* both; array_values() and array_shift() number them anew, and the next   *)
(* one appended comes after all: "make sure the automatic index is not     *)
(* reserved" (hashmap.c:738).                                              *)
(***************************************************************************)
PartsWhole ==
  Distinct(arr) =>
  LET parts(p, q) ==
        /\ {p.node[i] : i \in DOMAIN p.node} \cup {q.node[i] : i \in DOMAIN q.node}
             = {arr.node[i] : i \in DOMAIN arr.node}
        /\ Len(p.node) + Len(q.node) = Len(arr.node)
      vs == Values(arr)
      plain == \A i, j \in DOMAIN vs : vs[i] # NULL /\ (vs[i] = vs[j] => i = j)
  IN /\ \A b \in Others :
          /\ parts(Diff(arr, {b}), Intersect(arr, {b}))
          /\ parts(DiffAssoc(arr, {b}), IntersectAssoc(arr, {b}))
          /\ parts(DiffKey(arr, {b}), IntersectKey(arr, {b}))
          /\ parts(Udiff(arr, {b}, Congruent), Uintersect(arr, {b}, Congruent))
          /\ HashmapCmp(Union(Copy(b), arr), Replace(<<arr, b>>), TRUE) = 0
          /\ Len(ArrayMerge(<<arr, b>>).node) + Cardinality(KeysOf(arr) \cap KeysOf(b) \cap Strs)
               = Len(arr.node) + Len(b.node)
          /\ Above(Overwrite(arr, b))
     /\ Combine(ArrayKeys(arr), ArrayValues(arr)).node = arr.node
     /\ ArrayReverse(ArrayReverse(arr, TRUE), TRUE).node = arr.node
     /\ plain => Flip(Flip(arr)).node = arr.node
     /\ HashmapCmp(Replace(<<arr, arr>>), arr, TRUE) = 0
     /\ Numbered(ArrayValues(arr)) /\ Above(Flip(arr)) /\ Above(Replace(<<arr>>))
     /\ KeysOf(arr) \subseteq Int /\ arr.node # <<>> => Numbered(Shift(arr))

(***************************************************************************)
(* The merge sort puts the elements in order and loses none, whatever its  *)
(* buckets hold, if the order is one, for integers and for keys; sort()    *)
(* and usort() number the elements anew.                                   *)
(***************************************************************************)
SortsRight ==
  LET bag(m) == [x \in {m.node[i] : i \in DOMAIN m.node} |->
                   Cardinality({i \in DOMAIN m.node : m.node[i] = x})]
      ordered(m, greater) == \A i \in 1..(Len(m.node) - 1) : <<m.node[i], m.node[i + 1]>> \notin greater
  IN /\ \A a \in {ArrayMerge(<<arr, b>>) : b \in Others} :
          LET up == Asort(a, TRUE)  down == Arsort(a, TRUE)  keys == Ksort(a)
          IN /\ \A m \in {up, down, keys, Uasort(a, Failing)} : bag(m) = bag(a)
             /\ ordered(up, NumberGreater(a)) /\ ordered(down, NumberLess(a))
             /\ KeysOf(a) \subseteq Int => ordered(keys, KeyGreater(a))
     /\ Len(arr.node) > 1 => Numbered(Sort(arr, FALSE)) /\ Numbered(Usort(arr, Failing))
============================================================================
