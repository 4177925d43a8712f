------------------------------- MODULE Hashmap ------------------------------
(***************************************************************************)
(* The arrays of PHP: hashmap.c.  An array keeps its elements in a list,   *)
(* finds them through hash buckets, remembers the next automatic index and *)
(* has a loop cursor that foreach, each() and next() share.                *)
(*                                                                         *)
(* Abstractions: the list is a sequence and the cursor a position in it,   *)
(* 0 for no element; the buckets are left out, and of two elements with    *)
(* one key a lookup finds the later, as the newest comes first in a        *)
(* bucket.  A string is a constant that is not numeric.  Allocation does   *)
(* not fail, and $GLOBALS, which refuses insertions, is no such array.     *)
(***************************************************************************)
EXTENDS Integers, SequencesExt

CONSTANTS
  NULL,
  Strs,         \* strings, as keys and as values
  StrRank,      \* their order: SyBlobCmp
  NSortBucket   \* N_SORT_BUCKET

ASSUME HashmapAssumption ==
  /\ NULL \notin Int \cup Strs /\ Strs \cap Int = {}
  /\ StrRank \in [Strs -> Int] /\ NSortBucket \in Nat \ {0}

Key == Int \cup Strs
Value == Int \cup Strs \cup {NULL}
Node == [key : Key, val : Value]
Hashmap == {m \in [node : Seq(Node), next : Int, cur : Nat] : m.cur <= Len(m.node)}

(* PH7_NewHashmap *)
NewHashmap == [node |-> <<>>, next |-> 0, cur |-> 0]

KeysOf(m) == {m.node[i].key : i \in DOMAIN m.node}
Values(m) == [i \in DOMAIN m.node |-> m.node[i].val]

(* HashmapLookup *)
Has(m, k) == \E i \in DOMAIN m.node : m.node[i].key = k
Position(m, k) == CHOOSE i \in DOMAIN m.node :
                    m.node[i].key = k /\ \A j \in DOMAIN m.node : m.node[j].key = k => j <= i
Lookup(m, k) == m.node[Position(m, k)].val

(* HashmapInsertIntKey, HashmapInsertBlobKey: no lookup, the index stays. *)
InsertKey(m, k, v) ==
  [m EXCEPT !.node = Append(@, [key |-> k, val |-> v]),
            !.cur = IF m.node = <<>> THEN 1 ELSE @]

(* The first index from n on that no element has. *)
Unreserved(m, n) ==
  CHOOSE j \in n .. (n + Len(m.node)) : ~Has(m, j) /\ \A i \in n .. (j - 1) : Has(m, i)

InsertAuto(m, v) == [InsertKey(m, m.next, v) EXCEPT !.next = @ + 1]

Overwritten(m, k, v) == [m EXCEPT !.node[Position(m, k)].val = v]

(* HashmapInsert *)
Insert(m, k, v) ==
  IF Has(m, k) THEN Overwritten(m, k, v)
  ELSE LET r == InsertKey(m, k, v)
       IN IF k \in Int /\ k >= m.next THEN [r EXCEPT !.next = Unreserved(r, k + 1)] ELSE r

(* HashmapInsertNode *)
InsertNode(m, x, preserve) ==
  IF x.key \in Int /\ ~preserve THEN InsertAuto(m, x.val) ELSE InsertKey(m, x.key, x.val)

(* Mutation: the cursor stays where it is, whatever element is unlinked. *)
UnlinkNodeStill(m, i) ==
  LET n == RemoveAt(m.node, i)
  IN [m EXCEPT !.node = n, !.cur = IF @ <= Len(n) THEN @ ELSE 0]

(* PH7_HashmapUnlinkNode: the cursor advances from the element that goes. *)
UnlinkNode(m, i) ==
  LET n == RemoveAt(m.node, i)
  IN [m EXCEPT !.node = n, !.cur = IF i < @ THEN @ - 1 ELSE IF @ <= Len(n) THEN @ ELSE 0]

(* Mutation: the cursor is left on an element that has gone. *)
EraseCursorLeft(m) == [NewHashmap EXCEPT !.cur = m.cur]

(* PH7_HashmapRelease with FreeDS = FALSE *)
Erase(m) == NewHashmap

(* HashmapRehashIntNode of all integer keys, from index 0 on *)
Reindexed(m) ==
  LET ints(i) == Cardinality({j \in 1..i : m.node[j].key \in Int})
  IN [m EXCEPT !.node = [i \in DOMAIN @ |->
                           IF @[i].key \in Int THEN [@[i] EXCEPT !.key = ints(i) - 1] ELSE @[i]],
               !.next = ints(Len(m.node))]
----------------------------------------------------------------------------
(* Mutation: string keys are not looked up. *)
UnionUnchecked(l, r) ==
  FoldLeft(LAMBDA m, x : IF x.key \in Int /\ Has(m, x.key) THEN m
                         ELSE InsertKey(m, x.key, x.val), l, r.node)

(* HashmapMerge, HashmapOverwrite, PH7_HashmapDup, PH7_HashmapUnion: the      *)
(* elements of the one array, one after the other, into the other            *)
Merge(s, d) == FoldLeft(LAMBDA m, x : IF x.key \in Int THEN InsertAuto(m, x.val)
                                      ELSE Insert(m, x.key, x.val), d, s.node)
Overwrite(s, d) == FoldLeft(LAMBDA m, x : Insert(m, x.key, x.val), d, s.node)
Dup(s, d) == FoldLeft(LAMBDA m, x : IF x.key \in Int THEN InsertKey(m, x.key, x.val)
                                    ELSE Insert(m, x.key, x.val), d, s.node)
Union(l, r) ==
  FoldLeft(LAMBDA m, x : IF Has(m, x.key) THEN m ELSE InsertKey(m, x.key, x.val), l, r.node)

Sign(n) == IF n > 0 THEN 1 ELSE IF n < 0 THEN -1 ELSE 0
Num(v) == IF v \in Int THEN v ELSE 0

Truth(v) == IF v \in {0, NULL} THEN 0 ELSE 1
TypeOf(v) == CASE v \in Int -> "int" [] v \in Strs -> "string" [] OTHER -> "null"

(* PH7_MemObjCmp: no order among values of different types, as 0 = "s" but *)
(* NULL = 0 and NULL < "s".                                                *)
MemObjCmp(u, v, strict) ==
  CASE strict /\ TypeOf(u) # TypeOf(v) -> 1
    [] NULL \in {u, v} -> Truth(u) - Truth(v)
    [] u \in Strs /\ v \in Strs -> Sign(StrRank[u] - StrRank[v])
    [] OTHER -> Sign(Num(u) - Num(v))

(* HashmapFindValue: the first element with that value, 0 if there is none. *)
FindValue(m, v, strict) ==
  SelectInSeq(m.node, LAMBDA x : IF NULL \in {v, x.val} THEN v = x.val
                                 ELSE MemObjCmp(v, x.val, strict) = 0)

(* PH7_HashmapCmp *)
HashmapCmp(l, r, strict) ==
  IF Len(l.node) # Len(r.node) THEN Sign(Len(l.node) - Len(r.node))
  ELSE LET differ(x) == ~Has(r, x.key) \/ MemObjCmp(x.val, Lookup(r, x.key), strict) # 0
           i == SelectInSeq(l.node, differ)
       IN IF i = 0 THEN 0
          ELSE IF ~Has(r, l.node[i].key) THEN 1
          ELSE MemObjCmp(l.node[i].val, Lookup(r, l.node[i].key), strict)
----------------------------------------------------------------------------
(* The loop cursor: HashmapCurrentValue, PH7_HashmapGetNextEntry *)
Reset(m) == [m EXCEPT !.cur = IF m.node = <<>> THEN 0 ELSE 1]
End(m) == [m EXCEPT !.cur = Len(m.node)]
NextEntry(m) == [m EXCEPT !.cur = IF @ = 0 \/ @ = Len(m.node) THEN 0 ELSE @ + 1]
PrevEntry(m) == [m EXCEPT !.cur = IF @ = 0 THEN 0 ELSE @ - 1]
----------------------------------------------------------------------------
(* HashmapNodeMerge: of two sorted lists, an element of q goes first unless *)
(* that of p is less.  A comparison is the set of pairs that it calls less. *)
(* The k-th element goes to the end of r.out, r.i of p have gone before.    *)
NodeTaken(p, q, less, r, k) ==
  IF r.i < Len(p) /\ (k - r.i > Len(q) \/ <<p[r.i + 1], q[k - r.i]>> \in less)
  THEN [i |-> r.i + 1, out |-> Append(r.out, p[r.i + 1])]
  ELSE [i |-> r.i, out |-> Append(r.out, q[k - r.i])]
NodeMerge(p, q, less) ==
  FoldLeft(LAMBDA r, k : NodeTaken(p, q, less, r, k), [i |-> 0, out |-> <<>>],
           [k \in 1..(Len(p) + Len(q)) |-> k]).out

(* An element into the buckets a: bucket i holds a run of 2^i elements, the *)
(* last one all that come there.  It is merged with the runs of those that  *)
(* are full and goes to the first that is not.                              *)
FreeBucket(a) ==
  CHOOSE i \in 0..(NSortBucket - 1) : (i = NSortBucket - 1 \/ a[i] = <<>>) /\ \A j \in 0..(i - 1) : a[j] # <<>>
BucketRun(a, x, i, less) ==
  FoldLeft(LAMBDA p, j : NodeMerge(a[j - 1], p, less), <<x>>, [j \in 1..i |-> j])

(* Mutation: the run in the last bucket is overwritten. *)
BucketPutOver(a, x, less) ==
  LET i == FreeBucket(a)
  IN [j \in 0..(NSortBucket - 1) |-> IF j < i THEN <<>> ELSE IF j = i THEN BucketRun(a, x, i, less) ELSE a[j]]

BucketPut(a, x, less) ==
  LET i == FreeBucket(a)
  IN [j \in 0..(NSortBucket - 1) |->
        IF j < i THEN <<>> ELSE IF j = i THEN NodeMerge(a[i], BucketRun(a, x, i, less), less) ELSE a[j]]

(* HashmapMergeSort: all into the buckets, and the buckets into one list *)
Bucketed(s, less) ==
  FoldLeft(LAMBDA a, x : BucketPut(a, x, less), [i \in 0..(NSortBucket - 1) |-> <<>>], s)
BucketsMerged(a, less) ==
  FoldLeft(LAMBDA p, i : NodeMerge(p, a[i], less), a[0], [i \in 1..(NSortBucket - 1) |-> i])
MergeSort(m, less) == Reset([m EXCEPT !.node = BucketsMerged(Bucketed(m.node, less), less)])

(* HashmapSortRehash: string keys become integers too. *)
SortRehash(m) ==
  [m EXCEPT !.node = [i \in DOMAIN @ |-> [key |-> i - 1, val |-> @[i].val]], !.next = Len(m.node)]

(* HashmapCmpCallback1, 2, 3, 5: by value or by key, up or down *)
Pairs(m) == {m.node[i] : i \in DOMAIN m.node} \X {m.node[i] : i \in DOMAIN m.node}
KeyCmp(j, k) == IF j \in Strs /\ k \in Strs THEN StrRank[j] - StrRank[k] ELSE Num(j) - Num(k)
ValueLess(m) == {x \in Pairs(m) : MemObjCmp(x[1].val, x[2].val, FALSE) < 0}
ValueGreater(m) == {x \in Pairs(m) : MemObjCmp(x[1].val, x[2].val, FALSE) > 0}
KeyLess(m) == {x \in Pairs(m) : KeyCmp(x[1].key, x[2].key) < 0}
KeyGreater(m) == {x \in Pairs(m) : KeyCmp(x[1].key, x[2].key) > 0}
============================================================================
