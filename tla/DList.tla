------------------------------- MODULE DList -------------------------------
(***************************************************************************)
(* The intrusive doubly linked lists of PH7.  The macros MACRO_LD_PUSH and *)
(* MACRO_LD_REMOVE of ph7int.h maintain every one of them: the blocks of a *)
(* memory backend, the engines of the library, the virtual machines of an  *)
(* engine.  A list is a record of the head pointer and the two link fields *)
(* of every address an item can have.                                      *)
(***************************************************************************)
EXTENDS Integers

CONSTANT NULL                      \* the null pointer

EmptyList(Addr) ==
  [head |-> NULL, next |-> [a \in Addr |-> NULL], prev |-> [a \in Addr |-> NULL]]

Lists(Addr) ==
  [head : Addr \cup {NULL}, next : [Addr -> Addr \cup {NULL}], prev : [Addr -> Addr \cup {NULL}]]

(* The links of an item are zeroed when its memory is (SyZero, MemBackendAlloc). *)
ZeroLinks(l, item) == [l EXCEPT !.next[item] = NULL, !.prev[item] = NULL]

(* MACRO_LD_PUSH(Head, Item): the links of Item are assumed to be zero and *)
(* are left alone when the list is empty.                                  *)
LdPush(l, item) ==
  IF l.head = NULL
  THEN [l EXCEPT !.head = item]
  ELSE [l EXCEPT !.head = item, !.next[item] = l.head, !.prev[l.head] = item]

(* MACRO_LD_REMOVE(Head, Item): Item keeps its own links.                  *)
LdRemove(l, item) ==
  LET nxt == l.next[item]
      prv == l.prev[item]
  IN [head |-> IF l.head = item THEN nxt ELSE l.head,
      next |-> IF prv = NULL THEN l.next ELSE [l.next EXCEPT ![prv] = nxt],
      prev |-> IF nxt = NULL THEN l.prev ELSE [l.prev EXCEPT ![nxt] = prv]]

(* The addresses a loop over pNext reads, from the head on, and the next n. *)
Walk(l, n) ==
  LET at[i \in 0..n] ==
        IF i = 0 THEN l.head
        ELSE IF at[i-1] = NULL THEN NULL ELSE l.next[at[i-1]]
  IN at

(* The first n items, as the counted loops of the release functions visit them. *)
FirstItems(l, n) == {Walk(l, n)[i] : i \in 0 .. (n-1)}

(***************************************************************************)
(* l links exactly the items of S, forwards and backwards, and no part of  *)
(* S hangs on a cycle: every set of items has one whose predecessor is     *)
(* outside of it, so the walk from the head reaches everything and ends.   *)
(* Behind the last item is end: NULL, or for a list whose head was not     *)
(* reset with its items (PH7CoreShutdown) an item of its earlier life.     *)
(***************************************************************************)
Consistent(l, S, end) ==
  /\ end \notin S
  /\ l.head \in S \cup {end}
  /\ (l.head = end) => (S = {})
  /\ \A x \in S : /\ l.next[x] \in S \cup {end}
                  /\ l.prev[x] \in S \cup {NULL}
                  /\ (l.next[x] # end) => (l.prev[l.next[x]] = x)
                  /\ (l.prev[x] # NULL) => (l.next[l.prev[x]] = x)
                  /\ (l.prev[x] = NULL) <=> (x = l.head)

Acyclic(l, S) == \A T \in SUBSET S : T # {} => \E x \in T : l.prev[x] \notin T

LinkedTo(l, S, end) == Consistent(l, S, end) /\ Acyclic(l, S)

Linked(l, S) == LinkedTo(l, S, NULL)
============================================================================
