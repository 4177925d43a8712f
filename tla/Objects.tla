------------------------------ MODULE Objects ------------------------------
(***************************************************************************)
(* The life of class instances (oo.c, vm.c, memobj.c): who holds an object,*)
(* when its destructor runs and when its chunk is freed, while scripts run *)
(* in constructors, destructors, __clone() and methods in the middle of    *)
(* stores, of leaving a function and of the release of other objects.      *)
(*                                                                         *)
(* An object has one attribute, p.  The stack holds what the machine is in *)
(* the middle of, innermost last: running scripts and what is left to do   *)
(* when they return.  A chunk that was freed may hold another object       *)
(* later; variables bound to the same slot are in VmRefs.                  *)
(***************************************************************************)
EXTENDS Integers, FiniteSets, SequencesExt

CONSTANTS
  NULL,
  Ids,         \* chunks for class instances
  Globals,     \* variables of the main script
  Classes,     \* classes; each has the method m()
  Constructed, Destructed, Cloned,   \* those with __construct(), __destruct(), __clone()
  Careless,    \* may scripts do what the code does not count?
  MaxOps,      \* bound: statements of functions during one statement of the main script
  MaxDepth     \* bound: scripts that are running at a time

ASSUME ObjectsAssumption ==
  /\ NULL \notin Ids /\ IsFiniteSet(Ids) /\ IsFiniteSet(Globals)
  /\ Constructed \cup Destructed \cup Cloned \subseteq Classes
  /\ Careless \in BOOLEAN /\ MaxOps \in Nat /\ MaxDepth \in Nat

VARIABLES
  heap,    \* the instances: iRef, CLASS_INSTANCE_DESTROYED, the cursor of hAttr, the attribute
  glob,    \* values of the global variables
  stack,
  ops,
  ran,     \* history: how often the destructor of an object has run
  wild     \* history: was a freed object used?

vars == <<heap, glob, stack, ops, ran, wild>>

Instance(c) ==
  [state |-> "living", class |-> c, iRef |-> 1, destroyed |-> FALSE, cursor |-> FALSE, p |-> NULL]
Unborn == [state |-> "none"]
Living(o) == heap[o].state = "living"
Dying(o) == o # NULL /\ Living(o) /\ heap[o].destroyed

(* What the machine is in the middle of. *)
Main == [do |-> "main"]
Body(kind, o, dest) ==
  [do |-> kind, pThis |-> o, this |-> o, v |-> NULL, loop |-> << >>, dest |-> dest]
(* An operand that holds val, and what is done with it. *)
Then(what, dest, val) == [do |-> what, dest |-> dest, val |-> val]
Drop(o) == IF o = NULL THEN << >> ELSE <<[do |-> "drop", val |-> o]>>
Free(o) == [do |-> "free", val |-> o]

Bodies == {"method", "construct", "destruct", "clone"}
Scripts == Bodies \cup {"main"}
Top == Last(stack)
Below == Front(stack)
Running == Top.do \in Scripts

Init ==
  /\ heap = [o \in Ids |-> Unborn] /\ glob = [g \in Globals |-> NULL]
  /\ stack = <<Main>> /\ ops = 0
  /\ ran = [o \in Ids |-> 0] /\ wild = FALSE

Ref(h, o, n) == IF o = NULL THEN h ELSE [h EXCEPT ![o].iRef = @ + n]
----------------------------------------------------------------------------
(* Places of a value, as the running script f names them.                  *)

Nowhere == <<"nowhere">>
Locals(f) == IF f.do = "main" THEN {<<"glob", g>> : g \in Globals} ELSE {<<"v">>}
Variables(f) == {<<"glob", g>> : g \in Globals} \cup Locals(f)
Attributes(f) == {<<"attr", g>> : g \in Globals} \cup (IF f.do = "main" THEN {} ELSE {<<"this", "p">>})
Sources(f) == Variables(f) \cup Attributes(f) \cup (IF f.do = "main" THEN {} ELSE {<<"this">>})

(* The object whose attribute a place is. *)
Owner(f, place) == IF place[1] = "attr" THEN glob[place[2]] ELSE f.this
Value(f, place) ==
  CASE place[1] = "glob" -> glob[place[2]]
    [] place = <<"v">> -> f.v
    [] place = <<"this">> -> f.this
    [] OTHER -> LET o == Owner(f, place) IN IF o = NULL THEN NULL ELSE heap[o].p

(***************************************************************************)
(* PH7_MemObjStore of an operand that holds val to a place of the script f *)
(* on top of the stack st: count, copy, and only then give up the old      *)
(* value; the operand is popped after that.  There may be no such place.   *)
(***************************************************************************)
Writable(f, place) == place # Nowhere /\ (place[1] \in {"attr", "this"} => Owner(f, place) # NULL)
Written(st, place, val) ==
  IF place = <<"v">> THEN [st EXCEPT ![Len(st)].v = val] ELSE st
PH7_MemObjStore(h, st, place, val) ==
  LET f == Last(st)
      old == IF Writable(f, place) THEN Value(f, place) ELSE NULL
      counted == IF Writable(f, place) THEN Ref(h, val, 1) ELSE h
      last == old # NULL /\ counted[old].iRef = 1 /\ ~ counted[old].destroyed
      settled == IF last \/ ~ Writable(f, place) THEN counted ELSE Ref(Ref(counted, old, -1), val, -1)
  IN /\ heap' = IF Writable(f, place) /\ place[1] \in {"attr", "this"}
                 THEN [settled EXCEPT ![Owner(f, place)].p = val] ELSE settled
     /\ glob' = IF place[1] = "glob" THEN [glob EXCEPT ![place[2]] = val] ELSE glob
     /\ stack' = Written(st, place, val) \o
                   (IF last THEN Drop(val) \o Drop(old)
                    ELSE IF Writable(f, place) THEN << >> ELSE Drop(val))
----------------------------------------------------------------------------
(* Statements.  The machine must have finished the one before.  The main   *)
(* script goes on for ever; what it calls, directly or by letting go of an *)
(* object, runs up to MaxOps statements.                                   *)

Statement ==
  /\ Running
  /\ IF Len(stack) = 1 THEN ops' = 0 ELSE ops < MaxOps /\ ops' = ops + 1
Calls == Statement /\ Cardinality({i \in DOMAIN stack : stack[i].do \in Scripts}) < MaxDepth

(* An object in its destructor: the code frees it whoever holds it then.   *)
MayKeep(val, place) == Careless \/ ~Dying(val) \/ place \in {Nowhere, <<"v">>}

(* $place = $source; *)
Assign(place, source) ==
  /\ Statement /\ UNCHANGED <<ran, wild>>
  /\ LET val == Value(Top, source) IN
       /\ val # NULL /\ MayKeep(val, place)
       /\ PH7_MemObjStore(Ref(heap, val, 1), stack, place, val)

(* $place = null, and unset($place), whose argument holds the value a moment longer. *)
Clear(place) ==
  /\ Statement /\ Value(Top, place) # NULL
  /\ UNCHANGED <<ran, wild>>
  /\ IF place = <<"this">>
     THEN /\ stack' = Append(Below, [Top EXCEPT !.this = NULL]) \o Drop(Top.this)
          /\ UNCHANGED <<heap, glob>>
     ELSE PH7_MemObjStore(heap, stack, place, NULL)

(***************************************************************************)
(* OP_NEW: $place = new C, (new C)->p or (new C)->m().  The constructor    *)
(* runs before the object is on the operand stack.                         *)
(***************************************************************************)
New(what, place, c) ==
  /\ Calls /\ UNCHANGED <<glob, ran, wild>>
  /\ \E o \in Ids :
       /\ heap[o] = Unborn
       /\ heap' = [heap EXCEPT ![o] = [Instance(c) EXCEPT !.iRef = IF c \in Constructed THEN 2 ELSE 1]]
       /\ stack' = Append(stack, Then(what, place, o)) \o
                     (IF c \in Constructed THEN <<Body("construct", o, Nowhere)>> ELSE << >>)

CloneUncounted(place, source) ==  (* Mutation: the attribute is copied, what it holds is not counted. *)
  /\ Calls /\ UNCHANGED <<glob, ran, wild>>
  /\ LET src == Value(Top, source) IN
     /\ src # NULL
     /\ \E o \in Ids :
          /\ heap[o] = Unborn
          /\ heap' = Ref([heap EXCEPT ![o] = [Instance(heap[src].class) EXCEPT !.p = heap[src].p]], src, 1)
          /\ stack' = Append(stack, Then("store", place, o)) \o Drop(src)

(***************************************************************************)
(* OP_CLONE: $place = clone $source.  The loops over both instances leave  *)
(* their cursors at the end.                                               *)
(***************************************************************************)
Clone(place, source) ==
  /\ Calls /\ UNCHANGED <<glob, ran, wild>>
  /\ LET src == Value(Top, source) IN
     /\ src # NULL
     /\ \E o \in Ids :
          /\ heap[o] = Unborn
          /\ LET c == heap[src].class
                 new == [Instance(c) EXCEPT !.p = heap[src].p, !.iRef = IF c \in Cloned THEN 2 ELSE 1]
             IN /\ heap' = Ref(Ref([heap EXCEPT ![o] = new, ![src].cursor = FALSE], src, 1), heap[src].p, 1)
                /\ stack' = Append(stack, Then("store", place, o)) \o Drop(src) \o
                              (IF c \in Cloned THEN <<Body("clone", o, Nowhere)>> ELSE << >>)

(* $place = $source->m(); *)
Call(place, source) ==
  /\ Calls /\ UNCHANGED <<glob, ran, wild>>
  /\ LET o == Value(Top, source) IN
       /\ o # NULL
       /\ heap' = Ref(heap, o, 1)
       /\ stack' = Append(stack, Then("invoke", place, o))

(***************************************************************************)
(* $place = self::m() takes the object from the frame, which does not      *)
(* count it: it is gone when the script has unset $this and nobody else    *)
(* has it.                                                                 *)
(***************************************************************************)
SelfCall(place) ==
  /\ Calls /\ Top.do \in Bodies /\ UNCHANGED <<glob, ran>>
  /\ Careless \/ Living(Top.pThis)
  /\ IF Living(Top.pThis)
     THEN /\ heap' = Ref(heap, Top.pThis, 1)
          /\ stack' = Append(stack, Body("method", Top.pThis, place))
          /\ UNCHANGED wild
     ELSE wild' = TRUE /\ UNCHANGED <<heap, stack>>

(***************************************************************************)
(* foreach ($source as $place) in a function: the step holds the object and*)
(* moves the cursor of the object itself.                                  *)
(***************************************************************************)
ForeachInit(place, source) ==
  /\ Top.do \in Bodies /\ Statement /\ Top.loop = << >> /\ UNCHANGED <<glob, ran, wild>>
  /\ LET o == Value(Top, source) IN
       /\ o # NULL
       /\ heap' = [Ref(heap, o, 1) EXCEPT ![o].cursor = TRUE]
       /\ stack' = Append(Below, [Top EXCEPT !.loop = <<o, place>>])

ForeachStep ==
  /\ Top.do \in Bodies /\ Top.loop # << >> /\ UNCHANGED <<ops, ran, wild>>
  /\ LET o == Top.loop[1] IN
       IF heap[o].cursor
       THEN PH7_MemObjStore(Ref([heap EXCEPT ![o].cursor = FALSE], heap[o].p, 1),
                            stack, Top.loop[2], heap[o].p)
       ELSE /\ stack' = Append(Below, [Top EXCEPT !.loop = << >>]) \o Drop(o)
            /\ UNCHANGED <<heap, glob>>

(***************************************************************************)
(* A script returns a value or nothing; its frame gives up $this and then  *)
(* the local variable.  A loop that is left this way keeps its step.       *)
(***************************************************************************)
Return(source) ==
  /\ Top.do \in Bodies /\ UNCHANGED <<glob, ops, ran, wild>>
  /\ Top.loop = << >> \/ Careless
  /\ LET val == IF source = Nowhere THEN NULL ELSE Value(Top, source)
         leave == Drop(Top.v) \o Drop(Top.this)
     IN IF Top.do = "method"
        THEN /\ MayKeep(val, Top.dest)
             /\ source # Nowhere => val # NULL
             /\ heap' = Ref(heap, val, 1)
             /\ stack' = Append(Below, Then("store", Top.dest, val)) \o leave
        ELSE source = Nowhere /\ stack' = Below \o leave /\ UNCHANGED heap
----------------------------------------------------------------------------
(* What the machine does when the script above has returned.               *)

Finish(what) == Top.do = what /\ UNCHANGED <<ops>>

(* OP_STORE and the OP_POP behind it. *)
StoreResult ==
  /\ Finish("store") /\ UNCHANGED <<ran, wild>>
  /\ PH7_MemObjStore(heap, Below, Top.dest, Top.val)

(* OP_MEMBER of an operand: it lets go of the object when it has the attribute. *)
LoadMember ==
  /\ Finish("member") /\ UNCHANGED <<glob, ran, wild>>
  /\ heap' = Ref(heap, heap[Top.val].p, 1)
  /\ stack' = Append(Below, Then("store", Top.dest, heap[Top.val].p)) \o Drop(Top.val)

(***************************************************************************)
(* OP_CALL of a method: $this takes the count of the object, the operand   *)
(* is released.  A call that is refused (a private method, the limit on    *)
(* nested calls) has counted the object and does not give it back.         *)
(***************************************************************************)
InvokeMethod ==
  /\ Finish("invoke") /\ UNCHANGED <<glob, ran, wild>>
  /\ \E refused \in {FALSE, Careless} :
       IF refused
       THEN /\ heap' = Ref(heap, Top.val, 1)
            /\ stack' = Append(Below, Then("store", Top.dest, NULL)) \o Drop(Top.val)
       ELSE /\ stack' = Append(Below, Body("method", Top.val, Top.dest))
            /\ UNCHANGED heap

UnrefUnmarked ==            (* Mutation: the destructor runs before the instance is marked and protected. *)
  /\ Finish("drop") /\ UNCHANGED <<glob, wild>>
  /\ LET o == Top.val
         n == heap[o].iRef - 1
     IN IF n >= 1 \/ heap[o].class \notin Destructed
        THEN heap' = Ref(heap, o, -1) /\ stack' = Below /\ UNCHANGED ran
        ELSE /\ heap' = [heap EXCEPT ![o].iRef = 1]
             /\ ran' = [ran EXCEPT ![o] = @ + 1]
             /\ stack' = Below \o <<Free(o), Body("destruct", o, Nowhere)>>

(***************************************************************************)
(* PH7_ClassInstanceUnref and PH7_ClassInstanceRelease: the last one to    *)
(* let go runs the destructor, with a count of 2 so that nothing releases  *)
(* the object again, and frees it.                                         *)
(***************************************************************************)
Unref ==
  /\ Finish("drop") /\ UNCHANGED glob
  /\ LET o == Top.val
         n == heap[o].iRef - 1
     IN IF ~ Living(o) THEN wild' = TRUE /\ stack' = Below /\ UNCHANGED <<heap, ran>>
        ELSE /\ UNCHANGED wild
             /\ IF n >= 1 \/ heap[o].destroyed
                THEN /\ heap' = [heap EXCEPT ![o].iRef = n]
                     /\ stack' = Below /\ UNCHANGED ran
                ELSE IF heap[o].class \in Destructed
                THEN /\ heap' = [heap EXCEPT ![o].iRef = 3, ![o].destroyed = TRUE]
                     /\ ran' = [ran EXCEPT ![o] = @ + 1]
                     /\ stack' = Below \o <<Free(o), Body("destruct", o, Nowhere)>>
                ELSE /\ heap' = [heap EXCEPT ![o].iRef = n, ![o].destroyed = TRUE]
                     /\ stack' = Append(Below, Free(o)) /\ UNCHANGED ran

(* The rest of the release: the attribute, which may release others, then the chunk. *)
ReleaseInstance ==
  /\ Finish("free") /\ UNCHANGED <<glob, wild>>
  /\ LET o == Top.val IN
       IF heap[o].p = NULL
       THEN heap' = [heap EXCEPT ![o] = Unborn] /\ stack' = Below /\ ran' = [ran EXCEPT ![o] = 0]
       ELSE /\ UNCHANGED ran
            /\ heap' = [heap EXCEPT ![o].p = NULL]
            /\ stack' = stack \o Drop(heap[o].p)
----------------------------------------------------------------------------
(* What a call results in is stored to a variable of its caller, or nowhere. *)
Results(f) == Locals(f) \cup {Nowhere}

Next ==
  \/ /\ Running
     /\ \/ \E place \in Results(Top), c \in Classes, what \in {"store", "member", "invoke"} : New(what, place, c)
        \/ \E place \in Results(Top), source \in Sources(Top) : Clone(place, source) \/ Call(place, source)
        \/ \E place \in Results(Top) : SelfCall(place)
        \/ \E place \in Variables(Top) \cup Attributes(Top), source \in Sources(Top) : Assign(place, source)
        \/ \E source \in Sources(Top) : Clear(source)
        \/ \E place \in Locals(Top), source \in Sources(Top) : ForeachInit(place, source)
        \/ \E source \in Sources(Top) \cup {Nowhere} : Return(source)
  \/ ForeachStep \/ StoreResult \/ LoadMember \/ InvokeMethod \/ Unref \/ ReleaseInstance

Spec == Init /\ [][Next]_vars
----------------------------------------------------------------------------
(* The release of an instance with a destructor has begun; it keeps a count of 2. *)
Destructing(o) == Living(o) /\ heap[o].class \in Destructed /\ Contains(stack, Free(o))
Frames == {i \in DOMAIN stack : stack[i].do \in Bodies}
Operands == {i \in DOMAIN stack : stack[i].do \in {"store", "member", "invoke", "drop"}}
Holders(o) ==
  Cardinality({g \in Globals : glob[g] = o})
  + Cardinality({i \in Ids : Living(i) /\ heap[i].p = o})
  + Cardinality({i \in Frames : stack[i].this = o}) + Cardinality({i \in Frames : stack[i].v = o})
  + Cardinality({i \in Frames : stack[i].loop # << >> /\ stack[i].loop[1] = o})
  + Cardinality({i \in Operands : stack[i].val = o})
  + IF Destructing(o) THEN 2 ELSE 0

(***************************************************************************)
(* The count of an instance is the number of values that hold it: of       *)
(* variables, attributes, $this, operands, steps of foreach, whatever the  *)
(* machine is in the middle of; nothing holds a freed one; and between two *)
(* statements of the main script every instance that is left is held: the  *)
(* release (oo.c:777-781) happens "as soon as there are no other           *)
(* references".                                                            *)
(***************************************************************************)
CountsExact ==
  /\ ~ wild
  /\ \A o \in Ids : Holders(o) = (IF Living(o) THEN heap[o].iRef ELSE 0)
  /\ Len(stack) = 1 => \A o \in Ids : Living(o) => heap[o].iRef > 0 /\ ~ heap[o].destroyed

(***************************************************************************)
(* The destructor of an instance runs once, when its release begins: not   *)
(* before, and not again, whatever it does to $this and whatever it        *)
(* releases in turn (oo.c:792-799).                                        *)
(***************************************************************************)
DestructedOnce == \A o \in Ids : ran[o] = IF Destructing(o) THEN 1 ELSE 0
=============================================================================
