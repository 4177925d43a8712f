# PH7: the verification project

PH7 is an embedded PHP engine in C: a host links the library, compiles a script
into a virtual machine and executes it. This directory holds TLA+ models of PH7,
the TLC runs that check them on small instances, and TLAPS proofs of what matters
most for instances of any size. Paths such as `api.c:378` are relative to
`src/src/ph7/` (headers: `src/inc/ph7/`).

`PROJECT.json` is the index: components, runs, mutants (a plausible bug for every
property, which the run must find), the map from definitions to source lines,
findings, hazards and theorems.

## The system

| component | state | operations | interacts with | what is hard |
|---|---|---|---|---|
| library core (`api.c`) | `sMPGlobal`: magic number, threading level, mutex subsystem, allocator, list and count of engines | `ph7_lib_config`, `ph7_lib_init`, `ph7_init`, `ph7_release`, `ph7_lib_shutdown` | every thread of the host | first calls that race, a list whose head goes stale, error paths that must leave a mutex |
| engine API (`api.c`, `vm.c`) | magic numbers and mutexes of engines and machines, list and count of machines | `ph7_config`, `ph7_compile*`, `ph7_vm_config`, `ph7_vm_exec`, `ph7_vm_reset`, `ph7_vm_release`, `ph7_release` | host callbacks call the library again | two mutexes, nesting, release while others wait |
| memory backend (`lib.c`) | tracked blocks, free lists, chunk headers | alloc, realloc, free, pool alloc and free, release | the host's `xMemError` runs inside an allocation | stale neighbours, retries, double frees |
| names, references, slots (`vm.c`, `hashmap.c`) | `aMemObj`, `aFreeObj`, `apRefObj`, `hVar`, `sLocal` and `sRef` of the frames, nodes of arrays | load, `=&`, `global`, `unset()`, calls, leaving a function, elements by reference | arrays own and borrow slots of the machine | one slot with many names dying in any order |
| arrays (`hashmap.c`) | ordered elements, automatic index, loop cursor | insert, append, unlink, copy, union, sort, the built-ins | values, callbacks of scripts | keys inserted by three different functions, a cursor that survives removals |
| lexer, parser, compiler (`lex.c`, `parse.c`, `compile.c`) | token stream, array of nodes, blocks, jump fixups | one function per kind of token, of operator and of statement | emits byte-code | hidden closing tags, precedence passes over one array, forward jumps |
| byte-code interpreter (`vm.c`) | operand stacks, frames, exception descriptors, foreach steps | the instructions | all of the above | jumps out of loops, calls and try blocks |
| the session of a machine (`vm.c`) | output consumer and buffers, files being executed, container of the compiler, shutdown callbacks | output control, include, eval, assert, shutdown | callbacks of the script run in the middle of each | state that must come back however a frame ends |
| classes and objects (`oo.c`) | counts and attributes of instances, class tables | `new`, `clone`, calls, stores, release | scripts run in the middle of a release | destructors that use what is being released |
| values and built-ins (`memobj.c`, `builtin.c`, `lib.c`, `vm.c`) | mostly none | conversions, arithmetic, string, number, format, JSON, encoding functions | values | numeric edges, recursion depth |
| file system (`vfs.c`) | streams with read buffers | read, write, seek, directories, paths | the device of the host | position of the device against that of the buffer |
| library containers (`lib.c`) | `SySet`, `SyHash`, `SyBlob` | insert, delete, grow, walk | everything | cursor and growth |

Single-threaded builds (no `PH7_ENABLE_THREADS`) compile the mutexes out; the
models of the library and of the engine describe the threaded build, which is the
harder of the two. Everything inside one machine is sequential: what makes it hard
is the order of legal operations and the scripts that run in the middle of them,
so those models let a script do every operation in every order.

## What PH7 must guarantee

- *Library:* one initialization at a time, the allocator set up once; a list whose
  first `nEngine` chunks are the engines; every error path leaves its mutexes.
- *Engine:* a machine runs in one thread at a time; a call gives back the mutexes
  it took; calls return, unless a host nests them so that threads wait for each other.
- *Memory:* every block in the list once and counted; a chunk with one owner,
  inside its block; a bounded number of retries.
- *References:* the table knows exactly the names and elements of a slot; a slot
  is freed once; nothing denotes a freed slot.
- *Arrays:* unique keys, as far as keys are looked up; loops that unset elements see them all; cutting, joining,
  comparing and sorting lose and duplicate nothing.
- *Programs:* a text is read as it was written; its byte-code does what the text
  means, ends when it does, and leaves no operand and no frame.
- *Sessions:* no output is lost or duplicated; what an include, an evaluation or a
  callback changes is put back; the shutdown callbacks run.
- *Objects:* the count of an instance is the number of values that hold it; its
  destructor runs once.

## Modules

| module | models | extends |
|---|---|---|
| `DList` | the intrusive lists of `MACRO_LD_PUSH` / `MACRO_LD_REMOVE` with stale links, the counted walk over them | |
| `DListTheorems` | proofs: push and remove keep a list linked, the counted walk sees all of it | `DList` |
| `LibInit` | `sMPGlobal`, one action per access to it | `DList` |
| `LibInitProofs` | its six theorems | `LibInit`, `DListTheorems` |
| `EngineApi` | entry points of an engine and its machines | `DList` |
| `EngineApiProofs` | its four theorems | `EngineApi`, `DListTheorems` |
| `Heap` | abstract: disjoint regions are handed out and given back | |
| `MemBackend` | `SyMemBackend`; implements `Heap` (`HeapSpec`) | `DList`, instance of `Heap` |
| `MemBackendProofs` | its four theorems, the refinement among them | `MemBackend`, `DListTheorems` |
| `VmRefs` | names, elements and slots of a machine | |
| `VmRefsProofs` | its four theorems | `VmRefs` |
| `Hashmap` | one array and the operations of `hashmap.c` on it, as operators | |
| `ArrayFuncs` | the array built-ins, as operators | `Hashmap` |
| `ArrayScripts` | a script that applies them in any order | `ArrayFuncs` |
| `ArrayProofs` | its six theorems | `ArrayScripts` |
| `Compiler` | byte-code of the statements and expressions of `compile.c` | |
| `VmExec` | `VmByteCodeExec` on that code, with frames and exceptions | |
| `ScriptMeaning` | abstract: what the same trees mean | |
| `Text`, `TextPieces` | string built-ins that search, and that split and join | |
| `Numbers`, `Values` | texts of numbers, conversions, arithmetic instructions | `Text` |
| `Encodings`, `Format`, `Json` | base64, URL, ctype, ini; formatted output; JSON | `TextPieces`, `Values` |
| `Files`, `Vfs` | streams and whole files; paths, directories, patterns | `Format`, `Encodings` |
| `Lexer`, `Expressions`, `Sources` | `lex.c`; `parse.c`; how a programmer writes tokens and trees down | `Text` |
| `Library` | the properties of the pure functions, on subjects grown one character at a time | `Json`, `Vfs`, `Sources` |
| `Session` | output buffers, files, containers, assertions and shutdown of one script | |
| `SessionProofs` | its theorems | `Session` |
| `Objects` | counts, destructors and release of instances | |
| `ObjectsProofs` | its theorems | `Objects` |
| `MC*` | constants and symmetry sets for TLC | |

### How they correspond to the code

`LibInit`. `pc[t]` is the statement a thread is at; every read or write of
`sMPGlobal` that another thread can see is an action. `Check`, `ChooseMethods`,
`ConfigMutex`, `DropMutex`, `NewMutex`, `UseMethods` run without any mutex, as in
`PH7CoreInitialize` (api.c:337-368); from `EnterMaster` to `LeaveMaster` the master
mutex is held. `ReadGlobalMutex` reads the global record before it waits, so a
mutex replaced meanwhile is seen as the code would. `ph7_lib_shutdown` is
documented as not thread safe and is one action, enabled when no call runs. Every
system mutex may fail to be created. `Reuses` says whether an engine may get a
chunk that an earlier life of the library linked (see the divergences).

`EngineApi`. A thread has a stack of calls, as callbacks nest. `EnterEngine` and
`EnterVm` are the prologue of every entry point: test, mutex, test again, and the
early return of `PH7_ABORT` that keeps the mutex. `gen` names the mutex of each
machine that lived in a chunk. `wild` records the use of freed memory; from there
on nothing is modelled. With `Racy = TRUE` the host may release what others use;
with `FALSE` it releases a machine or the engine only when nobody calls on it. From a
function its script called and from the consumer of compile errors the host may call on
the engine and on every machine it has a handle of; `Rank` names an order of the machines,
with which `Deadlocked` says which of these calls make threads wait for each other.

`MemBackend`. One action per operation under the backend's mutex; the operation
stops at `xAlloc` and `xMemError` (`GotBlock`, `NoMemory`, `Answer`), because the
host runs there and, with `CallbackFrees`, frees memory. Sizes are in bytes, the
header one byte (`INCR = 0`), so that slabs of four bytes have the boundaries of
real ones. `PoolFree` acts on any chunk of a block, freed ones included, because
the code decides by the header alone.

`VmRefs`. `entry` are the `SyHashEntry` of the frames' variable tables by
address, `node` the elements of arrays by address, `ref` the reference table.
`Destroy` is `PH7_VmUnsetMemObj` with `VmRefObjUnlink`; `Unset`, `LeaveFrame`,
`UnlinkElem` and `ReleaseMap` differ in what they destroy. The free list counts
how often a slot is on it. Abstractions: the contents of values (so an array may
be released at any time), which of several free slots is handed out, and which
entry of one name a lookup finds. `attr` and `passed` are the slots of static
attributes and of arguments by reference: the code binds them to names without the
table (vm.c:6554) or installs them with a flag that a later installation does not
see (vm.c:16305), and the invariants are about the other slots (`Known`). The static
variables of functions, which a call binds in the same way (vm.c:6448-6468), are not in
this model (`VmExec` has their values).

`Hashmap`, `ArrayFuncs`. An array is `[node, next, cur]`: the sequence of its
elements, `iNextIdx`, and the position of the loop cursor. `InsertKey` is the
unchecked insertion, `Insert` the one that looks up, `InsertAuto` the append. Every
oddity of the code is kept: `array_keys()` with a search value releases the values
it compares, `array_chunk()` drops a full last chunk, the offset of
`array_slice()` is clamped to the last element, a sort makes integers of string
keys. A script of `ArrayScripts` goes on with every array but one with a key twice, which it
only empties: which of two elements a lookup finds depends on the order in their bucket,
which is left out. It does not call `array_slice()` and `array_splice()` where the code reads
through a NULL pointer (`Crashes`). Strings are constants that are not numeric; user callbacks are functions of
values, or relations (the pairs a comparison calls less or equal).

`Compiler`, `VmExec`, `ScriptMeaning`. The first translates the tree of a script to
containers of instructions `[op, p1, p2, p3]` with `GenBlock` and its fixups, as
`compile.c` does; the second executes them, one step an instruction, with the C
calls of `VmByteCodeExec` to itself as `acts`; the third evaluates the same tree
without byte-code. A property compares what the second prints with the third. A `foreach`
of the second moves the cursor of the array value, which other loops over that value
move too; one of the third goes over the values the array had when the loop began.

`Text` to `Vfs`, `Lexer`, `Expressions`. Operators, one for each function of the
code, on sequences of characters. `Library` has no state but the subject that is
grown: each state is one input, and each property a second definition, or a
function that must undo another, for all functions that take such an input.
Integers have `W` bits and wrap, reals are fractions; a stream is the pair of the
device's contents and position and of the read buffer before them.

`Session`. `frames` is what runs, innermost first; `todo` what the innermost frame
does next: go on, end with `PH7_ABORT`, or first report an error. The entry that
`VmObConsumer` keeps across a callback is the pair `slot`, `base`: `base` is the
allocated size of `aOB` at the time, since growing the set moves it. `aIncluded` is
the set of the names it holds. `OutputKept` is about places: what devices were given,
then the buffers, then what callbacks hold, each chunk with where it is. A chunk is handed
over by `Consume` and counted by `ReturnOb`, as the caller of the consumer tests
`xConsumer` when the callback has returned; `unbuffered` remembers that a callback has ended
all buffers, from when on `nOutputLen` may also count chunks that no device got.

`Objects`. `stack` is what the machine is in the middle of, innermost last: scripts
(`Body`) and what is left to do when they return: an operand to store, to take an
attribute of or to call, an operand to drop, an instance to free. `Unref` is
`PH7_ClassInstanceUnref` up to the call of the destructor, `ReleaseInstance` the
rest of `PH7_ClassInstanceRelease`. With `Careless = FALSE` scripts do not do the
five things listed under the divergences that the code does not count.

## Runs

| run | instance | states | what it shows |
|---|---|---|---|
| `LibInitRace` | 2 threads, 2 mutexes, 2 engine chunks, racing first calls | 1,169,220 | `MasterExclusive`, `ListExclusive`, `CountedEngines`, `MutexesLeft`, `AllocatorInitOnce` |
| `EngineRaces` | 2 threads, 2 chunks used twice, nesting 3, racing releases | 776,204 | `TypeOK`, `ExecExclusive`, `VmListExact` |
| `EngineCalls` | 2 threads, 2 chunks used once, nesting 2, no racing releases | 41,150 | `LocksOfCalls`, `CallsReturn` |
| `EngineLeak` | as `EngineRaces`, nesting 2 | violation | a lost race leaves a mutex locked |
| `MemPools` | 3 blocks, 2 buckets, sizes 1 and 3, one retry | 403,923 | `TypeOK`, `BlocksTracked`, `PoolsSound`, `HeapSpec`, `AllocReturns` |
| `NameRefs` | 2 slots, 2 names, 2 arrays, 2 entries, 3 nodes, 2 frames | 461,900 | `TypeOK`, `FreeOnce`, `NoDangling`, `TableExact` |
| `RefsLeave` | as `NameRefs` | violation | leaving a function destroys an element of a living array |
| `Arrays` | arrays of up to 3 elements, keys 0, 1 and a string, values 0, 1, a string, null | 7,219 | `TypeOK`, `KeysUnique`, `LoopUnsetsAll`, `CutsExact`, `PartsWhole`, `SortsRight` |
| `Programs` | 121 scripts: every jump out of every kind of loop, switch, call and try | 9,139 | `RunsAsWritten`, `NothingLeft`, `Terminates` |
| `Library` | texts, numbers, documents, formats, files, paths, tokens and trees of bounded size | 93,844 | `TextAgrees`, `Undone`, `ValuesAgree`, `FormatsAgree`, `FilesAgree`, `SourceRead` |
| `Session` | 4 calls, 3 frames, 2 runs of the machine | 252,906 | `OutputKept`, `ContextsRestored`, `PromisedRuns` |
| `Objects` | 3 instances, 1 variable, 2 classes, 2 statements of functions per statement, 3 scripts at a time | 980,204 | `CountsExact`, `DestructedOnce` |

### Why the bounds are enough

- Two threads: the races of `LibInit` and `EngineApi` are between a call and the one
  that overtakes it. A doubly linked list shows head, middle and end with two
  chunks and the stale links of a third; the lists are proved for any length, and
  all the invariants of these two models for any number of threads.
- Two machines and nesting of two, of three without liveness: one machine calls back into
  the engine or into the other machine, while another thread does the opposite; two
  generations of a chunk let a handle outlive its machine.
- Three blocks: a reallocation between two neighbours. `NBUCKETS = 2` gives a
  bucket whose slab is one chunk, one of two and one of four.
- Two slots and two frames: a slot can be shared between frames and between a
  name and an element, freed and bound again. The proofs cover every other size.
- Three elements with three keys: each list operation has a first, a middle and a
  last element, and the sort with `NSortBucket = 2` overflows its last bucket
  when arrays are merged before they are sorted.
- Scripts are families, not a sample: every statement that leaves something
  is put in every statement that can be left.
- `W = 8`, `Chunk = 3`, `MaxFile = 5`: the ends of the integers are reached by three
  digits, and a file is longer than one chunk of its buffer, and than two reads.
- Two lexemes, two chunks and expressions of up to two operators of every pair of
  precedence levels: a pass that links nodes sees an operand that an earlier pass
  has linked, or has left alone, on both of its sides.
- `ObLimit = 1`, `Room = 1`, three frames: a callback of a buffer inside a callback, a
  set of buffers that is moved, an include in a callback.
- Three instances: one that is released by the release of another while a script of
  a third runs.
- `MaxFree`, `MaxGen`, `MaxDepth`, `MaxLen`, `MaxNext`, `MaxOps`, `MaxRuns`, `MaxFrames` and
  `PadMax` are bounds of the instances (of guards) and not of the code, except
  `PadMax`, which stands for the 1048576 of `array_pad()`.

`CHECK_DEADLOCK FALSE` is said where the system may really stop: in `EngineCalls` and
`EngineRaces` threads whose calls nest against the order wait for each other; in
`EngineRaces` a lost race leaves a mutex locked (the finding of `EngineLeak`) or freed
memory in use; a
program of `Programs`, a subject of `Library` and a session end; in `Objects` a script
may run out of chunks.

### Fairness

- `EngineApi!FairSpec`: a call that can go on does (weak fairness of its steps), and
  a mutex admits each of its waiters in the end (strong fairness of the entries): what
  the scheduler and a `pthread_mutex` give in practice. Every script and every
  compilation ends (strong fairness of `FinishExec` and `FinishCompile` at each depth of
  the stack), since a host or a script that loops for ever is no fault of the locking.
- `MemBackend!FairSpec`: the operating system and `xMemError` answer.
- `VmExec!Spec` and `Session!FairSpec`: one thread that keeps running.

## Findings

1. `EngineLeak` / `LocksOfCalls` (api.c:1066, also 596 and 866): the second test of the magic
   number returns `PH7_ABORT` with the mutex held; ph7.h:121-123 says that sharing is safe.
2. `RefsLeave` / `LeaveOwn` (vm.c:657): `sLocal` keeps slots that `unset()` gave
   back, and leaving the function destroys their next owner.

### Where the code does something else than one would expect

The models have these behaviours as the code has them; the properties say what
holds in spite of them.

*Library.* `PH7CoreShutdown` clears neither `pEngines` nor the links of the engines.
A later life of the library (ph7.h:632-634 allows it) that gets a chunk of an earlier
one takes the old links over, and a later removal loses engines: with
`Reuses = TRUE`, one thread and four engines, `CountedEngines` fails. A call overtaken
between its own test of the magic number and that of `ph7_lib_config` (api.c:308)
returns `PH7_LOOKED`, although the comment at api.c:324-327 says that it blocks. First
calls that race can leave a mutex behind that `ph7_lib_shutdown` does not free, and,
from three threads on, leave a call waiting for a mutex that a late installation
dropped. Two engines created before the race is over may be linked at the same time;
`CountedEngines` is about the lives without that (`lost`).

*Engine.* A call keeps its mutex while the host's function or the error consumer that it
calls enters another one (api.c:861-870, 1061-1070), and nothing in api.c orders the mutexes. One thread
that executes A and in it B, and another that executes B and in it A, wait for each other
for ever; so do a compilation whose error consumer executes A, and a function of A that
compiles. A host must nest its machines in one order (`Rank`), the engine last.
`CallsReturn` says that nothing else keeps a call from returning, and without `Deadlocked`
in it TLC finds these. `ph7_release` frees the mutex that another thread may be
waiting for (api.c:718): the step is in `EngineRaces`, where it sets `wild`, and no property
is about it, since keeping other threads away is up to the host. With
`Racy = FALSE` no second test of a magic number fails; the early returns are in `EngineRaces`
and `EngineLeak` only.

*Memory.* With `CallbackFrees = TRUE`, a callback that frees the neighbour of the
block being reallocated corrupts the list (lib.c:1011: neighbours read before
`xMemError` runs are used after it).

*Arrays.* Two insertions do not look their key up. `$a[] = x` and `array_push()` take the next
index (hashmap.c:755), and a copy, a union or a preserved slice inserts integer keys
without moving that index, so the key may be there already. And `array_splice()` inserts what
is left of its replacement, string keys included (hashmap.c:4089-4094). Either makes a second
element with one key; `KeysUnique` says that nothing else does. `array_slice()` and
`array_splice()` of an empty array with an offset other than 0 take the offset -1 and the
length 1 and read through a NULL pointer (hashmap.c:3872-3876, 3909-3917, 3989-3993); the
scripts do not call them so (`Crashes`).

*Byte-code.* A call in a `try` block that throws leaves its operands (vm.c:6723-6733);
`return` inside `try` skips `POP_EXCEPTION` (6746), `break` and `continue` too; nested
loops over one array share its cursor (5510, 5563, 5575), so that an inner loop that comes to
its end starts the outer one anew, for ever, and the scripts of `CursorScripts` only leave
the inner loop where both loops are at the same element; leaving a `foreach` leaves
its step (5548); an exception that no `catch` matches does not reach the `try` outside;
`exit()` in a `catch` block or a callback is ignored; `global` links the nearest
caller; `goto` labels are global; after an uncaught exception in a function the main
script goes on. `NothingLeft` is about the scripts without these.

*Objects.* A call that is refused (a private method, the limit on nested calls)
counts the object and does not give it back (vm.c:6317); `break` out of a `foreach`
over an object leaves the step holding it; `self::m()` takes `$this` from a frame
that does not count it; a destructor that keeps `$this` leaves a dangling value
(oo.c:784-824). These are what `Careless` adds. `PH7_MemObjRelease` drops the object
before it clears the flags of the value (memobj.c:1123), `Objects` the other way round, so
what a destructor sees of that value is not covered; `foreach`, `clone`,
comparison and dump share the cursor of `hAttr`; instances in cycles or alive at the
end never run their destructor.

*Session.* A name found along the import path is pushed twice (vfs.c:3303, 3319) and
popped once (vm.c:12583); `include_once` marks a file before it compiles;
`VmObConsumer` uses its buffer after the callback (9527 to 9556); an inner `ob_flush()` overtakes
the outer buffers (9655); buffers left open are never flushed; asking for an option of
`assert_options()` clears it (10556-10596); a callback registered by a shutdown callback
does not run (6922). `nOutputLen` counts a chunk if no buffer consumes the output when the
consumer has returned (vm.c:6839-6845, 7001-7006, also 2448, 2729, 7033, 10090, 10129): if the
buffer's callback ended all buffers, the chunk counts although no device got it.
`OutputKept` allows for that (`unbuffered`).

*Lexer and parser.* `?>` directly behind a block comment is not seen (lex.c:1322-1372);
`"?>"` in a string closes the chunk, `//` in one hides the tag; the first line of a heredoc
is not compared with its delimiter; a second `{$` directly behind a first is not seen;
`f((g(a)))` is an error and `f(($a[0]), $b)` passes one argument; `?:` is right-associative
(parse.c:265 says left); `clone new A`, `!$a = 5` and `$x && $y = 5` are refused;
`!$a instanceof B` is `(!$a) instanceof B`.

*Files.* `fgetcsv()` keeps the closing quote of a last field (builtin.c:5657-5660);
`fputcsv()` drops empty fields and escapes nothing; `ftell()`, `SEEK_CUR`, `fwrite()` and
`ftruncate()` use the position of the device while data is buffered;
`file_get_contents()` and `fgets()` may give more than asked; `file_put_contents()` of nothing
answers FALSE; `copy()` answers TRUE on an error and empties a file copied to itself;
`is_link()` is never true (vfs.c:8118); `touch()` creates nothing; `basename("/x")` is
`"/x"`; in `fnmatch()` a set behind `*` never matches.

*Values and texts.* `++` of a real leaves an integer beside it (vm.c:3774-3776); `"010"` is 8;
`SyStrToInt64` drops last digits; formatting the smallest integer, `dechex()`,
`base_convert()` of negative numbers, `str_pad()` on both sides, negative numbers, escapes and
nesting in JSON, URL decoding of bytes from 0xC0 on, `stripslashes()` at the end of a text
(which hangs), `strrpos()`, which never finds the first character (builtin.c:4018; 3941-3955 say
that it finds any), `strpos()` from the end on, `substr()` with a negative length,
`explode()`, `implode()` and `trim()` with short lists: see the comments of the operators.

## Proofs

All theorems hold for every value of the constants that satisfies the named `ASSUME`s,
which say that null is no thread, chunk, block or record, that the bounds are numbers, of
`VmRefs` that the depth is at least one, names are keys and `$GLOBALS` is an array, and of
`ArrayScripts` that the script's keys, values and literals are keys, values and lists of pairs.
Four kinds of theorems have one hypothesis more, each a choice of the host, or of scripts,
that the model leaves open and under which the property is false: `~Reuses` (`EnginesCounted`,
`AllocatorSetUpOnce`), `~CallbackFrees` (`BlocksExact`, `PoolsExact`, `ImplementsHeap`),
`~Racy` (`MutexesOfCalls`),
`~Careless` (`CountsKept`, `DestructorsRunOnce`). The divergences above say what
happens without. `TypeCorrect` of all modules and the other theorems have none.

`DListTheorems`. `Linked(l, S)` says that the list has exactly the chunks S: the two links of
every chunk agree, and the predecessors never run in a circle (every part of S has a
chunk whose predecessor is outside of it). `LdPushLinked` and `LdRemoveLinked` show that
a push adds its chunk to S and a removal takes it out; the stale links of chunks
outside of S may be anything. `CountedWalk`: as many steps from the head as S has chunks
visit all of them. Induction over the steps is not available, so the walk is followed
backwards: a set of chunks that is closed under predecessors and finite is ordered by
the walk.

`LibInitProofs`. A thread between `EnterMaster` and `LeaveMaster` in multi-threaded mode
owns the master mutex, and in single-threaded mode it is alone. `MasterExclusive` is
not inductive, as it does not say who owns the mutex; the invariant adds that and that
a call which links or unlinks an engine has one. The second invariant follows the
list: which call is in the middle of which update, and that the list is linked but for
the chunk in the hands of that call. `NoMutexKept` counts what every path has entered.

`EngineApiProofs`. The invariant `IInv` is `Typed` (the labels and arguments a call of
each kind can have; only a running script and a compilation call back; releases are
not nested) and, unless freed memory has been used, `Sound`:
- `MutexSound`: a mutex is owned by the thread whose calls are inside, at least as
  often as they are. At least: a call that finds its object stale returns with the mutex
  (finding 1), and no equality is inductive.
- `FrameSound`, for every call: what it may rely on under its label, for instance that
  a machine in use is of the generation whose mutex the call holds, and that the
  machine of a release is still linked until that call unlinks it.
- `MachineSound`, for every machine: it can run only while it is linked; one handed to the
  host is linked, or its release is about to return; one compilation works on a chunk.
- `OneReleases`: one call unlinks a machine, although two threads may release it.
Two calls of one thread may be equal, so calls are counted in the stack instead of looked up
(`CountedOnTop`, `StackStep`). Steps that leave the machines alone are handled once
(`Moved`, `Returned`, `Called`), the others one by one. `ExecExclusive` follows: both
threads hold the mutex of the machine's generation. For `~Racy`, a second invariant
`Quiet` says that every call finds its object alive (`FrameQuiet`) and that no other thread
is inside during a release (`Along`); then no call returns early, the mutexes are counted
exactly (`MutexExact`), which is `MutexesOfCalls`. Calls may nest in any order of machines,
and the consumer of a compilation may call any: a thread that waits holds what it held.

`MemBackendProofs`. The heart of the invariant is that there is a `use` of every
block that explains all pointers: a block is free memory of the system, one
allocation, or a slab of a bucket; every header, free list and pointer agrees with it
(`\E use : Explained(use)`). The list is `Linked` and counted by `nBlock`. That the free lists
are exact needs that following `next` from their heads ends: the set reached is
iterated as often as there are chunks, which is enough for a finite set. For
`ImplementsHeap` a pointer maps to the region its block and header give it; regions of
different chunks of a slab are apart, so `alloc` and `free` are steps of `Heap` and the
rest stutters.

`VmRefsProofs`. The invariant `IInv` of `VmRefs` is `TypeOK`, `FreeOnce`,
`TableExact` and two more facts:
- `InUse`: a slot in the table has been handed out. Without it, `Reserve` could
  take a slot "never used" that the table has.
- `FramesExact`: the table's entries of an inner frame are in that frame's
  `sRef`, and no frame has recorded a living entry of a frame below. Without it,
  leaving a frame would leave pointers to dead entries in the table, or drop
  pointers to living ones; this is the reason why `VmLeaveFrame` may first remove the
  recorded references and then release the whole table of names.

Lemmas say what `PH7_VmRefObjInstall`, `PH7_VmRefObjRemove` and
`HashmapInsertByRef` leave in the table; `DestroyProps` covers all destructions at
once: if the names that die otherwise are exactly those whose references are gone,
the table stays exact and the freed slots are those that leave it. Each action is then
one step. `NothingDangles` follows: what a name denotes is in the
table, and what is in the table is not free.

`ObjectsProofs`. `CountsExact` says nothing of the middle of a step, where the code has counted
a value it has not yet put anywhere. So the invariant `Sound(h, g, s, x)` is about
a heap, the globals, a stack and x, the counts in the hands of the machine; between two actions
x is `Nothing`. Its parts:
- `Exact`: what globals, attributes and the stack hold, x, and the 2 of a release with a
  destructor add up to the count, and an instance that is not marked has one at least;
- `Shape`: the main script is at the bottom only, and a result goes to a script that can
  take it;
- `Releases`: an instance is marked exactly while the stack has its one release;
- `Apart`: only what is above its release can hold a marked instance. Without it the chunk
  could be freed while a variable or a lower frame has it. This is what fails when a
  destructor keeps `$this`.

A lemma for each elementary change (`Took`, `Pushed`, `Popped`, `Dropped`, `Rewritten`, `GlobalSet`,
`AttributeSet`, `Born`, `Died`, `Freed`) says how x changes with it; every action is
a sequence of them, and `StoreSound` is `PH7_MemObjStore` with the order it counts in.
`RanOnce` ties the history of the destructors to the marked instances.

`SessionProofs`. The stack of frames is read from the outermost on, so that a call appends to
it and a return takes its last entry. `IInv` holds that
- the value `saved` in each chunk's frame is the container of the chunk below (`Saves`), and
  `container` that of the topmost: no return could put it back otherwise;
- `aFiles` is the main file and those of the frames' included files, in order, as long as no
  name was found along the import path (`FilesExact`), and at least as long in any case
  (`FilesFit`), so that the pop of `VmExecIncludedFile` finds an entry;
- `nObDepth` counts the frames of callbacks of buffers (`Num`).
`ContextsKept` follows. For `OutputSafe` the invariant `Tidy` is added: every chunk has one
place or is gone (`Kept`), the script's own are in order while nothing was overtaken
(`Ordered`), and `Nest`: a callback that holds a chunk of the script itself runs under no other
callback, and what lies in buffers above the one it was called for was echoed by callbacks.
Without `Nest` a callback that ends could append its chunk below a later one of the script. A
lemma for each way a step changes the places (`KeptNew`, `KeptLess`, `KeptFlush`, `KeptReturn`)
shows that `Kept` and `Ordered` survive it. For the count, `CountStep` shows that `nOutputLen`
is what the devices got until a callback has ended all buffers, and from then on exceeds it by the
chunks that are gone at most.

`ArrayProofs`. All six invariants of `Arrays`, for arrays of any length with any keys and values,
any literals, ranks of strings and number of sort buckets. The inductive invariant `IInv` only says that
the array is one (elements with keys and values, a cursor on one of them or nowhere) within the
script's keys and values; that keys stay unique is a property of its steps. The work is in what
each built-in computes:
- `FoldInduct`: the operators of `Hashmap` and `ArrayFuncs` are folds, and no theorem with an operator
  for a parameter can be cited, so `Step` names the step of every fold, and one lemma shows that a set
  closed under the steps, position by position, has the result. What holds of a prefix is put in
  such a set.
- `NextStepped`: every built-in gives an array, and one with unique keys if the one it was given has them
  (`Sound`), or the step is `Unlooked`. An array of `Top` has unique keys and its next index above them, `Fine` is one made of
  another without a new key, and most built-ins are one or the other. An append needs `Above`,
  and a splice that no string key of its replacement is there.
- `InvSorts`: a merge of two runs in order is in order and has as many of each element as both
  (counts of positions). For `BucketPut`, each bucket holds a run in order, and the buckets together
  have what has gone in; nothing is assumed of the comparison for the second part, so callbacks
  that fail lose nothing either. `OrdersCohere` shows that the comparisons of numbers and of
  integer keys are orders.
- `InvCuts`: a slice is the `SubSeq`, a splice leaves the others, and the chunks joined are the prefixes
  of the array, whose lengths are multiples of the size (`DivIs`).
- `LoopedIs`: in the loop of `LoopUnsetsAll` the cursor stays on the first element of those that are left.
- `InvParts`: an array is read as a function from keys to values (`Lookup`), and insertions, `Union`,
  `Overwrite` and copies are what they make of that function; two arrays with the same function and as
  many elements compare as equal (`CmpSame`). `Diff` and `Intersect` keep complementary positions. Flips
  and `Combine` insert a new key at each step (`InsertsNew`), so the positions stay.

`KeysStayUnique` follows from `NextStepped`: whatever makes a key occur twice is an append to an
array whose next index has fallen behind, or a splice with a key that is there. `PartsMakeWhole`
says something of arrays with unique keys only, and needs no more than that.

Only model-checked:
- liveness (`CallsReturn`, `AllocReturns`, `Terminates`, `PromisedRuns`): the prover has no fairness;
- the other properties of `Programs` (`RunsAsWritten`, `NothingLeft`) and `Library`: they say what functions
  over texts and trees compute, which takes induction over data, and are in modules with recursive
  operators, which the prover cannot take.

## Not modelled

See `components` in `PROJECT.json` for each part and its reason. In short: XML, `SyHash`,
`SySet` and `SyBlob`, the class tables (inheritance, interfaces, visibility), the table of
constants, the example hosts, the Windows device, owners, permissions and times of files,
dates, hashes and random numbers, rounding of reals, characters of several bytes in the
lexer. Within the modelled parts: foreach by reference, static variables of functions as
references, arrays that refer to their own
elements, shared counts of arrays, allocation failure inside a machine, objects as
values of arrays, `list()`, namespaces.

## Plan

1. Done: the models and runs above; theorems of `LibInit`, `EngineApi`, `MemBackend`,
   `VmRefs`, `Session`, `Objects`, `ArrayScripts` and of the lists.
2. Prove more: what the blocks of `Compiler` fix; the stack discipline of `VmExec` for the scripts of `NothingLeft`.
3. Extend: `SyHash` with growth and cursor against an abstract map; `HashmapImpl`, the
   list pointers and buckets of `hashmap.c`, refining `Hashmap`; inheritance and the class
   tables; the recursion of the XML reader.
