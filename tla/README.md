# A TLA+ model of Lavril

Lavril is a scripting language in C++ (a descendant of Squirrel): a compiler to
bytecode, a register machine, reference-counted objects with a tracing
collector, and a C API through which a host program and native modules use
them.  All VMs of a program run in one thread.  What makes the code hard is not
parallelism but *re-entry*: a script calls a native function, which calls a
script, which resumes a generator, which throws into an error handler, and all
of them share one value stack, one frame stack and one trap stack; *lifetime*:
every object is counted, some are also traced, and pointers into the stack move;
and *agreement at a distance*: the compiler decides what the machine closes,
pops and jumps to, and a class what the instances made later hold.

Every definition is translated from the code under `src/`; `PROJECT.json` gives
the lines.

## Inventory

| part | state it keeps | operations | how it interacts | model |
|---|---|---|---|---|
| Interpreter control (`vm.cpp` Execute, CallNative, StartCall, EnterFrame/LeaveFrame; `object.cpp` LVGenerator; `api.cpp` lv_call, lv_resume, lv_suspendvm, lv_wakeupvm) | `_callsstack`, `_etraps`, `_stackbase`, `_top`, `_nnativecalls`, `_nmetamethodscall`, `_suspended*`; locals `traps` and `raise_error` of every Execute on the C++ stack; each generator's saved frame | call, tail call, return, try, throw, yield, resume, foreach, metamethods, suspend, wake up | natives and handlers re-enter it through the API | `ExecFrames` |
| Closures and outer variables (`closure.h`, `vm.cpp` FindOuter, CloseOuters, RelocateOuters; blocks in `compiler.cpp`) | `_openouters`, the outers, `_outervalues` | capture, close at block end, return, jump, error, yield; relocate when the stack grows | driven by every way to leave a frame or block | `OuterCells` |
| Objects and collector (`object.h`, `object.cpp`, `state.cpp`) | `_uiRef`, `_weakref`, `_gc_chain`, mark flags | assign, release, finalize, weak references, collect, resurrect, close | roots are the VMs, the registry and the host's handles | `GcHeap` |
| Code generation (`compiler.cpp`, `funcstate.cpp`) | target stack, variable stack, outers, trap and break counters, the last instruction, the line infos | statements, expressions, scopes, peephole rewriting | decides which OP_CLOSE, OP_POPTRAP and jumps the machine executes | `CodeGen`, `Expressions`, `LineInfos` |
| Classes and instances (`class.cpp`) | member table, defaults, methods, lock | NewSlot, inherit, lock, create, get, set, handles | members are an LVTable; instances are sized by their class | `ClassMembers`, `ClassObjects` |
| Lookup (`vm.cpp` Get, Set, NewSlot, FallBack*, `object.cpp` SetDelegate) | delegate pointers | get, set, create, delete, clone with delegates and metamethods | metamethods re-enter Execute | `Lookup` |
| Tables (`table.cpp`) | nodes, `_firstfree`, `_usednodes` | Get, Set, NewSlot, Remove, Next, Clear, Clone, Rehash | under tables, classes, compiler literals, lexer keywords | `HashTable`, `Dictionary` |
| Host handles (`state.cpp` RefTable) | buckets, nodes, free list | lv_addref, lv_release, lv_getrefcount, Mark, Resize | gives the collector its roots | `RefTable`, `HandleCounts` |
| String table (`state.cpp` LVStringTable) | buckets, count | Add, Remove, Resize | every string is interned; strings leave it when their count drops to 0 | `StringTable` |
| Arithmetic and comparison (`vm.cpp`) | none | ARITH_OP, BW_OP, ObjCmp, IsEqual | may call metamethods | `Values` |
| Arrays, sort (`array.h`, `utils.h`, `baselib.cpp`) | size, capacity | push, insert, remove, resize, sort, map, apply, reduce, filter | sort and map call script code between their steps | `Arrays` |
| Threads (`baselib.cpp` thread_*) | a VM per thread | call, wakeup, wakeupthrow, suspend | one VM runs another on the same C++ stack | `Threads` |
| Prototypes and bytecode files (`object.cpp`, `funcproto.h`, `io.cpp`) | the prototype's arrays; a buffered file | Save, Load, lv_writeclosure, lv_readclosure | from the compiler to a later VM | `Bytecode` |
| Blobs (`stream.cpp`, `blob.cpp`) | size, capacity, cursor | read, write, seek, resize | natives of the VM | `Blob`, `ByteFile` |
| Lexer (`lexer.cpp`) | position, lines, the current token | Lex | feeds the compiler | `Lexer` |
| json module (`modules/json/module.cpp`) | token array, position | json_decode | native of the VM | `Json` |
| Base and string library, API accessors, debug and error text | none of their own | | use the parts above | what changes state, in the parts above |
| io.cpp's files; modules crypto, curl, pgsql, sqlite, system, math; cli, util | a C library's | | natives of the VM | not modelled |
| modules/regex | | | not part of the build: no Makefile, includes `sqstdstring.h`, which the repository lacks | not modelled |

What makes each part correct:

* control: an error is caught exactly by the innermost open try of the
  activation it happens in; each activation of Execute owns the frames from its
  root frame up; whoever goes on after a callback has the stack it had;
  a generator runs at most once at a time;
* outers: a closure and its function share a variable for as long as both know
  it, and the closure keeps the last value afterwards;
* objects: counts are exact, no reference leads to a freed object, a collection
  frees the unreachable objects and only those, closing frees everything;
* code generation: on every path the open traps are those of the try blocks
  around the instruction, jumps land where they were meant to, a captured
  variable is closed before its register is used again, and the code of an
  expression computes its meaning, whatever the optimizer made of it;
* classes: an index or a handle given out stays good, and every instance has
  room for what its class says;
* lookup: chains of delegates end, and what runs in a metamethod leaves the
  value stack as it was;
* tables, handles, strings: a map, a multiset and a set, whatever was moved,
  removed and doubled before;
* threads: one VM runs at a time, and each gets what it is handed;
* sort, blobs, files, texts: what comes out is a permutation in order, a file
  of bytes, the function that was saved, the tokens and values of the text.

`PROJECT.json` lists under `hazards` where these are hard to keep and which
property would notice.

## The modules

Each component has one module; a module named `MC...` only gives it a size for
TLC.  `Dictionary`, `HandleCounts`, `ClassObjects` and `ByteFile` say what
`HashTable`, `RefTable`, `ClassMembers` and `Blob` promise, and these implement
them under a mapping of their state (`IsDictionary`, `CountsHolds`,
`IsClassModel`, `IsByteFile`).  Definitions whose comment begins with "Seeded
bug" are plausible mistakes in the definition they are named after;
`PROJECT.json` pairs each with the property that notices it.  No specification
uses them.

### ExecFrames

`calls` is `_callsstack` (a record per CallInfo: previous base and top as
offsets, the number of traps, the generator, the root flag), `etraps` is
`_etraps`, `stackbase` and `top` are the VM's.  The C++ stack is the variable
`cstk`: one record per activation of `LVVM::Execute` or of a native function,
with its local variables `traps` and `raise_error`.  Fields named as history
remember what an activation or a frame started from; no action reads them for a
decision of the code.  `mode` says what the innermost activation does; between
`raise` and `unwind` the error handler runs, as a call of its own.

There is one action per instruction or API call that changes control state:
script and native calls (with every way they can fail before and after the
frame is pushed), tail calls, return, try, generators (create, resume, yield,
foreach), metamethods, `lv_call`, `lv_resume`, suspension and wake-up, and
`exception_trap` (one step per frame that is unwound).  Registers, instruction
pointers and the debug hook are left out, so *any* instruction may come next;
this includes every order a compiler could generate, except that a frame pops
only traps it pushed.  `ErrorsSettle` is about the unwinding.  An error handler
that fails and so calls itself ends here by the bounds on calls, and in the code
by the native stack limit; no property is about that.

Three constants bring in things the code does not survive, one at a time:

* `TryInForeach` - a generator that yields inside `try` is driven by `foreach`.
  `FOREACH_OP` resumes it inside the instruction and Execute's local `traps` is
  not told of the traps that come back with it.  The run `exec_foreach_try`
  shows it.
* `MixedResume` - the host (`lv_resume`) and scripts resume the same generator.
  The root flag of the generator's frame is saved and restored with it, so an
  activation can end in the wrong frame.  TLC then reports `NoTrapsAtReturn`.
* `OverflowInCall` - a call made by a native inside a metamethod meets the
  limit of the value stack: `EnterFrame` fails after it has pushed the frame.
  TLC then reports `CallersResume`.

Without the three (`Disciplined`) everything below holds.

### OuterCells

`locals` says which variable each register holds, `blocks` which frames, try
blocks and other blocks are open, `open` is `_openouters` in order, `outers`
the LVOuter objects.  `captured` is history: the pairs (variable, outer) that
some closure knows.  One action per way to leave something: return, tail call,
end of a block, a jump out of several blocks (break, continue), an error caught
in this frame or in an outer one, an uncaught error, yield.  The compiler's part
is modelled in the actions `EndScope` and `Jump`, which close what the code
generated for them closes.  Values are not modelled: the property asks whether
the outer still is the variable.

The flags let four things happen that break sharing; every other way to leave a
block or frame is always possible.

* `CatchCaptured` - an error is caught outside a block with a captured variable;
  the run `outer_catch` shows it.
* `JumpCaptured` - `break` and `continue` leave several blocks at once;
  `YieldCaptured` - a generator yields with a captured variable.  With either,
  TLC reports `CapturesShareVariable`.
* `ReserveCaptured` - `lv_reservestack` grows the stack without moving the
  outers.  TLC reports `NoStalePointer`.

### GcHeap

Objects with a count, slots and a weak reference; a table stands for every kind
of object with references, a closure for one with a captured variable, an outer
for LVOuter.  The recursion of destructors is the list `work`, so that the
states in the middle of a destructor, of a sweep and of `lv_close` are states of
the model.  `lv_close` closes one captured variable (`CloseOuter`) or nulls one
register (`NullRegister`) at a time, then sweeps.  `chain` and `tchain` are the
lists the collector works on as sequences; `lost` are lists that `_gc_chain` no
longer leads to.  What scripts can reach is the least set closed under
references (`Reach`).  Marking is one step per object in any order, which covers
the recursion of `Mark`.
`OpenUnmarked` allows a collection while a captured variable has lost its
closures.

### CodeGen

A behaviour compiles one function and then runs it.  `fs` is the FunctionState:
the code so far, the registers, the open traps, the counters and the unresolved
jumps of `break` and `continue`, the optimizer's switch.  `open` is the
recursion of the compiler: one record per statement method that has not
returned, with its local variables (`jmppos`, `jzpos`, `__nbreaks__`, the old
scope).  There is one action per statement and one per point where a method
goes on after a statement inside it; together they generate every function the
grammar allows within a budget.  The second half interprets the code as
`Execute` does: conditions go both ways, calls and expressions may throw.

An expression is one instruction here; the rewritings that look across the parts
of a statement or of a block (a jump on a comparison, a return that replaces
`_OP_CLOSE`, a tail call) are there.  The module establishes what ExecFrames and
OuterCells assume of compiled code: a frame pops only traps it pushed and
returns with none (`TrapsFollowText`), and the ends of blocks close what was
captured in them (`OutersInScope`).

Five constants bring in functions that are compiled wrongly:

* `ForAtStart` - the jump of a `for` condition is patched when its position is
  greater than 0; at the start of a function it is 0 when the condition needs
  one instruction, and the loop does not end by it.  TLC reports `JumpsGoRight`.
* `DefaultReturns` - the last case ends with `_OP_CLOSE`, the jump to `default:`
  is patched to the position behind it, and a plain `return` there replaces the
  `_OP_CLOSE`: the jump lands behind the return.  TLC reports `JumpsGoRight`.
* `BareVars` - a branch of an `if` without braces has no scope, so a variable
  declared there outlives it in the code of both branches.
  `JumpCaptured`, `ThrowCaptured` - as in OuterCells, here in compiled code.
  With each, TLC reports `OutersInScope`.

### Expressions, LineInfos

`Expressions` compiles one expression: `Compiled` follows the recursive descent
and the target stack, `AddInstruction` the fusions of the optimizer, and an
interpreter of the instructions runs the result.  Beside it `Meaning` evaluates
the text.  Both keep a log of what they read, write and call, so that an order
of evaluation that differs is seen too.  The two agree (`ExpressionsCompile`)
except where a conditional jump was fused with a comparison it does not test:
`FusionKeepsMeaning` is about those, and the run `compiler_fusion` shows one.

`LineInfos` is the table from instructions to lines, with and without the
instruction `_OP_LINE` that debug information adds, and the search in `GetLine`.
Its actions are what a statement does: begin on the same line or further down,
add an instruction, end (after which the next `_OP_LINE` does not merge).  Here
an instruction only counts; that the optimizer merges or rewrites the last one
belongs to CodeGen and Expressions.

### ClassMembers, ClassObjects

A class is its member table (an index into defaults or methods), both vectors,
metamethods, constructor index, lock and base; an instance is its values.  The
actions are `NewSlot` with each kind of value, static members, `Set`, deriving
from a class, creating an instance (which locks), and the handles of
`lv_getmemberhandle`.  `ClassObjects` has no indices: a class is a map from
names to members, an instance a map from names to values.

Observations the properties leave room for: a method that is overwritten by a
value becomes a field and its old entry stays, so the constructor still runs
(class.cpp:84); a base that is extended after a class derived from it makes
handles of the base wrong for the derived class.

### Lookup

`pending` is the C++ stack of nested operations, `top` the height of the value
stack.  A metamethod is a script function that may start any operation, change
delegates and slots, and fail; an operation goes on after it with what it read
before.  There are two root tables: Get falls back to `_root` of the closure it
is called from (vm.cpp:1515), Set to `_roottable` of the VM (vm.cpp:1638).  A
Get is called with any table as its root or with none (a closure whose root is
gone); `SetRootTable` is `lv_setroottable`.

`GetSeesSet` is about a Get after a Set of the same object and name that found
its slot, when in between the script has called nothing but Get and Set,
metamethods included.  If the object or its delegates have the slot, the Get
reads the one that the Set wrote and asks no metamethod.  If the Set wrote the
root table and the Get has the same one for its root, the Get reads it there,
unless a `_get` metamethod on the way answers or fails, or the default delegates
have the name: these come before the root table (vm.cpp:1500-1518).  With
another root it may read another slot, or none.  The history variables `quiet`
and `wrote` say which Gets are asked about.

`StackBalanced`: an operation leaves as much on the stack as it found, except
for the three values a cleanly failing `_set` leaks (vm.cpp:1666).  Other
observations: an error of a delegate's metamethod is swallowed by the lookup
around it; Set falls back on the root table without its delegates while Get
searches the closure's root with them; metamethods are asked from the far end of
the chain.

### Tables, handles, strings

`HashTable` has the nodes of `LVTable` with keys, values and `_next`,
`_firstfree` and `_usednodes`; insertion as in `NewSlot` with the move of a
colliding node, removal that leaves nodes in their chains, `Rehash` up and down.
`Dictionary` is what a script relies on, iteration included.  `null` is not a
key of the dictionary, but `Set` does not refuse it: it may find a free node and
write a value there, which `SetNull` allows.

`RefTable` has the nodes, bucket chains and free list of the table of host
handles, doubled in `Resize`; `HandleCounts` is the number of holds per object.
`CountUnheld` lets the host count objects it does not hold.  `StringTable` has
the slots with their lists in order, `Add`, `Remove` and the doubling; a string
is in it once, where `Add` looks for it.

### Values, Arrays

`Values` has the arithmetic and comparison macros over integers that wrap,
floats that are exact up to a bound, -0.0, booleans, strings and objects.
There is no NaN: `ObjCmp` decides by `<` (vm.cpp:272), by which a NaN and another
number would each be greater than the other.
`ValueLaws` asks what scripts count on: comparison is an order and agrees with
equality, negation with truth, and a quotient and its remainder belong together.
The laws exclude what the code does not keep: 0.0 and -0.0 compare as different
in both directions; integers beyond the precision of a float make equality of
integers and floats non-transitive; ARITH_OP guards the division of C's
`INT_MIN` by -1 and not that of the smallest LVInteger, which traps the
processor; `_OP_MOD` ignores an error, so `1 % 0` leaves its target and goes on.

`Arrays` is `lvvector` and the functions over it.  The functions that call a
closure stop in the middle, and the closure may change the array; `array_sort`
is a heap sort step by step, whose comparison gives *any* answer.  It stays
inside the array and ends; when the answers are an order the result is sorted.
Sizes are not negative: `lv_arrayresize` refuses such a size (api.cpp:310-319),
`array.resize` of the base library does not (baselib.cpp:709-717), and a script
that calls it with one is outside the model.

### Threads

One record per VM: its stack, base, frames, suspension; `cpp` is the C++ stack,
with the activations of Execute of all VMs in one order.  `thread.call` and
`thread.wakeup` move values from one stack to another, run the other VM inside a
native function of this one, and move what comes back; `suspend` leaves the
activation; an error crosses to the VM that waits.  `arg`, `result` and `raised`
are history, what the other side handed over.  Arguments and values may be
functions.  One call is outside the model, by the first guard of `ThreadCall`:
`thread_call` does not ask whether the thread is busy or suspended
(baselib.cpp:1174), and `lv_call` takes for the function what the thread has
below the arguments (api.cpp:1094).  When this happens to be a function that
takes them, the code runs it above the frames the thread has, which still counts
as suspended, and `ThreadsTakeTurns` is not meant for what follows.  Every other call of a
busy or suspended thread is there: it fails, and the caller gets the error that
the thread had last (`_lasterror` stays when an error has been handed over).
All errors that these natives raise themselves are one, `Refused`.

### Bytecode

Functions are made as FunctionState makes them (constants numbered on first
use), saved word by word through a buffer that is lost when the disk is full at
`fclose`, and loaded.  In between, a file may lose its end or have one word
overwritten: a tag, a count, a type, a block of records or other raw data.
`LoadsWhatWasSaved`: what loads is the function that the file describes to the
last word, which for a file nobody changed is the function that was written; a
file that was written whole loads; and a load that fails leaves no function.  No
checksum guards a file: overwritten data, or a type that is overwritten by another
of the same size, load as another function without an error, and the model has
that.  Observations: `lv_writeclosuretofile` truncates the file before a
closure with free variables is refused; errors of `fclose` are ignored; default
parameters are not saved.

### Blob, ByteFile

The buffer, the bytes in use and the position, with the two ways a blob grows.
`ByteFile` has bytes and a position only.

### Lexer, Json

`Lexer` scans texts of a small alphabet: those written from tokens (with every
form of number, string, comment and blank between), where the tokens must come
out with their values and lines, and all short texts, where it must end.
Observations: `\u` and `\U` take up to eight digits (lexer.cpp:447 tests the
backslash); decimal integers wrap silently; `1.2.3` is one number.

`Json` has the tokens with the container each belongs to, as `jsmn_parse` fills
them in, stopped whenever the array is full and called again after it is
doubled, and `parse_level` over the result; well-formed texts come with their
value, and all short texts must be refused or parsed.  Observations: a number is
a float when a point comes anywhere behind it in the document; `{"a"}` makes
`parse_level` read past the tokens; only the first value of a text is returned.

### MCLibrary, MCCompiler

The parts that share no state with others are checked beside each other in
`MCLibrary`: a behaviour chooses a part and moves that one only.  `MCCompiler`
does the same for the functions of CodeGen and the expressions of Expressions.

## The runs

| run | what it shows | size |
|---|---|---|
| `exec` | the counts of traps agree, roots delimit activations, every frame and saved stack is in its place, whoever calls goes on with the stack it had; errors always settle | 3 frames, 3 native calls, 2 traps, a generator driven by scripts and one by the host |
| `outer` | closures share variables with their functions, one outer each, no pointer into an old stack | 3 variables, 3 outers, 4 blocks |
| `gc` | counts are exact, nothing dangles, a collection frees what is unreachable and nothing else and ends, closing frees everything | 3 objects, 1 slot each, 1 weak reference, 2 registers |
| `compiler` | traps, jumps and captured variables of compiled functions on every path; expressions compute their meaning | four budgets of 4 to 6 statements; expressions of every form, with one operand of any form |
| `classes` | indices and handles stay good, instances fit, the constructor is the member of that name; classes are maps | 2 classes, 2 instances, 3 names, 3 changes |
| `lookup` | delegates stay acyclic, the stack is balanced, a Get after a Set reads what that wrote as far as metamethods and the two root tables allow; every lookup ends | 3 tables, an instance, 2 names, 2 calls, one of them possibly inside a metamethod of the other |
| `library` | the properties of HashTable, RefTable, StringTable, Arrays, Blob, Values, Bytecode, LineInfos, Lexer, Json and Threads | in `MCLibrary` |
| `exec_foreach_try` | finding: `TryInForeach` | 4 frames, 2 traps |
| `outer_catch` | finding: `CatchCaptured` | as `outer` |
| `gc_open_outer` | finding: `OpenUnmarked` | 3 objects, 2 slots |
| `compiler_fusion` | finding: `FusionKeepsMeaning` | as `compiler` |
| `ref_table_unheld` | finding: `CountUnheld` | 4 objects, two doublings |

The bounds.  ExecFrames needs three activations for a native between two
scripts, and three frames for a generator below a native below a script; two
traps distinguish order.  OuterCells needs two variables in one block and one
outside.  GcHeap needs three objects for a cycle with something hanging from it,
which is what the sweep can get wrong.

CodeGen's budgets (`MCCompiler`) are the nestings where its counters interact:
`Control` puts a jump or a return below an `if`, a loop, a switch and a try
block in every order; `Tries` nests two loops and two try blocks, so that a
counter of an outer loop can be mistaken for one of an inner; `Variables` and
`Cases` put a captured variable in a block, a loop, a try block or a case with a
jump out of it.  Each counter and each unresolved jump belongs to one enclosing
statement, so two of a kind tell the right one from a wrong one.  A fusion looks
at two adjacent instructions, so an expression below another, with operands of
every kind, puts any two that can meet beside each other.

Two classes are a base and a derived class; three changes define a member,
override or extend it, and instantiate.  Three tables make the shortest cycle
that is not seen by a look at the neighbour.

In `MCLibrary` the keys 0, 3, 4 and 11 collide in two groups in four nodes and
in one group still in eight, so that a node in a foreign chain is moved and a
table that is full is hashed again, up and down.  RefTable doubles twice and the
string table once, with objects that collide before and after.  Arrays of up to
four elements have a heap of three levels.  Integers are 4 bits wide, with
C's `int` and the floats' precision below them.  A disk may be full at once, in
the first words, in the middle and never.  JSON values are nested two deep in an
array of tokens that starts with one.  Two threads can nest, and one of them has
a function under the one that suspends; what they hand over are functions, what
they are given is not.  In a line table of up to six instructions on four lines
the search goes both ways and several infos share an address.

Symmetry is used where elements are interchangeable and no liveness property is
checked: `outer`, `outer_catch`, `classes`, `gc_open_outer`.

Deadlock is checked in `exec`, `exec_foreach_try`, `outer` and `outer_catch`.
Elsewhere the system may stop: the state is closed (`gc`, `gc_open_outer`), the
function has returned (`compiler`, `compiler_fusion`), the changes or calls the
bound allows are made (`classes`, `lookup`), a text is read or a value chosen
(`library`), an assertion has stopped the program (`ref_table_unheld`).

### Fairness

* `WF(Unwind)` in ExecFrames: the loop in `exception_trap` does not wait for
  anyone.  Nothing is assumed of scripts, natives or the host.
* `WF(Goes)` in GcHeap: destructors, the phases of `CollectGarbage` and
  `lv_close` are code that runs to its end.  Nothing is assumed of scripts.
* `WF(Step \/ Meta)` in Lookup: a lookup runs to its end, and a metamethod
  returns or fails; that it makes no call without end is the bound `MaxCalls`.
* `WF` of the steps of Arrays in `MCLibrary`: `array_sort`, `map` and the others
  are loops, and the closures they call return.

## What was found

Five disagreements of the code with its own assertions and comments have a run
and a row in `findings`:

* a generator that yields inside `try` and is driven by `foreach` leaves
  Execute's trap count wrong, and `assert(traps == 0)` fails
  (`exec_foreach_try`);
* a caught error separates a closure from its variable (`outer_catch`);
* a collection while a captured variable has lost its closures takes objects
  off the collector's chain (`gc_open_outer`);
* the "simple optimizer" fuses a conditional jump with a comparison it does not
  test, as in `f(a < b, c ? x : y)` with a local `c` (`compiler_fusion`);
* counting an object that is not held makes the next doubling of the handle
  table fail its assertion (`ref_table_unheld`).

The other constants described above (`MixedResume`, `OverflowInCall`,
`JumpCaptured`, `YieldCaptured`, `ReserveCaptured`, `ForAtStart`,
`DefaultReturns`, `BareVars`, `ThrowCaptured`) are FALSE in every run: set to
TRUE in a configuration, TLC reports the property named there.

## What is proved

Eight modules hold proofs, for every value of the constants under the
assumptions the modules name (`ASSUME` in the module of the component; TLC
evaluates them in every run).

| theorem | what is shown for every value of the constants | under |
|---|---|---|
| `TypesOK`, `RootsDelimit` | `TypeOK`, `RootsDelimitActivations` | `Disciplined` |
| `FramesStayInPlace`, `CallersAlwaysResume` | `FramesInPlace`, `CallersResume` | `Tame` |
| `TrapsAlwaysAgree`, `NoTrapsLeftAtReturn` | `TrapsAgree`, `NoTrapsAtReturn` | `Disciplined` |
| `ClosuresShare`, `OneOuterEach`, `NoOuterIsStale` | the properties of the run `outer` | the four flags off |
| `CountsAlwaysExact`, `PointersNeverDangle` | `CountsExact`, `NoPointerDangles` | |
| `HeapAlwaysExact`, `CollectionIsExact`, `CloseNeverLeaks` | `HeapExact`, `CollectIsExact`, `CloseLeaksNothing` | `OpenUnmarked = FALSE` |
| `InstancesAlwaysFit`, `ConstructorAlwaysMember`, `HandlesAlwaysHold`, `ClassesAreObjects` | the properties of the run `classes`, the refinement of `ClassObjects` among them | |
| `DelegatesStayAcyclic`, `StackAlwaysBalanced`, `GetAlwaysSeesSet` | the safety properties of the run `lookup` | |
| `NodesStayPartitioned`, `TableCountsHolds` | `NodesPartitioned`; the refinement of `HandleCounts` | |
| `RefsAlwaysHeld`, `AssertsNeverFail` | `RefsAreHeld`, `NoAssertFails` | `CountUnheld = FALSE` |
| `TableFindsKeys`, `TableIsDictionary` | `KeysAreFound`; the refinement of `Dictionary` | |
| `StringsStayInterned` | `StringsInterned` | |
| `PositionFits`, `BlobIsByteFile` | `BlobFits`; the refinement of `ByteFile` | |
| `ValuesObeyLaws`, `ArraysAreSorted` | `ValueLaws`, `SortSorts` | |
| `LinesHold` | `LinesAreRight` | |
| `ThreadsHandOver` | `ThreadsTakeTurns` | the first guard of `ThreadCall` |

A flag in the last column is one of the constants that let something happen the
code does not survive; the runs that expect a violation show what.

`ExecFrames_proofs` (`Disciplined`: the three constants off).  The invariant is
`CoreInv`: types; `TrapCounts` (the number of traps is the sum over the frames,
and the traps' low marks follow each other); `WellNested` (bases chain,
activations nest, roots delimit, natives have one frame, what each mode needs);
and `SavedRoots` (the root flags kept by suspended VMs and generators, which come
back later).  The last is why the two ways to resume a generator must not be
mixed.  One lemma per action shows that it is kept; `CoreInvariance` puts them
together.

The second half of `ExecFrames_proofs` goes on from `CoreInv`.  A step does one of a dozen things to
the stacks (it enters, takes over or leaves a frame, opens or ends an activation,
arms or disarms a trap, suspends, wakes, or keeps them): `StepKinds` shows that
there are no others, and three invariants are shown for the kinds.  `StackInv`: a frame's
saved base and top lead to its caller, and `_etraps` holds frame by frame the
traps each counts, absolute while the frame is there and relative while its
generator is suspended.  `GensPlaced`: a generator is running if and only if one
frame is its own.  `LocalTrapsAgree`: the variable `traps` of every `Execute`
counts the traps of its frames; this is what `foreach` over a generator with an
open `try` breaks.  `Tame` leaves that one in.  `CallersResume` then says of
every call that its caller goes on with the stack it had.

`OuterCells_proofs`.  The invariant adds to the types what the blocks are
(`BlocksInv`: their bottoms follow each other inside the stack), that a
register's variable is nowhere else (`VarsInv`), that `_openouters` goes down the
stack and holds exactly the open outers (`OpenInv`), and what an outer that some
closure knows still is (`CapturesInv`).  That the list descends is what lets
`CloseOuters` stop at the first outer below its limit.

`GcHeap_proofs`.  `IInv` holds whatever the host does: the count of every object
is the number of references to it, those of destructors that have not finished
(`work`) included (`Exact`); every object that is there is in exactly one list,
once (`ChainsFit`); each pending step of a destructor is about an object that
waits for it (`WorkFits`); weak references and their objects agree (`WeakFits`);
a captured variable is open in one register (`OpenFits`); and what each phase of
a collection has done (`PhaseFits`, `MarksFit`).  Objects are in the middle of
being destroyed in most states, so none of it can be said of quiet states alone.
`EInv` is what a collection needs to be exact: what it marks can be reached, no
list is cut off, an object the sweep has passed has no references left.  `Reach`
is the least closed set that has the roots, so that both directions follow
without induction along paths; a captured variable that has lost its closures
breaks `OpenReached`, the first part of `EInv`.

`ClassMembers_proofs`.  `IInv` says of every class, made or inherited, that its
indices and its constructor fit its vectors, and that the bases of a class are
made before it; defining a member keeps this for the classes below since it never
shortens a vector, and the lock keeps the number of fields.  `HInv` adds what a
handle names in every class it may be used with (`HandlesFit`): bases are
acyclic, and the vectors of a base are never shorter than when a class was
derived from it (`BasesGrow`).  `ClassesAreObjects` maps both vectors to one map from names to
members; `ModelAssumption` says that the value for "none" is none of these.

`Lookup_proofs`.  An acyclic relation is stated without induction: a set closed
under the delegates above an object does not contain that object.  SetDelegate's
walk up the chain finds the object in every such set if it finds it at all, so
what it allows closes no cycle.  For the stack, `StackInv` counts the arguments
of every metamethod that has not returned: the height of the stack is theirs and
three for each `_set` that failed.  For `GetSeesSet`, `SeenInv` says what is so
in the quiet after a Set: the calls that wait are Gets and Sets, each asking on
behalf of the one below (`Chained`); an answer, to a call or to the script, is
about the first object of the chain that has the slot or, when there is none,
about the root the call had (`Tells`); and what the Set wrote is still that
first object, or the root table with the slot (`Wrote`).  It holds while Gets
and Sets inside metamethods go on since none of these adds a slot, removes one
or changes a delegate.

`RefTable_proofs`.  `Lists` says what the nodes, the free list, the buckets and
the count are for a table with N slots: every node is in one list, once, in the
bucket its object hashes to or in the free list.  `Add`, `Resize`, `Release` and
a change of one count keep it (one lemma each), and none changes the count of
another object, so that what the table has on record is what the host holds
(`RefInv`).  From this and `HeldInv` (no node is used without a hold, for a host
that counts only what it holds) follow the asserts, the roots and the
refinement.

`HashTable_proofs`.  A chain is a path, and a path needs induction.  The
invariant says the same of sets of nodes.  `LinksFit`: every set of nodes has
one whose successor is outside it, so no chain is a circle; no two nodes have
the same successor; chains lead only to nodes above `_firstfree`.  `KeysFit`:
each set that holds a key's main position and is closed under `_next` holds the
key's node; a key below `_firstfree` is in its main position.  With these, a
walk of as many steps as there are nodes meets the node, which is what `Find`
needs.  Both ways in which `NewSlot` links a node keep them, the move of a
colliding node included, and so does removal, which leaves the node where it
is.  `Rehash` never runs out of nodes because in the table it
fills every node above `_firstfree` holds a key (`Fresh`).  The lemmas about a
single insertion serve `NewSlot`, `Rehash`, `Clear` and `Clone` alike, and the
refinement of `Dictionary` goes operation by operation.  For the string table,
`ListsFit` says that a slot's list has only strings that hash to it, each once;
`Resize` relinks string by string, and what is relinked and what is not are
together the table.

`Library_proofs`, the parts `MCLibrary` puts beside each other:

* Blob.  The inductive invariant is `Fits`, the types with `BlobFits`; the
  refinement goes operation by operation.
* Values.  The laws are proved type by type; those of division from the
  bounds of quotient and remainder, for every width of the integers.
* Arrays.  `array_sort` builds a heap and takes it apart.  `HeapFits` says which part of the array
  is a heap at each step, with one node, the one that sifts down, whose
  children may be larger than it (`Heaped`, `Bridged`); the part above `bottom`
  is in order and not smaller than anything in the heap.  `SortFits` needs
  nothing of the comparison: indices stay inside, and a swap is a bijection, so
  nothing is lost (`Rearranged`).
* Threads.  The invariant is `Turns`.  Of one VM it says where its frames and
  registers are: each frame's base and top lead to the one below (`FirstFits`,
  `NextFits`), and the registers hold the argument and the result the frame was
  given (`RegistersHold`).  Of the C++ stack it says which activations can
  begin on which (`ActFits`), and that a running VM has as many root frames as
  activations; this count is what shows that a VM whose last activation ends
  is done or asleep.  The lemmas are about one VM, then about all of
  them when an activation is added or ends, then one for each action.  The guard of
  `ThreadCall` is needed where a call begins: the VM called is idle
  (`CalledObject`).
* LineInfos.  `LineInv` says that the infos are in the order of the instructions,
  that the last info before an instruction has the line of its statement, and that an
  `_OP_LINE` at the end of the code has its info at the end, so that both can be
  taken away.  `RoundNarrows` says that a round of the binary search
  halves what is left and does not pass the info it should find; going down from
  where the search ends meets it.

Only model-checked:

* compiled functions (`TrapsFollowText`, `JumpsGoRight`, `OutersInScope`).  The
  invariant would have to describe half-compiled functions with their unpatched
  jumps, method by method;
* `ExpressionsCompile`, `LoadsWhatWasSaved`, `TokensAreRight` and `DecodesText`:
  what a recursive operator computes needs induction over the expression, the
  function or the text;
* liveness (`ErrorsSettle`, `CollectionEnds`, `LookupsEnd`, `CallsEnd`): the proof
  system has no fairness or ENABLED.

## Not modelled

* ExecFrames: register contents, `lv_call` and `thread_call` on a suspended VM,
  a Resume that fails inside `foreach` or `lv_resume`, the debug hook, results
  stored through a target of -1, a generator function called through `lv_call`
  or as a metamethod (vm.cpp:828-831), a metamethod that a call of the host
  starts with no frame below it.
* OuterCells: default parameters, environments, a tail call of a generator
  function.
* GcHeap: release hooks, userdata, classes and instances, VMs other than the
  root.  A closure drops its captured variables before it leaves the chain
  (closure.h:34-42); the model takes every object off the chain first, and nothing
  in between looks at the chain for it.
* HashTable: weak references in values, a failed allocation (the code does not
  check for it).
* CodeGen and Expressions: classes, enums, constants, and functions in functions
  except for the variables they capture.
* ClassMembers: attributes, type tags, release hooks, the `_base` of calls.
* Lookup: arrays, strings, user data, null keys, a root table that is null.
* Values: formatting and parsing of numbers, user pointers, NaN.
* Arrays: a comparison that changes the array it sorts, negative sizes.
* Threads: the `thread.call` described above, generators and open tries inside a
  coroutine (ExecFrames has them in one VM), a limit of the value stack in
  `thread_call`, the collection of a suspended thread.
* Bytecode: an overwritten length of a string, values that change their size,
  bytes that pass for those of another word (a tag among raw data, an integer 0
  that is read as an empty string).
* Blob: a blob written to itself, negative sizes, files.
* Json: the encoder, the conversion of numbers, `json_decode_file`.

The parts the inventory marks as not modelled keep no state between calls or
only hand data to a C library.

## Plan

What is left, most useful first:

1. Proofs: the traps and jumps of compiled functions (`CodeGen`).
2. Suspension in ExecFrames and Threads in one model: a coroutine with
   generators and open tries that is suspended and woken by another VM.
3. A comparison that resizes the array under `array_sort`; values of registers
   together with lifetimes, for a generator that loses its last reference while
   it runs.
4. Classes, enums and default parameters in the compiler.
