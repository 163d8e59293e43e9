# Verification of glslang

This directory holds TLA+ models of the core of glslang (the GLSL and HLSL front
end, its linker and its validator tool), the TLC configurations that check them on
small instances, and theorems about them that TLAPS has checked. Paths below are
relative to the repository's root without the leading `src/`; `SL` stands for
`glslang/MachineIndependent/ShaderLang.cpp`.

The definitions are translations of the C++ code and keep its names where TLA+
allows. `PROJECT.json` lists, for every definition, the lines it stands for; for
every property the run that checks it and a mistake in the code that would break
it; and the hazards of the code, each with the properties that cover it.

## 1. The system

glslang turns shader source into an intermediate tree, links the trees of the
compilation units of a stage and of the stages of a program, and passes the result
on to SPIR-V generation. An application initializes the library once per process,
then compiles any number of shaders on any number of threads. What happens inside
one compile is sequential; the threads meet in the process-wide state only.

| Component | State | Operations | What is hard |
|---|---|---|---|
| Process and cache lifecycle (`ShaderLang.cpp`, `InitializeDll.cpp`, `OSDependent/Unix`, `Scan.cpp` keyword map) | global mutex, client count, process pool, keyword map, tables built in per key, thread-local pool and flag | `ShInitialize`, `ShFinalize`, `InitThread`, `SetupBuiltinSymbolTable`, `CompileDeferred`'s use of the tables | interleaving of every thread with every other; tests, creations and deletions outside the lock; pools switched and given back |
| glslangValidator's worklist (`StandAlone.cpp`, `Worklist.h`) | worklist under a mutex, results of the items, threads | `singleMain`, `CompileShaders` | threads that empty one list, one that gives up, results read after the join |
| Preprocessor conditionals (`preprocessor/Pp.cpp`) | `ifdepth`, `elsetracker`, `elseSeen`, state of the skipping loop | `CPPif`, `CPPifdef`, `CPPelse`, `readCPPline` | three counters in place of a stack, changed by four handlers; limits |
| Preprocessor macros and inputs (`Pp*.cpp`, `PpContext.h`) | input stack, macro table, busy bits, one read position per body | `MacroExpand`, `PrescanMacroArg`, `#undef`, `#include`, pasting | two functions that call each other over a shared stack; speculative reading; recovery that looks for a marker somebody may have eaten |
| Pool allocator (`PoolAlloc.cpp`) | two page lists, offset, stack of saved states | `allocate`, `push`, `pop`, `popAll` | regions are not stored but follow from a saved page and offset |
| Call graph checks (`linkValidate.cpp`, `ParseHelper.cpp`, `localintermediate.h`) | list of calls with three flags each, bodies, errors | `addToCallGraph`, `merge`, `checkCallGraphCycles`, `checkCallGraphBodies` | search in a cyclic graph; calls and bodies from different units; deletion of what looks dead |
| Linker: modes, objects, locations (`linkValidate.cpp`) | modes, linker objects, used ranges | `mergeModes`, `mergeLinkerObjects`, `addUsedLocation`, `addUsedOffsets` | contradictions that depend on the order of the units; ranges that touch |
| Program API (`TShader`, `TProgram` in `SL`) | pools per object, intermediates, linked flag | `parse`, `link`, `buildReflection`, `mapIO` | which pool is the thread's at each moment; steps that may happen once |
| Built-in symbols (`Initialize.cpp`) | declarations per version, profile, stage | `initialize`, `identifyBuiltIns` | the cache key must determine what the tables are built from |
| Symbol table (`SymbolTable.h`) | scopes, levels shared with the caches | `insert`, `find`, `copyUp`, `adoptLevels` | levels that are shared and read-only |
| GLSL scanner (`Scan.cpp`, `Scan.h`) | a cursor over several strings | `get`, `unget`, `scanVersion` | backing up over empty strings |
| GLSL parser (`ParseHelper.cpp`, `glslang.y`) | the tree under construction | semantic checks | type rules, one shader at a time |
| Intermediate tree (`Intermediate.cpp`, `Constant.cpp`, …) | the tree | conversions, folding | data, no behaviour over time |
| Reflection and live traversal (`reflection.cpp`, `LiveTraverser.h`) | list of functions, set of live ones | traversal of what is live | a list emptied and refilled while calls are met, recursion included |
| IO mapper (`iomapper.cpp`) | three maps of variables, slots per set, next locations | `mapIO`, `addStage`, `reserveSlot`, `getFreeSlot`, `resolveInOutLocation` | declared and automatic slots share one list; the order of priority; a failing stage after mapped ones; what fits the bit fields |
| HLSL front end (`hlsl/`) | token ring buffer, pushed-back tokens, streams | `advanceToken`, `recedeToken`, `pushTokenStream` | two tokens of backing up over a ring that an interrupting stream shares |
| SPIR-V generation (`SPIRV/`) | module under construction, build point, three stacks of enclosing constructs | traversal, `spv::Builder`, post-processing | which construct a jump leaves; dead code behind jumps; blocks in readable order with delayed merge and continue blocks |
| SPIR-V remapper (`SPVRemapper.cpp`) | id map | `localId`, remapping | one-to-one |
| SPIR-V text and tables, includers and limits, stubs and tests, Windows threads layer | – | – | formatting, data, I/O; the Windows layer implements the interface the models take from the Unix one |

How they interact. `singleMain` calls `ShInitialize`, starts threads that take items
from the worklist and compile them, joins them, prints and calls `ShFinalize`. A
compile makes the object's pool the thread's pool, enters `SetupBuiltinSymbolTable`
under the global lock (which builds missing tables, switching the thread's pool
twice meanwhile), reads the shared tables without the lock, adopts their levels and
parses. The parser pulls tokens from the preprocessor, which pulls characters from
the scanner; every function call it meets is recorded in the unit's call graph.
`link` merges units into one intermediate per stage and runs `finalCheck`, which
searches the call graph. `mapIO` then gives the variables of every stage their places,
and `GlslangToSpv` turns each function into blocks. Everything allocates from the
thread's pool.

## 2. The modules

| Module | Models | Abstract counterpart | Proofs |
|---|---|---|---|
| `GlslangProcess` | process and cache lifecycle | `OnceCache` | `ProcessProofs`, first part |
| `StandAlone` | glslangValidator, composed with `GlslangProcess` | `GlslangProcess` | `ProcessProofs`, second part |
| `PpConditional` | preprocessor conditionals | `ConditionalGroups` | `PpConditionalProofs` |
| `PoolAllocator` | pool allocator | properties over the blocks handed out | `ProcessProofs`, third part |
| `LinkCallGraph` | call graph, its merge and its checks | reference definitions of recursion and liveness | `LinkCallGraphProofs` |
| `IoMapper` | `mapIO` over the stages, live traversal, slots and locations | `OpenBindings` | `IoMapperProofs` |
| `StructuredFlow` | control flow of a function as SPIR-V, readable order | dominance, over the graph of the blocks | `StructuredGraphProofs`, `StructuredFlowProofs` |
| `PpMacros` | macro expansion over the input stack | `MacroReference`, expansion with hide sets | `PpMacrosProofs`, `PpExpansionProofs` |

The `MC*` modules give the constants their values for TLC.

### GlslangProcess

Global variables of the code are variables of the module: `lock` (the mutex of
`ossource.cpp`), `processInit` (the thread-local indices exist), `numberOfClients`,
`perProcessGPA`, `keywordMap`, and `common` and `shared`, the two table arrays, each
as a state per cache key (`null`, `copying`, `ready`). Thread-local storage is
`tlsInit` and `pool`; the variables of a call under way are `pc`, `key`, `previous`
(`previousAllocator`) and `adopted`.

A step is a stretch of code whose middle no other thread can observe: a critical
section over variables read under the lock only is one step, an access to a variable
that others read without the lock is a step of its own. `ShInitialize` is therefore
seven steps (the mutex is initialized; `InitProcess`; the count; test and creation of
`PerProcessGPA`; test and filling of the keyword map), `ShFinalize` five (the count
under the lock, four deletions without it), `SetupBuiltinSymbolTable` nine.

`Clients` call `ShInitialize` and `ShFinalize`; the other threads compile only while a
client serves, i.e. between its initialization and the join, which is the protocol
`ShaderLang.h` asks for. A key stands for an index of the cache arrays; an
unbuildable key stands for a source language this build has no
`TBuiltInParseables` for, where `InitializeSymbolTables` fails and its caller goes on
regardless.

`InitProcess` succeeds: its failures, when the process has no thread-local indices left
(`InitializeDll.cpp:65`), are left out. A compiler thread's `InitThread` may fail; `StandAlone` has it.

`OnceCache` says what the caches promise: a table is made once, shared complete by
everyone who asks, and cleared only when nobody holds one. A table of the
abstraction is a key whose `shared` entry is `ready`.

### StandAlone

`singleMain`'s calls are a script, `init, init, final, run, print, final`; `run` either
creates the compiler threads (`-t`) or calls `CompileShaders` on the main thread, as
chosen in the initial state. A compiler thread removes an item, constructs a compiler
(or gives up when `InitThread` fails), compiles with the actions of `GlslangProcess`,
stores the results and asks for the next item.

### PpConditional

One step reads one line, abstracted to its directive and the value of its condition
(`true`, `false` or `bad`, an expression with an error). The variables are the code's
counters; `skipping` and `depth` are the local variables of `CPPelse`'s loop. In
the code `elseSeen` has `maxIfNesting` entries; the model's has two more, for the
bytes behind the array that the limits let `elsetracker` index. `Padding` says what
these bytes may hold at the start.

`ConditionalGroups` is the stack of groups the counters stand for. The refinement
mapping rebuilds the stack from the counters: groups outside the one being skipped
are taken, those inside are dead.

### PoolAllocator

`inUseList` is the list of pages in use with the number of pages of each piece,
`freeList` the pages kept, `stack` the saved page and offset of each `push`. `blocks`
is a history variable, the memory handed out and not taken back. Which free page is
taken and which address `new char[]` returns are left open. `allocate` has the
code's three cases: the rest of the page, pages of its own, a new page. Guard blocks
(off by default) and statistics are left out; sizes are what they are after rounding.

### LinkCallGraph

A unit is parsed call by call (`addToCallGraph` with its check for duplicates that
stops at the first other caller), units are merged, then `finalCheck` runs: the
depth-first search one turn of its loop at a time, the propagation of marks one call
at a time in any order, then the deletion. A `TCall` is its place in the list; its
flags are sets of places. `initializers` is a history variable, the functions called
at global scope, which the code records under the literal name of `main`.
The order of function definitions in the tree and a second body of one name are
not told apart, and HLSL's weaker report of a missing entry point is left out.

### IoMapper

A program is a function from its stages to units, a unit one stage's declarations,
functions and options. `qualifiers` is what the trees say and what `applyStage`
rewrites; `entries` is the three maps `inVarMap`, `outVarMap` and `uniformVarMap`.
`GatherLive` takes any function of the traverser's list, where the code takes the
last: the result must not depend on it. `getFreeSlot`'s loop is one step per slot in
use. `Before` is the order in which the code walks its maps, `TOrderByPriority`
included; `InField` is what a 12-bit location field keeps of a number.

A type is its resource class, the bindings an OpenGL array of it takes and the
locations it takes. Every uniform or buffer is in some class, by its storage if by nothing else
(`isUboType`, `isSsboType`, `isSrvType`), so `resolveBinding` never falls through. Shifts
and the single `--resource-set-binding` are natural numbers: shifts of 2^31 and above, which
the conversion to `int` makes negative (`localintermediate.h:298`, `iomapper.cpp:367`),
and negative sets (`atoi`, `iomapper.cpp:433`) pass the checks at `iomapper.cpp:266` and 274
unseen and are outside the model and its `TypeOK`. A `--resource-set-binding` with
several values makes `addStage` run (`severalSets`) and is of no further use there.
`--uniform-base`, explicit overrides of locations, and a
resolver that the application provides are left out.

`OpenBindings` is the promise of the comment at `iomapper.cpp:58`: variables with a
binding first, then each of the others in the first gap. The mapping takes the
variables the current stage has placed so far.

### StructuredFlow

`code` has, per block, the instructions that make up the control flow; `loops`,
`switchMerges` and `breakForLoop` are the three stacks that say what a jump leaves;
`nest` is the traverser's own recursion, i.e. the constructs of the source. Any
statement may come wherever the grammar has one, jumps and the dead code behind them
included. Jumps are statements, as in GLSL; HLSL's `clip()`, a selection with a discard inside an
expression (`hlslParseHelper.cpp:4724`), is left out. When the function is left, `visit` and its recursion (`frames`) put the
blocks in order.

### PpMacros

`inputStack` is the stack of inputs, `expansions` the stack of calls of `MacroExpand`
and `PrescanMacroArg`, which call each other; `busy` and `currentPos` belong to the
macros, not to their inputs, as in the code. Tokens carry a history of the macros they
came out of. A frame of `PrescanMacroArg` also remembers the inputs below its marker,
for the property that leaves them alone. Callers accept line ends within a call
(`newLineOkay`); those that do not, such as `#if`, report an error at one instead (`Pp.cpp:1247`)
and belong to the expressions that are not modelled. When a call has an argument too many,
the search for its end counts braces as parentheses, in every language and whether or not one was
open (`Pp.cpp:1292`), so its `depth` may fall below zero.

`MacroReference` is the definition of the C standard: no busy bits and no inputs, but a
set of hidden macros on each token. `Rule` is one step of it, what a text's expansion is in
terms of the expansions of other texts; `Expansion` is the recursive function over all
texts that obeys it, and `Meaning` what a source stands for.

## 3. What the runs show

| Run | Question | Bounds |
|---|---|---|
| `process` | Are the unlocked reads and deletions safe, do the caches implement `OnceCache`? | one client, two workers, two buildable keys and one unbuildable, initialization nested twice |
| `tool` | Is each item compiled once and printed, is everything torn down, does the tool end? | three items, two of one key, one unbuildable; two compiler threads or the main one |
| `conditional` | Do the counters agree with a stack of groups? | limit 4, one `#else`, `#elif` outside every group; any number of lines |
| `pool` | Is memory handed out once, kept until its region ends, and then returned? | pages of 8 bytes, header 2, alignment 2, sizes 0, 1, 5, 6, 7; four pages, five calls, three saved states |
| `call_graph` | Is recursion found exactly, missing bodies reported, dead and only dead code deleted? Do the loops end? | three functions, two units, three recorded calls |
| `io_mapper` | Is live what is reached, is nothing mapped twice, do automatic places stay apart, is `OpenBindings` implemented? | three variables, four functions, stages alone and in pairs, five bindings, seven locations, two sets, two calls of `mapIO` |
| `structured_flow` | Do jumps leave the construct they mean, is what is written complete and in order? | nine blocks, switches of up to two segments and two case values |
| `macros` | Do the busy bits mirror the input stack, do prescans leave it alone, is the result what C defines, does it end? | seven tables of two macros; every source of four tokens, also inside a call, and fourteen longer ones |
| `deep_else` | finding 1 | limit 2 |
| `renamed_entry` | finding 2 | one unit, one call |
| `moved_set` | finding 3 | as `io_mapper`, one stage, one call |
| `macro_recursion` | finding 4 | as `macros` |

The properties, run by run:

* `process`: `OneBuilder` (one thread at most in the critical section, and the
  process pool, which has no lock, with one thread at most); `UsedStateIsLive` (no
  table, keyword map or pool is used after its deletion or before it is complete);
  `ReadWithoutLock` (the read of `SharedSymbolTables` outside the lock finds a
  complete table, or none if the key has none and never will); `PoolIntact` (the
  thread's own pool comes back); `TornDown` (nothing is left after the last
  `ShFinalize`); `TablesNeverRebuilt`; `ImplementsOnceCache`.
* `tool`: `EachItemOnce` (listed, taken or stored, exactly one of these);
  `PrintsAllResults`; `StrandedOnlyIfAllGaveUp` (a thread that gets no compiler loses
  its own item and no other); `CleanExit`; `ToolTerminates`; `EveryItemPrinted`.
* `conditional`: `CountersAgree` (while no error was reported, the counters are the
  nesting depth and no `#else` of a finished group is remembered);
  `ImplementsConditionalGroups` (the same text is kept and the same line is the
  first to be refused).
* `pool`: `PagesOnce`, `BlocksDisjoint`, `BlocksProtected`, `NoPageKept`.
* `call_graph`: `PathIsStack`, `RecursionIsFound` (if and only if), `LiveBodiesStay`,
  `DeadBodiesGo`, `MissingBodiesFound` (if and only if), `ChecksEnd`.
* `io_mapper`: `LiveIsReached` (if and only if); `MappedOnce` (a declared binding is
  shifted once, over any calls and failing stages); `AutomaticMappingsApart`;
  `ImplementsOpenBindings`; `TypeOK`, which here says that no binding or set written
  takes the value that means none.
* `structured_flow`: `JumpsLeaveInnermost` (three stacks name the enclosing
  construct); `FunctionIsComplete` (each block once, ended once, nothing named that
  is missing); `DominatorsFirst`; `ConstructsTogether` (what a header dominates without
  leaving to the merge blocks and targets of the constructs around it comes before its merge
  block); `PhisNamePredecessors`.
* `macros`: `BusyIsOnStack`; `PrescanStaysInside` (until an error or the search for the
  end of a call with too many arguments, which reads over the marker); `ExpandsAsDefined` (for sources
  without an error, a directive or the recursion of finding 4); `PreprocessingEnds`.

### Findings

1. `deep_else`. `elseSeen` is indexed by `elsetracker` after its increment and so one
   past its end (`PpContext.h:390`), two after `#ifdef`, which opens one group more
   than `#if` and the skipping loop allow (`Pp.cpp:590`, `>` where the others have
   `>=`): in the deepest group an `#else` may be refused though there was none.
2. `renamed_entry`. Calls at global scope are recorded under the literal name
   `main(` (`ParseHelper.cpp:1185`) but searched from the entry point's name: with a
   renamed entry point a stage links whose initializer calls a function without a
   body, against `linkValidate.cpp:875`.
3. `moved_set`. With the single `--resource-set-binding`, slots are looked for in set
   0 and the variable is then put into the option's set (`iomapper.cpp:581`): an
   automatic binding may be one another variable of that set declares, against "any
   open binding slot" (`iomapper.cpp:59`).
4. `macro_recursion`. A macro's busy bit is gone when its expansion ends, and nothing
   marks the names that came out of it; an argument's expansion is scanned once more
   in the body. With `#define o o 1` and `#define f(x) x`, `f(o)` gives `o 1 1`, in C
   `o 1`, against "no recursive expansions" (`Pp.cpp:1195`).

Three more oddities have no run of their own. `ShInitialize` initializes the global
mutex on every call (`SL:1265`), also while another thread holds it; the models assume
one client, as `ShaderLang.h:374` asks for, so `OneBuilder` does not cover it. An `#else` or `#endif` outside every group,
which is an error, moves `elsetracker` but not `ifdepth` (`Pp.cpp:275`), and the
counters differ from then on. The look for the `(` of a function-like macro reads
past the end of its line and puts back one token (`Pp.cpp:1220`), so a directive on
the next line is refused.

### Why the bounds are enough

* Two workers give every race between two compiles, with the client a third party.
  Keys interact through the lock alone, so two buildable ones and one unbuildable
  show everything a further one could; nesting of initializations beyond two repeats
  the same count. `ProcessProofs` removes these bounds.
* In `tool`, two items of one key make one thread find what the other built; three
  items over two threads make one thread come back for more.
* `maxIfNesting` is 65 in the code. Only reaching it matters, and a limit of 4 leaves
  room for groups before, inside and beyond a skipped one; the number of lines is not
  bounded. `MaxStray` bounds the `#else` and `#elif` lines outside every group at
  one: the second would find the counters as the first leaves them, with
  `elsetracker` the index of an entry in front of the array.
* The sizes of `pool` leave room, fill a page exactly, need pages of their own or are
  empty; five calls over four pages and two further pushes reach every way in which a
  region can start in the middle of a page or after a piece of several pages. Page
  addresses are interchangeable (symmetry).
* Three functions give cycles of length one to three, shared callees and calls that
  cross two units. `LinkCallGraphProofs` removes the bound for the safety properties.
* In `io_mapper`, three variables from ten declarations alias each other, leave gaps of
  one slot, need two slots, or reach the limit of five; a program with outputs of 4, 5
  and 6 locations passes the end of a field of eight values. A second call of `mapIO`
  meets every outcome of the first. The `layoutBindingEnd` of the code is 65535;
  nothing but reaching it matters.
* Nine blocks hold a loop in a loop, a switch in a loop and the reverse, three
  selections, and jumps with dead code in each. The theorems of `StructuredFlowProofs`
  (section 4) hold for any number of blocks.
* In `macros`, each table makes macros of both kinds name themselves and each other,
  leave a call open or close one that began outside; two macros suffice for mutual
  recursion. Four tokens inside a call give nested calls, too few and too many
  arguments and unclosed ones; one table has a call with too many inside another's
  argument; the longer sources have directives in between, and braces where the end of a call is sought.

`CHECK_DEADLOCK FALSE` is set where the input or the link ends: the conditional,
call graph, I/O mapper, structured flow and macro runs. The other models never have
to stop.

### Fairness

* `StandAlone`: weak fairness of `SingleMain` and of each thread's `CompileShaders`. The
  operating system runs every thread that can run. Weak fairness suffices for the
  mutex because the work is finite: a thread that waits finds it free for good when
  the others are done.
* `LinkCallGraph`: weak fairness of `Check`. The checks are one function call
  that runs to its end.
* `PpMacros`: weak fairness of `Next`. Preprocessing is one thread's sequence of calls.
* Nowhere else; the other properties are safety.

## 4. What is proved

The theorems hold for every value of the constants that meets the assumptions named.

**`ProcessProofs`, the library** (assumes one client, `SingleClient(m)`, and nothing of
the tool; section 3 says why): `TypeOK`, `OneBuilder`, `UsedStateIsLive`, `ReadWithoutLock`, `PoolIntact`, `TornDown`,
`TablesNeverRebuilt` and the refinement of `OnceCache`, for any number of threads and
keys. The properties are not inductive: that a worker's table is live depends on
where the client is. The invariant `IInv` has a part for each argument: the
lock is held by exactly the thread in the critical section (`LockInv`); workers
compile only while the client waits (`ProtocolInv`); the count is the client's open
initializations (`CountInv`); what exists at each point of the client's life
(`LifetimeInv`); how far a table is, by the place of its builder (`TableInv`); whose pool
is whose (`PoolInv`); who holds tables (`AdoptInv`). Each part is preserved by each
action; the theorems follow.

**`ProcessProofs`, the tool** (`StandAloneAssumption`: the main thread is the only client, no item is
added twice, a script of `singleMain`'s calls in which `init` and `final` balance and `run`
does not come right after `print`): every run of the tool is a run of `GlslangProcess`
(`ToolFollowsProtocol`), which turns `SingleClient`, assumed above, into a fact about
glslangValidator; and `EachItemOnce`, `PrintsAllResults`, `StrandedOnlyIfAllGaveUp`,
`CleanExit`, for any number of threads, items and keys. The invariant adds to `IInv(Main)` what a
thread holds at each point of `CompileShaders` (`HoldInv`), that the list has no duplicate
(`ListInv`), that what runs inside the library belongs to the call the main thread is at
(`WhereInv`), and that the main thread's references are the `init` calls minus the
`final` calls it has made (`ReferenceInv`), from which a balanced script ends with none.

**`PpConditionalProofs`**: `TypeOK` for every limit, whatever the padding holds and with a stray
`#else`; `CountersAgree` and the refinement of `ConditionalGroups` for every limit
when the bytes behind `elseSeen` are zero (`Padding = {FALSE}`; finding 1 shows why).
`Nesting` says how the counters move together and that they part only after an
error. The refinement has one lemma per kind of line, each showing how the
rebuilt stack changes, and one that the line reported first is illegal or refused.

**`ProcessProofs`, the pool** (`PoolAssumption` on sizes and alignment): `PoolTypeOK`, `PagesOnce`,
`BlocksDisjoint`, `BlocksProtected`, `NoPageKept`, for any sizes, pages and numbers of
calls. The invariant says what the code leaves implicit: saved states cut the list
of pages into regions in the order of the pushes (`Regions`), and every block lies
in a page of its region, before the saved offset of any later region that starts in
this page (`Placed`).

**`LinkCallGraphProofs`**: `TypeOK`, `PathIsStack`, `RecursionIsFound` for every call graph;
`DeadBodiesGo`, `MissingBodiesFound`, `LiveBodiesStay` when `Entry = Main` (finding 2 shows
why). The search is correct because the calls it has left for good are closed under
"follows" and free of cycles (`Search`); the bodies, because the marked calls are
always within every closed set of functions that holds the entry point, and at
the end make up such a set themselves (`Marked`, `MarkedIsLive`).

**`IoMapperProofs`** (`IoMapperAssumption`: finite programs, natural ids and limits):
`TypeOK` – which says that no written binding reaches `layoutBindingEnd` –, `MappedOnce`,
`LiveIsReached` and the refinement of `OpenBindings`, for any programs, call graphs, shifts
and limits. The parts of the invariant: a stage `mapIO` has not come to is as declared
(`StageInv`); what an entry holds before and after its variable's turn (`EntryInv`);
turns follow the order of priority (`OrderInv`); below the slot the loop has come to
no gap was large enough (`SearchInv`); the slots in use are exactly those of the
placed variables (`SlotsInv`); the functions met are within every set closed under
calls, and with the list of the traverser make up such a set (`LiveInv`).
`OrderInv` gives the abstract "declared ones first", `SearchInv` with `SlotsInv` the "first gap".
`AutomaticMappingsApart` follows: bindings are apart because `OpenBindings`
keeps its open places apart (`BindingsInv`), and the tree has what was placed;
locations are because each list has counted exactly the locations its variables take,
one range after the other (`CountInv`, `RangesInv`), which `LocationsFit` bounds.

**`PpMacrosProofs`** (`MacroAssumption`: a table is finite, macros neither name nor hold line ends or
the marker, object-like ones have no parameters): `BusyIsOnStack` and `PrescanStaysInside`, for
any tables and sources. The difficulty is a macro that is put on the stack twice: it is not,
because a scan of its arguments ends before its body is pushed, with nothing of the
scan left above it. The parts of the invariant: the markers above a macro whose arguments
are scanned, or above a line end not collected, are at most as many as the scans started
later (`MarkInv`), so when the last scan has ended there are none and the macro has
left the stack; a call that looks for its arguments is of no busy macro (`OpenInv`);
the busy bits are the stack's macros, each there once (`BusyInv`); line ends come from the
source only, with no macro left above it (`LineInv`); until an error each scan's marker
lies above the inputs it started on and at or below those the next one started on
(`InsideInv`). Reading, putting back, expanding, and the beginning and end of each scan
keep them, and every step is made of these.

**`PpExpansionProofs`** (`MacroAssumption`): `ExpandsAsDefined`, for any tables and sources, in three
steps.

* The definition is one. The expansion of a text asks for that of a part behind its first
  token, or of the text with a call replaced, which may be longer, so no length decreases.
  The lemma `ExpansionEnds` says that it comes to an end: every set of texts has one that asks for none of the others. Were there
  none, then any beginning `w` of a text would be used up, whatever follows it (`Yields`): what
  replaces a call hides one macro more than the call did, and there are finitely many. The
  argument goes down from all macros hidden to none, and for each set of hidden macros up with
  the length of `w` (`Absorbed`, `YieldsByLength`, `AllYield`). So functions that obey `Rule` on
  some texts can be put together to one on all (`ExpansionFollows`). Both use the least element
  of a set of numbers in place of the library's induction theorems.
* The inputs are a text. `Ahead` is what the inputs hold above the last marker, bodies with their
  arguments filled in; `TextRead` and its likes say how each move on the stack changes it. The
  macros an input came out of are hidden from all that was put above it (`Hides`), so a busy
  macro's name is hidden; that a name which is hidden is of a busy macro fails with the
  recursion of finding 4 alone, which `~recursed` excludes.
* The steps keep the meaning. `Fits`, the invariant: what has been collected, and the expansion of
  the call that is looked at and of `Ahead`, are what is to be collected – in the output, the
  expansion of the source (`TextFits`); in a scan, that of its argument, after which the call's
  expansion, with the arguments scanned so far, and the text it was found in give what the scan
  around it is to collect (`ScanFits`). `Gathered` says that the arguments recorded
  so far are the ones between the commas of what has been read, so that `nest` counts
  the same parentheses as the definition (`GatheredCloses`). At the end nothing is left of
  `Ahead`, and the output is the meaning.

**`StructuredGraphProofs`** and **`StructuredFlowProofs`** (`StructuredFlowAssumption`: the bounds
are natural numbers): the five properties, for any function, however its selections,
switches, loops, short circuits and jumps are nested and whatever code is dead. The
invariant `FlowInv` has four parts.

* `StackInv`: each of the three stacks holds one entry per construct of its kind that
  `nest` is inside of, in the order of `nest` (`Tracks`): `loops` for every loop,
  `switchMerges` for every switch, `breakForLoop` for every switch and every loop whose body
  is being built. `endTest` and `endBody` move a loop into and out of the third while it
  stays in the first, so they are kept by the order of the entries, not by their
  number. `JumpsLeaveInnermost` follows.
* `BuildInv`: there is a graph `g` that the code is that of (`Matches`) and that is
  `Structured`: each construct has a header, a merge block, perhaps a continue target and a
  region, the blocks made for it but for the merge block; a region is entered from the
  header only, and left to the merge block, to the head of the loop or to the merge block or
  target of a construct around it (`Edges`); and any other block than a merge block or target
  has one predecessor, but for back edges and segments that fall through (`Forward`). While
  the function is built, `Built` says in addition where the build point and the
  headers of the open constructs are in each other's regions (`Within`, `At`), what
  each of them still waits for (`FrameInv`), that every block has its end, will
  be given one or can never be reached (`LiveInv`), and that the second operand of
  `&&` is reached whenever the first is (`OperandInv`), from which the phi's two
  predecessors (`PhiInv`). Every kind of step leads from a built graph to another.
* `OwnInv`: the function owns the blocks made but for those that open constructs hold
  back, and each once.
* `OrderInv`: the recursion of `ReadableOrderTraverser` over such a graph (`Traversal`). Each
  block written has its place (`InPlace`): its header and its dominators are before it, and
  before a merge block what can be reached inside of the construct. What a written block leads
  to is written, delayed, or in the hands of a frame (`Owed`); what is delayed is in the
  hands of exactly one frame; and a frame's block was written before those of
  the frames above it.

The lemmas about `Structured` say that no merge block dominates what is in its own construct, and
no continue target what comes before it (`MergeIsNoDominator`, `ContinueIsNoDominator`), so
holding them back delays nothing that needs them; and, with `Forward`, that a successor of a
written block which nothing holds back has all its dominators written
(`SuccessorInPlace`). When the traversal is over nothing is delayed and no frame is
left, so what is written is closed under branches and merges (`DoneFacts`), and the
properties follow. `Reachable` is a recursive function; `ReachableIsLeast` shows that it
yields the least set closed under the edges, because a set that grows can do so only as often
as there are blocks.

**Only model-checked**: `ToolTerminates`, `EveryItemPrinted`, `ChecksEnd`,
`PreprocessingEnds` and other liveness (the prover does not treat fairness or `ENABLED`); and the
findings. What a recursive computation yields for every input would in general need induction
over data, which the installed provers cannot instantiate. `LinkCallGraph` and `IoMapper` therefore
define recursion and liveness by sets closed under calls, not by paths;
`ReachableIsLeast` and `ExpansionFollows` need the least element of a set of numbers only. Every
safety property that a run checks and finds true is proved.

`TypeOK` of `PpConditional`, `LinkCallGraph` and `GlslangProcess` and `PoolTypeOK` are
proved and not run: it is the first part of each invariant.

## 5. What is not modelled

The components without a module in section 2. Some have no behaviour over time (the
intermediate tree, SPIR-V text and tables, limits, stubs), some are mostly data or
type rules (built-in declarations, semantic checks, folding), some are I/O. Within the
modelled components: option parsing, file reading and the linking mode of
glslangValidator; the Windows threads layer; guard blocks and statistics of the
pool; the evaluation of `#if` expressions; a second body of one name; pasting (`##`),
`#define`, `__LINE__` and its like, HLSL's braces in arguments and the inputs of
`#include`; reflection's names and offsets; resolvers of the application;
everything of SPIR-V generation but the control flow.
A build of tables that fails half-way is not told from one that succeeds.

## 6. Plan

In order of importance.

1. `GlslangProcess`, `StandAlone`, `PpConditional`, `PoolAllocator`, `LinkCallGraph` with the
   proofs above – done.
2. `IoMapper` with the live traversal, `StructuredFlow` with the readable order,
   `PpMacros` with the proofs above – done.
3. `ShaderProgram`, over `PoolAllocator`'s interface: a `TShader`'s and a `TProgram`'s pool,
   the thread's current pool, `parse`, `link` once, `buildReflection`, `mapIO`,
   `GlslangToSpv`'s push and pop. Properties: every pop matches its own push; no tree
   is used after its pool went. Two shaders that two programs may share.
4. `HlslTokenStream`: ring buffer and pre-tokens, refining a cursor over the tokens of
   the current stream; at most two tokens back, one interrupting stream.
5. `LinkMerge`: `mergeModes` (does the order of the units matter?), ranges of locations
   and offsets against sets of slots.
6. `BuiltInTables`: version, profile and SPIR-V settings deduced before the key is
   formed; two compiles with one key build the same tables. The tables' maker
   composed with `OnceCache`.
7. `ScannerCursor`: `TInputScanner` over several strings, refining a cursor over their
   concatenation; `SymbolTable`: scopes and adopted levels; the inputs of `#include`
   and the includer's directory stack.

## 7. Running the checks

    tlc -workers 2 -config MCGlslangProcess.cfg MCGlslangProcess
    tlapm ProcessProofs.tla

A run takes up to a minute. The runs of section 3 that show a
finding end with a counterexample.
