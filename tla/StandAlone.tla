----------------------------- MODULE StandAlone -----------------------------
(***************************************************************************)
(* glslangValidator in its non-linking mode: singleMain() initializes the  *)
(* library, lets the compiler threads drain the worklist (CompileShaders), *)
(* joins them, prints every work item's results and finalizes.  Each       *)
(* thread's compiles are those of GlslangProcess.                          *)
(***************************************************************************)
EXTENDS GlslangProcess, Sequences

CONSTANTS
    Main,       \* the thread of singleMain()
    Items,      \* the work items, a sequence in the order they are added
    KeyOf,      \* the cache key each item's shader compiles for
    Script,     \* singleMain's calls: "init", "final", "run" and "print"
    NoItem

ItemSet == {Items[i] : i \in DOMAIN Items}

(* No item is added twice; every ShInitialize has its ShFinalize, and the   *)
(* compilers do not start right after the results were printed.             *)
ASSUME StandAloneAssumption ==
    /\ Clients = {Main}
    /\ Items \in Seq(ItemSet) /\ NoItem \notin ItemSet /\ KeyOf \in [ItemSet -> Keys]
    /\ \A i, j \in DOMAIN Items : Items[i] = Items[j] => i = j
    /\ Script \in Seq({"init", "final", "run", "print"})
    /\ \A i \in 2 .. Len(Script) : Script[i] = "run" => Script[i - 1] # "print"
    /\ Cardinality({i \in 1 .. Len(Script) : Script[i] = "init"})
         = Cardinality({i \in 1 .. Len(Script) : Script[i] = "final"})

VARIABLES
    compilers, \* the threads that run CompileShaders: with -t workers, else Main alone
    worklist,  \* TWorklist: the items nobody has removed
    item,      \* per thread: the item it removed last and not yet stored
    loop,      \* per thread: where it is in CompileShaders
    results,   \* the items whose results are stored
    call,      \* Main's position in Script
    printed    \* the results Main has printed, once it has

toolVars == <<compilers, worklist, item, loop, results, call, printed>>
allVars  == <<vars, toolVars>>

ToolInit ==
    /\ Init
    /\ compilers \in {Workers, {Main}}
    /\ worklist = Items
    /\ item = [t \in Threads |-> NoItem]
    /\ loop = [t \in Threads |-> "none"]
    /\ results = {}
    /\ call = 1
    /\ printed = {}

Doing(what) == call <= Len(Script) /\ Script[call] = what

\* A call of ShInitialize or ShFinalize, step by step; it ends back at idle.
MainCalls ==
    /\ \/ Doing("init") /\ Initialize(Main)
       \/ Doing("final") /\ Finalize(Main)
    /\ call' = IF pc'[Main] = "idle" THEN call + 1 ELSE call
    /\ UNCHANGED <<compilers, worklist, item, loop, results, printed>>

\* Main creates the threads, or calls CompileShaders itself.
Spawn ==
    /\ Doing("run")
    /\ \A t \in compilers : loop[t] = "none"
    /\ IF Main \in compilers THEN UNCHANGED vars ELSE Serve(Main)
    /\ loop' = [t \in Threads |-> IF t \in compilers THEN "remove" ELSE "none"]
    /\ UNCHANGED <<compilers, worklist, item, results, call, printed>>

\* Main has joined every thread, or come back from CompileShaders.
OneReturned == \E t \in compilers : loop[t] = "returned"
AllReturned == \A t \in compilers : loop[t] = "returned"

JoinAll ==
    /\ Doing("run")
    /\ AllReturned
    /\ IF Main \in compilers THEN UNCHANGED vars ELSE Join(Main)
    /\ call' = call + 1
    /\ UNCHANGED <<compilers, worklist, item, loop, results, printed>>

PrintResults ==
    /\ Doing("print")
    /\ printed' = results
    /\ call' = call + 1
    /\ UNCHANGED <<vars, compilers, worklist, item, loop, results>>

-----------------------------------------------------------------------------
\* CompileShaders

\* remove() takes the front item under the list's mutex, or finds none.
NotPopped   == worklist
RestOfList  == Tail(worklist)
OneLeft     == Len(worklist) <= 1
NothingLeft == worklist = <<>>

Remove(t) ==
    /\ loop[t] = "remove"
    /\ IF NothingLeft
       THEN /\ loop' = [loop EXCEPT ![t] = "returned"]
            /\ UNCHANGED <<worklist, item>>
       ELSE /\ loop' = [loop EXCEPT ![t] = "construct"]
            /\ item' = [item EXCEPT ![t] = Head(worklist)]
            /\ worklist' = RestOfList
    /\ UNCHANGED <<vars, compilers, results, call, printed>>

\* ShConstructCompiler and the start of CompileFile
Construct(t) ==
    /\ loop[t] = "construct"
    /\ StartCompile(t, KeyOf[item[t]])
    /\ loop' = [loop EXCEPT ![t] = "compile"]
    /\ UNCHANGED <<compilers, worklist, item, results, call, printed>>

(* InitThread could not set the thread's flag, and so no compiler:          *)
(* CompileShaders returns with its item neither compiled nor put back.      *)
ConstructFails(t) ==
    /\ loop[t] = "construct"
    /\ ~tlsInit[t]
    /\ loop' = [loop EXCEPT ![t] = "returned"]
    /\ UNCHANGED <<vars, compilers, worklist, item, results, call, printed>>

CompileStep(t) ==
    /\ loop[t] = "compile"
    /\ Setup(t) \/ ReadCache(t) \/ Parse(t) \/ EndCompile(t)
    /\ loop' = [loop EXCEPT ![t] = IF pc'[t] = "idle" THEN "store" ELSE "compile"]
    /\ UNCHANGED <<compilers, worklist, item, results, call, printed>>

\* workItem->results = ShGetInfoLog(compiler)
StoredItem(t) == item[t]

Store(t) ==
    /\ loop[t] = "store"
    /\ results' = results \cup {StoredItem(t)}
    /\ item' = [item EXCEPT ![t] = NoItem]
    /\ loop' = [loop EXCEPT ![t] = "remove"]
    /\ UNCHANGED <<vars, compilers, worklist, call, printed>>

CompileShaders(t) == \/ Remove(t) \/ Construct(t) \/ ConstructFails(t)
                     \/ CompileStep(t) \/ Store(t)

SingleMain == MainCalls \/ Spawn \/ JoinAll \/ PrintResults

Exited == call = Len(Script) + 1

Terminated == Exited /\ UNCHANGED allVars

ToolNext == SingleMain \/ (\E t \in Threads : CompileShaders(t)) \/ Terminated

(* Every thread that can take a step eventually takes one: no scheduler     *)
(* starves a runnable thread forever, and as the work is finite a thread    *)
(* that waits for the lock finds it free for good in the end.               *)
ToolSpec ==
    /\ ToolInit /\ [][ToolNext]_allVars
    /\ WF_allVars(SingleMain)
    /\ \A t \in Threads : WF_allVars(CompileShaders(t))

-----------------------------------------------------------------------------
(* Every item is in exactly one place - still listed, with one thread, or   *)
(* stored - so none is compiled twice and none disappears between remove()  *)
(* and its results.                                                         *)
Listed == {worklist[i] : i \in DOMAIN worklist}
Taken  == {item[t] : t \in Threads} \ {NoItem}
EachItemOnce ==
    /\ Listed \cup Taken \cup results = ItemSet
    /\ Listed \cap Taken = {} /\ Listed \cap results = {} /\ Taken \cap results = {}
    /\ \A s, t \in Threads : item[s] = item[t] /\ item[s] # NoItem => s = t

(* Main prints what the threads wrote only after the last of them is done   *)
(* writing, so everything that is ever stored is printed.                   *)
PrintsAllResults == call > 1 /\ Script[call - 1] = "print" => printed = results

(* A thread that gives up costs the item it had taken and nothing else:     *)
(* items stay in the worklist only if every thread gave up.                 *)
GaveUp(t) == loop[t] = "returned" /\ item[t] # NoItem
StrandedOnlyIfAllGaveUp == AllReturned /\ worklist # <<>> => \A t \in compilers : GaveUp(t)

(* The tool leaves nothing allocated: at its end the client count is zero   *)
(* and all that ShFinalize deletes is deleted.                              *)
CleanExit == Exited => /\ numberOfClients = 0 /\ ~perProcessGPA /\ keywordMap = "null"
                       /\ \A k \in Keys : common[k] = "null" /\ shared[k] = "null"

(* The tool ends: no thread waits forever for the global lock, for a table  *)
(* another thread builds, or for a thread to return.                        *)
ToolTerminates == <>[]Exited

(* Every shader given is compiled and its results are printed, unless some  *)
(* thread could not get its flag.                                           *)
EveryItemPrinted == <>(printed = ItemSet \/ \E t \in Threads : GaveUp(t))
=============================================================================
