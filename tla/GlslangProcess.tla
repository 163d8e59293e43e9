--------------------------- MODULE GlslangProcess ---------------------------
(***************************************************************************)
(* The process-wide state of glslang and the threads that share it: the    *)
(* global lock, the client count of ShInitialize and ShFinalize, the       *)
(* process-global pool PerProcessGPA, the keyword map, and the built-in    *)
(* symbol tables that SetupBuiltinSymbolTable builds on first use and      *)
(* every later compile reads without the lock.                             *)
(*                                                                         *)
(* Clients are the threads that call ShInitialize and ShFinalize; every    *)
(* thread may compile.  A client that serves lets the other threads        *)
(* compile and waits for all of them before it goes on, which is the       *)
(* protocol ShaderLang.h documents and singleMain() follows.  A step is a  *)
(* stretch of code that no other thread can see the middle of: a critical  *)
(* section of the lock whose variables are read under the lock only, or    *)
(* one access to a variable that is read without it.                       *)
(***************************************************************************)
EXTENDS Integers, FiniteSets

CONSTANTS
    Threads,      \* the threads of the process
    Clients,      \* those that call ShInitialize and ShFinalize
    Keys,         \* <<version, SPIR-V, profile, source>> indices of the caches
    Unbuildable,  \* keys whose source has no TBuiltInParseables in this build
    MaxInit,      \* bound: nested ShInitialize calls of one client
    NoThread      \* the lock is free

ASSUME ProcessAssumption ==
    /\ Clients \subseteq Threads
    /\ Unbuildable \subseteq Keys
    /\ MaxInit \in Nat \ {0}
    /\ NoThread \notin Threads

VARIABLES
    lock,             \* the thread that holds gMutex, or NoThread
    processInit,      \* ThreadInitializeIndex and PoolIndex are allocated
    numberOfClients,  \* NumberOfClients
    perProcessGPA,    \* PerProcessGPA is allocated
    keywordMap,       \* KeywordMap: null, being filled, or complete
    common,           \* CommonSymbolTable, per key
    shared,           \* SharedSymbolTables, per key
    tlsInit,          \* per thread: the flag at ThreadInitializeIndex
    pool,             \* per thread: the pool at PoolIndex
    pc,               \* per thread: where it is in the library
    refs,             \* per client: its calls of ShInitialize not yet finalized
    key,              \* per thread: the key it compiles for
    previous,         \* per thread: SetupBuiltinSymbolTable's previousAllocator
    adopted           \* per thread: it holds levels of shared[key]

globals == <<lock, processInit, numberOfClients, perProcessGPA, keywordMap, common, shared>>
locals  == <<tlsInit, pool, pc, refs, key, previous, adopted>>
vars    == <<lock, processInit, numberOfClients, perProcessGPA, keywordMap, common, shared,
             tlsInit, pool, pc, refs, key, previous, adopted>>

Workers    == Threads \ Clients
TableState == {"null", "copying", "ready"}
PoolState  == {"null", "own", "builtin", "gpa", "freed"}

InitPC     == {"InitProcess", "CountClient", "CheckGPA", "NewGPA", "CheckKeywords", "FillKeywords"}
FinalPC    == {"DeleteShared", "DeleteCommon", "DeleteGPA", "DeleteKeywords"}
CriticalPC == {"SetupCheck", "Build", "NewCommon", "CopyCommon", "NewShared", "CopyShared", "SetupDone"}
CompilePC  == {"SetupLock", "ReadCache", "Parse", "EndCompile"} \cup CriticalPC

Init ==
    /\ lock = NoThread
    /\ processInit = FALSE
    /\ numberOfClients = 0
    /\ perProcessGPA = FALSE
    /\ keywordMap = "null"
    /\ common = [k \in Keys |-> "null"]
    /\ shared = [k \in Keys |-> "null"]
    /\ tlsInit = [t \in Threads |-> FALSE]
    /\ pool = [t \in Threads |-> "null"]
    /\ pc = [t \in Threads |-> "idle"]
    /\ refs = [t \in Threads |-> 0]
    /\ key \in [Threads -> Keys]
    /\ previous = [t \in Threads |-> "null"]
    /\ adopted = [t \in Threads |-> FALSE]

Goto(t, from, to) == pc[t] = from /\ pc' = [pc EXCEPT ![t] = to]

-----------------------------------------------------------------------------
(* The decisions of the code that the correctness of the whole hangs on,    *)
(* each preceded by the mistake a change to it could make.                  *)

\* GetGlobalLock returns
NoLocking == TRUE
LockFree  == lock = NoThread

\* ShFinalize: --NumberOfClients, and whether that was the last client
ClientGone         == numberOfClients - 1
AnyClientFinalizes == ClientGone >= 0
LastClient         == ClientGone = 0

\* SetupBuiltinSymbolTable: it has already been done for this key
NeverCached(t) == FALSE
Cached(t)      == common[key[t]] # "null"

\* SetupBuiltinSymbolTable: the pool the thread gets back
PoolNotSwitchedBack(t) == pool[t]
PoolAfterSetup(t)      == previous[t]

\* ShFinalize: what is left of a table array
TablesKept(tables) == tables
TablesDeleted(tables) == [k \in DOMAIN tables |-> "null"]

(* ReleaseGlobalLock: unlocking a mutex that was re-initialized meanwhile   *)
(* and is not the caller's any more leaves it as it is.                     *)
NeverReleased(t) == UNCHANGED lock
Release(t)       == lock' = IF lock = t THEN NoThread ELSE lock

-----------------------------------------------------------------------------
\* ShInitialize

(* InitGlobalLock: pthread_mutex_init on every call, whoever holds the      *)
(* mutex; the new mutex is free.                                            *)
InitGlobalLock(t) ==
    /\ t \in Clients
    /\ refs[t] < MaxInit
    /\ Goto(t, "idle", "InitProcess")
    /\ lock' = NoThread
    /\ UNCHANGED <<processInit, numberOfClients, perProcessGPA, keywordMap, common, shared,
                   tlsInit, pool, refs, key, previous, adopted>>

(* InitProcess, one critical section.  Only the call that allocates the     *)
(* indices goes on to InitThread.                                           *)
InitProcess(t) ==
    /\ LockFree
    /\ Goto(t, "InitProcess", "CountClient")
    /\ processInit' = TRUE
    /\ tlsInit' = [tlsInit EXCEPT ![t] = @ \/ ~processInit]
    /\ pool' = IF processInit THEN pool ELSE [pool EXCEPT ![t] = "null"]
    /\ UNCHANGED <<lock, numberOfClients, perProcessGPA, keywordMap, common, shared,
                   refs, key, previous, adopted>>

\* ++NumberOfClients, under the lock
CountClient(t) ==
    /\ LockFree
    /\ Goto(t, "CountClient", "CheckGPA")
    /\ numberOfClients' = numberOfClients + 1
    /\ UNCHANGED <<lock, processInit, perProcessGPA, keywordMap, common, shared,
                   tlsInit, pool, refs, key, previous, adopted>>

\* The null test of PerProcessGPA and its allocation are not under the lock.
CheckGPA(t) ==
    /\ Goto(t, "CheckGPA", IF perProcessGPA THEN "CheckKeywords" ELSE "NewGPA")
    /\ UNCHANGED <<globals, tlsInit, pool, refs, key, previous, adopted>>

NewGPA(t) ==
    /\ Goto(t, "NewGPA", "CheckKeywords")
    /\ perProcessGPA' = TRUE
    /\ UNCHANGED <<lock, processInit, numberOfClients, keywordMap, common, shared,
                   tlsInit, pool, refs, key, previous, adopted>>

(* fillInKeywordMap returns at once when the map exists, even when another  *)
(* thread is still filling it.                                              *)
CheckKeywords(t) ==
    /\ Goto(t, "CheckKeywords", IF keywordMap = "null" THEN "FillKeywords" ELSE "idle")
    /\ keywordMap' = IF keywordMap = "null" THEN "filling" ELSE keywordMap
    /\ refs' = IF keywordMap = "null" THEN refs ELSE [refs EXCEPT ![t] = @ + 1]
    /\ UNCHANGED <<lock, processInit, numberOfClients, perProcessGPA, common, shared,
                   tlsInit, pool, key, previous, adopted>>

FillKeywords(t) ==
    /\ Goto(t, "FillKeywords", "idle")
    /\ keywordMap' = "ready"
    /\ refs' = [refs EXCEPT ![t] = @ + 1]
    /\ UNCHANGED <<lock, processInit, numberOfClients, perProcessGPA, common, shared,
                   tlsInit, pool, key, previous, adopted>>

-----------------------------------------------------------------------------
\* ShFinalize

(* The count is dropped under the lock; the deletions that follow are not   *)
(* under it.                                                                *)
FinalizeCount(t) ==
    /\ t \in Clients
    /\ refs[t] > 0
    /\ LockFree
    /\ Goto(t, "idle", IF LastClient THEN "DeleteShared" ELSE "idle")
    /\ numberOfClients' = ClientGone
    /\ refs' = [refs EXCEPT ![t] = @ - 1]
    /\ UNCHANGED <<lock, processInit, perProcessGPA, keywordMap, common, shared,
                   tlsInit, pool, key, previous, adopted>>

DeleteShared(t) ==
    /\ Goto(t, "DeleteShared", "DeleteCommon")
    /\ shared' = TablesDeleted(shared)
    /\ UNCHANGED <<lock, processInit, numberOfClients, perProcessGPA, keywordMap, common,
                   tlsInit, pool, refs, key, previous, adopted>>

DeleteCommon(t) ==
    /\ Goto(t, "DeleteCommon", "DeleteGPA")
    /\ common' = TablesDeleted(common)
    /\ UNCHANGED <<lock, processInit, numberOfClients, perProcessGPA, keywordMap, shared,
                   tlsInit, pool, refs, key, previous, adopted>>

DeleteGPA(t) ==
    /\ Goto(t, "DeleteGPA", "DeleteKeywords")
    /\ perProcessGPA' = FALSE
    /\ UNCHANGED <<lock, processInit, numberOfClients, keywordMap, common, shared,
                   tlsInit, pool, refs, key, previous, adopted>>

DeleteKeywords(t) ==
    /\ Goto(t, "DeleteKeywords", "idle")
    /\ keywordMap' = "null"
    /\ UNCHANGED <<lock, processInit, numberOfClients, perProcessGPA, common, shared,
                   tlsInit, pool, refs, key, previous, adopted>>

-----------------------------------------------------------------------------
\* The embedding program: a client lets the workers run and waits for them

Serve(t) ==
    /\ t \in Clients
    /\ refs[t] > 0
    /\ Goto(t, "idle", "serving")
    /\ UNCHANGED <<globals, tlsInit, pool, refs, key, previous, adopted>>

Join(t) ==
    /\ \A w \in Workers : pc[w] = "idle"
    /\ Goto(t, "serving", "idle")
    /\ UNCHANGED <<globals, tlsInit, pool, refs, key, previous, adopted>>

MayCompile(t) == IF t \in Clients THEN refs[t] > 0 ELSE \E c \in Clients : pc[c] = "serving"

-----------------------------------------------------------------------------
\* A compile: ShConstructCompiler and ShCompile, or TShader and its parse()

\* InitThread, then the object's own pool becomes the thread's pool.
StartCompile(t, k) ==
    /\ MayCompile(t)
    /\ processInit
    /\ Goto(t, "idle", "SetupLock")
    /\ tlsInit' = [tlsInit EXCEPT ![t] = TRUE]
    /\ pool' = [pool EXCEPT ![t] = "own"]
    /\ key' = [key EXCEPT ![t] = k]
    /\ UNCHANGED <<globals, refs, previous, adopted>>

\* SetupBuiltinSymbolTable, from the lock to its release
SetupLock(t) ==
    /\ LockFree
    /\ Goto(t, "SetupLock", "SetupCheck")
    /\ lock' = t
    /\ UNCHANGED <<processInit, numberOfClients, perProcessGPA, keywordMap, common, shared,
                   tlsInit, pool, refs, key, previous, adopted>>

SetupCached(t) ==
    /\ Cached(t)
    /\ Goto(t, "SetupCheck", "ReadCache")
    /\ Release(t)
    /\ UNCHANGED <<processInit, numberOfClients, perProcessGPA, keywordMap, common, shared,
                   tlsInit, pool, refs, key, previous, adopted>>

SetupSwitch(t) ==
    /\ ~Cached(t)
    /\ Goto(t, "SetupCheck", "Build")
    /\ previous' = [previous EXCEPT ![t] = pool[t]]
    /\ pool' = [pool EXCEPT ![t] = "builtin"]
    /\ UNCHANGED <<globals, tlsInit, refs, key, adopted>>

(* InitializeSymbolTables fills the local tables from the new pool, then    *)
(* the thread switches to the process-global pool.  For an unbuildable key  *)
(* it returns false, which the caller ignores: the local tables stay empty  *)
(* and nothing is published.                                                *)
Build(t) ==
    /\ Goto(t, "Build", IF key[t] \in Unbuildable THEN "SetupDone" ELSE "NewCommon")
    /\ pool' = [pool EXCEPT ![t] = "gpa"]
    /\ UNCHANGED <<globals, tlsInit, refs, key, previous, adopted>>

Publish(t, from, to, common1, shared1) ==
    /\ Goto(t, from, to)
    /\ common' = [common EXCEPT ![key[t]] = common1]
    /\ shared' = [shared EXCEPT ![key[t]] = shared1]
    /\ UNCHANGED <<lock, processInit, numberOfClients, perProcessGPA, keywordMap,
                   tlsInit, pool, refs, key, previous, adopted>>

\* new TSymbolTable stored in the global array, then copyTable and readOnly
NewCommon(t)  == Publish(t, "NewCommon", "CopyCommon", "copying", shared[key[t]])
CopyCommon(t) == Publish(t, "CopyCommon", "NewShared", "ready", shared[key[t]])
NewShared(t)  == Publish(t, "NewShared", "CopyShared", common[key[t]], "copying")
CopyShared(t) == Publish(t, "CopyShared", "SetupDone", common[key[t]], "ready")

\* The local tables and their pool are deleted; the thread's pool is restored.
SetupDone(t) ==
    /\ Goto(t, "SetupDone", "ReadCache")
    /\ pool' = [pool EXCEPT ![t] = PoolAfterSetup(t)]
    /\ Release(t)
    /\ UNCHANGED <<processInit, numberOfClients, perProcessGPA, keywordMap, common, shared,
                   tlsInit, refs, key, previous, adopted>>

(* ProcessDeferred reads SharedSymbolTables without the lock and adopts the *)
(* levels of what it finds, if anything; AddContextSpecificSymbols then     *)
(* fails for an unbuildable key.                                            *)
ReadCache(t) ==
    /\ Goto(t, "ReadCache", IF key[t] \in Unbuildable THEN "EndCompile" ELSE "Parse")
    /\ adopted' = [adopted EXCEPT ![t] = shared[key[t]] # "null"]
    /\ UNCHANGED <<globals, tlsInit, pool, refs, key, previous>>

\* Parsing looks symbols up in the adopted levels and words in the keyword map.
Parse(t) ==
    /\ Goto(t, "Parse", "EndCompile")
    /\ UNCHANGED <<globals, tlsInit, pool, refs, key, previous, adopted>>

(* The compile's symbol table goes; ShDestruct or ~TShader may delete the   *)
(* pool that the thread still points to.                                    *)
EndCompile(t) ==
    /\ Goto(t, "EndCompile", "idle")
    /\ adopted' = [adopted EXCEPT ![t] = FALSE]
    /\ \E p \in {"own", "freed"} : pool' = [pool EXCEPT ![t] = p]
    /\ UNCHANGED <<globals, tlsInit, refs, key, previous>>

-----------------------------------------------------------------------------
Initialize(t) == \/ InitGlobalLock(t) \/ InitProcess(t) \/ CountClient(t) \/ CheckGPA(t)
                 \/ NewGPA(t) \/ CheckKeywords(t) \/ FillKeywords(t)
Finalize(t)   == \/ FinalizeCount(t) \/ DeleteShared(t) \/ DeleteCommon(t)
                 \/ DeleteGPA(t) \/ DeleteKeywords(t)
Embed(t)      == Serve(t) \/ Join(t)
Setup(t)      == \/ SetupLock(t) \/ SetupCached(t) \/ SetupSwitch(t) \/ Build(t)
                 \/ NewCommon(t) \/ CopyCommon(t) \/ NewShared(t) \/ CopyShared(t)
                 \/ SetupDone(t)
Compile(t)    == \/ \E k \in Keys : StartCompile(t, k)
                 \/ Setup(t) \/ ReadCache(t) \/ Parse(t) \/ EndCompile(t)

Next == \E t \in Threads : Initialize(t) \/ Finalize(t) \/ Embed(t) \/ Compile(t)

Spec == Init /\ [][Next]_vars

-----------------------------------------------------------------------------
TypeOK ==
    /\ lock \in Threads \cup {NoThread}
    /\ processInit \in BOOLEAN
    /\ numberOfClients \in Nat
    /\ perProcessGPA \in BOOLEAN
    /\ keywordMap \in {"null", "filling", "ready"}
    /\ common \in [Keys -> TableState]
    /\ shared \in [Keys -> TableState]
    /\ tlsInit \in [Threads -> BOOLEAN]
    /\ pool \in [Threads -> PoolState]
    /\ pc \in [Threads -> {"idle", "serving"} \cup InitPC \cup FinalPC \cup CompilePC]
    /\ refs \in [Threads -> 0..MaxInit]
    /\ key \in [Threads -> Keys]
    /\ previous \in [Threads -> PoolState]
    /\ adopted \in [Threads -> BOOLEAN]

(* "Make sure only one thread tries to do this at a time"                   *)
(* (ShaderLang.cpp:414): no two threads are inside                          *)
(* SetupBuiltinSymbolTable's critical section, and the process-global pool, *)
(* which has no lock of its own, is never the pool of two threads.          *)
OneBuilder ==
    \A s, t \in Threads :
        \/ pc[s] \in CriticalPC /\ pc[t] \in CriticalPC
        \/ pool[s] = "gpa" /\ pool[t] = "gpa"
        => s = t

(* Nothing is used after ShFinalize deleted it or before it is complete: a  *)
(* parse finds the keyword map, and the adopted levels with the pool they   *)
(* live in; a builder finds the keyword map and the process-global pool.    *)
SharedStateInUse(t) ==
    /\ pc[t] \in CompilePC => keywordMap = "ready"
    /\ pc[t] \in CriticalPC => perProcessGPA
    /\ adopted[t] => perProcessGPA /\ common[key[t]] = "ready" /\ shared[key[t]] = "ready"
UsedStateIsLive == \A t \in Threads : SharedStateInUse(t)

(* ProcessDeferred's read of SharedSymbolTables takes no lock: when a       *)
(* thread gets there, the table of its key is complete and read-only, or    *)
(* the key has none and never will.                                         *)
ReadWithoutLock ==
    \A t \in Threads :
        pc[t] = "ReadCache" =>
            shared[key[t]] = IF key[t] \in Unbuildable THEN "null" ELSE "ready"

(* "we want to leave the current state of our thread's pool allocator       *)
(* intact" (ShaderLang.cpp:404): outside the critical section a compiling   *)
(* thread allocates from its own object's pool, never from a pool that was  *)
(* deleted or belongs to the process.                                       *)
PoolIntact ==
    \A t \in Threads : pc[t] \in CompilePC \ CriticalPC => pool[t] = "own"

(* "Call once per process to tear down everything" (ShaderLang.h:376): when *)
(* the last client is gone and no call is under way, nothing is left.       *)
TornDown ==
    numberOfClients = 0 /\ (\A t \in Threads : pc[t] = "idle") =>
        /\ ~perProcessGPA
        /\ keywordMap = "null"
        /\ \A k \in Keys : common[k] = "null" /\ shared[k] = "null"

(* A cached table is built once and then left alone until the last client   *)
(* finalizes: no step changes a complete table but ShFinalize's deletion.   *)
TablesNeverRebuilt ==
    [][\A k \in Keys :
         /\ common[k] = "ready" /\ common'[k] # "ready" => \E t \in Clients : pc[t] = "DeleteCommon"
         /\ shared[k] = "ready" /\ shared'[k] # "ready" => \E t \in Clients : pc[t] = "DeleteShared"]_vars

(* The caches implement a once-cache: a table is what the lock-free readers *)
(* can find in SharedSymbolTables, complete.                                *)
Cache == INSTANCE OnceCache WITH
    None   <- NoThread,
    tables <- {k \in Keys : shared[k] = "ready"},
    held   <- [t \in Threads |-> IF adopted[t] THEN key[t] ELSE NoThread]
ImplementsOnceCache == Cache!Spec
=============================================================================
