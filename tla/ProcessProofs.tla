--------------------------- MODULE ProcessProofs ---------------------------
(***************************************************************************)
(* Theorems about what the threads of a process use: the library,          *)
(* GlslangProcess; the tool that uses it, StandAlone; and the memory each  *)
(* thread allocates from, PoolAllocator.                                   *)
(* The first part is about the library alone, under the protocol           *)
(* ShaderLang.h documents: one client, which initializes before and        *)
(* finalizes after the threads that compile, with any number of threads    *)
(* and keys and any nesting of ShInitialize; it cites no assumption about  *)
(* the tool.  The second part is about the tool: its threads follow that   *)
(* protocol, the worklist gives every item to one thread, and the tool's   *)
(* end leaves nothing behind; for any number of threads, items and keys    *)
(* and any balanced script.  The third part is about one pool, for every   *)
(* page size, header, alignment, set of sizes and number of calls:         *)
(* TPoolAllocator never hands out memory twice, keeps what it handed out   *)
(* until its region ends, and keeps no page after that.                    *)
(***************************************************************************)
EXTENDS StandAlone, PoolAllocator, FiniteSetTheorems, SequenceTheorems, TLAPS

SingleClient(m) == m \in Threads /\ Clients = {m}

-----------------------------------------------------------------------------
(* The inductive invariant, in parts.                                       *)

Counting   == {"CheckGPA", "NewGPA", "CheckKeywords", "FillKeywords"}
LibraryUp  == perProcessGPA /\ keywordMap = "ready" /\ processInit
NoTables   == \A k \in Keys : common[k] = "null" /\ shared[k] = "null"

\* The lock is held by exactly the thread that is in the critical section.
LockInv == \A t \in Threads : pc[t] \in CriticalPC <=> lock = t

\* Workers only compile, and only while the client waits for them.
ProtocolInv(m) ==
    /\ \A w \in Workers : pc[w] \in {"idle"} \cup CompilePC
    /\ pc[m] # "serving" => \A w \in Workers : pc[w] = "idle"

\* The count is the client's unfinished initializations, and one more while
\* ShInitialize is past its increment.
CountInv(m) ==
    /\ numberOfClients = refs[m] + IF pc[m] \in Counting THEN 1 ELSE 0
    /\ pc[m] \in {"serving"} \cup CompilePC => refs[m] > 0
    /\ pc[m] \in FinalPC => refs[m] = 0
    /\ pc[m] \in InitPC => refs[m] < MaxInit

\* While the client holds a reference everything is there; from its last
\* ShFinalize to its next ShInitialize it goes, and comes back, in order.
LifetimeInv(m) ==
    /\ refs[m] > 0 => LibraryUp
    /\ pc[m] \in FinalPC => LibraryUp \/ pc[m] = "DeleteKeywords"
    /\ pc[m] = "DeleteKeywords" => ~perProcessGPA
    /\ pc[m] \in {"DeleteCommon", "DeleteGPA", "DeleteKeywords"} =>
          \A k \in Keys : shared[k] = "null"
    /\ pc[m] \in {"DeleteGPA", "DeleteKeywords"} => NoTables
    /\ refs[m] = 0 /\ pc[m] \notin FinalPC => NoTables
    /\ refs[m] = 0 /\ pc[m] \in {"idle", "InitProcess", "CountClient", "CheckGPA", "NewGPA"} =>
          ~perProcessGPA /\ keywordMap = "null"
    /\ refs[m] = 0 /\ pc[m] = "CheckKeywords" => keywordMap = "null"
    /\ pc[m] \in {"CheckKeywords", "FillKeywords"} => perProcessGPA
    /\ pc[m] \in {"CountClient"} \cup Counting => processInit
    /\ pc[m] = "FillKeywords" => refs[m] = 0

\* Where the builder is says how far the two tables of its key are, and with
\* no builder a key has both tables or neither.
TableInv(m) ==
    /\ \A k \in Unbuildable : common[k] = "null" /\ shared[k] = "null"
    /\ \A k \in Keys : shared[k] = "ready" => common[k] = "ready"
    /\ \A t \in Threads :
         /\ pc[t] \in {"Build", "NewCommon"} => common[key[t]] = "null" /\ shared[key[t]] = "null"
         /\ pc[t] \in {"NewCommon", "CopyCommon", "NewShared", "CopyShared"} => key[t] \notin Unbuildable
         /\ pc[t] = "CopyCommon" => common[key[t]] = "copying" /\ shared[key[t]] = "null"
         /\ pc[t] = "NewShared"  => common[key[t]] = "ready" /\ shared[key[t]] = "null"
         /\ pc[t] = "CopyShared" => common[key[t]] = "ready" /\ shared[key[t]] = "copying"
         /\ pc[t] \in {"SetupDone", "ReadCache", "Parse", "EndCompile"} /\ key[t] \notin Unbuildable =>
              common[key[t]] = "ready" /\ shared[key[t]] = "ready"
    /\ \A k \in Keys :
         \/ common[k] = "null" /\ shared[k] = "null"
         \/ common[k] = "ready" /\ shared[k] = "ready"
         \/ pc[m] = "DeleteCommon"
         \/ \E t \in Threads : pc[t] \in {"CopyCommon", "NewShared", "CopyShared"} /\ key[t] = k

\* The pool a thread has, and the pool it gets back.
PoolInv ==
    \A t \in Threads :
        /\ pc[t] \in {"SetupLock", "SetupCheck", "ReadCache", "Parse", "EndCompile"} => pool[t] = "own"
        /\ pc[t] \in CriticalPC \ {"SetupCheck"} => previous[t] = "own"
        /\ pc[t] \notin CriticalPC => pool[t] # "gpa"

AdoptInv ==
    \A t \in Threads :
        adopted[t] => pc[t] \in {"Parse", "EndCompile"} /\ key[t] \notin Unbuildable

IInv(m) ==
    /\ TypeOK
    /\ LockInv
    /\ ProtocolInv(m)
    /\ CountInv(m)
    /\ LifetimeInv(m)
    /\ TableInv(m)
    /\ PoolInv
    /\ AdoptInv

-----------------------------------------------------------------------------
(* The initial states satisfy the invariant.                                *)
LEMMA InitIInv ==
    ASSUME ProcessAssumption, NEW m, SingleClient(m), Init
    PROVE  IInv(m)
<1> USE DEF Init
<1>1. TypeOK
  <2>1. refs \in [Threads -> 0..MaxInit]
    BY DEF ProcessAssumption
  <2> QED
    BY <2>1 DEF TypeOK, TableState, PoolState
<1>2. LockInv /\ PoolInv /\ AdoptInv
  BY DEF ProcessAssumption, LockInv, PoolInv, AdoptInv, CriticalPC
<1>3. ProtocolInv(m) /\ CountInv(m) /\ LifetimeInv(m)
  BY DEF ProcessAssumption, SingleClient, ProtocolInv, CountInv, LifetimeInv, Workers, NoTables,
         Counting, CompilePC, CriticalPC, FinalPC, InitPC
<1>4. TableInv(m)
  BY DEF ProcessAssumption, TableInv
<1> QED
  BY <1>1, <1>2, <1>3, <1>4 DEF IInv


-----------------------------------------------------------------------------
(* Each part of the invariant is preserved: one lemma per part, and in it   *)
(* one step per operation or per action.                                    *)

Step(t) == Initialize(t) \/ Finalize(t) \/ Embed(t) \/ Compile(t)

(* Every variable keeps its type.  That the count stays a natural number,   *)
(* which ShFinalize asserts, is what CountInv is needed for.                *)
LEMMA TypeOKStep ==
    ASSUME ProcessAssumption, NEW m, SingleClient(m), IInv(m), NEW t \in Threads, Step(t)
    PROVE  TypeOK'
<1> USE DEF ProcessAssumption, IInv, globals, SingleClient, Goto,
            TypeOK, TableState, PoolState, ProtocolInv, CountInv, Workers, Counting, Release, ClientGone, Cached, PoolAfterSetup, TablesDeleted, Publish, InitPC, FinalPC, CriticalPC, CompilePC
<1>1. ASSUME Initialize(t) PROVE TypeOK'
  <2>1. CASE InitGlobalLock(t)
    BY <2>1 DEF InitGlobalLock
  <2>2. CASE InitProcess(t)
    BY <2>2 DEF InitProcess
  <2>3. CASE CountClient(t)
    BY <2>3 DEF CountClient
  <2>4. CASE CheckGPA(t)
    BY <2>4 DEF CheckGPA
  <2>5. CASE NewGPA(t)
    BY <2>5 DEF NewGPA
  <2>6. CASE CheckKeywords(t)
    BY <2>6 DEF CheckKeywords
  <2>7. CASE FillKeywords(t)
    BY <2>7 DEF FillKeywords
  <2> QED
    BY <1>1, <2>1, <2>2, <2>3, <2>4, <2>5, <2>6, <2>7 DEF Initialize
<1>2. ASSUME Finalize(t) PROVE TypeOK'
  <2>1. CASE FinalizeCount(t)
    BY <2>1 DEF FinalizeCount
  <2>2. CASE DeleteShared(t)
    BY <2>2 DEF DeleteShared
  <2>3. CASE DeleteCommon(t)
    BY <2>3 DEF DeleteCommon
  <2>4. CASE DeleteGPA(t)
    BY <2>4 DEF DeleteGPA
  <2>5. CASE DeleteKeywords(t)
    BY <2>5 DEF DeleteKeywords
  <2> QED
    BY <1>2, <2>1, <2>2, <2>3, <2>4, <2>5 DEF Finalize
<1>3. ASSUME Embed(t) PROVE TypeOK'
  BY <1>3 DEF Embed, Serve, Join
<1>4. ASSUME Setup(t) PROVE TypeOK'
  BY <1>4 DEF Setup, SetupLock, SetupCached, SetupSwitch, Build, NewCommon, CopyCommon, NewShared, CopyShared, SetupDone
<1>5. ASSUME NEW k \in Keys, StartCompile(t, k) PROVE TypeOK'
  BY <1>5 DEF StartCompile
<1>6. ASSUME ReadCache(t) \/ Parse(t) \/ EndCompile(t) PROVE TypeOK'
  <2>1. CASE ReadCache(t)
    BY <2>1 DEF ReadCache
  <2>2. CASE Parse(t)
    BY <2>2 DEF Parse
  <2>3. CASE EndCompile(t)
    BY <2>3 DEF EndCompile
  <2> QED
    BY <1>6, <2>1, <2>2, <2>3
<1> QED
  BY <1>1, <1>2, <1>3, <1>4, <1>5, <1>6 DEF Step, Compile

(* The lock.  pthread_mutex_init in InitGlobalLock is harmless because the  *)
(* client initializes only when no worker is inside (ProtocolInv).          *)
LEMMA LockInvStep ==
    ASSUME ProcessAssumption, NEW m, SingleClient(m), IInv(m), NEW t \in Threads, Step(t)
    PROVE  LockInv'
<1> USE DEF ProcessAssumption, IInv, globals, SingleClient, Goto,
            TypeOK, LockInv, ProtocolInv, Workers, LockFree, Release, Publish, InitPC, FinalPC, CriticalPC, CompilePC
<1>1. ASSUME Initialize(t) PROVE LockInv'
  BY <1>1 DEF Initialize, InitGlobalLock, InitProcess, CountClient, CheckGPA, NewGPA, CheckKeywords, FillKeywords
<1>2. ASSUME Finalize(t) PROVE LockInv'
  BY <1>2 DEF Finalize, FinalizeCount, DeleteShared, DeleteCommon, DeleteGPA, DeleteKeywords
<1>3. ASSUME Embed(t) PROVE LockInv'
  BY <1>3 DEF Embed, Serve, Join
<1>4. ASSUME Setup(t) PROVE LockInv'
  BY <1>4 DEF Setup, SetupLock, SetupCached, SetupSwitch, Build, NewCommon, CopyCommon, NewShared, CopyShared, SetupDone
<1>5. ASSUME NEW k \in Keys, StartCompile(t, k) PROVE LockInv'
  BY <1>5 DEF StartCompile
<1>6. ASSUME ReadCache(t) \/ Parse(t) \/ EndCompile(t) PROVE LockInv'
  BY <1>6 DEF ReadCache, Parse, EndCompile
<1> QED
  BY <1>1, <1>2, <1>3, <1>4, <1>5, <1>6 DEF Step, Compile

(* Workers start only while the client serves, and it waits for them all.   *)
LEMMA ProtocolInvStep ==
    ASSUME ProcessAssumption, NEW m, SingleClient(m), IInv(m), NEW t \in Threads, Step(t)
    PROVE  ProtocolInv(m)'
<1> USE DEF ProcessAssumption, IInv, globals, SingleClient, Goto,
            TypeOK, ProtocolInv, Workers, MayCompile, Publish, InitPC, FinalPC, CriticalPC, CompilePC
<1>1. ASSUME Initialize(t) PROVE ProtocolInv(m)'
  BY <1>1 DEF Initialize, InitGlobalLock, InitProcess, CountClient, CheckGPA, NewGPA, CheckKeywords, FillKeywords
<1>2. ASSUME Finalize(t) PROVE ProtocolInv(m)'
  BY <1>2 DEF Finalize, FinalizeCount, DeleteShared, DeleteCommon, DeleteGPA, DeleteKeywords
<1>3. ASSUME Embed(t) PROVE ProtocolInv(m)'
  BY <1>3 DEF Embed, Serve, Join
<1>4. ASSUME Setup(t) PROVE ProtocolInv(m)'
  BY <1>4 DEF Setup, SetupLock, SetupCached, SetupSwitch, Build, NewCommon, CopyCommon, NewShared, CopyShared, SetupDone
<1>5. ASSUME NEW k \in Keys, StartCompile(t, k) PROVE ProtocolInv(m)'
  BY <1>5 DEF StartCompile
<1>6. ASSUME ReadCache(t) \/ Parse(t) \/ EndCompile(t) PROVE ProtocolInv(m)'
  BY <1>6 DEF ReadCache, Parse, EndCompile
<1> QED
  BY <1>1, <1>2, <1>3, <1>4, <1>5, <1>6 DEF Step, Compile

(* The count follows the client's calls.                                    *)
LEMMA CountInvStep ==
    ASSUME ProcessAssumption, NEW m, SingleClient(m), IInv(m), NEW t \in Threads, Step(t)
    PROVE  CountInv(m)'
<1> USE DEF ProcessAssumption, IInv, globals, SingleClient, Goto,
            TypeOK, CountInv, ProtocolInv, Workers, Counting, MayCompile, ClientGone, LastClient, Publish, InitPC, FinalPC, CriticalPC, CompilePC
<1>1. ASSUME Initialize(t) PROVE CountInv(m)'
  <2>1. CASE InitGlobalLock(t)
    BY <2>1 DEF InitGlobalLock
  <2>2. CASE InitProcess(t)
    BY <2>2 DEF InitProcess
  <2>3. CASE CountClient(t)
    BY <2>3 DEF CountClient
  <2>4. CASE CheckGPA(t)
    BY <2>4 DEF CheckGPA
  <2>5. CASE NewGPA(t)
    BY <2>5 DEF NewGPA
  <2>6. CASE CheckKeywords(t)
    BY <2>6 DEF CheckKeywords
  <2>7. CASE FillKeywords(t)
    BY <2>7 DEF FillKeywords
  <2> QED
    BY <1>1, <2>1, <2>2, <2>3, <2>4, <2>5, <2>6, <2>7 DEF Initialize
<1>2. ASSUME Finalize(t) PROVE CountInv(m)'
  <2>1. CASE FinalizeCount(t)
    BY <2>1 DEF FinalizeCount
  <2>2. CASE DeleteShared(t)
    BY <2>2 DEF DeleteShared
  <2>3. CASE DeleteCommon(t)
    BY <2>3 DEF DeleteCommon
  <2>4. CASE DeleteGPA(t)
    BY <2>4 DEF DeleteGPA
  <2>5. CASE DeleteKeywords(t)
    BY <2>5 DEF DeleteKeywords
  <2> QED
    BY <1>2, <2>1, <2>2, <2>3, <2>4, <2>5 DEF Finalize
<1>3. ASSUME Embed(t) PROVE CountInv(m)'
  BY <1>3 DEF Embed, Serve, Join
<1>4. ASSUME Setup(t) PROVE CountInv(m)'
  BY <1>4 DEF Setup, SetupLock, SetupCached, SetupSwitch, Build, NewCommon, CopyCommon, NewShared, CopyShared, SetupDone
<1>5. ASSUME NEW k \in Keys, StartCompile(t, k) PROVE CountInv(m)'
  BY <1>5 DEF StartCompile
<1>6. ASSUME ReadCache(t) \/ Parse(t) \/ EndCompile(t) PROVE CountInv(m)'
  BY <1>6 DEF ReadCache, Parse, EndCompile
<1> QED
  BY <1>1, <1>2, <1>3, <1>4, <1>5, <1>6 DEF Step, Compile

(* What exists when.  A worker's step finds the client serving, hence with a *)
(* reference (CountInv), hence with nothing being deleted.                  *)
LEMMA LifetimeInvStep ==
    ASSUME ProcessAssumption, NEW m, SingleClient(m), IInv(m), NEW t \in Threads, Step(t)
    PROVE  LifetimeInv(m)'
<1> USE DEF ProcessAssumption, IInv, globals, SingleClient, Goto,
            TypeOK, LifetimeInv, CountInv, ProtocolInv, TableInv, Workers, NoTables, LibraryUp, Counting, ClientGone, LastClient, TablesDeleted, Publish, InitPC, FinalPC, CriticalPC, CompilePC
<1>1. ASSUME Initialize(t) PROVE LifetimeInv(m)'
  <2>1. CASE InitGlobalLock(t)
    BY <2>1 DEF InitGlobalLock
  <2>2. CASE InitProcess(t)
    BY <2>2 DEF InitProcess
  <2>3. CASE CountClient(t)
    BY <2>3 DEF CountClient
  <2>4. CASE CheckGPA(t)
    BY <2>4 DEF CheckGPA
  <2>5. CASE NewGPA(t)
    BY <2>5 DEF NewGPA
  <2>6. CASE CheckKeywords(t)
    BY <2>6 DEF CheckKeywords
  <2>7. CASE FillKeywords(t)
    BY <2>7 DEF FillKeywords
  <2> QED
    BY <1>1, <2>1, <2>2, <2>3, <2>4, <2>5, <2>6, <2>7 DEF Initialize
<1>2. ASSUME Finalize(t) PROVE LifetimeInv(m)'
  <2>1. CASE FinalizeCount(t)
    BY <2>1 DEF FinalizeCount
  <2>2. CASE DeleteShared(t)
    BY <2>2 DEF DeleteShared
  <2>3. CASE DeleteCommon(t)
    BY <2>3 DEF DeleteCommon
  <2>4. CASE DeleteGPA(t)
    BY <2>4 DEF DeleteGPA
  <2>5. CASE DeleteKeywords(t)
    BY <2>5 DEF DeleteKeywords
  <2> QED
    BY <1>2, <2>1, <2>2, <2>3, <2>4, <2>5 DEF Finalize
<1>3. ASSUME Embed(t) PROVE LifetimeInv(m)'
  BY <1>3 DEF Embed, Serve, Join
<1>4. ASSUME Setup(t) PROVE LifetimeInv(m)'
  BY <1>4 DEF Setup, SetupLock, SetupCached, SetupSwitch, Build, NewCommon, CopyCommon, NewShared, CopyShared, SetupDone
<1>5. ASSUME NEW k \in Keys, StartCompile(t, k) PROVE LifetimeInv(m)'
  BY <1>5 DEF StartCompile
<1>6. ASSUME ReadCache(t) \/ Parse(t) \/ EndCompile(t) PROVE LifetimeInv(m)'
  BY <1>6 DEF ReadCache, Parse, EndCompile
<1> QED
  BY <1>1, <1>2, <1>3, <1>4, <1>5, <1>6 DEF Step, Compile

(* The tables.  Only the holder of the lock writes them, and the client     *)
(* deletes them when no thread compiles.                                    *)
LEMMA TableInvStep ==
    ASSUME ProcessAssumption, NEW m, SingleClient(m), IInv(m), NEW t \in Threads, Step(t)
    PROVE  TableInv(m)'
<1> USE DEF ProcessAssumption, IInv, globals, SingleClient, Goto,
            TypeOK, TableInv, LifetimeInv, LockInv, CountInv, ProtocolInv, Workers, NoTables, Cached, LockFree, TablesDeleted, Publish, InitPC, FinalPC, CriticalPC, CompilePC
<1>1. ASSUME Initialize(t) PROVE TableInv(m)'
  BY <1>1 DEF Initialize, InitGlobalLock, InitProcess, CountClient, CheckGPA, NewGPA, CheckKeywords, FillKeywords
<1>2. ASSUME Finalize(t) PROVE TableInv(m)'
  BY <1>2 DEF Finalize, FinalizeCount, DeleteShared, DeleteCommon, DeleteGPA, DeleteKeywords
<1>3. ASSUME Embed(t) PROVE TableInv(m)'
  BY <1>3 DEF Embed, Serve, Join
<1>4. ASSUME Setup(t) PROVE TableInv(m)'
  BY <1>4 DEF Setup, SetupLock, SetupCached, SetupSwitch, Build, NewCommon, CopyCommon, NewShared, CopyShared, SetupDone
<1>5. ASSUME NEW k \in Keys, StartCompile(t, k) PROVE TableInv(m)'
  BY <1>5 DEF StartCompile
<1>6. ASSUME ReadCache(t) \/ Parse(t) \/ EndCompile(t) PROVE TableInv(m)'
  BY <1>6 DEF ReadCache, Parse, EndCompile
<1> QED
  BY <1>1, <1>2, <1>3, <1>4, <1>5, <1>6 DEF Step, Compile

(* The pools.                                                               *)
LEMMA PoolInvStep ==
    ASSUME ProcessAssumption, NEW m, SingleClient(m), IInv(m), NEW t \in Threads, Step(t)
    PROVE  PoolInv'
<1> USE DEF ProcessAssumption, IInv, globals, SingleClient, Goto,
            TypeOK, PoolInv, LockInv, PoolAfterSetup, Publish, InitPC, FinalPC, CriticalPC, CompilePC
<1>1. ASSUME Initialize(t) PROVE PoolInv'
  BY <1>1 DEF Initialize, InitGlobalLock, InitProcess, CountClient, CheckGPA, NewGPA, CheckKeywords, FillKeywords
<1>2. ASSUME Finalize(t) PROVE PoolInv'
  BY <1>2 DEF Finalize, FinalizeCount, DeleteShared, DeleteCommon, DeleteGPA, DeleteKeywords
<1>3. ASSUME Embed(t) PROVE PoolInv'
  BY <1>3 DEF Embed, Serve, Join
<1>4. ASSUME Setup(t) PROVE PoolInv'
  BY <1>4 DEF Setup, SetupLock, SetupCached, SetupSwitch, Build, NewCommon, CopyCommon, NewShared, CopyShared, SetupDone
<1>5. ASSUME NEW k \in Keys, StartCompile(t, k) PROVE PoolInv'
  BY <1>5 DEF StartCompile
<1>6. ASSUME ReadCache(t) \/ Parse(t) \/ EndCompile(t) PROVE PoolInv'
  BY <1>6 DEF ReadCache, Parse, EndCompile
<1> QED
  BY <1>1, <1>2, <1>3, <1>4, <1>5, <1>6 DEF Step, Compile

(* Who holds adopted levels.                                                *)
LEMMA AdoptInvStep ==
    ASSUME ProcessAssumption, NEW m, SingleClient(m), IInv(m), NEW t \in Threads, Step(t)
    PROVE  AdoptInv'
<1> USE DEF ProcessAssumption, IInv, globals, SingleClient, Goto,
            TypeOK, AdoptInv, TableInv, Publish, InitPC, FinalPC, CriticalPC, CompilePC
<1>1. ASSUME Initialize(t) PROVE AdoptInv'
  BY <1>1 DEF Initialize, InitGlobalLock, InitProcess, CountClient, CheckGPA, NewGPA, CheckKeywords, FillKeywords
<1>2. ASSUME Finalize(t) PROVE AdoptInv'
  BY <1>2 DEF Finalize, FinalizeCount, DeleteShared, DeleteCommon, DeleteGPA, DeleteKeywords
<1>3. ASSUME Embed(t) PROVE AdoptInv'
  BY <1>3 DEF Embed, Serve, Join
<1>4. ASSUME Setup(t) PROVE AdoptInv'
  BY <1>4 DEF Setup, SetupLock, SetupCached, SetupSwitch, Build, NewCommon, CopyCommon, NewShared, CopyShared, SetupDone
<1>5. ASSUME NEW k \in Keys, StartCompile(t, k) PROVE AdoptInv'
  BY <1>5 DEF StartCompile
<1>6. ASSUME ReadCache(t) \/ Parse(t) \/ EndCompile(t) PROVE AdoptInv'
  BY <1>6 DEF ReadCache, Parse, EndCompile
<1> QED
  BY <1>1, <1>2, <1>3, <1>4, <1>5, <1>6 DEF Step, Compile

(* The invariant is inductive, and so holds in every reachable state.       *)
LEMMA StepIInv ==
    ASSUME ProcessAssumption, NEW m, SingleClient(m), IInv(m), [Next]_vars
    PROVE  IInv(m)'
<1>1. CASE UNCHANGED vars
  <2> USE <1>1 DEF vars
  <2>1. TypeOK' /\ LockInv' /\ PoolInv' /\ AdoptInv'
    BY DEF IInv, TypeOK, LockInv, PoolInv, AdoptInv
  <2>2. ProtocolInv(m)' /\ CountInv(m)' /\ TableInv(m)'
    BY DEF IInv, ProtocolInv, CountInv, TableInv
  <2>3. LifetimeInv(m)'
    BY DEF IInv, LifetimeInv, LibraryUp, NoTables
  <2> QED
    BY <2>1, <2>2, <2>3 DEF IInv
<1>2. ASSUME NEW t \in Threads, Step(t) PROVE IInv(m)'
  BY <1>2, TypeOKStep, LockInvStep, ProtocolInvStep, CountInvStep, LifetimeInvStep,
     TableInvStep, PoolInvStep, AdoptInvStep DEF IInv
<1> QED
  BY <1>1, <1>2 DEF Next, Step

THEOREM Invariance ==
    ASSUME ProcessAssumption, NEW m, SingleClient(m)
    PROVE  Spec => []IInv(m)
<1>1. Init => IInv(m)
  BY InitIInv
<1>2. IInv(m) /\ [Next]_vars => IInv(m)'
  BY StepIInv
<1> QED
  BY <1>1, <1>2, PTL DEF Spec

-----------------------------------------------------------------------------
(* The type invariant, for every number of threads and keys.                *)
THEOREM TypeCorrect ==
    ASSUME ProcessAssumption, NEW m, SingleClient(m)
    PROVE  Spec => []TypeOK
<1>1. IInv(m) => TypeOK
  BY DEF IInv
<1> QED
  BY <1>1, Invariance, PTL

(* One thread at a time builds tables, and one at most allocates from the   *)
(* process-global pool.                                                     *)
THEOREM OneBuilderHolds ==
    ASSUME ProcessAssumption, NEW m, SingleClient(m)
    PROVE  Spec => []OneBuilder
<1>1. IInv(m) => OneBuilder
  BY DEF IInv, LockInv, PoolInv, OneBuilder
<1> QED
  BY <1>1, Invariance, PTL

(* No thread uses the keyword map, the pool or a table before it is         *)
(* complete or after it is deleted.                                         *)
THEOREM UsedStateIsLiveHolds ==
    ASSUME ProcessAssumption, NEW m, SingleClient(m)
    PROVE  Spec => []UsedStateIsLive
<1>1. ASSUME IInv(m) PROVE UsedStateIsLive
  <2> SUFFICES ASSUME NEW t \in Threads
               PROVE  SharedStateInUse(t)
    BY DEF UsedStateIsLive
  <2>1. pc[t] \in CompilePC => refs[m] > 0
    BY <1>1 DEF IInv, SingleClient, Workers, ProtocolInv, CountInv, CompilePC, CriticalPC
  <2>2. pc[t] \in CompilePC => LibraryUp
    BY <1>1, <2>1 DEF IInv, LifetimeInv
  <2>3. adopted[t] => pc[t] \in CompilePC /\ common[key[t]] = "ready" /\ shared[key[t]] = "ready"
    BY <1>1 DEF IInv, AdoptInv, TableInv, CompilePC
  <2> QED
    BY <2>2, <2>3 DEF SharedStateInUse, LibraryUp, CompilePC
<1> QED
  BY <1>1, Invariance, PTL

(* The read of SharedSymbolTables that takes no lock finds the complete     *)
(* table.                                                                   *)
THEOREM ReadWithoutLockHolds ==
    ASSUME ProcessAssumption, NEW m, SingleClient(m)
    PROVE  Spec => []ReadWithoutLock
<1>1. IInv(m) => ReadWithoutLock
  BY DEF IInv, TypeOK, TableInv, ReadWithoutLock
<1> QED
  BY <1>1, Invariance, PTL

(* A thread gets its own pool back from SetupBuiltinSymbolTable.            *)
THEOREM PoolIntactHolds ==
    ASSUME ProcessAssumption, NEW m, SingleClient(m)
    PROVE  Spec => []PoolIntact
<1>1. IInv(m) => PoolIntact
  BY DEF IInv, PoolInv, PoolIntact, CompilePC, CriticalPC
<1> QED
  BY <1>1, Invariance, PTL

(* The last ShFinalize leaves nothing behind.                               *)
THEOREM TornDownHolds ==
    ASSUME ProcessAssumption, NEW m, SingleClient(m)
    PROVE  Spec => []TornDown
<1>1. ASSUME IInv(m) PROVE TornDown
  <2> SUFFICES ASSUME numberOfClients = 0, \A t \in Threads : pc[t] = "idle"
               PROVE  ~perProcessGPA /\ keywordMap = "null" /\ NoTables
    BY DEF TornDown, NoTables
  <2>1. pc[m] = "idle" /\ refs[m] = 0
    BY <1>1 DEF SingleClient, IInv, TypeOK, CountInv, Counting
  <2> QED
    BY <1>1, <2>1 DEF IInv, LifetimeInv, FinalPC
<1> QED
  BY <1>1, Invariance, PTL

(* A complete table is never written again: only ShFinalize's deletion      *)
(* changes it.                                                              *)
THEOREM TablesNeverRebuiltHolds ==
    ASSUME ProcessAssumption, NEW m, SingleClient(m)
    PROVE  Spec => TablesNeverRebuilt
<1> DEFINE NotRebuilt ==
      \A k \in Keys :
        /\ common[k] = "ready" /\ common'[k] # "ready" => \E t \in Clients : pc[t] = "DeleteCommon"
        /\ shared[k] = "ready" /\ shared'[k] # "ready" => \E t \in Clients : pc[t] = "DeleteShared"
<1>1. ASSUME IInv(m), NEW t \in Threads, Step(t) PROVE NotRebuilt
  <2> USE DEF IInv, TypeOK, TableInv, ProtocolInv, Workers, SingleClient, Goto, globals, CompilePC, CriticalPC
  <2>1. CASE Initialize(t)
    BY <1>1, <2>1 DEF Initialize, InitGlobalLock, InitProcess, CountClient, CheckGPA, NewGPA,
       CheckKeywords, FillKeywords
  <2>2. CASE Finalize(t)
    BY <1>1, <2>2 DEF Finalize, FinalizeCount, DeleteShared, DeleteCommon, DeleteGPA, DeleteKeywords,
       TablesDeleted
  <2>3. CASE Embed(t)
    BY <1>1, <2>3 DEF Embed, Serve, Join
  <2>4. CASE Setup(t)
    BY <1>1, <2>4 DEF Setup, SetupLock, SetupCached, SetupSwitch, Build, NewCommon, CopyCommon,
       NewShared, CopyShared, SetupDone, Publish
  <2>5. CASE (\E k \in Keys : StartCompile(t, k)) \/ ReadCache(t) \/ Parse(t) \/ EndCompile(t)
    BY <1>1, <2>5 DEF StartCompile, ReadCache, Parse, EndCompile
  <2> QED
    BY <1>1, <2>1, <2>2, <2>3, <2>4, <2>5 DEF Step, Compile
<1>2. IInv(m) /\ [Next]_vars => [NotRebuilt]_vars
  BY <1>1 DEF Next, Step
<1> QED
  BY <1>2, Invariance, PTL DEF Spec, TablesNeverRebuilt

-----------------------------------------------------------------------------
(* The caches implement OnceCache.                                          *)

LEMMA CacheInit ==
    ASSUME ProcessAssumption, Init
    PROVE  Cache!Init
  BY DEF Init, Cache!Init

(* A step of the implementation is a step of the cache or leaves it alone:  *)
(* the table appears when CopyShared completes it, is held from ReadCache   *)
(* to EndCompile, and goes with DeleteShared.                               *)
LEMMA CacheStep ==
    ASSUME ProcessAssumption, NEW m, SingleClient(m), IInv(m), NEW t \in Threads, Step(t)
    PROVE  Cache!Next \/ UNCHANGED Cache!vars
<1> USE DEF IInv, TypeOK, Goto, globals, Cache!vars
<1>1. ASSUME Initialize(t) PROVE UNCHANGED Cache!vars
  BY <1>1 DEF Initialize, InitGlobalLock, InitProcess, CountClient, CheckGPA, NewGPA,
     CheckKeywords, FillKeywords
<1>2. CASE Finalize(t)
  <2>1. CASE DeleteShared(t)
    <3>1. t = m /\ \A w \in Workers : pc[w] = "idle"
      BY <2>1 DEF DeleteShared, SingleClient, ProtocolInv, Workers, CompilePC, CriticalPC
    <3>2. \A s \in Threads : ~adopted[s]
      BY <2>1, <3>1 DEF DeleteShared, AdoptInv, Workers, SingleClient
    <3> QED
      BY <2>1, <3>2 DEF DeleteShared, TablesDeleted, Cache!Next, Cache!Clear
  <2>2. CASE FinalizeCount(t) \/ DeleteCommon(t) \/ DeleteGPA(t) \/ DeleteKeywords(t)
    BY <2>2 DEF FinalizeCount, DeleteCommon, DeleteGPA, DeleteKeywords
  <2> QED
    BY <1>2, <2>1, <2>2 DEF Finalize
<1>3. CASE Embed(t)
  BY <1>3 DEF Embed, Serve, Join
<1>4. CASE Setup(t)
  <2>1. CASE CopyShared(t)
    <3>1. key[t] \in Keys /\ shared[key[t]] = "copying" /\ shared' = [shared EXCEPT ![key[t]] = "ready"]
      BY <2>1 DEF CopyShared, Publish, TableInv
    <3>2. \E k \in Keys : Cache!Make(k)
      BY <2>1, <3>1 DEF CopyShared, Publish, Cache!Make
    <3> QED
      BY <3>2 DEF Cache!Next
  <2>2. CASE NewShared(t)
    BY <2>2 DEF NewShared, Publish, TableInv
  <2>3. CASE NewCommon(t) \/ CopyCommon(t)
    BY <2>3 DEF NewCommon, CopyCommon, Publish
  <2>4. CASE SetupLock(t) \/ SetupCached(t) \/ SetupSwitch(t) \/ Build(t) \/ SetupDone(t)
    BY <2>4 DEF SetupLock, SetupCached, SetupSwitch, Build, SetupDone
  <2> QED
    BY <1>4, <2>1, <2>2, <2>3, <2>4 DEF Setup
<1>5. ASSUME NEW k \in Keys, StartCompile(t, k) PROVE UNCHANGED Cache!vars
  BY <1>5 DEF StartCompile, AdoptInv
<1>6. CASE ReadCache(t)
  <2>1. ~adopted[t] /\ key[t] \in Keys
    BY <1>6 DEF ReadCache, AdoptInv
  <2>2. CASE shared[key[t]] = "ready"
    <3>1. \E k \in Keys : Cache!Hold(t, k)
      BY <1>6, <2>1, <2>2 DEF ReadCache, Cache!Hold
    <3> QED
      BY <3>1 DEF Cache!Next
  <2>3. CASE shared[key[t]] # "ready"
    BY <1>6, <2>1, <2>3 DEF ReadCache, TableInv
  <2> QED
    BY <2>2, <2>3
<1>7. CASE Parse(t)
  BY <1>7 DEF Parse
<1>8. CASE EndCompile(t)
  <2>1. Cache!Drop(t)
    BY <1>8 DEF EndCompile, Cache!Drop
  <2> QED
    BY <2>1 DEF Cache!Next
<1> QED
  BY <1>1, <1>2, <1>3, <1>4, <1>5, <1>6, <1>7, <1>8 DEF Step, Compile

(* The caches behave as a once-cache: a table is made once, handed out only *)
(* complete, and cleared only when no thread holds one.                     *)
THEOREM OnceCacheHolds ==
    ASSUME ProcessAssumption, NEW m, SingleClient(m)
    PROVE  Spec => ImplementsOnceCache
<1>1. IInv(m) /\ [Next]_vars => [Cache!Next]_(Cache!vars)
  <2>1. ASSUME UNCHANGED vars PROVE UNCHANGED Cache!vars
    BY <2>1 DEF vars, Cache!vars
  <2> QED
    BY <2>1, CacheStep DEF Next, Step
<1> QED
  BY <1>1, CacheInit, Invariance, PTL DEF Spec, ImplementsOnceCache, Cache!Spec

-----------------------------------------------------------------------------
\* The tool

Running == {"remove", "construct", "compile", "store"}
Calls(what, n) == Cardinality({i \in 1 .. n : Script[i] = what})

ToolTypeInv ==
    /\ compilers \in {Workers, {Main}}
    /\ worklist \in Seq(ItemSet)
    /\ item \in [Threads -> ItemSet \cup {NoItem}]
    /\ loop \in [Threads -> Running \cup {"none", "returned"}]
    /\ results \in SUBSET ItemSet
    /\ call \in 1 .. Len(Script) + 1

(* Where a thread is in CompileShaders says whether it holds an item; one   *)
(* that returned without an item found the list empty.                      *)
HoldInv ==
    \A t \in Threads :
        /\ loop[t] \in {"none", "remove"} => item[t] = NoItem
        /\ loop[t] \in {"construct", "compile", "store"} => item[t] # NoItem
        /\ loop[t] = "returned" /\ item[t] = NoItem => worklist = <<>>
        /\ t \notin compilers => loop[t] = "none"

ListInv ==
    /\ EachItemOnce
    /\ \A i, j \in DOMAIN worklist : worklist[i] = worklist[j] => i = j

(* What runs inside the library belongs to the call Main is at.             *)
WhereInv ==
    /\ \A t \in Threads : loop[t] = "compile" <=> pc[t] \in CompilePC
    /\ \A t \in Threads : loop[t] \in Running => Doing("run")
    /\ pc[Main] \in InitPC => Doing("init")
    /\ pc[Main] \in FinalPC => Doing("final")
    /\ pc[Main] = "serving" => Doing("run") /\ Main \notin compilers

(* Main's references are the calls it has made and not undone.              *)
ReferenceInv ==
    refs[Main] + Calls("final", call - 1) + (IF pc[Main] \in FinalPC THEN 1 ELSE 0) = Calls("init", call - 1)

ToolInv ==
    /\ IInv(Main) /\ ToolTypeInv /\ HoldInv /\ ListInv /\ WhereInv /\ ReferenceInv
    /\ PrintsAllResults

-----------------------------------------------------------------------------
\* The script and the steps of the library

LEMMA Assumed ==
    /\ SingleClient(Main) /\ Main \in Threads /\ ProcessAssumption /\ Main \notin Workers /\ Workers \subseteq Threads
    /\ \A x \in ItemSet : KeyOf[x] \in Keys
    /\ NoItem \notin ItemSet
    /\ Len(Script) \in Nat /\ Script \in Seq({"init", "final", "run", "print"})
BY ProcessAssumption, StandAloneAssumption DEF ProcessAssumption, StandAloneAssumption, SingleClient, Workers

LEMMA CallsType ==
    ASSUME NEW what, NEW n \in Nat
    PROVE  Calls(what, n) \in Nat
<1>1. {i \in 1 .. n : Script[i] = what} \in SUBSET (1 .. n)
  OBVIOUS
<1>2. IsFiniteSet({i \in 1 .. n : Script[i] = what})
  <2>1. IsFiniteSet(1 .. n)
    BY FS_Interval
  <2>. QED  BY <1>1, <2>1, FS_Subset, Zenon
<1>. QED  BY <1>2, FS_CardinalityType DEF Calls

(* A position of the script adds one to the count of its own call.          *)
LEMMA CallsGrow ==
    ASSUME NEW what, NEW n \in Nat
    PROVE  /\ Script[n + 1] = what => Calls(what, n + 1) = Calls(what, n) + 1
           /\ Script[n + 1] # what => Calls(what, n + 1) = Calls(what, n)
<1>. DEFINE S == {i \in 1 .. n : Script[i] = what}
            T == {i \in 1 .. n + 1 : Script[i] = what}
<1>1. S \in SUBSET (1 .. n)
  OBVIOUS
<1>2. IsFiniteSet(S)
  <2>1. IsFiniteSet(1 .. n)
    BY FS_Interval
  <2>. QED  BY <1>1, <2>1, FS_Subset, Zenon
<1>3. Calls(what, n) = Cardinality(S) /\ Calls(what, n + 1) = Cardinality(T)
  BY Zenon DEF Calls
<1>4. ASSUME Script[n + 1] = what PROVE T = S \cup {n + 1} /\ n + 1 \notin S
  BY <1>4
<1>5. ASSUME Script[n + 1] # what PROVE T = S
  BY <1>5
<1>. HIDE DEF S, T
<1>6. ASSUME Script[n + 1] = what PROVE Cardinality(T) = Cardinality(S) + 1
  BY <1>2, <1>4, <1>6, FS_AddElement
<1>. QED  BY <1>3, <1>5, <1>6

LEMMA Balanced == Calls("init", Len(Script)) = Calls("final", Len(Script)) /\ \A what : Calls(what, 0) = 0
<1>1. Calls("init", Len(Script)) = Calls("final", Len(Script))
  BY StandAloneAssumption, Zenon DEF StandAloneAssumption, Calls
<1>2. ASSUME NEW what PROVE Calls(what, 0) = 0
  <2>1. {i \in 1 .. 0 : Script[i] = what} = {}
    OBVIOUS
  <2>. QED  BY <2>1, FS_EmptySet, Zenon DEF Calls
<1>. QED  BY <1>1, <1>2

(* ShInitialize counts its reference with its last step.                    *)
LEMMA InitializeSteps ==
    ASSUME TypeOK, Initialize(Main)
    PROVE  /\ pc[Main] \in {"idle"} \cup InitPC /\ \A t \in Threads : t # Main => pc'[t] = pc[t]
           /\ \/ pc'[Main] \in InitPC /\ refs' = refs
              \/ pc'[Main] = "idle" /\ refs'[Main] = refs[Main] + 1
<1>. USE Assumed DEF TypeOK, Goto, InitPC
<1>1. CASE InitGlobalLock(Main)
  BY <1>1 DEF InitGlobalLock
<1>2. CASE InitProcess(Main)
  BY <1>2 DEF InitProcess
<1>3. CASE CountClient(Main)
  BY <1>3 DEF CountClient
<1>4. CASE CheckGPA(Main)
  BY <1>4 DEF CheckGPA
<1>5. CASE NewGPA(Main)
  BY <1>5 DEF NewGPA
<1>6. CASE CheckKeywords(Main)
  BY <1>6 DEF CheckKeywords
<1>7. CASE FillKeywords(Main)
  BY <1>7 DEF FillKeywords
<1>. QED  BY <1>1, <1>2, <1>3, <1>4, <1>5, <1>6, <1>7 DEF Initialize

(* ShFinalize gives its reference up with its first step.                   *)
LEMMA FinalizeSteps ==
    ASSUME TypeOK, Finalize(Main)
    PROVE  /\ \A t \in Threads : t # Main => pc'[t] = pc[t]
           /\ \/ /\ pc[Main] = "idle" /\ pc'[Main] \in {"idle", "DeleteShared"}
                 /\ refs'[Main] = refs[Main] - 1
              \/ pc[Main] \in FinalPC /\ pc'[Main] \in {"idle"} \cup FinalPC /\ refs' = refs
<1>. USE Assumed DEF TypeOK, Goto, FinalPC
<1>1. CASE FinalizeCount(Main)
  BY <1>1 DEF FinalizeCount
<1>2. CASE DeleteShared(Main)
  BY <1>2 DEF DeleteShared
<1>3. CASE DeleteCommon(Main)
  BY <1>3 DEF DeleteCommon
<1>4. CASE DeleteGPA(Main)
  BY <1>4 DEF DeleteGPA
<1>5. CASE DeleteKeywords(Main)
  BY <1>5 DEF DeleteKeywords
<1>. QED  BY <1>1, <1>2, <1>3, <1>4, <1>5 DEF Finalize

LEMMA CompileSteps ==
    ASSUME TypeOK, NEW t \in Threads, Setup(t) \/ ReadCache(t) \/ Parse(t) \/ EndCompile(t)
    PROVE  /\ pc[t] \in CompilePC /\ pc'[t] \in {"idle"} \cup CompilePC /\ refs' = refs
           /\ \A s \in Threads : s # t => pc'[s] = pc[s]
<1>. USE DEF TypeOK, Goto, CompilePC, CriticalPC
<1>1. CASE SetupLock(t) \/ SetupCached(t) \/ SetupSwitch(t) \/ Build(t) \/ SetupDone(t)
  BY <1>1 DEF SetupLock, SetupCached, SetupSwitch, Build, SetupDone
<1>2. CASE NewCommon(t) \/ CopyCommon(t) \/ NewShared(t) \/ CopyShared(t)
  BY <1>2 DEF NewCommon, CopyCommon, NewShared, CopyShared, Publish
<1>3. CASE ReadCache(t) \/ Parse(t) \/ EndCompile(t)
  BY <1>3 DEF ReadCache, Parse, EndCompile
<1>. QED  BY <1>1, <1>2, <1>3 DEF Setup

(* The tool does to the library's state only what some call of it does.    *)
LEMMA ToolStepIsStep ==
    ASSUME ToolInv, [ToolNext]_allVars
    PROVE  [Next]_vars
<1>1. CASE MainCalls
  BY <1>1, Assumed, Zenon DEF MainCalls, Next
<1>2. CASE Spawn
  BY <1>2, Assumed, Zenon DEF Spawn, Next, Embed
<1>3. CASE JoinAll
  BY <1>3, Assumed, Zenon DEF JoinAll, Next, Embed
<1>4. CASE PrintResults
  BY <1>4, Zenon DEF PrintResults
<1>5. ASSUME NEW t \in Threads, CompileShaders(t) PROVE [Next]_vars
  <2>1. CASE Remove(t) \/ ConstructFails(t) \/ Store(t)
    BY <2>1, Zenon DEF Remove, ConstructFails, Store
  <2>2. CASE Construct(t)
    <3>1. loop[t] = "construct" /\ item[t] \in ItemSet \cup {NoItem}
      BY <2>2 DEF ToolInv, ToolTypeInv, Construct
    <3>2. item[t] # NoItem
      BY <3>1 DEF ToolInv, HoldInv
    <3>3. KeyOf[item[t]] \in Keys
      BY <3>1, <3>2, Assumed
    <3>. QED  BY <2>2, <3>3, Zenon DEF Construct, Next, Compile
  <2>3. CASE CompileStep(t)
    BY <2>3, Zenon DEF CompileStep, Next, Compile
  <2>. QED  BY <1>5, <2>1, <2>2, <2>3, Zenon DEF CompileShaders
<1>6. CASE UNCHANGED allVars
  BY <1>6, Zenon DEF allVars
<1>. QED  BY <1>1, <1>2, <1>3, <1>4, <1>5, <1>6, Zenon DEF ToolNext, SingleMain, Terminated

LEMMA ToolTypeStep ==
    ASSUME ToolInv, ToolNext
    PROVE  ToolTypeInv'
<1>. USE DEF ToolTypeInv, Running
<1>0. ToolTypeInv
  BY DEF ToolInv
<1>1. CASE MainCalls \/ JoinAll \/ PrintResults
  <2>1. call <= Len(Script)
    BY <1>1, Zenon DEF MainCalls, JoinAll, PrintResults, Doing
  <2>2. call' \in {call, call + 1} /\ UNCHANGED <<compilers, worklist, item, loop, results>>
    BY <1>1 DEF MainCalls, JoinAll, PrintResults
  <2>. QED  BY <1>0, <2>1, <2>2, Assumed
<1>2. CASE Spawn
  BY <1>0, <1>2 DEF Spawn
<1>3. ASSUME NEW t \in Threads, Remove(t) PROVE ToolTypeInv'
  <2>1. CASE worklist = <<>>
    BY <1>0, <1>3, <2>1 DEF Remove, NothingLeft
  <2>2. CASE worklist # <<>>
    <3>1. Head(worklist) \in ItemSet /\ Tail(worklist) \in Seq(ItemSet)
      BY <1>0, <2>2
    <3>. QED  BY <1>0, <1>3, <2>2, <3>1 DEF Remove, NothingLeft, RestOfList
  <2>. QED  BY <2>1, <2>2
<1>4. ASSUME NEW t \in Threads, Store(t) PROVE ToolTypeInv'
  <2>1. item[t] \in ItemSet
    BY <1>0, <1>4 DEF Store, ToolInv, HoldInv
  <2>. QED  BY <1>0, <1>4, <2>1 DEF Store, StoredItem
<1>5. ASSUME NEW t \in Threads, Construct(t) \/ ConstructFails(t) \/ CompileStep(t) PROVE ToolTypeInv'
  <2>1. UNCHANGED <<compilers, worklist, item, results, call>>
        /\ \E to \in {"compile", "returned", "store"} : loop' = [loop EXCEPT ![t] = to]
    BY <1>5 DEF Construct, ConstructFails, CompileStep
  <2>. QED  BY <1>0, <2>1
<1>6. CASE Terminated
  BY <1>0, <1>6 DEF Terminated, allVars, toolVars
<1>. QED  BY <1>1, <1>2, <1>3, <1>4, <1>5, <1>6, Zenon DEF ToolNext, SingleMain, CompileShaders

LEMMA HoldStep ==
    ASSUME ToolInv, ToolNext
    PROVE  HoldInv'
<1>0. ToolTypeInv /\ HoldInv
  BY DEF ToolInv
<1>. USE DEF ToolTypeInv, HoldInv, Running
<1>1. CASE MainCalls \/ JoinAll \/ PrintResults
  <2>1. UNCHANGED <<compilers, worklist, item, loop, results>>
    BY <1>1 DEF MainCalls, JoinAll, PrintResults
  <2>. QED  BY <1>0, <2>1
<1>2. CASE Spawn
  BY <1>0, <1>2 DEF Spawn
<1>3. ASSUME NEW t \in Threads, Remove(t) PROVE HoldInv'
  <2>1. CASE worklist = <<>>
    BY <1>0, <1>3, <2>1 DEF Remove, NothingLeft
  <2>2. CASE worklist # <<>>
    <3>1. Head(worklist) \in ItemSet
      BY <1>0, <2>2
    <3>2. Head(worklist) # NoItem
      BY <3>1, Assumed
    <3>. QED  BY <1>0, <1>3, <2>2, <3>2 DEF Remove, NothingLeft
  <2>. QED  BY <2>1, <2>2
<1>4. ASSUME NEW t \in Threads, Store(t) PROVE HoldInv'
  BY <1>0, <1>4 DEF Store
<1>5. ASSUME NEW t \in Threads, Construct(t) \/ ConstructFails(t) \/ CompileStep(t) PROVE HoldInv'
  <2>1. UNCHANGED <<compilers, worklist, item, results, call>>
        /\ loop[t] \in {"construct", "compile"}
        /\ \E to \in {"compile", "returned", "store"} : loop' = [loop EXCEPT ![t] = to]
    BY <1>5 DEF Construct, ConstructFails, CompileStep
  <2>. QED  BY <1>0, <2>1
<1>6. CASE Terminated
  BY <1>0, <1>6 DEF Terminated, allVars, toolVars
<1>. QED  BY <1>1, <1>2, <1>3, <1>4, <1>5, <1>6, Zenon DEF ToolNext, SingleMain, CompileShaders

LEMMA ListStep ==
    ASSUME ToolInv, ToolNext
    PROVE  ListInv'
<1>0. ToolTypeInv /\ HoldInv /\ ListInv
  BY DEF ToolInv
<1>1. ASSUME UNCHANGED <<worklist, item, results>> PROVE ListInv'
  BY <1>0, <1>1 DEF ListInv, EachItemOnce, Listed, Taken
<1>2. ASSUME NEW t \in Threads, Remove(t), worklist # <<>> PROVE ListInv'
  <2>. DEFINE x == Head(worklist)
  <2>1. /\ item[t] = NoItem /\ item \in [Threads -> ItemSet \cup {NoItem}] /\ item' = [item EXCEPT ![t] = x]
        /\ worklist' = Tail(worklist) /\ results' = results /\ worklist \in Seq(ItemSet) /\ x \in ItemSet /\ x # NoItem
    <3>1. x \in ItemSet
      BY <1>0, <1>2 DEF ToolTypeInv
    <3>. QED  BY <1>0, <1>2, <3>1, Assumed DEF ToolTypeInv, HoldInv, Remove, NothingLeft, RestOfList
  <2>2. /\ DOMAIN worklist = 1 .. Len(worklist) /\ Len(worklist) \in Nat \ {0} /\ x = worklist[1]
        /\ Len(worklist') = Len(worklist) - 1 /\ DOMAIN worklist' = 1 .. Len(worklist) - 1
        /\ \A i \in 1 .. Len(worklist) - 1 : worklist'[i] = worklist[i + 1]
    BY <1>2, <2>1
  <2>3. \A i, j \in DOMAIN worklist : worklist[i] = worklist[j] => i = j
    BY <1>0 DEF ListInv
  <2>4. \A i, j \in DOMAIN worklist' : worklist'[i] = worklist'[j] => i = j
    BY <2>2, <2>3
  <2>5. Listed' = Listed \ {x} /\ x \in Listed
    <3>1. \A y : y \in Listed <=> \E i \in 1 .. Len(worklist) : y = worklist[i]
      BY <2>2 DEF Listed
    <3>2. \A y : y \in Listed' <=> \E i \in 1 .. Len(worklist) - 1 : y = worklist[i + 1]
      BY <2>2 DEF Listed
    <3>3. x \in Listed /\ x \notin Listed'
      BY <2>2, <2>3, <3>1, <3>2
    <3>4. \A y : y \in Listed' => y \in Listed
      BY <3>1, <3>2
    <3>5. ASSUME NEW y \in Listed, y # x PROVE y \in Listed'
      <4>1. PICK i \in 1 .. Len(worklist) : y = worklist[i]
        BY <3>1
      <4>2. i # 1
        BY <2>2, <3>5, <4>1
      <4>3. i - 1 \in 1 .. Len(worklist) - 1 /\ y = worklist[(i - 1) + 1]
        BY <2>2, <4>1, <4>2
      <4>. QED  BY <3>2, <4>3, Zenon
    <3>. QED  BY <3>3, <3>4, <3>5
  <2>. HIDE DEF x
  <2>6. Taken' = Taken \cup {x}
    BY <2>1 DEF Taken
  <2>7. x \notin Taken /\ x \notin results /\ EachItemOnce
    BY <1>0, <2>5, Zenon DEF ListInv, EachItemOnce
  <2>8. \A s \in Threads : item[s] # x
    BY <2>1, <2>7 DEF Taken
  <2>9. \A r, s \in Threads : item'[r] = item'[s] /\ item'[r] # NoItem => r = s
    BY <2>1, <2>7, <2>8 DEF EachItemOnce
  <2>10. Listed' \cup Taken' \cup results' = ItemSet
         /\ Listed' \cap Taken' = {} /\ Listed' \cap results' = {} /\ Taken' \cap results' = {}
    BY <2>1, <2>5, <2>6, <2>7 DEF EachItemOnce
  <2>. QED  BY <2>4, <2>9, <2>10, Zenon DEF ListInv, EachItemOnce
<1>3. ASSUME NEW t \in Threads, Store(t) PROVE ListInv'
  <2>. DEFINE x == item[t]
  <2>1. /\ x # NoItem /\ x \in ItemSet /\ item \in [Threads -> ItemSet \cup {NoItem}] /\ item' = [item EXCEPT ![t] = NoItem]
        /\ results' = results \cup {x} /\ worklist' = worklist
    BY <1>0, <1>3 DEF ToolTypeInv, HoldInv, Store, StoredItem
  <2>2. EachItemOnce /\ x \in Taken /\ x \notin Listed /\ x \notin results /\ \A s \in Threads : item[s] = x => s = t
    BY <1>0, <2>1 DEF ListInv, EachItemOnce, Taken
  <2>3. Taken' = Taken \ {x} /\ Listed' = Listed
    <3>1. \A s \in Threads : item'[s] = IF s = t THEN NoItem ELSE item[s]
      BY <2>1
    <3>. QED  BY <2>1, <2>2, <3>1 DEF Taken, Listed
  <2>4. \A r, s \in Threads : item'[r] = item'[s] /\ item'[r] # NoItem => r = s
    BY <2>1, <2>2 DEF EachItemOnce
  <2>. HIDE DEF x
  <2>5. Listed' \cup Taken' \cup results' = ItemSet
        /\ Listed' \cap Taken' = {} /\ Listed' \cap results' = {} /\ Taken' \cap results' = {}
    BY <2>1, <2>2, <2>3 DEF EachItemOnce
  <2>. QED  BY <1>0, <2>1, <2>4, <2>5, Zenon DEF ListInv, EachItemOnce
<1>4. CASE MainCalls \/ Spawn \/ JoinAll \/ PrintResults \/ Terminated
  BY <1>1, <1>4, Zenon DEF MainCalls, Spawn, JoinAll, PrintResults, Terminated, allVars, toolVars
<1>5. ASSUME NEW t \in Threads, Construct(t) \/ ConstructFails(t) \/ CompileStep(t) PROVE ListInv'
  BY <1>1, <1>5, Zenon DEF Construct, ConstructFails, CompileStep
<1>6. ASSUME NEW t \in Threads, Remove(t), worklist = <<>> PROVE ListInv'
  BY <1>1, <1>6 DEF Remove, NothingLeft
<1>. QED  BY <1>2, <1>3, <1>4, <1>5, <1>6, Zenon DEF ToolNext, SingleMain, CompileShaders

LEMMA WhereStep ==
    ASSUME ToolInv, ToolNext
    PROVE  WhereInv'
<1>0. ToolTypeInv /\ HoldInv /\ WhereInv /\ TypeOK
  BY DEF ToolInv, IInv
<1>00. ("idle" \notin CompilePC /\ "idle" \notin InitPC /\ "idle" \notin FinalPC) /\ InitPC \cap FinalPC = {}
       /\ InitPC \cap CompilePC = {} /\ FinalPC \cap CompilePC = {}
       /\ "serving" \notin CompilePC /\ "serving" \notin InitPC /\ "serving" \notin FinalPC
  BY DEF CompilePC, CriticalPC, InitPC, FinalPC
<1>1. CASE MainCalls
  <2>1. ~Doing("run") /\ UNCHANGED <<compilers, loop>>
    BY <1>1 DEF MainCalls, Doing
  <2>2. /\ \A t \in Threads : t # Main => pc'[t] = pc[t]
        /\ \/ pc'[Main] = "idle"
           \/ pc'[Main] \in InitPC /\ Doing("init") /\ call' = call
           \/ pc'[Main] \in FinalPC /\ Doing("final") /\ call' = call
        /\ pc[Main] \notin CompilePC
    <3>1. CASE Doing("init") /\ Initialize(Main)
      <4>1. pc'[Main] = "idle" \/ (pc'[Main] \in InitPC /\ call' = call)
        BY <1>0, <1>00, <1>1, <3>1, InitializeSteps DEF MainCalls
      <4>. QED  BY <1>0, <1>00, <3>1, <4>1, InitializeSteps
    <3>2. CASE Doing("final") /\ Finalize(Main)
      <4>1. pc'[Main] = "idle" \/ (pc'[Main] \in FinalPC /\ call' = call)
        BY <1>0, <1>00, <1>1, <3>2, FinalizeSteps DEF MainCalls, FinalPC
      <4>. QED  BY <1>0, <1>00, <3>2, <4>1, FinalizeSteps
    <3>. QED  BY <1>1, <3>1, <3>2 DEF MainCalls
  <2>3. \A t \in Threads : loop[t] \notin Running
    BY <1>0, <2>1, Zenon DEF WhereInv
  <2>4. \A t \in Threads : pc'[t] \notin CompilePC
    BY <1>0, <1>00, <2>2, <2>3 DEF WhereInv, Running
  <2>5. Doing("init") /\ call' = call => Doing("init")'
    BY DEF Doing
  <2>6. Doing("final") /\ call' = call => Doing("final")'
    BY DEF Doing
  <2>. QED  BY <1>00, <2>1, <2>2, <2>3, <2>4, <2>5, <2>6 DEF WhereInv, Running
<1>2. CASE Spawn
  <2>1. Doing("run") /\ Doing("run")' /\ call' = call /\ compilers' = compilers
        /\ loop' = [t \in Threads |-> IF t \in compilers THEN "remove" ELSE "none"]
        /\ \A t \in compilers : loop[t] = "none"
    BY <1>2 DEF Spawn, Doing
  <2>2. \A t \in Threads : pc[t] \notin CompilePC
    BY <1>0, <2>1 DEF WhereInv, HoldInv
  <2>3. pc[Main] \notin InitPC /\ pc[Main] \notin FinalPC
    BY <1>0, <2>1 DEF WhereInv, Doing
  <2>4. \A t \in Threads : pc'[t] = pc[t] \/ (t = Main /\ pc'[t] = "serving" /\ Main \notin compilers)
    BY <1>0, <1>2 DEF Spawn, Serve, Goto, vars, TypeOK
  <2>. QED  BY <1>0, <1>00, <2>1, <2>2, <2>3, <2>4, Assumed DEF WhereInv
<1>3. CASE JoinAll
  <2>1. Doing("run") /\ \A t \in Threads : loop[t] \in {"none", "returned"}
    BY <1>0, <1>3 DEF JoinAll, AllReturned, HoldInv
  <2>2. UNCHANGED <<compilers, loop>> /\ \A t \in Threads : pc[t] \notin CompilePC
    BY <1>0, <1>3, <2>1 DEF JoinAll, WhereInv
  <2>3. pc[Main] \notin InitPC /\ pc[Main] \notin FinalPC
    BY <1>0, <2>1 DEF WhereInv, Doing
  <2>4. pc'[Main] # "serving" /\ \A t \in Threads : pc'[t] \in {pc[t], "idle"}
    <3>1. CASE Main \in compilers
      BY <1>0, <1>3, <3>1 DEF JoinAll, WhereInv, vars
    <3>2. CASE Main \notin compilers
      BY <1>0, <1>3, <3>2, Assumed DEF JoinAll, Join, Goto, TypeOK
    <3>. QED  BY <3>1, <3>2
  <2>5. \A t \in Threads : pc'[t] \notin CompilePC
    BY <1>00, <2>2, <2>4
  <2>6. pc'[Main] \notin InitPC /\ pc'[Main] \notin FinalPC
    BY <1>00, <2>3, <2>4, Assumed
  <2>. QED  BY <2>1, <2>2, <2>4, <2>5, <2>6 DEF WhereInv, Running
<1>4. CASE PrintResults
  <2>1. ~Doing("run") /\ ~Doing("init") /\ ~Doing("final") /\ UNCHANGED <<compilers, loop, pc>>
    BY <1>4 DEF PrintResults, Doing, vars
  <2>. QED  BY <1>0, <2>1 DEF WhereInv
<1>5. ASSUME NEW t \in Threads, Remove(t) \/ ConstructFails(t) \/ Store(t) PROVE WhereInv'
  <2>1. /\ UNCHANGED <<compilers, call, pc>> /\ loop[t] \in Running \ {"compile"}
        /\ \E to \in {"construct", "remove", "returned"} : loop' = [loop EXCEPT ![t] = to]
    BY <1>5, Zenon DEF Remove, ConstructFails, Store, vars, Running
  <2>2. Doing("run") /\ Doing("run")'
    BY <1>0, <2>1 DEF WhereInv, Doing
  <2>3. Doing("init")' = Doing("init") /\ Doing("final")' = Doing("final")
    BY <2>1 DEF Doing
  <2>. QED  BY <1>0, <2>1, <2>2, <2>3 DEF WhereInv, ToolTypeInv
<1>6. ASSUME NEW t \in Threads, Construct(t) \/ CompileStep(t) PROVE WhereInv'
  <2>1. /\ UNCHANGED <<compilers, call>> /\ loop[t] \in {"construct", "compile"}
        /\ pc[t] \in {"idle"} \cup CompilePC /\ pc'[t] \in {"idle"} \cup CompilePC
        /\ loop' = [loop EXCEPT ![t] = IF pc'[t] = "idle" THEN "store" ELSE "compile"]
        /\ \A s \in Threads : s # t => pc'[s] = pc[s]
    <3>1. CASE Construct(t)
      BY <1>0, <3>1 DEF Construct, StartCompile, Goto, TypeOK, CompilePC
    <3>2. CASE CompileStep(t)
      BY <1>0, <3>2, CompileSteps DEF CompileStep
    <3>. QED  BY <1>6, <3>1, <3>2
  <2>2. Doing("run") /\ Doing("run")' /\ ~Doing("init") /\ ~Doing("final")
    BY <1>0, <2>1 DEF WhereInv, Doing, Running
  <2>3. pc[Main] \notin InitPC /\ pc[Main] \notin FinalPC
    BY <1>0, <2>2 DEF WhereInv
  <2>4. \A s \in Threads : loop'[s] = "compile" <=> pc'[s] \in CompilePC
    BY <1>0, <1>00, <2>1 DEF WhereInv, ToolTypeInv
  <2>5. pc'[Main] \notin InitPC /\ pc'[Main] \notin FinalPC /\ (pc'[Main] = "serving" => Main \notin compilers)
    BY <1>0, <1>00, <2>1, <2>3, Assumed DEF WhereInv
  <2>. QED  BY <2>1, <2>2, <2>4, <2>5 DEF WhereInv
<1>7. CASE Terminated
  <2>1. UNCHANGED <<compilers, loop, pc, call>>
    BY <1>7, Zenon DEF Terminated, allVars, toolVars, vars
  <2>. QED  BY <1>0, <2>1 DEF WhereInv, Doing
<1>. QED  BY <1>1, <1>2, <1>3, <1>4, <1>5, <1>6, <1>7, Zenon DEF ToolNext, SingleMain, CompileShaders
LEMMA ReferenceStep ==
    ASSUME ToolInv, ToolNext
    PROVE  ReferenceInv'
<1>. DEFINE Under == IF pc[Main] \in FinalPC THEN 1 ELSE 0
<1>0. /\ ToolTypeInv /\ WhereInv /\ TypeOK /\ ReferenceInv /\ refs[Main] \in Nat /\ call - 1 \in Nat
      /\ call = (call - 1) + 1
  <2>1. ToolTypeInv /\ WhereInv /\ TypeOK /\ ReferenceInv
    BY DEF ToolInv, IInv
  <2>. QED  BY <2>1, Assumed, ProcessAssumption DEF ToolTypeInv, TypeOK, ProcessAssumption
<1>00. "idle" \notin InitPC /\ "idle" \notin FinalPC /\ InitPC \cap FinalPC = {} /\ "DeleteShared" \in FinalPC
       /\ FinalPC \cap CompilePC = {} /\ "serving" \notin FinalPC
  BY DEF InitPC, FinalPC, CompilePC, CriticalPC
<1>01. Calls("init", call - 1) \in Nat /\ Calls("final", call - 1) \in Nat
  BY <1>0, CallsType
<1>02. ASSUME call' = call, refs'[Main] = refs[Main], pc'[Main] \in FinalPC <=> pc[Main] \in FinalPC
       PROVE  ReferenceInv'
  <2>1. Calls("init", call' - 1) = Calls("init", call - 1) /\ Calls("final", call' - 1) = Calls("final", call - 1)
    BY <1>02
  <2>. QED  BY <1>0, <1>02, <2>1 DEF ReferenceInv, Calls
<1>03. ASSUME NEW what \in {"init", "final", "run", "print"}, Doing(what), call' = call + 1
       PROVE  /\ Calls("init", call' - 1) = Calls("init", call - 1) + (IF what = "init" THEN 1 ELSE 0)
              /\ Calls("final", call' - 1) = Calls("final", call - 1) + (IF what = "final" THEN 1 ELSE 0)
  <2>1. Script[(call - 1) + 1] = what /\ call' - 1 = (call - 1) + 1
    BY <1>0, <1>03 DEF Doing
  <2>. QED  BY <1>0, <1>01, <2>1, CallsGrow
<1>1. ASSUME MainCalls, Doing("init"), Initialize(Main) PROVE ReferenceInv'
  <2>1. CASE pc'[Main] \in InitPC /\ refs' = refs
    <3>1. call' = call
      BY <1>1, <1>00, <2>1 DEF MainCalls
    <3>. QED  BY <1>0, <1>00, <1>02, <1>1, <2>1, <3>1, InitializeSteps
  <2>2. CASE pc'[Main] = "idle" /\ refs'[Main] = refs[Main] + 1
    <3>1. call' = call + 1
      BY <1>1, <2>2 DEF MainCalls
    <3>2. Calls("init", call' - 1) = Calls("init", call - 1) + 1 /\ Calls("final", call' - 1) = Calls("final", call - 1)
      BY <1>01, <1>03, <1>1, <3>1
    <3>3. pc[Main] \notin FinalPC /\ pc'[Main] \notin FinalPC
      BY <1>0, <1>00, <1>1, <2>2, InitializeSteps
    <3>. QED  BY <1>0, <1>01, <2>2, <3>2, <3>3 DEF ReferenceInv, Calls
  <2>. QED  BY <1>0, <1>1, <2>1, <2>2, InitializeSteps
<1>2. ASSUME MainCalls, Doing("final"), Finalize(Main) PROVE ReferenceInv'
  <2>1. CASE pc[Main] = "idle" /\ pc'[Main] \in {"idle", "DeleteShared"} /\ refs'[Main] = refs[Main] - 1
    <3>1. CASE pc'[Main] = "idle"
      <4>1. call' = call + 1
        BY <1>2, <3>1 DEF MainCalls
      <4>2. Calls("init", call' - 1) = Calls("init", call - 1) /\ Calls("final", call' - 1) = Calls("final", call - 1) + 1
        BY <1>01, <1>03, <1>2, <4>1
      <4>. QED  BY <1>0, <1>00, <1>01, <2>1, <3>1, <4>2 DEF ReferenceInv, Calls
    <3>2. CASE pc'[Main] = "DeleteShared"
      <4>1. call' = call
        BY <1>2, <3>2 DEF MainCalls
      <4>. QED  BY <1>0, <1>00, <1>01, <2>1, <3>2, <4>1 DEF ReferenceInv, Calls
    <3>. QED  BY <2>1, <3>1, <3>2
  <2>2. CASE pc[Main] \in FinalPC /\ pc'[Main] \in FinalPC /\ refs' = refs
    <3>1. call' = call
      BY <1>2, <1>00, <2>2 DEF MainCalls
    <3>. QED  BY <1>02, <2>2, <3>1
  <2>3. CASE pc[Main] \in FinalPC /\ pc'[Main] = "idle" /\ refs' = refs
    <3>1. call' = call + 1
      BY <1>2, <2>3 DEF MainCalls
    <3>2. Calls("init", call' - 1) = Calls("init", call - 1) /\ Calls("final", call' - 1) = Calls("final", call - 1) + 1
      BY <1>01, <1>03, <1>2, <3>1
    <3>. QED  BY <1>0, <1>00, <1>01, <2>3, <3>2 DEF ReferenceInv, Calls
  <2>. QED  BY <1>0, <1>2, <2>1, <2>2, <2>3, FinalizeSteps
<1>3. CASE Spawn
  <2>1. call' = call /\ Doing("run")
    BY <1>3 DEF Spawn
  <2>2. refs' = refs /\ (pc'[Main] = pc[Main] \/ pc'[Main] = "serving") /\ pc[Main] \notin FinalPC
    BY <1>0, <1>3, <2>1, Assumed DEF Spawn, Serve, Goto, vars, TypeOK, WhereInv, Doing
  <2>. QED  BY <1>00, <1>02, <2>1, <2>2
<1>4. CASE JoinAll \/ PrintResults
  <2>1. call' = call + 1 /\ refs' = refs /\ (Doing("run") \/ Doing("print"))
    BY <1>4 DEF JoinAll, PrintResults, Join, vars
  <2>2. Calls("init", call' - 1) = Calls("init", call - 1) /\ Calls("final", call' - 1) = Calls("final", call - 1)
    BY <1>01, <1>03, <2>1
  <2>3. pc[Main] \notin FinalPC
    BY <1>0, <2>1 DEF WhereInv, Doing
  <2>4. pc'[Main] = pc[Main] \/ pc'[Main] = "idle"
    BY <1>0, <1>4, Assumed DEF JoinAll, PrintResults, Join, Goto, vars, TypeOK
  <2>. QED  BY <1>0, <1>00, <1>01, <2>1, <2>2, <2>3, <2>4 DEF ReferenceInv, Calls
<1>5. ASSUME NEW t \in Threads, Remove(t) \/ ConstructFails(t) \/ Store(t) PROVE ReferenceInv'
  <2>1. UNCHANGED <<call, refs, pc>>
    BY <1>5, Zenon DEF Remove, ConstructFails, Store, vars
  <2>. QED  BY <1>02, <2>1
<1>6. ASSUME NEW t \in Threads, Construct(t) \/ CompileStep(t) PROVE ReferenceInv'
  <2>1. /\ call' = call /\ refs' = refs
        /\ pc[t] \in {"idle"} \cup CompilePC /\ pc'[t] \in {"idle"} \cup CompilePC
        /\ \A s \in Threads : s # t => pc'[s] = pc[s]
    <3>1. CASE Construct(t)
      BY <1>0, <3>1 DEF Construct, StartCompile, Goto, TypeOK, CompilePC
    <3>2. CASE CompileStep(t)
      BY <1>0, <3>2, CompileSteps DEF CompileStep
    <3>. QED  BY <1>6, <3>1, <3>2
  <2>2. pc'[Main] \in FinalPC <=> pc[Main] \in FinalPC
    BY <1>00, <2>1, Assumed
  <2>. QED  BY <1>02, <2>1, <2>2
<1>7. CASE Terminated
  <2>1. UNCHANGED <<refs, pc, call>>
    BY <1>7, Zenon DEF Terminated, allVars, toolVars, vars
  <2>. QED  BY <1>02, <2>1
<1>8. CASE MainCalls
  BY <1>1, <1>2, <1>8 DEF MainCalls
<1>. QED  BY <1>3, <1>4, <1>5, <1>6, <1>7, <1>8, Zenon DEF ToolNext, SingleMain, CompileShaders
(* Nothing is stored between a "print" and the next call of the script.     *)
LEMMA PrintStep ==
    ASSUME ToolInv, ToolNext
    PROVE  PrintsAllResults'
<1>0. ToolTypeInv /\ WhereInv /\ PrintsAllResults
  BY DEF ToolInv
<1>1. CASE PrintResults
  BY <1>1 DEF PrintResults, PrintsAllResults
<1>2. ASSUME UNCHANGED <<call, printed, results>> PROVE PrintsAllResults'
  BY <1>0, <1>2 DEF PrintsAllResults
<1>3. ASSUME call' = call + 1, Doing("init") \/ Doing("final") \/ Doing("run") PROVE PrintsAllResults'
  <2>1. call' - 1 = call /\ Script[call] # "print"
    BY <1>0, <1>3 DEF ToolTypeInv, Doing
  <2>. QED  BY <2>1 DEF PrintsAllResults
<1>4. CASE MainCalls
  <2>1. call' = call + 1 \/ UNCHANGED <<call, printed, results>>
    BY <1>4 DEF MainCalls
  <2>. QED  BY <1>2, <1>3, <1>4, <2>1 DEF MainCalls
<1>5. CASE JoinAll
  BY <1>3, <1>5 DEF JoinAll
<1>6. CASE Spawn
  BY <1>2, <1>6 DEF Spawn
<1>7. ASSUME NEW t \in Threads, Store(t) PROVE PrintsAllResults'
  <2>1. call' = call /\ Doing("run")
    BY <1>0, <1>7 DEF Store, WhereInv, Running
  <2>2. call > 1 => Script[call - 1] # "print"
    <3>1. \A i \in 2 .. Len(Script) : Script[i] = "run" => Script[i - 1] # "print"
      BY StandAloneAssumption, Zenon DEF StandAloneAssumption
    <3>2. call > 1 => call \in 2 .. Len(Script)
      BY <1>0, <2>1, Assumed DEF ToolTypeInv, Doing
    <3>. QED  BY <2>1, <3>1, <3>2 DEF Doing
  <2>. QED  BY <2>1, <2>2 DEF PrintsAllResults
<1>8. ASSUME NEW t \in Threads, Remove(t) \/ Construct(t) \/ ConstructFails(t) \/ CompileStep(t)
      PROVE  PrintsAllResults'
  BY <1>2, <1>8, Zenon DEF Remove, Construct, ConstructFails, CompileStep
<1>9. CASE Terminated
  BY <1>2, <1>9, Zenon DEF Terminated, allVars, toolVars
<1>. QED  BY <1>1, <1>4, <1>5, <1>6, <1>7, <1>8, <1>9, Zenon DEF ToolNext, SingleMain, CompileShaders

-----------------------------------------------------------------------------
(* The tool starts with every item listed.                                  *)
LEMMA InitToolInv ==
    ASSUME ToolInit
    PROVE  ToolInv
<1>1. IInv(Main)
  BY InitIInv, Assumed DEF ToolInit
<1>2. worklist = Items /\ Items \in Seq(ItemSet) /\ (\A i, j \in DOMAIN Items : Items[i] = Items[j] => i = j)
  BY StandAloneAssumption DEF StandAloneAssumption, ToolInit
<1>3. ToolTypeInv
  BY <1>2, Assumed DEF ToolInit, ToolTypeInv, Running
<1>4. HoldInv
  BY Assumed DEF ToolInit, HoldInv
<1>5. ListInv
  <2>1. Listed = ItemSet /\ Taken = {} /\ results = {}
    BY <1>2 DEF ToolInit, Listed, Taken, ItemSet
  <2>2. \A s, t \in Threads : item[s] = item[t] /\ item[s] # NoItem => s = t
    BY DEF ToolInit
  <2>. QED  BY <1>2, <2>1, <2>2 DEF ListInv, EachItemOnce
<1>6. WhereInv
  BY Assumed DEF ToolInit, Init, WhereInv, Running, CompilePC, CriticalPC, InitPC, FinalPC
<1>7. ReferenceInv
  <2>1. refs[Main] = 0 /\ pc[Main] \notin FinalPC /\ call - 1 = 0
    BY Assumed DEF ToolInit, Init, FinalPC
  <2>. QED  BY <2>1, Balanced DEF ReferenceInv
<1>8. PrintsAllResults
  BY DEF ToolInit, PrintsAllResults
<1>. QED  BY <1>1, <1>3, <1>4, <1>5, <1>6, <1>7, <1>8 DEF ToolInv

LEMMA StepToolInv ==
    ASSUME ToolInv, [ToolNext]_allVars
    PROVE  ToolInv'
<1>1. IInv(Main)'
  BY ToolStepIsStep, StepIInv, Assumed DEF ToolInv
<1>2. CASE ToolNext
  BY <1>1, <1>2, ToolTypeStep, HoldStep, ListStep, WhereStep, ReferenceStep, PrintStep DEF ToolInv
<1>3. CASE UNCHANGED allVars
  <2>. USE <1>3 DEF ToolInv, allVars, vars, toolVars
  <2>1. ToolTypeInv' /\ HoldInv'
    BY DEF ToolTypeInv, HoldInv
  <2>2. ListInv' /\ PrintsAllResults'
    BY DEF ListInv, EachItemOnce, Listed, Taken, PrintsAllResults
  <2>3. WhereInv' /\ ReferenceInv'
    BY DEF WhereInv, ReferenceInv, Doing, Calls
  <2>. QED  BY <1>1, <2>1, <2>2, <2>3
<1>. QED  BY <1>2, <1>3

(* The invariant the theorems below are read off.                           *)
THEOREM ToolInvariance == ToolSpec => []ToolInv
<1>1. ToolInit => ToolInv
  BY InitToolInv
<1>2. ToolInv /\ [ToolNext]_allVars => ToolInv'
  BY StepToolInv
<1>. QED  BY <1>1, <1>2, PTL DEF ToolSpec

(* The tool uses the library as GlslangProcess says a process may: every    *)
(* theorem about Spec, such as UsedStateIsLiveHolds, holds of its runs.     *)
THEOREM ToolFollowsProtocol == ToolSpec => Spec
<1>1. ToolInit => Init
  BY DEF ToolInit
<1>2. ToolInv /\ [ToolNext]_allVars => [Next]_vars
  BY ToolStepIsStep
<1>. QED  BY <1>1, <1>2, ToolInvariance, PTL DEF ToolSpec, Spec

(* No item is compiled twice or lost between remove() and its results,      *)
(* however many threads drain the list.                                     *)
THEOREM EachItemOnceHolds == ToolSpec => []EachItemOnce
<1>1. ToolInv => EachItemOnce
  BY DEF ToolInv, ListInv
<1>. QED  BY <1>1, ToolInvariance, PTL

(* Main prints all that was ever stored.                                    *)
THEOREM PrintsAllResultsHolds == ToolSpec => []PrintsAllResults
<1>1. ToolInv => PrintsAllResults
  BY DEF ToolInv
<1>. QED  BY <1>1, ToolInvariance, PTL

(* Items are left in the list only if every thread gave up.                 *)
THEOREM StrandedOnlyIfAllGaveUpHolds == ToolSpec => []StrandedOnlyIfAllGaveUp
<1>1. ToolInv => StrandedOnlyIfAllGaveUp
  BY Assumed DEF ToolInv, ToolTypeInv, HoldInv, StrandedOnlyIfAllGaveUp, AllReturned, GaveUp
<1>. QED  BY <1>1, ToolInvariance, PTL

(* The tool leaves nothing allocated: a balanced script brings Main's       *)
(* references back to zero.                                                 *)
THEOREM CleanExitHolds == ToolSpec => []CleanExit
<1>1. ASSUME ToolInv, Exited PROVE CleanExit
  <2>1. call - 1 = Len(Script) /\ \A what \in {"init", "final", "run", "print"} : ~Doing(what)
    BY <1>1, Assumed DEF Exited, Doing
  <2>2. \A t \in Threads : pc[t] \notin CompilePC
    BY <1>1, <2>1 DEF ToolInv, WhereInv, Running
  <2>3. pc[Main] = "idle"
    BY <1>1, <2>1, <2>2, Assumed DEF ToolInv, IInv, TypeOK, WhereInv
  <2>4. refs[Main] = 0
    <3>1. refs[Main] \in Nat
      BY <1>1, Assumed, ProcessAssumption DEF ToolInv, IInv, TypeOK, ProcessAssumption
    <3>2. pc[Main] \notin FinalPC
      BY <2>3 DEF FinalPC
    <3>3. Calls("init", Len(Script)) \in Nat
      BY CallsType, Assumed
    <3>. QED  BY <1>1, <2>1, <3>1, <3>2, <3>3, Balanced DEF ToolInv, ReferenceInv
  <2>5. IInv(Main)
    BY <1>1 DEF ToolInv
  <2>. QED  BY <2>3, <2>4, <2>5 DEF IInv, TypeOK, CountInv, Counting, LifetimeInv, NoTables, FinalPC, CleanExit
<1>2. ToolInv => CleanExit
  BY <1>1 DEF CleanExit
<1>. QED  BY <1>2, ToolInvariance, PTL

-----------------------------------------------------------------------------
(* The pool allocator.                                                      *)

\* Where region k starts: the pages above Mark(k) were taken after push k.
Mark(k) == Below(stack[k].page)

\* An offset below PageSize is the end of what the page at place i holds.
Room(offset, i) ==
    offset < PageSize =>
        /\ i \in DOMAIN inUseList
        /\ inUseList[i].pageCount = 1
        /\ offset >= HeaderSkip

Types ==
    /\ inUseList \in Seq([page : Pages, pageCount : Nat \ {0}])
    /\ freeList \subseteq Pages
    /\ currentPageOffset \in 0..PageSize
    /\ currentPageOffset % Alignment = 0
    /\ stack \in Seq([offset : 0..PageSize, page : Pages \cup {NoPage}])
    /\ \A k \in DOMAIN stack : stack[k].offset % Alignment = 0
    /\ numCalls \in 0..MaxCalls
    /\ blocks \subseteq [page : Pages \cup {NoPage}, from : Nat, to : Nat, region : Nat, call : Nat]

(* The pushes that were not popped cut the list of pages into regions, in   *)
(* the order of the pushes, and allocation goes on in the last one.         *)
Regions ==
    /\ \A k \in DOMAIN stack : stack[k].page = NoPage \/ stack[k].page \in UsedPages
    /\ \A k, l \in DOMAIN stack : k < l => Mark(k) <= Mark(l)
    /\ \A k, l \in DOMAIN stack : k < l /\ stack[l].offset < PageSize => Mark(k) < Mark(l)
    /\ \A k \in DOMAIN stack : Room(stack[k].offset, Mark(k))
    /\ Room(currentPageOffset, Len(inUseList))
    /\ \A k \in DOMAIN stack : currentPageOffset < PageSize => Mark(k) < Len(inUseList)

(* A block lies in a page of its own region, behind what was handed out of  *)
(* the page before and, if it is the page a region starts at or the last    *)
(* one, before the saved or the current offset.                             *)
InRegion(b, i) ==
    /\ inUseList[i].page = b.page
    /\ b.from >= HeaderSkip /\ b.from % Alignment = 0
    /\ b.to <= inUseList[i].pageCount * PageSize
    /\ i = Len(inUseList) => b.to <= currentPageOffset \/ currentPageOffset = PageSize
    /\ \A k \in DOMAIN stack : k <= b.region => i > Mark(k)
    /\ \A k \in DOMAIN stack : k > b.region => i <= Mark(k)
    /\ \A k \in DOMAIN stack : k > b.region /\ i = Mark(k) =>
            b.to <= stack[k].offset \/ stack[k].offset = PageSize

Placed ==
    /\ \A b \in Held : b.region <= Len(stack) /\ \E i \in DOMAIN inUseList : InRegion(b, i)
    /\ \A i \in DOMAIN inUseList : \E b \in Held : b.page = inUseList[i].page

AllocatorInv == Types /\ PagesOnce /\ Regions /\ Placed /\ BlocksDisjoint

-----------------------------------------------------------------------------
\* Alignment

LEMMA AlignedUpIs ==
    ASSUME PoolAssumption, NEW x \in Nat
    PROVE  /\ AlignedUp(x) \in Nat /\ AlignedUp(x) >= x
           /\ AlignedUp(x) % Alignment = 0
<1>1. PICK k \in Nat : k = (x + Alignment - 1) \div Alignment
  BY DEF PoolAssumption
<1>2. AlignedUp(x) = k * Alignment
  BY <1>1 DEF AlignedUp
<1>3. (k * Alignment) % Alignment = 0
  BY <1>1 DEF PoolAssumption
<1>4. x + Alignment - 1 = k * Alignment + ((x + Alignment - 1) % Alignment)
      /\ (x + Alignment - 1) % Alignment < Alignment
  BY <1>1 DEF PoolAssumption
<1> QED BY <1>1, <1>2, <1>3, <1>4 DEF PoolAssumption

\* A block that ends inside the page leaves an aligned offset inside the page.
LEMMA AlignedUpFits ==
    ASSUME PoolAssumption, NEW x \in Nat, x <= PageSize
    PROVE  AlignedUp(x) <= PageSize
<1>1. PICK k \in Nat : k = (x + Alignment - 1) \div Alignment
  BY DEF PoolAssumption
<1>2. PICK n \in Nat : PageSize = n * Alignment
  <2>1. PageSize = (PageSize \div Alignment) * Alignment + (PageSize % Alignment)
        /\ PageSize \div Alignment \in Nat
    BY DEF PoolAssumption
  <2>2. PageSize = (PageSize \div Alignment) * Alignment
    BY <2>1 DEF PoolAssumption
  <2> QED BY <2>1, <2>2
<1>3. k * Alignment <= x + Alignment - 1
  BY <1>1 DEF PoolAssumption
<1>4. k <= n
  <2>1. SUFFICES ASSUME k >= n + 1 PROVE FALSE
    BY <1>1, <1>2
  <2>2. k * Alignment >= (n + 1) * Alignment /\ (n + 1) * Alignment = n * Alignment + Alignment
    BY <1>1, <1>2, <2>1 DEF PoolAssumption
  <2> QED BY <1>2, <1>3, <2>2 DEF PoolAssumption
<1>5. k * Alignment <= n * Alignment
  BY <1>1, <1>2, <1>4 DEF PoolAssumption
<1> QED BY <1>1, <1>2, <1>5 DEF AlignedUp, PoolAssumption

LEMMA AlignedUpStays ==
    ASSUME PoolAssumption, NEW x \in Nat, x % Alignment = 0
    PROVE  AlignedUp(x) = x
<1>1. PICK n \in Nat : n = x \div Alignment
  BY DEF PoolAssumption
<1>2. x = n * Alignment
  <2>1. x = n * Alignment + (x % Alignment)
    BY <1>1 DEF PoolAssumption
  <2> QED BY <1>1, <2>1
<1>3. PICK k \in Nat : k = (x + Alignment - 1) \div Alignment
  BY DEF PoolAssumption
<1>4. k = n
  <2>1. /\ x + Alignment - 1 = k * Alignment + ((x + Alignment - 1) % Alignment)
        /\ (x + Alignment - 1) % Alignment \in 0..(Alignment - 1)
    BY <1>3 DEF PoolAssumption
  <2>2. k >= n + 1 => k * Alignment >= n * Alignment + Alignment
    BY <1>1, <1>3 DEF PoolAssumption
  <2>3. n >= k + 1 => n * Alignment >= k * Alignment + Alignment
    BY <1>1, <1>3 DEF PoolAssumption
  <2>4. Alignment \in Nat \ {0} /\ k * Alignment \in Nat /\ n * Alignment \in Nat
    BY <1>1, <1>3 DEF PoolAssumption
  <2> QED BY <1>1, <1>2, <1>3, <2>1, <2>2, <2>3, <2>4
<1> QED BY <1>2, <1>3, <1>4 DEF AlignedUp

LEMMA PageCountIs ==
    ASSUME PoolAssumption, NEW x \in Nat, x > PageSize
    PROVE  PageCount(x) \in Nat \ {0} /\ PageCount(x) > 1 /\ x <= PageCount(x) * PageSize
<1>1. PICK k \in Nat : k = (x + PageSize - 1) \div PageSize
  BY DEF PoolAssumption
<1>2. PageCount(x) = k
  BY <1>1 DEF PageCount
<1>4. x + PageSize - 1 = k * PageSize + ((x + PageSize - 1) % PageSize)
      /\ (x + PageSize - 1) % PageSize < PageSize
  BY <1>1 DEF PoolAssumption
<1>5. x <= k * PageSize
  BY <1>1, <1>4 DEF PoolAssumption
<1>6. k > 1
  <2>1. SUFFICES ASSUME k = 0 \/ k = 1 PROVE FALSE
    BY <1>1
  <2> QED BY <1>5, <2>1 DEF PoolAssumption
<1> QED BY <1>1, <1>2, <1>5, <1>6

-----------------------------------------------------------------------------
\* Places in the list of pages

LEMMA PageIs ==
    ASSUME Types, NEW i \in DOMAIN inUseList
    PROVE  /\ i \in 1..Len(inUseList) /\ Len(inUseList) \in Nat
           /\ inUseList[i].page \in Pages /\ inUseList[i].pageCount \in Nat \ {0}
<1>0. inUseList \in Seq([page : Pages, pageCount : Nat \ {0}])
  BY DEF Types
<1>1. Len(inUseList) \in Nat /\ DOMAIN inUseList = 1..Len(inUseList)
  BY <1>0
<1>2. inUseList[i] \in [page : Pages, pageCount : Nat \ {0}]
  BY <1>0, <1>1, ElementOfSeq
<1> QED BY <1>1, <1>2

LEMMA BelowIs ==
    ASSUME PoolAssumption, Types, PagesOnce, NEW i \in DOMAIN inUseList
    PROVE  Below(inUseList[i].page) = i
<1>1. inUseList[i].page # NoPage
  BY Zenon, PageIs DEF PoolAssumption
<1>2. \A j \in DOMAIN inUseList : inUseList[j].page = inUseList[i].page => j = i
  BY DEF PagesOnce
<1> QED BY <1>1, <1>2 DEF Below, PlaceOf

LEMMA MarkIs ==
    ASSUME PoolAssumption, Types, PagesOnce, Regions, NEW k \in DOMAIN stack
    PROVE  \/ stack[k].page = NoPage /\ Mark(k) = 0
           \/ Mark(k) \in DOMAIN inUseList /\ stack[k].page = inUseList[Mark(k)].page
<1>1. CASE stack[k].page = NoPage
  BY <1>1 DEF Mark, Below
<1>2. CASE stack[k].page # NoPage
  <2>1. PICK i \in DOMAIN inUseList : inUseList[i].page = stack[k].page
    BY <1>2 DEF Regions, UsedPages
  <2> QED BY <2>1, BelowIs DEF Mark
<1> QED BY <1>1, <1>2

\* Types and Regions in terms of places
LEMMA Plain ==
    ASSUME PoolAssumption, Types, PagesOnce, Regions
    PROVE  /\ Len(inUseList) \in Nat /\ DOMAIN inUseList = 1..Len(inUseList)
           /\ Len(stack) \in Nat /\ DOMAIN stack = 1..Len(stack)
           /\ \A k \in 1..Len(stack) : /\ Mark(k) \in 0..Len(inUseList)
                                       /\ stack[k].offset \in 0..PageSize
                                       /\ stack[k].page \in Pages \cup {NoPage}
           /\ PageSize \in Nat \ {0} /\ HeaderSkip \in Nat /\ HeaderSkip < PageSize
           /\ currentPageOffset \in 0..PageSize
<1>1. /\ inUseList \in Seq([page : Pages, pageCount : Nat \ {0}])
      /\ stack \in Seq([offset : 0..PageSize, page : Pages \cup {NoPage}])
  BY DEF Types
<1>2. /\ Len(inUseList) \in Nat /\ DOMAIN inUseList = 1..Len(inUseList)
      /\ Len(stack) \in Nat /\ DOMAIN stack = 1..Len(stack)
  BY <1>1
<1>3. ASSUME NEW k \in 1..Len(stack)
      PROVE  /\ Mark(k) \in 0..Len(inUseList)
             /\ stack[k].offset \in 0..PageSize
             /\ stack[k].page \in Pages \cup {NoPage}
  <2>1. stack[k] \in [offset : 0..PageSize, page : Pages \cup {NoPage}]
    BY <1>1, ElementOfSeq
  <2>2. Mark(k) \in 0..Len(inUseList)
    BY <1>2, MarkIs
  <2> QED BY <2>1, <2>2
<1>4. PageSize \in Nat \ {0} /\ HeaderSkip \in Nat /\ HeaderSkip < PageSize
  BY DEF PoolAssumption
<1>5. currentPageOffset \in 0..PageSize
  BY DEF Types
<1> QED BY <1>2, <1>3, <1>4, <1>5

\* After a step, a region starts at the place its saved page has.
LEMMA MarkAt ==
    ASSUME PoolAssumption, Types', PagesOnce', NEW k, NEW i \in DOMAIN inUseList',
           stack'[k].page = inUseList'[i].page
    PROVE  Mark(k)' = i
<1> DEFINE Page == [page : Pages, pageCount : Nat \ {0}]
<1>1. \A j \in DOMAIN inUseList' : inUseList'[j].page = stack'[k].page => j = i
  BY DEF PagesOnce
<1>2. inUseList' \in Seq(Page)
  BY DEF Types
<1>3. NoPage \notin {q.page : q \in Page}
  BY DEF PoolAssumption
<1>4. stack'[k].page # NoPage
  <2>1. i \in 1..Len(inUseList')
    BY <1>2
  <2>2. inUseList'[i] \in Page
    <3> HIDE DEF Page
    <3> QED BY <1>2, <2>1, ElementOfSeq
  <2> QED BY <1>3, <2>2
<1> QED BY <1>1, <1>4 DEF Mark, Below, PlaceOf

\* A region starts where it started as long as the pages before it stay.
LEMMA MarkStays ==
    ASSUME PoolAssumption, Types, PagesOnce, Regions, Types', PagesOnce',
           NEW k \in DOMAIN stack, stack'[k] = stack[k],
           Mark(k) <= Len(inUseList'), \A i \in 1..Mark(k) : inUseList'[i] = inUseList[i]
    PROVE  Mark(k)' = Mark(k)
<1>1. CASE stack[k].page = NoPage
  BY <1>1 DEF Mark, Below
<1>2. CASE stack[k].page # NoPage
  <2>1. /\ Mark(k) \in DOMAIN inUseList /\ stack[k].page = inUseList[Mark(k)].page
        /\ Mark(k) \in 1..Mark(k)
    BY <1>2, MarkIs, Plain
  <2>2. PICK i : i = Mark(k)
    OBVIOUS
  <2>3. inUseList' \in Seq([page : Pages, pageCount : Nat \ {0}])
    BY DEF Types
  <2>4. i \in DOMAIN inUseList' /\ inUseList'[i].page = stack'[k].page
    BY <2>1, <2>2, <2>3, Plain
  <2> QED BY <2>2, <2>4, MarkAt
<1> QED BY <1>1, <1>2

-----------------------------------------------------------------------------
\* push

LEMMA PushTypes ==
    ASSUME PoolAssumption, AllocatorInv, push
    PROVE  /\ Types' /\ PagesOnce' /\ BlocksDisjoint'
           /\ Len(stack') = Len(stack) + 1 /\ DOMAIN stack' = 1..(Len(stack) + 1)
           /\ stack'[Len(stack) + 1] = [offset |-> currentPageOffset, page |-> Top]
           /\ \A k \in 1..Len(stack) : stack'[k] = stack[k]
           /\ currentPageOffset' = PageSize
           /\ UNCHANGED <<inUseList, freeList, numCalls, blocks>>
<1> DEFINE State == [offset : 0..PageSize, page : Pages \cup {NoPage}]
           saved == [offset |-> currentPageOffset, page |-> Top]
<1>1. /\ stack' = Append(stack, saved) /\ currentPageOffset' = PageSize
      /\ UNCHANGED <<inUseList, freeList, numCalls, blocks>>
  BY DEF push
<1>2. Top \in Pages \cup {NoPage}
  <2>1. inUseList # <<>> => Len(inUseList) \in DOMAIN inUseList
    BY Plain DEF AllocatorInv, Types
  <2> QED BY <2>1, PageIs DEF Top, AllocatorInv
<1>3. stack \in Seq(State) /\ saved \in State
  BY <1>2 DEF AllocatorInv, Types
<1>4. /\ stack' \in Seq(State) /\ Len(stack') = Len(stack) + 1
      /\ \A k \in 1..Len(stack) : stack'[k] = stack[k]
      /\ stack'[Len(stack) + 1] = saved
  BY <1>1, <1>3, AppendProperties
<1>5. DOMAIN stack' = 1..(Len(stack) + 1) /\ DOMAIN stack = 1..Len(stack) /\ Len(stack) \in Nat
  BY <1>3, <1>4
<1>6. \A k \in DOMAIN stack' : stack'[k].offset % Alignment = 0
  <2>1. ASSUME NEW k \in 1..(Len(stack) + 1) PROVE stack'[k].offset % Alignment = 0
    <3>1. CASE k \in 1..Len(stack)
      BY <1>4, <1>5, <3>1 DEF AllocatorInv, Types
    <3>2. CASE k = Len(stack) + 1
      BY <1>4, <3>2 DEF AllocatorInv, Types
    <3> QED BY <1>5, <3>1, <3>2
  <2> QED BY <1>5, <2>1
<1>7. currentPageOffset' \in 0..PageSize /\ currentPageOffset' % Alignment = 0
  BY <1>1 DEF PoolAssumption
<1>8. Types'
  BY <1>1, <1>4, <1>6, <1>7 DEF AllocatorInv, Types
<1>9. PagesOnce' /\ BlocksDisjoint'
  BY <1>1 DEF AllocatorInv, PagesOnce, BlocksDisjoint, UsedPages, Held
<1> HIDE DEF State
<1> QED BY <1>1, <1>4, <1>5, <1>8, <1>9

LEMMA PushMarks ==
    ASSUME PoolAssumption, AllocatorInv, push
    PROVE  /\ \A k \in 1..Len(stack) : Mark(k)' = Mark(k)
           /\ \A k \in {Len(stack) + 1} : Mark(k)' = Len(inUseList)
<1>0. /\ Types /\ PagesOnce /\ Regions /\ Types' /\ PagesOnce'
      /\ Len(inUseList) \in Nat /\ DOMAIN inUseList = 1..Len(inUseList)
  BY PushTypes, Plain DEF AllocatorInv
<1>1. ASSUME NEW k \in 1..Len(stack) PROVE Mark(k)' = Mark(k)
  <2>1. stack'[k] = stack[k] /\ inUseList' = inUseList /\ Mark(k) <= Len(inUseList) /\ k \in DOMAIN stack
    BY <1>0, PushTypes, Plain
  <2> QED BY <1>0, <2>1, MarkStays
<1>2. ASSUME NEW k, k = Len(stack) + 1 PROVE Mark(k)' = Len(inUseList)
  <2>1. stack'[k].page = Top /\ inUseList' = inUseList
    BY <1>2, PushTypes
  <2>2. CASE inUseList = <<>>
    <3>1. stack'[k].page = NoPage
      BY <2>1, <2>2 DEF Top
    <3> QED BY <2>2, <3>1 DEF Mark, Below
  <2>3. CASE inUseList # <<>>
    <3>1. Len(inUseList) \in DOMAIN inUseList
      BY <1>0, <2>3 DEF Types
    <3> QED BY <1>0, <2>1, <2>3, <3>1, MarkAt DEF Top
  <2> QED BY <2>2, <2>3
<1> QED BY <1>1, <1>2

LEMMA PushRegions ==
    ASSUME PoolAssumption, AllocatorInv, push
    PROVE  Regions'
<1>0. /\ Types /\ PagesOnce /\ Regions
      /\ Len(inUseList) \in Nat /\ DOMAIN inUseList = 1..Len(inUseList) /\ Len(stack) \in Nat
      /\ DOMAIN stack = 1..Len(stack)
  BY Plain DEF AllocatorInv
<1> DEFINE s == Len(stack) + 1
<1>1. /\ DOMAIN stack' = 1..s /\ s \in Nat /\ currentPageOffset' = PageSize
      /\ \A k \in 1..s : k \in 1..Len(stack) \/ k = s
  BY <1>0, PushTypes
<1>2. \A k \in 1..Len(stack) : stack'[k] = stack[k] /\ Mark(k)' = Mark(k) /\ Mark(k) \in 0..Len(inUseList)
  BY <1>0, PushTypes, PushMarks, Plain
<1>3. ASSUME NEW k, k = s
      PROVE  Mark(k)' = Len(inUseList) /\ stack'[k] = [offset |-> currentPageOffset, page |-> Top]
  BY <1>3, PushTypes, PushMarks
<1>4. inUseList' = inUseList
  BY PushTypes
<1> HIDE DEF s
<1>5. \A k \in 1..s : stack'[k].page = NoPage \/ stack'[k].page \in UsedPages'
  <2>1. Top = NoPage \/ Top \in UsedPages
    <3>1. inUseList # <<>> => Len(inUseList) \in DOMAIN inUseList
      BY <1>0 DEF Types
    <3> QED BY <3>1 DEF Top, UsedPages
  <2>2. UsedPages' = UsedPages
    BY <1>4 DEF UsedPages
  <2>3. \A k \in 1..Len(stack) : stack[k].page = NoPage \/ stack[k].page \in UsedPages
    BY <1>0 DEF Regions
  <2>4. ASSUME NEW k \in 1..s PROVE stack'[k].page = NoPage \/ stack'[k].page \in UsedPages
    <3>1. CASE k \in 1..Len(stack)
      BY <1>2, <2>3, <3>1
    <3>2. CASE k = s
      BY <1>3, <2>1, <3>2
    <3> QED BY <1>1, <3>1, <3>2
  <2> QED BY <2>2, <2>4
<1>6. ASSUME NEW k \in 1..s, NEW l \in 1..s, k < l
      PROVE  Mark(k)' <= Mark(l)' /\ (stack'[l].offset < PageSize => Mark(k)' < Mark(l)')
  <2>1. k \in 1..Len(stack)
    BY <1>0, <1>6 DEF s
  <2>2. CASE l \in 1..Len(stack)
    BY <1>0, <1>2, <1>6, <2>1, <2>2, SMTT(30) DEF Regions
  <2>3. CASE l = s
    BY <1>0, <1>2, <1>3, <2>1, <2>3 DEF Regions
  <2> QED BY <1>1, <2>2, <2>3
<1>7. ASSUME NEW k \in 1..s
      PROVE  stack'[k].offset < PageSize => /\ Mark(k)' \in DOMAIN inUseList'
                                            /\ inUseList'[Mark(k)'].pageCount = 1
                                            /\ stack'[k].offset >= HeaderSkip
  <2>1. CASE k \in 1..Len(stack)
    BY <1>0, <1>2, <1>4, <2>1 DEF Regions, Room
  <2>2. CASE k = s
    BY <1>0, <1>3, <1>4, <2>2 DEF Regions, Room
  <2> QED BY <1>1, <2>1, <2>2
<1>8. ~(currentPageOffset' < PageSize)
  BY <1>1 DEF PoolAssumption
<1> QED BY <1>1, <1>5, <1>6, <1>7, <1>8 DEF Regions, Room

LEMMA PushPlaced ==
    ASSUME PoolAssumption, AllocatorInv, push
    PROVE  Placed'
<1>0. /\ Types /\ PagesOnce /\ Regions /\ Placed
      /\ Len(inUseList) \in Nat /\ DOMAIN inUseList = 1..Len(inUseList) /\ Len(stack) \in Nat
      /\ DOMAIN stack = 1..Len(stack)
  BY Plain DEF AllocatorInv
<1>1. /\ DOMAIN stack' = 1..(Len(stack) + 1) /\ Len(stack') = Len(stack) + 1
      /\ currentPageOffset' = PageSize /\ inUseList' = inUseList /\ Held' = Held
  BY PushTypes DEF Held
<1>2. ASSUME NEW b \in Held
      PROVE  b.region <= Len(stack') /\ \E i \in DOMAIN inUseList : InRegion(b, i)'
  <2>1. PICK i \in DOMAIN inUseList : InRegion(b, i)
    BY <1>0 DEF Placed
  <2>2. b.region \in Nat /\ b.region <= Len(stack)
    BY <1>0 DEF Placed, Types, Held
  <2>3. ASSUME NEW k \in DOMAIN stack'
        PROVE  /\ k <= b.region => i > Mark(k)'
               /\ k > b.region => i <= Mark(k)'
               /\ k > b.region /\ i = Mark(k)' => b.to <= stack'[k].offset \/ stack'[k].offset = PageSize
    <3>1. CASE k \in 1..Len(stack)
      <4>1. stack'[k] = stack[k] /\ Mark(k)' = Mark(k)
        BY <3>1, PushTypes, PushMarks
      <4> QED BY <1>0, <2>1, <3>1, <4>1 DEF InRegion
    <3>2. CASE k = Len(stack) + 1
      <4>1. Mark(k)' = Len(inUseList) /\ stack'[k].offset = currentPageOffset
        BY <3>2, PushTypes, PushMarks
      <4> QED BY <1>0, <2>1, <2>2, <3>2, <4>1 DEF InRegion
    <3> QED BY <1>0, <1>1, <3>1, <3>2
  <2>4. InRegion(b, i)'
    BY <1>1, <2>1, <2>3 DEF InRegion
  <2> QED BY <1>0, <1>1, <2>2, <2>4
<1> QED BY <1>0, <1>1, <1>2 DEF Placed

-----------------------------------------------------------------------------
\* pop and popAll: back to push number k

\* Which pages and which saved states are left
LEMMA BackLeaves ==
    ASSUME PoolAssumption, AllocatorInv, NEW k \in 1..Len(stack), BackTo(k)
    PROVE  /\ inUseList' \in Seq([page : Pages, pageCount : Nat \ {0}])
           /\ Len(inUseList') = Mark(k) /\ DOMAIN inUseList' = 1..Mark(k)
           /\ \A i \in 1..Mark(k) : inUseList'[i] = inUseList[i]
           /\ stack' \in Seq([offset : 0..PageSize, page : Pages \cup {NoPage}])
           /\ Len(stack') = k - 1 /\ DOMAIN stack' = 1..(k - 1)
           /\ \A l \in 1..(k - 1) : stack'[l] = stack[l]
           /\ currentPageOffset' = stack[k].offset
           /\ Mark(k) \in 0..Len(inUseList)
<1> DEFINE Page == [page : Pages, pageCount : Nat \ {0}]
           State == [offset : 0..PageSize, page : Pages \cup {NoPage}]
<1>1. /\ inUseList \in Seq(Page) /\ stack \in Seq(State)
      /\ Mark(k) \in 0..Len(inUseList) /\ Len(stack) \in Nat /\ Len(inUseList) \in Nat
  BY Plain DEF AllocatorInv, Types
<1>2. /\ inUseList' = SubSeq(inUseList, 1, Mark(k))
      /\ stack' = SubSeq(stack, 1, k - 1)
      /\ currentPageOffset' = stack[k].offset
  BY DEF BackTo, Mark, OffsetRestored
<1> HIDE DEF Page, State
<1>3. \A i \in 1..Mark(k) : inUseList[i] \in Page
  <2>1. \A i \in 1..Mark(k) : i \in 1..Len(inUseList)
    BY <1>1
  <2> QED BY <1>1, <2>1, ElementOfSeq
<1>4. \A l \in 1..(k - 1) : stack[l] \in State
  <2>1. \A l \in 1..(k - 1) : l \in 1..Len(stack)
    BY <1>1
  <2> QED BY <1>1, <2>1, ElementOfSeq
<1>5. /\ inUseList' \in Seq(Page) /\ Len(inUseList') = Mark(k)
      /\ \A i \in 1..Mark(k) : inUseList'[i] = inUseList[i]
  BY <1>1, <1>2, <1>3, SubSeqProperties
<1>6. /\ stack' \in Seq(State) /\ Len(stack') = k - 1
      /\ \A l \in 1..(k - 1) : stack'[l] = stack[l]
  BY <1>1, <1>2, <1>4, SubSeqProperties
<1>7. DOMAIN inUseList' = 1..Mark(k) /\ DOMAIN stack' = 1..(k - 1)
  BY <1>5, <1>6
<1> QED BY <1>1, <1>2, <1>5, <1>6, <1>7 DEF Page, State

LEMMA BackTypes ==
    ASSUME PoolAssumption, AllocatorInv, NEW k \in 1..Len(stack), BackTo(k)
    PROVE  Types'
<1>1. freeList' \subseteq Pages
  <2>1. \A i \in DOMAIN inUseList : inUseList[i].page \in Pages
    BY PageIs DEF AllocatorInv
  <2>2. freeList \subseteq Pages
    BY DEF AllocatorInv, Types
  <2>3. freeList' \subseteq freeList \cup {inUseList[i].page : i \in DOMAIN inUseList}
    BY DEF BackTo
  <2> QED BY <2>1, <2>2, <2>3
<1>2. currentPageOffset' \in 0..PageSize /\ currentPageOffset' % Alignment = 0
  BY BackLeaves, Plain DEF AllocatorInv, Types
<1>3. \A l \in DOMAIN stack' : stack'[l].offset % Alignment = 0
  <2>1. \A l \in 1..(k - 1) : l \in DOMAIN stack
    BY Plain DEF AllocatorInv
  <2> QED BY <2>1, BackLeaves DEF AllocatorInv, Types
<1>4. numCalls' \in 0..MaxCalls /\ blocks' \subseteq blocks
  BY DEF BackTo, AllocatorInv, Types
<1>5. blocks' \subseteq [page : Pages \cup {NoPage}, from : Nat, to : Nat, region : Nat, call : Nat]
  BY <1>4 DEF AllocatorInv, Types
<1> QED BY <1>1, <1>2, <1>3, <1>4, <1>5, BackLeaves DEF Types

LEMMA BackOnce ==
    ASSUME PoolAssumption, AllocatorInv, NEW k \in 1..Len(stack), BackTo(k)
    PROVE  PagesOnce' /\ BlocksDisjoint'
<1>0. /\ PagesOnce /\ BlocksDisjoint
      /\ Len(inUseList) \in Nat /\ DOMAIN inUseList = 1..Len(inUseList)
  BY Plain DEF AllocatorInv
<1>1. \A i \in DOMAIN inUseList' : i \in DOMAIN inUseList /\ i <= Mark(k) /\ inUseList'[i] = inUseList[i]
  <2>1. /\ Mark(k) \in 0..Len(inUseList) /\ DOMAIN inUseList' = 1..Mark(k)
        /\ \A i \in 1..Mark(k) : inUseList'[i] = inUseList[i]
    BY BackLeaves
  <2> QED BY <1>0, <2>1
<1>2. \A i, j \in DOMAIN inUseList' : inUseList'[i].page = inUseList'[j].page => i = j
  BY <1>0, <1>1 DEF PagesOnce
<1>3. ASSUME NEW i \in DOMAIN inUseList' PROVE inUseList'[i].page \notin freeList'
  <2>1. inUseList[i].page \notin freeList
    BY <1>0, <1>1 DEF PagesOnce, UsedPages
  <2>2. ASSUME NEW j \in DOMAIN inUseList, j > Mark(k) PROVE inUseList[j].page # inUseList[i].page
    <3>1. i # j
      BY <1>0, <1>1, <2>2, Plain DEF AllocatorInv
    <3> QED BY <1>0, <1>1, <3>1 DEF PagesOnce
  <2> QED BY <1>1, <2>1, <2>2 DEF BackTo, Mark
<1>4. UsedPages' \cap freeList' = {}
  BY <1>3 DEF UsedPages
<1>5. Held' \subseteq Held
  BY DEF BackTo, Held
<1>6. BlocksDisjoint'
  BY <1>0, <1>5 DEF BlocksDisjoint
<1> QED BY <1>2, <1>4, <1>6 DEF PagesOnce

LEMMA BackMarks ==
    ASSUME PoolAssumption, AllocatorInv, NEW k \in 1..Len(stack), BackTo(k), NEW l \in 1..(k - 1)
    PROVE  /\ Mark(l)' = Mark(l) /\ l \in 1..Len(stack) /\ stack'[l] = stack[l]
           /\ Mark(l) \in 0..Mark(k) /\ Mark(k) \in 0..Len(inUseList)
           /\ stack[k].offset < PageSize => Mark(l) < Mark(k)
<1>1. /\ Types /\ PagesOnce /\ Regions /\ Types' /\ PagesOnce'
      /\ l \in 1..Len(stack) /\ k \in 1..Len(stack) /\ l < k
      /\ DOMAIN stack = 1..Len(stack)
  BY BackTypes, BackOnce, Plain DEF AllocatorInv
<1>2. Mark(l) \in 0..Mark(k) /\ (stack[k].offset < PageSize => Mark(l) < Mark(k)) /\ Mark(k) \in 0..Len(inUseList)
  <2>1. Mark(l) \in 0..Len(inUseList) /\ Mark(k) \in 0..Len(inUseList)
    BY <1>1, Plain
  <2>2. Mark(l) <= Mark(k) /\ (stack[k].offset < PageSize => Mark(l) < Mark(k))
    BY <1>1 DEF Regions
  <2> QED BY <2>1, <2>2
<1>3. Mark(l) <= Len(inUseList') /\ \A i \in 1..Mark(l) : inUseList'[i] = inUseList[i]
  <2>1. Len(inUseList') = Mark(k) /\ \A i \in 1..Mark(k) : inUseList'[i] = inUseList[i]
    BY BackLeaves
  <2> QED BY <1>2, <2>1
<1>4. stack'[l] = stack[l]
  BY BackLeaves
<1> QED BY <1>1, <1>2, <1>3, <1>4, MarkStays

LEMMA BackRegions ==
    ASSUME PoolAssumption, AllocatorInv, NEW k \in 1..Len(stack), BackTo(k)
    PROVE  Regions'
<1>0. /\ Types /\ PagesOnce /\ Regions
      /\ Len(inUseList) \in Nat /\ DOMAIN inUseList = 1..Len(inUseList)
      /\ DOMAIN stack = 1..Len(stack)
      /\ DOMAIN stack' = 1..(k - 1) /\ DOMAIN inUseList' = 1..Mark(k) /\ Len(inUseList') = Mark(k)
      /\ currentPageOffset' = stack[k].offset
  BY Plain, BackLeaves DEF AllocatorInv
<1>1. ASSUME NEW l \in 1..(k - 1)
      PROVE  stack'[l].page = NoPage \/ stack'[l].page \in UsedPages'
  <2>1. \/ stack[l].page = NoPage
        \/ Mark(l) \in DOMAIN inUseList /\ stack[l].page = inUseList[Mark(l)].page
    BY <1>0, BackMarks, MarkIs
  <2>2. CASE Mark(l) \in DOMAIN inUseList /\ stack[l].page = inUseList[Mark(l)].page
    <3>1. Mark(l) \in 1..Mark(k) /\ inUseList'[Mark(l)] = inUseList[Mark(l)]
      BY <1>0, <2>2, BackMarks, BackLeaves
    <3>2. stack'[l].page = inUseList'[Mark(l)].page
      BY <2>2, <3>1, BackMarks
    <3> QED BY <1>0, <3>1, <3>2 DEF UsedPages
  <2> QED BY <2>1, <2>2, BackMarks
<1>2. ASSUME NEW l \in 1..(k - 1), NEW q \in 1..(k - 1), l < q
      PROVE  Mark(l)' <= Mark(q)' /\ (stack'[q].offset < PageSize => Mark(l)' < Mark(q)')
  <2>1. l \in DOMAIN stack /\ q \in DOMAIN stack
    BY <1>0, BackMarks
  <2>2. Mark(l) <= Mark(q) /\ (stack[q].offset < PageSize => Mark(l) < Mark(q))
    BY <1>0, <1>2, <2>1 DEF Regions
  <2>3. Mark(l)' = Mark(l) /\ Mark(q)' = Mark(q) /\ stack'[q] = stack[q]
    BY BackMarks
  <2> QED BY <2>2, <2>3
<1>3. ASSUME NEW l \in 1..(k - 1)
      PROVE  stack'[l].offset < PageSize => /\ Mark(l)' \in DOMAIN inUseList'
                                            /\ inUseList'[Mark(l)'].pageCount = 1
                                            /\ stack'[l].offset >= HeaderSkip
  <2>1. SUFFICES ASSUME stack[l].offset < PageSize
                 PROVE  /\ Mark(l) \in DOMAIN inUseList'
                        /\ inUseList'[Mark(l)].pageCount = 1
                        /\ stack[l].offset >= HeaderSkip
    BY BackMarks
  <2>2. Mark(l) \in DOMAIN inUseList /\ inUseList[Mark(l)].pageCount = 1 /\ stack[l].offset >= HeaderSkip
    BY <1>0, <2>1, BackMarks DEF Regions, Room
  <2>3. Mark(l) \in 1..Mark(k)
    BY <1>0, <2>2, BackMarks
  <2> QED BY <1>0, <2>2, <2>3, BackLeaves
<1>4. Room(currentPageOffset, Len(inUseList))'
  <2>1. SUFFICES ASSUME stack[k].offset < PageSize
                 PROVE  /\ Mark(k) \in 1..Mark(k)
                        /\ inUseList'[Mark(k)].pageCount = 1
                        /\ stack[k].offset >= HeaderSkip
    BY <1>0 DEF Room
  <2>2. Mark(k) \in DOMAIN inUseList /\ inUseList[Mark(k)].pageCount = 1 /\ stack[k].offset >= HeaderSkip
    BY <1>0, <2>1 DEF Regions, Room
  <2>3. Mark(k) \in 1..Mark(k)
    BY <1>0, <2>2
  <2> QED BY <2>2, <2>3, BackLeaves
<1>5. ASSUME NEW l \in 1..(k - 1) PROVE currentPageOffset' < PageSize => Mark(l)' < Len(inUseList')
  BY <1>0, BackMarks
<1> QED BY <1>0, <1>1, <1>2, <1>3, <1>4, <1>5 DEF Regions, Room

LEMMA BackPlaced ==
    ASSUME PoolAssumption, AllocatorInv, NEW k \in 1..Len(stack), BackTo(k)
    PROVE  Placed'
<1>0. /\ Types /\ PagesOnce /\ Regions /\ Placed
      /\ Len(inUseList) \in Nat /\ DOMAIN inUseList = 1..Len(inUseList)
      /\ Len(stack) \in Nat /\ DOMAIN stack = 1..Len(stack)
      /\ DOMAIN stack' = 1..(k - 1) /\ Len(stack') = k - 1
      /\ DOMAIN inUseList' = 1..Mark(k) /\ Len(inUseList') = Mark(k) /\ Mark(k) \in Nat
      /\ currentPageOffset' = stack[k].offset
      /\ \A i \in 1..Mark(k) : inUseList'[i] = inUseList[i] /\ i \in 1..Len(inUseList)
      /\ Held' = {b \in Held : b.region < k}
  <2>1. Held' = {b \in Held : b.region < k}
    BY DEF Held, BackTo
  <2> QED BY <2>1, Plain, BackLeaves DEF AllocatorInv
<1>1. ASSUME NEW b \in Held'
      PROVE  b.region <= Len(stack') /\ \E i \in DOMAIN inUseList' : InRegion(b, i)'
  <2>1. b \in Held /\ b.region < k /\ b.region \in Nat
    BY <1>0 DEF Types, Held
  <2>2. PICK i \in DOMAIN inUseList : InRegion(b, i)
    BY <1>0, <2>1 DEF Placed
  <2>3. i \in 1..Mark(k)
    BY <1>0, <2>1, <2>2 DEF InRegion
  <2>4. i = Len(inUseList') => b.to <= currentPageOffset' \/ currentPageOffset' = PageSize
    BY <1>0, <2>1, <2>2 DEF InRegion
  <2>5. ASSUME NEW l \in 1..(k - 1)
        PROVE  /\ l <= b.region => i > Mark(l)'
               /\ l > b.region => i <= Mark(l)'
               /\ l > b.region /\ i = Mark(l)' => b.to <= stack'[l].offset \/ stack'[l].offset = PageSize
    <3>1. l \in DOMAIN stack /\ Mark(l)' = Mark(l) /\ stack'[l] = stack[l]
      BY <1>0, BackMarks
    <3> QED BY <2>2, <3>1 DEF InRegion
  <2>6. InRegion(b, i)'
    BY <1>0, <2>2, <2>3, <2>4, <2>5 DEF InRegion
  <2> QED BY <1>0, <2>1, <2>3, <2>6
<1>2. ASSUME NEW i \in 1..Mark(k)
      PROVE  \E b \in Held' : b.page = inUseList'[i].page
  <2>1. PICK b \in Held : b.page = inUseList[i].page
    BY <1>0 DEF Placed
  <2>2. PICK j \in DOMAIN inUseList : InRegion(b, j)
    BY <1>0 DEF Placed
  <2>3. i = j
    BY <1>0, <2>1, <2>2 DEF InRegion, PagesOnce
  <2>4. b.region < k
    <3>1. b.region \in Nat
      BY <1>0 DEF Types, Held
    <3>2. k <= b.region => j > Mark(k)
      BY <1>0, <2>2 DEF InRegion
    <3> QED BY <1>0, <2>3, <3>1, <3>2
  <2> QED BY <1>0, <2>1, <2>4
<1> QED BY <1>0, <1>1, <1>2 DEF Placed

-----------------------------------------------------------------------------
\* allocate, from the current page

LEMMA InPageStep ==
    ASSUME PoolAssumption, AllocatorInv, NEW size \in Sizes, allocate(size), AllocateInPage(size)
    PROVE  AllocatorInv'
<1>0. /\ Types /\ PagesOnce /\ Regions /\ Placed /\ BlocksDisjoint
      /\ Len(inUseList) \in Nat /\ DOMAIN inUseList = 1..Len(inUseList)
      /\ Len(stack) \in Nat /\ DOMAIN stack = 1..Len(stack)
      /\ currentPageOffset \in 0..PageSize /\ PageSize \in Nat /\ size \in Nat
      /\ HeaderSkip \in Nat
  BY Plain DEF AllocatorInv, PoolAssumption
<1>n. PICK new : new = [page |-> Top, from |-> currentPageOffset, to |-> currentPageOffset + size,
                        region |-> Len(stack), call |-> numCalls]
  OBVIOUS
<1>1. /\ UNCHANGED <<inUseList, freeList, stack>>
      /\ numCalls' = numCalls + 1 /\ numCalls < MaxCalls
      /\ currentPageOffset + size <= PageSize
      /\ currentPageOffset' = AlignedUp(currentPageOffset + size)
      /\ blocks' = blocks \cup {new}
  BY <1>n DEF allocate, AllocateInPage, Fits, Returned
<1>2. /\ currentPageOffset' \in 0..PageSize /\ currentPageOffset' >= currentPageOffset + size
      /\ currentPageOffset' % Alignment = 0
  <2>1. PICK end \in Nat : end = currentPageOffset + size
    BY <1>0
  <2>2. AlignedUp(end) \in Nat /\ AlignedUp(end) >= end /\ AlignedUp(end) % Alignment = 0 /\ AlignedUp(end) <= PageSize
    BY <1>1, <2>1, AlignedUpIs, AlignedUpFits
  <2> QED BY <1>0, <1>1, <2>1, <2>2
<1>3. Top \in Pages \cup {NoPage}
  <2>1. inUseList # <<>> => Len(inUseList) \in DOMAIN inUseList
    BY <1>0 DEF Types
  <2> QED BY <1>0, <2>1, PageIs DEF Top
<1>4. Types'
  <2>1. blocks' \subseteq [page : Pages \cup {NoPage}, from : Nat, to : Nat, region : Nat, call : Nat]
    BY <1>n, <1>0, <1>1, <1>3 DEF Types, PoolAssumption
  <2>2. numCalls' \in 0..MaxCalls
    BY <1>0, <1>1 DEF Types, PoolAssumption
  <2> QED BY <1>0, <1>1, <1>2, <2>1, <2>2 DEF Types
<1>5. PagesOnce'
  BY <1>0, <1>1 DEF PagesOnce, UsedPages
<1>6. \A k \in DOMAIN stack : Mark(k)' = Mark(k) /\ stack'[k] = stack[k]
  <2>1. ASSUME NEW k \in DOMAIN stack PROVE Mark(k)' = Mark(k)
    <3>1. Mark(k) <= Len(inUseList')
      BY <1>0, <1>1, Plain
    <3> QED BY <1>0, <1>1, <1>4, <1>5, <3>1, MarkStays
  <2> QED BY <1>1, <2>1
<1>7. CASE size = 0
  <2>1. Held' = Held
    BY <1>n, <1>0, <1>1, <1>7 DEF Held
  <2>2. currentPageOffset' = currentPageOffset
    <3>1. currentPageOffset' = AlignedUp(currentPageOffset)
      BY <1>0, <1>1, <1>7
    <3> QED BY <1>0, <3>1, AlignedUpStays DEF Types
  <2>3. Regions'
    <3>1. DOMAIN stack' = DOMAIN stack /\ UsedPages' = UsedPages
          /\ UNCHANGED <<inUseList, stack, currentPageOffset>>
      BY <1>1, <2>2 DEF UsedPages
    <3>2. \A k \in DOMAIN stack : Room(stack[k].offset, Mark(k))'
      BY <1>0, <1>6, <3>1 DEF Regions, Room
    <3>3. Room(currentPageOffset, Len(inUseList))'
      BY <1>0, <3>1 DEF Regions, Room
    <3>4. \A k, l \in DOMAIN stack : Mark(k)' = Mark(k) /\ Mark(l)' = Mark(l)
      BY <1>6
    <3> QED BY <1>0, <3>1, <3>2, <3>3, <3>4 DEF Regions
  <2>4. Placed'
    <3>1. UNCHANGED <<inUseList, stack, currentPageOffset>>
      BY <1>1, <2>2
    <3>2. ASSUME NEW b \in Held, NEW i \in DOMAIN inUseList, InRegion(b, i) PROVE InRegion(b, i)'
      BY <1>6, <3>1, <3>2 DEF InRegion
    <3> QED BY <1>0, <2>1, <3>1, <3>2 DEF Placed
  <2> QED BY <1>0, <1>4, <1>5, <2>1, <2>3, <2>4 DEF AllocatorInv, BlocksDisjoint
<1>8. CASE size > 0
  <2>0. currentPageOffset < PageSize
    BY <1>0, <1>1, <1>8
  <2>1. /\ Len(inUseList) \in DOMAIN inUseList /\ inUseList[Len(inUseList)].pageCount = 1
        /\ currentPageOffset >= HeaderSkip /\ Top = inUseList[Len(inUseList)].page
    BY <1>0, <2>0 DEF Regions, Room, Top, Types
  <2>2. \A k \in DOMAIN stack : Mark(k) < Len(inUseList)
    BY <1>0, <2>0 DEF Regions
  <2>3. Held' = Held \cup {new}
    BY <1>n, <1>0, <1>1, <1>8 DEF Held
  <2>4. Room(currentPageOffset, Len(inUseList))'
    BY <1>0, <1>1, <1>2, <2>1 DEF Room
  <2>5. Regions'
    <3>1. DOMAIN stack' = DOMAIN stack /\ UsedPages' = UsedPages /\ UNCHANGED <<inUseList, stack>>
      BY <1>1 DEF UsedPages
    <3>2. \A k \in DOMAIN stack : Room(stack[k].offset, Mark(k))'
      BY <1>0, <1>6, <3>1 DEF Regions, Room
    <3>3. \A k \in DOMAIN stack : Mark(k)' = Mark(k) /\ Mark(k) < Len(inUseList)
      BY <1>6, <2>2
    <3> QED BY <1>0, <2>4, <3>1, <3>2, <3>3 DEF Regions
  <2>6. ASSUME NEW b, b = new, NEW i, i = Len(inUseList) PROVE InRegion(b, i)'
    <3>1. new.to <= currentPageOffset' /\ new.to <= PageSize
      BY <1>n, <1>0, <1>1, <1>2
    <3>2. new.from % Alignment = 0
      BY <1>n, <1>0 DEF Types
    <3> QED BY <1>n, <1>0, <1>1, <1>6, <2>1, <2>2, <2>6, <3>1, <3>2 DEF InRegion
  <2>7. ASSUME NEW b \in Held, NEW i \in DOMAIN inUseList, InRegion(b, i)
        PROVE  InRegion(b, i)' /\ (i = Len(inUseList) => b.to <= currentPageOffset)
    <3>1. i = Len(inUseList) => b.to <= currentPageOffset /\ b.to <= currentPageOffset'
      <4>1. b.to \in Nat
        BY <1>0 DEF Held, Types
      <4>2. i = Len(inUseList) => b.to <= currentPageOffset \/ currentPageOffset = PageSize
        BY <2>7 DEF InRegion
      <4>3. currentPageOffset' >= currentPageOffset /\ currentPageOffset # PageSize /\ currentPageOffset' \in Nat
        BY <1>0, <1>2, <2>0
      <4> QED BY <1>0, <4>1, <4>2, <4>3
    <3> QED BY <1>0, <1>1, <1>6, <2>7, <3>1 DEF InRegion
  <2>8. Placed'
    <3>1. ASSUME NEW b \in Held'
          PROVE  b.region <= Len(stack) /\ \E i \in DOMAIN inUseList : InRegion(b, i)'
      <4>1. CASE b \in Held
        <5>1. PICK i \in DOMAIN inUseList : InRegion(b, i)
          BY <1>0, <4>1 DEF Placed
        <5>2. InRegion(b, i)'
          BY <4>1, <5>1, <2>7
        <5> QED BY <1>0, <4>1, <5>1, <5>2 DEF Placed
      <4>2. CASE b = new
        <5>1. PICK i : i = Len(inUseList)
          OBVIOUS
        <5>2. InRegion(b, i)'
          BY <4>2, <5>1, <2>6
        <5>3. i \in DOMAIN inUseList
          BY <2>1, <5>1
        <5> QED BY <1>n, <1>0, <4>2, <5>2, <5>3
      <4> QED BY <2>3, <4>1, <4>2
    <3>2. \A i \in DOMAIN inUseList : \E b \in Held' : b.page = inUseList[i].page
      BY <1>0, <2>3 DEF Placed
    <3> QED BY <1>1, <3>1, <3>2 DEF Placed
  <2>9. BlocksDisjoint'
    <3>1. ASSUME NEW b \in Held, b.page = Top PROVE b.to <= new.from /\ Top = new.page
      <4>1. PICK i \in DOMAIN inUseList : InRegion(b, i)
        BY <1>0 DEF Placed
      <4>2. i = Len(inUseList)
        BY <1>0, <2>1, <3>1, <4>1 DEF InRegion, PagesOnce
      <4> QED BY <1>n, <2>7, <4>1, <4>2
    <3> QED BY <1>n, <1>0, <2>3, <3>1 DEF BlocksDisjoint
  <2> QED BY <1>4, <1>5, <2>5, <2>8, <2>9 DEF AllocatorInv
<1> QED BY <1>0, <1>7, <1>8

-----------------------------------------------------------------------------
\* allocate, from a new page p or, with count > 1, from pages of its own

LEMMA NewPageStep ==
    ASSUME PoolAssumption, AllocatorInv, numCalls < MaxCalls, numCalls' = numCalls + 1,
           NEW p \in Pages \ UsedPages, NEW count \in Nat \ {0}, NEW size \in Nat \ {0},
           NEW offset \in 0..PageSize, offset % Alignment = 0,
           inUseList' = Append(inUseList, [page |-> p, pageCount |-> count]),
           freeList' \subseteq freeList \ {p}, stack' = stack, currentPageOffset' = offset,
           Returned(p, HeaderSkip, size),
           HeaderSkip + size <= count * PageSize,
           offset < PageSize => count = 1 /\ HeaderSkip + size <= offset
    PROVE  AllocatorInv'
<1> DEFINE Page == [page : Pages, pageCount : Nat \ {0}]
<1>0. /\ Types /\ PagesOnce /\ Regions /\ Placed /\ BlocksDisjoint
      /\ Len(inUseList) \in Nat /\ DOMAIN inUseList = 1..Len(inUseList)
      /\ Len(stack) \in Nat /\ DOMAIN stack = 1..Len(stack)
      /\ PageSize \in Nat /\ HeaderSkip \in Nat /\ inUseList \in Seq(Page)
  BY Plain DEF AllocatorInv, Types
<1>n. PICK new : new = [page |-> p, from |-> HeaderSkip, to |-> HeaderSkip + size,
                        region |-> Len(stack), call |-> numCalls]
  OBVIOUS
<1>t. PICK top \in Nat : top = Len(inUseList) + 1
  BY <1>0
<1>1. /\ inUseList' \in Seq(Page) /\ Len(inUseList') = top /\ DOMAIN inUseList' = 1..top
      /\ \A i \in 1..Len(inUseList) : inUseList'[i] = inUseList[i]
      /\ inUseList'[top] = [page |-> p, pageCount |-> count]
  <2>1. [page |-> p, pageCount |-> count] \in Page
    OBVIOUS
  <2> HIDE DEF Page
  <2>2. /\ inUseList' \in Seq(Page) /\ Len(inUseList') = top
        /\ \A i \in 1..Len(inUseList) : inUseList'[i] = inUseList[i]
        /\ inUseList'[top] = [page |-> p, pageCount |-> count]
    BY <1>0, <1>t, <2>1, AppendProperties
  <2> QED BY <2>2
<1>2. blocks' = blocks \cup {new} /\ Held' = Held \cup {new}
  <2>1. blocks' = blocks \cup {new}
    BY <1>n DEF Returned
  <2>2. new.from < new.to
    BY <1>n, <1>0
  <2> QED BY <2>1, <2>2 DEF Held
<1>3. Types'
  <2>1. blocks' \subseteq [page : Pages \cup {NoPage}, from : Nat, to : Nat, region : Nat, call : Nat]
    BY <1>n, <1>0, <1>2 DEF Types
  <2>2. numCalls' \in 0..MaxCalls /\ freeList' \subseteq Pages
    BY <1>0 DEF Types, PoolAssumption
  <2> QED BY <1>0, <1>1, <2>1, <2>2 DEF Types
<1>4. \A i \in DOMAIN inUseList' : \/ i \in 1..Len(inUseList) /\ inUseList'[i] = inUseList[i] /\ i < top
                                   \/ i = top /\ inUseList'[i].page = p
  BY <1>0, <1>1, <1>t
<1>5. PagesOnce'
  <2>1. \A i \in 1..Len(inUseList) : inUseList[i].page # p /\ inUseList[i].page \notin freeList
    BY <1>0 DEF PagesOnce, UsedPages
  <2>2. ASSUME NEW i \in DOMAIN inUseList', NEW j \in DOMAIN inUseList', inUseList'[i].page = inUseList'[j].page
        PROVE  i = j
    <3>1. CASE i = top \/ j = top
      BY <1>4, <2>1, <2>2, <3>1
    <3>2. CASE i # top /\ j # top
      <4>1. inUseList[i].page = inUseList[j].page /\ i \in DOMAIN inUseList /\ j \in DOMAIN inUseList
        BY <1>0, <1>4, <2>2, <3>2
      <4> QED BY <1>0, <4>1 DEF PagesOnce
    <3> QED BY <3>1, <3>2
  <2>3. \A i \in DOMAIN inUseList' : inUseList'[i].page \notin freeList'
    BY <1>4, <2>1
  <2>4. UsedPages' \cap freeList' = {}
    BY <2>3 DEF UsedPages
  <2> QED BY <2>2, <2>4 DEF PagesOnce
<1>6. ASSUME NEW k \in DOMAIN stack
      PROVE  Mark(k)' = Mark(k) /\ stack'[k] = stack[k] /\ Mark(k) \in 0..Len(inUseList) /\ Mark(k) < top
  <2>1. Mark(k) \in 0..Len(inUseList)
    BY <1>0, Plain
  <2>2. Mark(k) <= Len(inUseList') /\ \A i \in 1..Mark(k) : inUseList'[i] = inUseList[i]
    BY <1>0, <1>1, <1>t, <2>1, SMTT(30)
  <2> QED BY <1>0, <1>3, <1>5, <1>t, <2>1, <2>2, MarkStays
<1>7. Regions'
  <2>1. \A k \in DOMAIN stack : stack[k].page = NoPage \/ stack[k].page \in UsedPages'
    <3>1. UsedPages \subseteq UsedPages'
      <4>1. ASSUME NEW i \in DOMAIN inUseList PROVE inUseList[i].page \in UsedPages'
        <5>1. i \in DOMAIN inUseList' /\ inUseList'[i] = inUseList[i]
          BY <1>0, <1>1, <1>t
        <5> QED BY <5>1 DEF UsedPages
      <4> QED BY <4>1 DEF UsedPages
    <3> QED BY <1>0, <3>1 DEF Regions
  <2>2. ASSUME NEW k \in DOMAIN stack, stack[k].offset < PageSize
        PROVE  /\ Mark(k) \in DOMAIN inUseList'
               /\ inUseList'[Mark(k)].pageCount = 1
               /\ stack[k].offset >= HeaderSkip
    <3>1. Mark(k) \in DOMAIN inUseList /\ inUseList[Mark(k)].pageCount = 1 /\ stack[k].offset >= HeaderSkip
      BY <1>0, <2>2 DEF Regions, Room
    <3> QED BY <1>0, <1>1, <1>t, <3>1
  <2>3. Room(currentPageOffset, Len(inUseList))'
    BY <1>0, <1>1, <1>t DEF Room
  <2>4. \A k, l \in DOMAIN stack : k < l => /\ Mark(k)' <= Mark(l)'
                                            /\ stack'[l].offset < PageSize => Mark(k)' < Mark(l)'
    BY <1>0, <1>6 DEF Regions
  <2>5. \A k \in DOMAIN stack : Mark(k)' < Len(inUseList')
    BY <1>1, <1>6
  <2> QED BY <1>6, <2>1, <2>2, <2>3, <2>4, <2>5 DEF Regions, Room
<1>8. ASSUME NEW b, b = new, NEW i, i = top PROVE InRegion(b, i)'
  <2>1. HeaderSkip % Alignment = 0
    BY DEF PoolAssumption
  <2>2. b.to <= offset \/ offset = PageSize
    BY <1>n, <1>8
  <2>3. /\ inUseList'[i].page = b.page /\ inUseList'[i].pageCount = count
        /\ b.from = HeaderSkip /\ b.to <= count * PageSize /\ b.region = Len(stack)
        /\ DOMAIN stack' = DOMAIN stack
    BY <1>n, <1>1, <1>8
  <2>4. \A k \in DOMAIN stack' : k <= b.region /\ i > Mark(k)'
    BY <1>0, <1>6, <1>8, <2>3
  <2>5. \A k \in DOMAIN stack' : ~(k > b.region)
    BY <1>0, <2>3
  <2>6. b.from >= HeaderSkip
    BY <1>0, <2>3
  <2> QED BY <2>1, <2>2, <2>3, <2>4, <2>5, <2>6 DEF InRegion
<1>9. ASSUME NEW b \in Held, NEW i \in DOMAIN inUseList, InRegion(b, i)
      PROVE  InRegion(b, i)' /\ i \in DOMAIN inUseList'
  <2>1. i # Len(inUseList') /\ inUseList'[i] = inUseList[i] /\ i \in DOMAIN inUseList'
    <3>1. i \in 1..Len(inUseList) /\ Len(inUseList') = top /\ DOMAIN inUseList' = 1..top
      BY <1>0, <1>1
    <3>2. i # top /\ i \in 1..top
      BY <1>0, <1>t, <3>1
    <3>3. inUseList'[i] = inUseList[i]
      BY <1>1, <3>1
    <3> QED BY <3>1, <3>2, <3>3
  <2>2. \A k \in DOMAIN stack' : k \in DOMAIN stack /\ Mark(k)' = Mark(k) /\ stack'[k] = stack[k]
    BY <1>6
  <2> QED BY <1>9, <2>1, <2>2 DEF InRegion
<1>10. Placed'
  <2>1. ASSUME NEW b \in Held'
        PROVE  b.region <= Len(stack) /\ \E i \in DOMAIN inUseList' : InRegion(b, i)'
    <3>1. CASE b \in Held
      BY <1>0, <1>9, <3>1 DEF Placed
    <3>2. CASE b = new
      <4>0. PICK i : i = top
        OBVIOUS
      <4>1. InRegion(b, i)'
        BY <1>8, <3>2, <4>0
      <4>2. i \in DOMAIN inUseList'
        BY <1>0, <1>1, <1>t, <4>0
      <4> QED BY <1>n, <1>0, <3>2, <4>1, <4>2
    <3> QED BY <1>2, <3>1, <3>2
  <2>2. ASSUME NEW i \in DOMAIN inUseList' PROVE \E b \in Held' : b.page = inUseList'[i].page
    <3>1. CASE i = top
      BY <1>n, <1>1, <1>2, <3>1
    <3>2. CASE i \in DOMAIN inUseList
      BY <1>0, <1>1, <1>2, <3>2 DEF Placed
    <3> QED BY <1>0, <1>4, <3>1, <3>2
  <2> QED BY <2>1, <2>2 DEF Placed
<1>11. BlocksDisjoint'
  <2>1. ASSUME NEW b \in Held PROVE b.page # p
    <3>1. PICK i \in DOMAIN inUseList : InRegion(b, i)
      BY <1>0 DEF Placed
    <3>2. inUseList[i].page = b.page /\ inUseList[i].page \in UsedPages
      BY <3>1 DEF InRegion, UsedPages
    <3> QED BY <3>2
  <2> QED BY <1>n, <1>0, <1>2, <2>1 DEF BlocksDisjoint
<1> QED BY <1>3, <1>5, <1>7, <1>10, <1>11 DEF AllocatorInv

LEMMA AllocateStep ==
    ASSUME PoolAssumption, AllocatorInv, NEW size \in Sizes, allocate(size)
    PROVE  AllocatorInv'
<1>0. /\ currentPageOffset \in 0..PageSize /\ PageSize \in Nat /\ size \in Nat /\ HeaderSkip \in Nat
      /\ UsedPages \cap freeList = {} /\ freeList \subseteq Pages
      /\ PageSize % Alignment = 0
  BY Plain DEF AllocatorInv, PoolAssumption, PagesOnce, Types
<1>1. numCalls < MaxCalls /\ numCalls' = numCalls + 1 /\ stack' = stack
  BY DEF allocate
<1>2. ~Fits(size) => size \in Nat \ {0}
  BY <1>0 DEF Fits
<1>3. CASE AllocateInPage(size)
  BY <1>3, InPageStep
<1>4. CASE AllocateOwnPages(size)
  <2>1. PICK p \in FreshPages :
          /\ inUseList' = Append(inUseList, [page |-> p, pageCount |-> PageCount(size + HeaderSkip)])
          /\ Returned(p, HeaderSkip, size)
    BY <1>4 DEF AllocateOwnPages
  <2>2. PICK bytes \in Nat : bytes = size + HeaderSkip /\ bytes > PageSize
    BY <1>0, <1>4 DEF AllocateOwnPages
  <2>3. PICK count \in Nat \ {0} : count = PageCount(bytes) /\ bytes <= count * PageSize
    BY <2>2, PageCountIs
  <2>4. p \in Pages \ UsedPages /\ freeList' \subseteq freeList \ {p} /\ currentPageOffset' = PageSize
    BY <1>0, <1>4, <2>1 DEF AllocateOwnPages, FreshPages, NewPageNext
  <2>5. size \in Nat \ {0}
    BY <1>2, <1>4 DEF AllocateOwnPages
  <2>6. inUseList' = Append(inUseList, [page |-> p, pageCount |-> count])
    BY <2>1, <2>2, <2>3
  <2>7. HeaderSkip + size <= count * PageSize
    BY <1>0, <2>2, <2>3
  <2>8. PageSize \in 0..PageSize /\ ~(PageSize < PageSize)
    BY <1>0
  <2> QED BY <1>0, <1>1, <2>1, <2>4, <2>5, <2>6, <2>7, <2>8, NewPageStep
<1>5. CASE AllocateNewPage(size)
  <2>1. PICK p \in IF freeList # {} THEN freeList ELSE FreshPages :
          /\ inUseList' = Append(inUseList, [page |-> p, pageCount |-> 1])
          /\ freeList' = freeList \ {p}
          /\ Returned(p, HeaderSkip, size)
    BY <1>5 DEF AllocateNewPage, TakenFromList
  <2>2. p \in Pages \ UsedPages
    BY <1>0, <2>1 DEF FreshPages
  <2>3. PICK end \in Nat : end = HeaderSkip + size
    BY <1>0
  <2>4. end <= PageSize
    BY <1>0, <1>5, <2>3 DEF AllocateNewPage
  <2>5. PICK offset \in 0..PageSize : offset = AlignedUp(end) /\ offset >= end /\ offset % Alignment = 0
    <3>1. end \in Nat
      BY <2>3
    <3>2. AlignedUp(end) \in Nat /\ AlignedUp(end) >= end /\ AlignedUp(end) % Alignment = 0
      BY <3>1, AlignedUpIs
    <3>3. AlignedUp(end) <= PageSize
      BY <2>4, <3>1, AlignedUpFits
    <3> QED BY <1>0, <3>2, <3>3
  <2>6. currentPageOffset' = offset /\ size \in Nat \ {0}
    BY <1>2, <1>5, <2>3, <2>5 DEF AllocateNewPage
  <2>7. 1 \in Nat \ {0} /\ HeaderSkip + size <= 1 * PageSize /\ HeaderSkip + size <= offset
    BY <1>0, <2>3, <2>4, <2>5
  <2> QED BY <1>1, <2>1, <2>2, <2>5, <2>6, <2>7, NewPageStep
<1> QED BY <1>3, <1>4, <1>5 DEF allocate

-----------------------------------------------------------------------------
LEMMA InitAllocatorInv == ASSUME PoolAssumption, PoolInit PROVE AllocatorInv
<1>1. Types
  BY DEF PoolInit, Types, PoolAssumption
<1>2. PagesOnce /\ BlocksDisjoint /\ Placed
  BY DEF PoolInit, PagesOnce, BlocksDisjoint, Placed, UsedPages, Held
<1>3. Regions
  <2>1. \A k \in DOMAIN stack : k = 1 /\ stack[k].page = NoPage /\ stack[k].offset = PageSize
    BY DEF PoolInit
  <2> QED BY <2>1 DEF PoolInit, Regions, Room, PoolAssumption
<1> QED BY <1>1, <1>2, <1>3 DEF AllocatorInv

LEMMA StepAllocatorInv == ASSUME PoolAssumption, AllocatorInv, [PoolNext]_poolVars PROVE AllocatorInv'
<1>1. CASE UNCHANGED poolVars
  <2>1. Types' /\ PagesOnce' /\ BlocksDisjoint'
    BY <1>1 DEF poolVars, AllocatorInv, Types, PagesOnce, BlocksDisjoint, UsedPages, Held
  <2>2. \A k \in DOMAIN stack : Mark(k)' = Mark(k)
    <3>1. ASSUME NEW k \in DOMAIN stack PROVE Mark(k)' = Mark(k)
      <4>1. Mark(k) <= Len(inUseList) /\ UNCHANGED <<inUseList, stack>>
        BY <1>1, Plain DEF poolVars, AllocatorInv
      <4> QED BY <2>1, <4>1, MarkStays DEF AllocatorInv
    <3> QED BY <3>1
  <2>3. Regions'
    BY <1>1, <2>2 DEF poolVars, AllocatorInv, Regions, Room, UsedPages
  <2>4. Placed'
    BY <1>1, <2>2 DEF poolVars, AllocatorInv, Placed, InRegion, Held
  <2> QED BY <2>1, <2>3, <2>4 DEF AllocatorInv
<1>2. CASE push
  BY <1>2, PushTypes, PushRegions, PushPlaced DEF AllocatorInv
<1>3. CASE pop
  <2>1. CASE stack = <<>>
    BY <1>1, <1>3, <2>1 DEF pop
  <2>2. CASE stack # <<>>
    <3>1. Len(stack) \in 1..Len(stack)
      BY <2>2, Plain DEF AllocatorInv, Types
    <3> QED BY <1>3, <2>2, <3>1, BackTypes, BackOnce, BackRegions, BackPlaced DEF pop, AllocatorInv
  <2> QED BY <2>1, <2>2
<1>4. CASE popAll
  <2>1. CASE stack = <<>>
    BY <1>1, <1>4, <2>1 DEF popAll
  <2>2. CASE stack # <<>>
    <3>1. 1 \in 1..Len(stack)
      BY <2>2, Plain DEF AllocatorInv, Types
    <3> QED BY <1>4, <2>2, <3>1, BackTypes, BackOnce, BackRegions, BackPlaced DEF popAll, AllocatorInv
  <2> QED BY <2>1, <2>2
<1>5. ASSUME NEW size \in Sizes, allocate(size) PROVE AllocatorInv'
  BY <1>5, AllocateStep
<1> QED BY <1>1, <1>2, <1>3, <1>4, <1>5 DEF PoolNext

(* The pool's state stays within its types.                                 *)
THEOREM PoolTypeCorrect == ASSUME PoolAssumption PROVE PoolSpec => []PoolTypeOK
<1>1. Types => PoolTypeOK
  <2> DEFINE Page == [page : Pages, pageCount : Nat \ {0}]
             Wider == [page : Pages, pageCount : Nat]
  <2>1. Page \subseteq Wider
    OBVIOUS
  <2> HIDE DEF Page, Wider
  <2>2. Seq(Page) \subseteq Seq(Wider)
    BY <2>1, SeqMonotonic
  <2> USE DEF Page, Wider
  <2> QED BY <2>2 DEF Types, PoolTypeOK
<1> QED BY <1>1, InitAllocatorInv, StepAllocatorInv, PTL DEF PoolSpec, AllocatorInv

(* A page of the pool is in use or free, never both, and on its list once.  *)
THEOREM PagesOnceHolds == ASSUME PoolAssumption PROVE PoolSpec => []PagesOnce
BY InitAllocatorInv, StepAllocatorInv, PTL DEF PoolSpec, AllocatorInv

(* allocate hands out memory that nobody holds, through every sequence of   *)
(* push, pop, popAll and allocations of every size.                         *)
THEOREM BlocksDisjointHolds == ASSUME PoolAssumption PROVE PoolSpec => []BlocksDisjoint
BY InitAllocatorInv, StepAllocatorInv, PTL DEF PoolSpec, AllocatorInv

(* What was handed out stays in a page in use until its region is popped.   *)
THEOREM BlocksProtectedHolds == ASSUME PoolAssumption PROVE PoolSpec => []BlocksProtected
<1>1. AllocatorInv => BlocksProtected
  BY DEF AllocatorInv, Placed, InRegion, BlocksProtected
<1> QED BY <1>1, InitAllocatorInv, StepAllocatorInv, PTL DEF PoolSpec

(* pop leaves no page in use that only the popped region used.              *)
THEOREM NoPageKeptHolds == ASSUME PoolAssumption PROVE PoolSpec => []NoPageKept
<1>1. AllocatorInv => NoPageKept
  BY DEF AllocatorInv, Placed, UsedPages, NoPageKept
<1> QED BY <1>1, InitAllocatorInv, StepAllocatorInv, PTL DEF PoolSpec
=============================================================================
