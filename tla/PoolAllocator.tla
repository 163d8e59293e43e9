--------------------------- MODULE PoolAllocator ---------------------------
(***************************************************************************)
(* TPoolAllocator: memory that is handed out piece by piece and taken back *)
(* a whole region at a time.  push starts a region, pop ends the last one; *)
(* a region is not a data structure but a saved page and offset, and what  *)
(* pop takes back follows from them.  blocks records what was handed out.  *)
(***************************************************************************)
EXTENDS Integers, Sequences

CONSTANTS
    PageSize, HeaderSkip, Alignment,
    Sizes,    \* the sizes asked for
    Pages,    \* bound: the addresses new char[] may return
    MaxCalls, \* bound on numCalls
    MaxStack  \* bound on pushes that were not popped

NoPage == "no page"

ASSUME PoolAssumption ==
    /\ PageSize \in Nat \ {0} /\ HeaderSkip \in Nat /\ Alignment \in Nat \ {0}
    /\ PageSize % Alignment = 0 /\ HeaderSkip % Alignment = 0 /\ HeaderSkip < PageSize
    /\ Sizes \subseteq Nat
    /\ NoPage \notin Pages
    /\ MaxCalls \in Nat /\ MaxStack \in Nat \ {0}

VARIABLES
    inUseList,          \* the pages in use, the oldest first: [page, pageCount]
    freeList,           \* simple pages kept for later; which one is taken is left open
    currentPageOffset,
    stack,              \* tAllocState: [offset, page]
    numCalls,
    blocks              \* not in the code: what was handed out and not taken back,
                        \* [page, from, to, region, call]

poolVars == <<inUseList, freeList, currentPageOffset, stack, numCalls, blocks>>

\* The page new allocations go to; NoPage stands for the null pointer.
Top == IF inUseList = <<>> THEN NoPage ELSE inUseList[Len(inUseList)].page

UsedPages == {inUseList[i].page : i \in DOMAIN inUseList}

PageCount(bytes) == (bytes + PageSize - 1) \div PageSize

\* (x + alignmentMask) & ~alignmentMask
AlignedUp(x) == ((x + Alignment - 1) \div Alignment) * Alignment

PoolInit == \* the constructor, with its push()
    /\ inUseList = <<>>
    /\ freeList = {}
    /\ currentPageOffset = PageSize
    /\ stack = <<[offset |-> PageSize, page |-> NoPage]>>
    /\ numCalls = 0
    /\ blocks = {}

-----------------------------------------------------------------------------
push ==
    /\ Len(stack) < MaxStack
    /\ stack' = Append(stack, [offset |-> currentPageOffset, page |-> Top])
    /\ currentPageOffset' = PageSize
    /\ UNCHANGED <<inUseList, freeList, numCalls, blocks>>

PlaceOf(page) == CHOOSE i \in DOMAIN inUseList : inUseList[i].page = page

(* How many pages the loop of pop leaves in use: the saved page and those   *)
(* before it; or one more, when it looks for the page that follows.         *)
OneMore(page) == IF page = NoPage THEN 0
                 ELSE IF PlaceOf(page) < Len(inUseList) THEN PlaceOf(page) + 1 ELSE PlaceOf(page)
Below(page)   == IF page = NoPage THEN 0 ELSE PlaceOf(page)

OffsetLeft(state)     == currentPageOffset
OffsetRestored(state) == state.offset

(* Back to the state saved by push number k: the pages above its page go,   *)
(* the simple ones to the free list, the others back to the system.         *)
BackTo(k) ==
    LET kept == Below(stack[k].page) IN
    /\ inUseList' = SubSeq(inUseList, 1, kept)
    /\ freeList' = freeList \cup {inUseList[i].page : i \in {j \in DOMAIN inUseList :
                                    j > kept /\ inUseList[j].pageCount <= 1}}
    /\ currentPageOffset' = OffsetRestored(stack[k])
    /\ stack' = SubSeq(stack, 1, k - 1)
    /\ blocks' = {b \in blocks : b.region < k}
    /\ UNCHANGED numCalls

pop == IF stack = <<>> THEN UNCHANGED poolVars ELSE BackTo(Len(stack))

popAll == IF stack = <<>> THEN UNCHANGED poolVars ELSE BackTo(1)

-----------------------------------------------------------------------------
Fits(size)    == currentPageOffset + size <= PageSize

\* Where the next allocation goes after one that has pages of its own
OffsetKept  == currentPageOffset
NewPageNext == PageSize

FreshPages == Pages \ (UsedPages \cup freeList)

KeptOnList(page)    == freeList
TakenFromList(page) == freeList \ {page}

Returned(page, from, size) ==
    blocks' = blocks \cup {[page |-> page, from |-> from, to |-> from + size,
                            region |-> Len(stack), call |-> numCalls]}

AllocateInPage(size) ==
    /\ Fits(size)
    /\ currentPageOffset' = AlignedUp(currentPageOffset + size)
    /\ Returned(Top, currentPageOffset, size)
    /\ UNCHANGED <<inUseList, freeList>>

AllocateOwnPages(size) ==
    /\ ~Fits(size)
    /\ size + HeaderSkip > PageSize
    /\ \E p \in FreshPages :
          /\ inUseList' = Append(inUseList, [page |-> p, pageCount |-> PageCount(size + HeaderSkip)])
          /\ Returned(p, HeaderSkip, size)
    /\ currentPageOffset' = NewPageNext
    /\ UNCHANGED freeList

AllocateNewPage(size) ==
    /\ ~Fits(size)
    /\ size + HeaderSkip <= PageSize
    /\ \E p \in IF freeList # {} THEN freeList ELSE FreshPages :
          /\ inUseList' = Append(inUseList, [page |-> p, pageCount |-> 1])
          /\ freeList' = TakenFromList(p)
          /\ Returned(p, HeaderSkip, size)
    /\ currentPageOffset' = AlignedUp(HeaderSkip + size)

allocate(size) ==
    /\ numCalls < MaxCalls
    /\ numCalls' = numCalls + 1
    /\ AllocateInPage(size) \/ AllocateOwnPages(size) \/ AllocateNewPage(size)
    /\ UNCHANGED stack

PoolNext == push \/ pop \/ popAll \/ \E size \in Sizes : allocate(size)

PoolSpec == PoolInit /\ [][PoolNext]_poolVars

-----------------------------------------------------------------------------
PoolTypeOK ==
    /\ inUseList \in Seq([page : Pages, pageCount : Nat])
    /\ freeList \subseteq Pages
    /\ currentPageOffset \in 0..PageSize
    /\ stack \in Seq([offset : 0..PageSize, page : Pages \cup {NoPage}])
    /\ numCalls \in 0..MaxCalls
    /\ blocks \subseteq [page : Pages \cup {NoPage}, from : Nat, to : Nat, region : Nat, call : Nat]

(* A page is on one of the two lists, and there once.                       *)
PagesOnce ==
    /\ \A i, j \in DOMAIN inUseList : inUseList[i].page = inUseList[j].page => i = j
    /\ UsedPages \cap freeList = {}

\* The memory in the hands of callers; an allocation of no bytes holds none.
Held == {b \in blocks : b.from < b.to}

(* allocate never hands out memory that it handed out before and that no    *)
(* pop has taken back.                                                      *)
BlocksDisjoint ==
    \A b, c \in Held : b.page = c.page /\ b # c => b.to <= c.from \/ c.to <= b.from

(* Memory that was handed out stays where it is until its own region ends:  *)
(* its page is in use, it lies behind the header and inside the page or     *)
(* pages, aligned, and the next allocation in the page starts behind it.    *)
BlocksProtected ==
    \A b \in Held : \E i \in DOMAIN inUseList :
        /\ inUseList[i].page = b.page
        /\ b.from >= HeaderSkip /\ b.from % Alignment = 0
        /\ b.to <= inUseList[i].pageCount * PageSize
        /\ i = Len(inUseList) => b.to <= currentPageOffset \/ currentPageOffset = PageSize

(* pop takes back everything its region used: a page that stays in use      *)
(* holds memory that was handed out and not taken back.                     *)
NoPageKept == \A p \in UsedPages : \E b \in Held : b.page = p
=============================================================================
