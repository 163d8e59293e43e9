--------------------------- MODULE IoMapperProofs ---------------------------
(***************************************************************************)
(* Theorems about IoMapper, for any programs, functions and options: the   *)
(* types, one mapping at most, liveness as reachability, the refinement of *)
(* OpenBindings and what follows from it for the mapped trees; and that    *)
(* what mapIO gave automatically stays apart: bindings by what the         *)
(* refinement promises, locations because each list counts up.             *)
(***************************************************************************)
EXTENDS IoMapper, FiniteSetTheorems, WellFoundedInduction, TLAPS

Processing == phase \in {"live", "resolve"}

(* A stage that mapIO has not come to yet is as it was declared; the map   *)
(* of a stage being worked on has the variables that can be mapped.        *)
StageInv ==
    /\ program \in Programs
    /\ phase # "idle" => ioMapper
    /\ \A s \in DOMAIN program :
         ~ioMapper \/ (phase # "idle" /\ s >= stage) => qualifiers[s] = program[s].decl
    /\ Processing => DOMAIN entries = {w \in Ids : declared(w).storage \in Storages}

(* What an entry holds before its variable has had its turn, and after.    *)
Waiting(e) == e.newBinding = -1 /\ e.newSet = -1 /\ e.newLocation = -1

UniformSettled(v) ==
    /\ entries[v].newSet = resolveSet(v)
    /\ declared(v).binding # -1 => entries[v].newBinding = BaseBinding(v) + declared(v).binding
    /\ ~hadError => entries[v].newBinding < BindingEnd /\ entries[v].newSet < SetEnd

InOutSettled(v) == entries[v].newBinding = -1 /\ entries[v].newSet = -1

EntryInv ==
    /\ phase # "resolve" => pending = {}
    /\ phase = "live" => \A v \in DOMAIN entries : Waiting(entries[v])
    /\ phase = "resolve" =>
         /\ \A v \in pending : Waiting(entries[v])
         /\ \A v \in DOMAIN entries \ pending :
              IF declared(v).storage = "uniform" THEN UniformSettled(v) ELSE InOutSettled(v)

(* Variables have their turns in order; while one is looking for a slot,   *)
(* every place below the one it has come to was too small.                 *)
OrderInv == phase = "resolve" => \A v \in pending, w \in DOMAIN entries \ pending : Before(w, v)

SearchedUpTo(v, b) ==
    /\ declared(v).storage = "uniform" /\ WantsBinding(v) /\ BaseBinding(v) <= b
    /\ \A x \in BaseBinding(v) .. b - 1 : RangeAt(v, x) \cap slots[LayoutSet(v)] # {}

SearchInv == phase = "resolve" /\ base # -1 => \A v \in pending : Current(v) => SearchedUpTo(v, base)

(* The slots in use are those of the variables that have their place.      *)
SlotsInv ==
    phase = "resolve" =>
        \A set \in Sets : \A x :
            x \in slots[set] <=> \E w \in Placed : LayoutSet(w) = set /\ x \in RangeAt(w, entries[w].newBinding)

-----------------------------------------------------------------------------
\* The constants' types

LEMMA Limits ==
    /\ BindingEnd \in Nat /\ BindingEnd > 0 /\ LocationEnd \in Nat /\ LocationEnd > 0
    /\ SetEnd \in Nat /\ SetEnd > 0 /\ Ids \subseteq Nat /\ Entry \in Functions
<1>1. BindingEnd \in Nat \ {0} /\ LocationEnd \in Nat \ {0} /\ SetEnd \in Nat \ {0}
      /\ Ids \subseteq Nat /\ Entry \in Functions
  BY IoMapperAssumption, Zenon DEF IoMapperAssumption
<1>. QED  BY <1>1

LEMMA ProgramType ==
    ASSUME NEW p \in Programs, NEW s \in DOMAIN p
    PROVE  s \in Nat /\ p[s] \in Unit
<1>1. DOMAIN p \subseteq Nat /\ p \in [DOMAIN p -> Unit]
  BY IoMapperAssumption, Zenon DEF IoMapperAssumption
<1>. QED  BY <1>1

LEMMA UnitTypes ==
    ASSUME StageInv, NEW s \in DOMAIN program
    PROVE  /\ s \in Nat
           /\ program[s].decl \in [Ids -> Decl]
           /\ program[s].bodies \in SUBSET Functions
           /\ program[s].symbols \in [Functions -> SUBSET Ids]
           /\ program[s].calls \in [Functions -> SUBSET Functions]
           /\ program[s].shift \in [ResourceTypes -> Nat]
           /\ program[s].shiftForSet \in [ResourceTypes -> [Sets -> Nat \cup {-1}]]
           /\ program[s].resourceSet \in Nat \cup {-1}
<1>1. program[s] \in Unit /\ s \in Nat
  BY ProgramType, Zenon DEF StageInv
<1>. QED  BY <1>1 DEF Unit

LEMMA DeclTypes ==
    ASSUME NEW d \in Decl
    PROVE  /\ d.storage \in Storages \cup {"push constant", "other"}
           /\ d.type \in ResourceTypes
           /\ d.set \in Sets \cup {-1}
           /\ d.binding \in -1 .. BindingEnd - 1
           /\ d.location \in -1 .. LocationEnd - 1
           /\ d.size \in Nat \ {0} /\ d.locations \in Nat \ {0}
<1>. DEFINE B == -1 .. BindingEnd - 1
            L == -1 .. LocationEnd - 1
            S == Sets \cup {-1}
            T == Storages \cup {"push constant", "other"}
            N == Nat \ {0}
<1>1. d \in [storage : T, type : ResourceTypes, set : S, binding : B, location : L,
             size : N, locations : N, locatable : BOOLEAN]
  BY Zenon DEF Decl
<1>. HIDE DEF B, L, S, T, N
<1>2. d.storage \in T /\ d.type \in ResourceTypes /\ d.set \in S /\ d.binding \in B
      /\ d.location \in L /\ d.size \in N /\ d.locations \in N
  BY <1>1
<1>. QED  BY <1>2 DEF B, L, S, T, N

(* During a stage, the declaration, set, shift and base of a variable.     *)
LEMMA VariableTypes ==
    ASSUME TypeOK, StageInv, phase # "idle", NEW v \in Ids
    PROVE  /\ stage \in DOMAIN program /\ stage \in Nat
           /\ declared(v) \in Decl
           /\ declared(v).binding \in -1 .. BindingEnd - 1
           /\ declared(v).size \in Nat \ {0} /\ declared(v).locations \in Nat \ {0}
           /\ LayoutSet(v) \in Sets
           /\ resolveSet(v) \in Nat
           /\ BaseBinding(v) \in Nat
<1>1. stage \in DOMAIN program /\ stage \in Nat
  BY DEF TypeOK
<1>2. declared(v) \in Decl
  BY <1>1, Zenon DEF TypeOK, declared
<1>3. declared(v).set \in Sets \cup {-1} /\ declared(v).type \in ResourceTypes
  BY <1>2, DeclTypes, Zenon
<1>4. 0 \in Sets /\ Sets \subseteq Nat
  BY Limits DEF Sets
<1>5. LayoutSet(v) \in Sets
  BY <1>3, <1>4 DEF LayoutSet
<1>6. unit.resourceSet \in Nat \cup {-1}
  BY <1>1, UnitTypes, Zenon DEF unit
<1>7. resolveSet(v) \in Nat
  BY <1>3, <1>4, <1>6 DEF resolveSet
<1>8. unit.shift[declared(v).type] \in Nat
      /\ unit.shiftForSet[declared(v).type][LayoutSet(v)] \in Nat \cup {-1}
  <2>1. unit.shift \in [ResourceTypes -> Nat]
        /\ unit.shiftForSet \in [ResourceTypes -> [Sets -> Nat \cup {-1}]]
    BY <1>1, UnitTypes, Zenon DEF unit
  <2>. QED  BY <2>1, <1>3, <1>5, Zenon
<1>9. BaseBinding(v) \in Nat
  BY <1>8 DEF BaseBinding
<1>10. declared(v).binding \in -1 .. BindingEnd - 1
       /\ declared(v).size \in Nat \ {0} /\ declared(v).locations \in Nat \ {0}
  BY <1>2, DeclTypes, Zenon
<1>. QED  BY <1>1, <1>2, <1>5, <1>7, <1>9, <1>10, Zenon

LEMMA InFieldType ==
    ASSUME NEW l \in Nat
    PROVE  InField(l) \in -1 .. LocationEnd - 1
<1>1. l % (LocationEnd + 1) \in 0 .. LocationEnd
  BY Limits
<1>. QED  BY <1>1, Limits DEF InField

LEMMA MappedType ==
    ASSUME NEW d \in Decl, NEW e, e.newBinding \in Nat \cup {-1}, e.newSet \in Nat \cup {-1},
           e.newLocation \in Nat \cup {-1},
           e.newBinding < BindingEnd, e.newSet < SetEnd
    PROVE  /\ Mapped(d, e) \in Decl
           /\ Mapped(d, e).binding = IF e.newBinding # -1 THEN e.newBinding ELSE d.binding
           /\ Mapped(d, e).set = IF e.newSet # -1 THEN e.newSet ELSE d.set
           /\ Mapped(d, e).location = IF e.newLocation # -1 THEN InField(e.newLocation) ELSE d.location
           /\ Mapped(d, e).storage = d.storage /\ Mapped(d, e).type = d.type
           /\ Mapped(d, e).size = d.size /\ Mapped(d, e).locations = d.locations
<1>. DEFINE b == IF e.newBinding # -1 THEN e.newBinding ELSE d.binding
            t == IF e.newSet # -1 THEN e.newSet ELSE d.set
            l == IF e.newLocation # -1 THEN InField(e.newLocation) ELSE d.location
            d1 == [d EXCEPT !.binding = b]
            d2 == [d1 EXCEPT !.set = t]
            B == -1 .. BindingEnd - 1
            L == -1 .. LocationEnd - 1
            S == Sets \cup {-1}
            T == Storages \cup {"push constant", "other"}
            N == Nat \ {0}
            D == [storage : T, type : ResourceTypes, set : S, binding : B, location : L,
                  size : N, locations : N, locatable : BOOLEAN]
<1>0. d.binding \in B /\ d.set \in S /\ d.location \in L
  BY DeclTypes, Zenon
<1>1. b \in B
  BY <1>0, Limits
<1>2. t \in S
  BY <1>0, Limits DEF Sets
<1>3. l \in L
  BY <1>0, InFieldType
<1>4. Mapped(d, e) = [d2 EXCEPT !.location = l]
  BY Zenon DEF Mapped
<1>5. Decl = D
  BY Zenon DEF Decl
<1>6. d \in D
  BY <1>5
<1>. HIDE DEF b, t, l, B, L, S, T, N
<1>7. d1 \in D /\ d1.binding = b /\ d1.set = d.set /\ d1.location = d.location
      /\ d1.storage = d.storage /\ d1.type = d.type /\ d1.size = d.size /\ d1.locations = d.locations
  BY <1>1, <1>6
<1>. HIDE DEF d1
<1>8. d2 \in D /\ d2.binding = b /\ d2.set = t /\ d2.location = d.location
      /\ d2.storage = d.storage /\ d2.type = d.type /\ d2.size = d.size /\ d2.locations = d.locations
  BY <1>2, <1>7
<1>. HIDE DEF d2
<1>9. LET m == [d2 EXCEPT !.location = l] IN
      m \in D /\ m.binding = b /\ m.set = t /\ m.location = l
      /\ m.storage = d.storage /\ m.type = d.type /\ m.size = d.size /\ m.locations = d.locations
  BY <1>3, <1>8
<1>. HIDE DEF D
<1>. QED  BY <1>4, <1>5, <1>9, Zenon DEF b, t, l

-----------------------------------------------------------------------------
\* Types

LEMMA ProgramStays ==
    ASSUME Next PROVE program' = program
BY Zenon DEF Next, mapIO, mapIORefused, SkipStage, RefuseStage, GatherAll, GatherLive, BeginResolve,
     resolveInOut, resolveDeclared, leaveUnbound, getFreeSlot, skipSlot, takeSlot, reserveSlot,
     Settle, applyStage, failStage, programVars

(* mapIO goes to a later stage of the program or is done.                  *)
LEMMA NextStage ==
    ASSUME NEW s, NextStageAfter(s)
    PROVE  \/ phase' = "idle" /\ result' = "true" /\ stage' = stage
           \/ phase' = "stage" /\ result' = result /\ stage' \in DOMAIN program /\ stage' > s
BY DEF NextStageAfter

(* What settling a variable leaves in its entry.                           *)
LEMMA Settled ==
    ASSUME TypeOK, StageInv, NEW v \in pending, NEW b \in Nat \cup {-1}, phase = "resolve",
           declared(v).storage = "uniform", Settle(v, b)
    PROVE  /\ entries' \in [DOMAIN entries -> MapEntry]
           /\ DOMAIN entries' = DOMAIN entries /\ v \in DOMAIN entries
           /\ \A w \in DOMAIN entries : w # v => entries'[w] = entries[w]
           /\ entries'[v].newBinding = b /\ entries'[v].newSet = resolveSet(v)
           /\ entries'[v].live = entries[v].live
           /\ nextLocation' \in [Storages -> Nat]
           /\ pending' = pending \ {v} /\ base' = -1
           /\ hadError' \in BOOLEAN /\ (~hadError' => ~hadError /\ b < BindingEnd /\ resolveSet(v) < SetEnd)
<1>1. v \in DOMAIN entries /\ v \in Ids /\ entries \in [DOMAIN entries -> MapEntry]
      /\ nextLocation \in [Storages -> Nat]
  BY Zenon DEF TypeOK
<1>2. resolveSet(v) \in Nat /\ declared(v) \in Decl
  BY <1>1, VariableTypes
<1>3. declared(v).locations \in Nat /\ "uniform" \in Storages
  BY <1>2, DeclTypes DEF Storages
<1>4. Location(v) \in Nat \cup {-1}
  BY <1>1, <1>3, Zenon DEF Location
<1>5. nextLocation' \in [Storages -> Nat]
  <2>1. Advanced(v) \in Nat
    BY <1>1, <1>3 DEF Advanced
  <2>2. nextLocation' = IF NeedsLocation(v) THEN [nextLocation EXCEPT !["uniform"] = Advanced(v)]
                        ELSE nextLocation
    BY Zenon DEF Settle, Locate
  <2>. QED  BY <1>1, <1>3, <2>1, <2>2
<1>. DEFINE old == entries[v]
            e == [old EXCEPT !.newBinding = b, !.newSet = resolveSet(v), !.newLocation = Location(v)]
<1>6. old \in MapEntry
  BY <1>1, Zenon
<1>7. e \in MapEntry /\ e.newBinding = b /\ e.newSet = resolveSet(v) /\ e.live = old.live
  <2>. DEFINE t == resolveSet(v)
              l == Location(v)
              M == Nat \cup {-1}
              e1 == [old EXCEPT !.newBinding = b]
              e2 == [e1 EXCEPT !.newSet = t]
  <2>1. b \in M /\ t \in M /\ l \in M /\ old \in [live : BOOLEAN, newBinding : M, newSet : M, newLocation : M]
    BY <1>2, <1>4, <1>6 DEF MapEntry
  <2>2. e = [e2 EXCEPT !.newLocation = l]
    BY Zenon
  <2>. HIDE DEF t, l, M, old
  <2>3. e1 \in [live : BOOLEAN, newBinding : M, newSet : M, newLocation : M]
        /\ e1.newBinding = b /\ e1.live = old.live
    BY <2>1
  <2>. HIDE DEF e1
  <2>4. e2 \in [live : BOOLEAN, newBinding : M, newSet : M, newLocation : M]
        /\ e2.newBinding = b /\ e2.newSet = t /\ e2.live = old.live
    BY <2>1, <2>3
  <2>. HIDE DEF e2
  <2>5. LET m == [e2 EXCEPT !.newLocation = l] IN
        /\ m \in [live : BOOLEAN, newBinding : M, newSet : M, newLocation : M]
        /\ m.newBinding = b /\ m.newSet = t /\ m.live = old.live
    BY <2>1, <2>4
  <2>. HIDE DEF e
  <2>. QED  BY <2>2, <2>5, Zenon DEF MapEntry, M, t
<1>8. entries' = [entries EXCEPT ![v] = e]
  BY Zenon DEF Settle
<1>9. hadError' \in BOOLEAN /\ (~hadError' => ~hadError /\ ~OutOfRange(v, b))
  BY Zenon DEF Settle, TypeOK
<1>10. ~OutOfRange(v, b) => b < BindingEnd /\ resolveSet(v) < SetEnd
  BY <1>2, Limits DEF OutOfRange
<1>. HIDE DEF e, old
<1>11. entries' \in [DOMAIN entries -> MapEntry] /\ DOMAIN entries' = DOMAIN entries
       /\ (\A w \in DOMAIN entries : w # v => entries'[w] = entries[w]) /\ entries'[v] = e
  BY <1>1, <1>7, <1>8, Zenon
<1>12. pending' = pending \ {v} /\ base' = -1
  BY Zenon DEF Settle
<1>. QED  BY <1>1, <1>5, <1>7, <1>9, <1>10, <1>11, <1>12, Zenon DEF old

(* applyStage writes what Mapped says into the declarations of the stage.  *)
LEMMA Applied ==
    ASSUME TypeOK, StageInv, EntryInv, applyStage
    PROVE  /\ qualifiers' = [qualifiers EXCEPT ![stage] = qualifiers'[stage]]
           /\ qualifiers'[stage] \in [Ids -> Decl]
           /\ \A v \in Ids : v \notin DOMAIN entries => qualifiers'[stage][v] = declared(v)
           /\ \A v \in DOMAIN entries :
                /\ v \in Ids /\ declared(v) \in Decl
                /\ entries[v] \in MapEntry /\ entries[v].newBinding < BindingEnd /\ entries[v].newSet < SetEnd
                /\ qualifiers'[stage][v] = Mapped(declared(v), entries[v])
<1>. DEFINE new == [v \in Ids |-> IF v \in DOMAIN entries THEN Mapped(declared(v), entries[v]) ELSE declared(v)]
<1>1. stage \in DOMAIN qualifiers /\ entries \in [DOMAIN entries -> MapEntry] /\ DOMAIN entries \subseteq Ids
  BY Zenon DEF TypeOK, applyStage
<1>2. qualifiers' = [qualifiers EXCEPT ![stage] = new]
  BY Zenon DEF applyStage, declared
<1>. HIDE DEF new
<1>3. qualifiers'[stage] = new /\ qualifiers' = [qualifiers EXCEPT ![stage] = qualifiers'[stage]]
  BY <1>1, <1>2
<1>4. ASSUME NEW v \in DOMAIN entries
      PROVE  /\ v \in Ids /\ declared(v) \in Decl /\ entries[v] \in MapEntry
             /\ entries[v].newBinding \in Nat \cup {-1} /\ entries[v].newSet \in Nat \cup {-1}
             /\ entries[v].newLocation \in Nat \cup {-1}
             /\ entries[v].newBinding < BindingEnd /\ entries[v].newSet < SetEnd
  <2>1. v \in Ids /\ entries[v] \in MapEntry /\ declared(v) \in Decl
    BY <1>1, VariableTypes, Zenon DEF applyStage
  <2>2. v \notin pending /\ ~hadError
    BY Zenon DEF applyStage
  <2>3. IF declared(v).storage = "uniform" THEN UniformSettled(v) ELSE InOutSettled(v)
    BY <2>2, Zenon DEF EntryInv, applyStage
  <2>4. entries[v].newBinding < BindingEnd /\ entries[v].newSet < SetEnd
    BY <2>2, <2>3, Limits DEF UniformSettled, InOutSettled
  <2>. QED  BY <2>1, <2>4 DEF MapEntry
<1>5. ASSUME NEW v \in Ids PROVE new[v] \in Decl
  <2>1. CASE v \in DOMAIN entries
    BY <1>4, <2>1, MappedType, Zenon DEF new
  <2>2. CASE v \notin DOMAIN entries
    BY <2>2, VariableTypes, Zenon DEF new, applyStage
  <2>. QED  BY <2>1, <2>2
<1>6. new \in [Ids -> Decl]
  BY <1>5 DEF new
<1>. QED  BY <1>3, <1>4, <1>6, Zenon DEF new

LEMMA TypeStep ==
    ASSUME TypeOK, StageInv, EntryInv, Next
    PROVE  TypeOK'
<1>. USE ProgramStays DEF TypeOK
<1>1. CASE mapIO
  <2>1. stage' \in Nat /\ (phase' # "idle" => stage' \in DOMAIN program) /\ phase' \in {"idle", "stage"}
        /\ result' \in {"none", "true", "false"}
    <3>1. NextStageAfter(-1)
      BY <1>1, Zenon DEF mapIO
    <3>2. \A s \in DOMAIN program : s \in Nat
      BY UnitTypes, Zenon
    <3>. QED  BY <3>1, <3>2, NextStage
  <2>2. UNCHANGED <<program, qualifiers, functions, liveFunctions, entries, pending, slots, base, nextLocation, hadError>>
    BY <1>1, Zenon DEF mapIO, traverseVars, resolveVars
  <2>3. ioMapper' \in BOOLEAN
    BY <1>1, Zenon DEF mapIO
  <2>4. calls' \in 0 .. MaxCalls
    <3>1. MaxCalls \in Nat
      BY IoMapperAssumption, Zenon DEF IoMapperAssumption
    <3>. QED  BY <3>1, <1>1 DEF mapIO
  <2>. QED  BY <2>1, <2>2, <2>3, <2>4
<1>2. CASE mapIORefused
  <2>4. calls' \in 0 .. MaxCalls
    <3>1. MaxCalls \in Nat
      BY IoMapperAssumption, Zenon DEF IoMapperAssumption
    <3>. QED  BY <3>1, <1>2 DEF mapIORefused
  <2>. QED  BY <1>2, <2>4 DEF mapIORefused, traverseVars, resolveVars
<1>3. CASE SkipStage
  <2>1. stage' \in Nat /\ (phase' # "idle" => stage' \in DOMAIN program) /\ phase' \in {"idle", "stage"}
        /\ result' \in {"none", "true", "false"}
    <3>1. NextStageAfter(stage)
      BY <1>3, Zenon DEF SkipStage
    <3>2. \A s \in DOMAIN program : s \in Nat
      BY UnitTypes, Zenon
    <3>. QED  BY <3>1, <3>2, NextStage
  <2>. QED  BY <1>3, <2>1 DEF SkipStage, programVars, traverseVars, resolveVars
<1>4. CASE RefuseStage
  BY <1>4 DEF RefuseStage, GiveUp, programVars, traverseVars, resolveVars
<1>5. CASE GatherAll
  <2>1. Unmapped \in MapEntry
    BY DEF Unmapped, MapEntry
  <2>2. unit.bodies \in SUBSET Functions
    BY <1>5, UnitTypes, Zenon DEF GatherAll, unit
  <2>3. entries' \in [DOMAIN entries' -> MapEntry] /\ DOMAIN entries' \subseteq Ids
    BY <1>5, <2>1 DEF GatherAll
  <2>4. pending = {}
    BY <1>5 DEF EntryInv, GatherAll
  <2>. QED  BY <1>5, <2>2, <2>3, <2>4 DEF GatherAll, programVars, resolveVars
<1>6. CASE BeginResolve
  BY <1>6 DEF BeginResolve, programVars, traverseVars
<1>7. ASSUME NEW f \in functions, GatherLive(f) PROVE TypeOK'
  <2>1. entries' \in [DOMAIN entries' -> MapEntry] /\ DOMAIN entries' = DOMAIN entries
    <3>1. ASSUME NEW v \in DOMAIN entries
          PROVE  [entries[v] EXCEPT !.live = @ \/ v \in unit.symbols[f]] \in MapEntry
      <4>1. entries[v] \in MapEntry
        BY Zenon
      <4>. DEFINE l == entries[v].live \/ v \in unit.symbols[f]
      <4>2. l \in BOOLEAN
        BY Zenon
      <4>. HIDE DEF l
      <4>3. [entries[v] EXCEPT !.live = l] \in MapEntry
        BY <4>1, <4>2 DEF MapEntry
      <4>. QED  BY <4>3, Zenon DEF l
    <3>2. entries' = [v \in DOMAIN entries |-> [entries[v] EXCEPT !.live = @ \/ v \in unit.symbols[f]]]
      BY <1>7, Zenon DEF GatherLive
    <3>. QED  BY <3>1, <3>2, Zenon
  <2>2. unit.bodies \in SUBSET Functions /\ unit.calls[f] \in SUBSET Functions
    BY <1>7, UnitTypes, Zenon DEF GatherLive, unit
  <2>3. functions' \subseteq Functions /\ liveFunctions' \subseteq Functions
    BY <1>7, <2>2, Zenon DEF GatherLive, NewCalls
  <2>. QED  BY <1>7, <2>1, <2>3 DEF GatherLive, programVars, resolveVars
<1>8. ASSUME NEW v \in pending, resolveInOut(v) PROVE TypeOK'
  <2>1. v \in DOMAIN entries /\ v \in Ids /\ phase = "resolve" /\ declared(v).storage \in InOut
    BY <1>8, Zenon DEF resolveInOut
  <2>2. declared(v) \in Decl
    BY <2>1, VariableTypes
  <2>3. declared(v).locations \in Nat /\ declared(v).storage \in Storages
    BY <2>1, <2>2, DeclTypes DEF Storages
  <2>4. Location(v) \in Nat \cup {-1} /\ Advanced(v) \in Nat
    BY <2>3 DEF Location, Advanced
  <2>5. nextLocation' \in [Storages -> Nat]
    <3>1. nextLocation' = IF NeedsLocation(v) THEN [nextLocation EXCEPT ![declared(v).storage] = Advanced(v)]
                          ELSE nextLocation
      BY <1>8, Zenon DEF resolveInOut, Locate
    <3>. QED  BY <2>3, <2>4, <3>1
  <2>6. entries' \in [DOMAIN entries' -> MapEntry] /\ DOMAIN entries' = DOMAIN entries
    <3>1. entries' = [entries EXCEPT ![v] = [entries[v] EXCEPT !.newLocation = Location(v)]]
      BY <1>8, Zenon DEF resolveInOut
    <3>2. entries[v] \in MapEntry
      BY <2>1, Zenon
    <3>. DEFINE e == [entries[v] EXCEPT !.newLocation = Location(v)]
    <3>3. e \in MapEntry
      BY <2>4, <3>2 DEF MapEntry
    <3>4. entries' = [entries EXCEPT ![v] = e]
      BY <3>1, Zenon
    <3>. HIDE DEF e
    <3>. QED  BY <2>1, <3>3, <3>4, Zenon
  <2>. QED  BY <1>8, <2>5, <2>6 DEF resolveInOut, programVars, traverseVars
<1>9. ASSUME NEW v \in pending, NEW b \in Nat \cup {-1}, phase = "resolve", declared(v).storage = "uniform",
             Settle(v, b), slots' \in [Sets -> SUBSET Nat]
      PROVE  TypeOK'
  BY <1>9, Settled DEF Settle, programVars, traverseVars
<1>10. ASSUME NEW v \in pending, NEW b \in Nat, phase = "resolve", declared(v).storage = "uniform", reserveSlot(v, b)
       PROVE  TypeOK'
  <2>1. LayoutSet(v) \in Sets /\ declared(v).size \in Nat
    BY <1>10, VariableTypes
  <2>2. RangeAt(v, b) \subseteq Nat
    BY <2>1 DEF RangeAt
  <2>3. slots' \in [Sets -> SUBSET Nat]
    BY <1>10, <2>1, <2>2 DEF reserveSlot
  <2>. QED  BY <1>9, <1>10, <2>3 DEF reserveSlot
<1>11. ASSUME NEW v \in pending, resolveDeclared(v) PROVE TypeOK'
  <2>1. phase = "resolve" /\ declared(v).storage = "uniform" /\ v \in Ids /\ declared(v).binding # -1
    BY <1>11, Zenon DEF resolveDeclared, Resolving
  <2>2. BaseBinding(v) \in Nat /\ declared(v).binding \in -1 .. BindingEnd - 1
    BY <2>1, VariableTypes
  <2>3. BaseBinding(v) + declared(v).binding \in Nat
    BY <2>1, <2>2, Limits
  <2>. QED  BY <1>10, <1>11, <2>1, <2>3 DEF resolveDeclared
<1>12. ASSUME NEW v \in pending, leaveUnbound(v) PROVE TypeOK'
  BY <1>9, <1>12 DEF leaveUnbound, Resolving
<1>13. ASSUME NEW v \in pending, getFreeSlot(v) PROVE TypeOK'
  <2>1. phase = "resolve" /\ v \in Ids /\ BaseBinding(v) \in Nat
    BY <1>13, VariableTypes DEF getFreeSlot, Resolving
  <2>. QED  BY <1>13, <2>1 DEF getFreeSlot, programVars, traverseVars
<1>14. ASSUME NEW v \in pending, takeSlot(v) PROVE TypeOK'
  <2>1. phase = "resolve" /\ declared(v).storage = "uniform" /\ base \in Nat
    BY <1>14 DEF takeSlot, Resolving
  <2>. QED  BY <1>10, <1>14, <2>1 DEF takeSlot
<1>15. ASSUME NEW v \in pending, NEW at \in slots[LayoutSet(v)], skipSlot(v, at) PROVE TypeOK'
  <2>1. LayoutSet(v) \in Sets
    BY <1>15, VariableTypes DEF skipSlot, Resolving
  <2>2. at \in Nat
    BY <2>1
  <2>. QED  BY <1>15, <2>2 DEF skipSlot, programVars, traverseVars
<1>16. CASE applyStage
  <2>1. stage' \in Nat /\ (phase' # "idle" => stage' \in DOMAIN program) /\ phase' \in {"idle", "stage"}
        /\ result' \in {"none", "true", "false"}
    <3>1. NextStageAfter(stage)
      BY <1>16, Zenon DEF applyStage
    <3>2. \A s \in DOMAIN program : s \in Nat
      BY UnitTypes, Zenon
    <3>. QED  BY <3>1, <3>2, NextStage
  <2>2. DOMAIN qualifiers' = DOMAIN program /\ \A s \in DOMAIN qualifiers' : qualifiers'[s] \in [Ids -> Decl]
    BY <1>16, Applied
  <2>. QED  BY <1>16, <2>1, <2>2 DEF applyStage, programVars, traverseVars, resolveVars
<1>17. CASE failStage
  BY <1>17 DEF failStage, GiveUp, programVars, traverseVars, resolveVars
<1>. QED
  BY <1>1, <1>2, <1>3, <1>4, <1>5, <1>6, <1>7, <1>8, <1>11, <1>12, <1>13, <1>14, <1>15, <1>16, <1>17, Zenon
  DEF Next

-----------------------------------------------------------------------------
\* What one variable's turn changes

Kept == phase = "resolve" /\ UNCHANGED <<program, qualifiers, ioMapper, phase, stage, functions, liveFunctions>>

Turn(v) ==
    /\ Kept /\ Current(v) /\ v \in DOMAIN entries
    /\ pending' = pending \ {v} /\ DOMAIN entries' = DOMAIN entries
    /\ \A w \in DOMAIN entries : w # v => entries'[w] = entries[w]
    /\ entries'[v].live = entries[v].live

UniformTurn(v, b) ==
    /\ Turn(v) /\ declared(v).storage = "uniform" /\ b \in Nat \cup {-1} /\ base' = -1
    /\ entries'[v].newBinding = b /\ entries'[v].newSet = resolveSet(v)
    /\ ~hadError' => ~hadError /\ b < BindingEnd /\ resolveSet(v) < SetEnd

Reserving(v, b) ==
    /\ UniformTurn(v, b) /\ b \in Nat
    /\ slots' = [slots EXCEPT ![LayoutSet(v)] = @ \cup RangeAt(v, b)]

LEMMA InOutTurn ==
    ASSUME TypeOK, NEW v \in pending, resolveInOut(v)
    PROVE  /\ Turn(v) /\ declared(v).storage \in InOut
           /\ entries'[v].newBinding = entries[v].newBinding /\ entries'[v].newSet = entries[v].newSet
           /\ UNCHANGED <<slots, base, hadError>>
<1>1. v \in DOMAIN entries /\ entries[v] \in MapEntry /\ entries \in [DOMAIN entries -> MapEntry]
  BY Zenon DEF TypeOK
<1>. DEFINE e == [entries[v] EXCEPT !.newLocation = Location(v)]
<1>2. e.newBinding = entries[v].newBinding /\ e.newSet = entries[v].newSet /\ e.live = entries[v].live
  BY <1>1 DEF MapEntry
<1>3. entries' = [entries EXCEPT ![v] = e]
  BY Zenon DEF resolveInOut
<1>. HIDE DEF e
<1>4. entries'[v] = e /\ DOMAIN entries' = DOMAIN entries
      /\ \A w \in DOMAIN entries : w # v => entries'[w] = entries[w]
  BY <1>1, <1>3, Zenon
<1>5. Kept /\ Current(v) /\ pending' = pending \ {v} /\ declared(v).storage \in InOut
      /\ UNCHANGED <<slots, base, hadError>>
  BY Zenon DEF resolveInOut, Kept, programVars, traverseVars
<1>. QED  BY <1>1, <1>2, <1>4, <1>5, Zenon DEF Turn

LEMMA SettleTurn ==
    ASSUME TypeOK, StageInv, NEW v \in pending, NEW b \in Nat \cup {-1}, Resolving(v), Settle(v, b)
    PROVE  UniformTurn(v, b)
<1>1. phase = "resolve" /\ Current(v) /\ declared(v).storage = "uniform"
  BY Zenon DEF Resolving
<1>2. Kept
  BY <1>1, Zenon DEF Settle, Kept, programVars, traverseVars
<1>. QED  BY <1>1, <1>2, Settled, Zenon DEF UniformTurn, Turn

LEMMA DeclaredTurn ==
    ASSUME TypeOK, StageInv, NEW v \in pending, resolveDeclared(v)
    PROVE  Reserving(v, BaseBinding(v) + declared(v).binding) /\ declared(v).binding # -1
<1>1. Resolving(v) /\ phase = "resolve" /\ v \in Ids /\ declared(v).binding # -1
      /\ reserveSlot(v, BaseBinding(v) + declared(v).binding)
  BY Zenon DEF resolveDeclared, Resolving, TypeOK
<1>2. BaseBinding(v) \in Nat /\ declared(v).binding \in -1 .. BindingEnd - 1
  BY <1>1, VariableTypes
<1>3. BaseBinding(v) + declared(v).binding \in Nat
  BY <1>1, <1>2, Limits
<1>4. \A x : x \in Nat => x \in Nat \cup {-1}
  OBVIOUS
<1>. QED  BY <1>1, <1>3, <1>4, SettleTurn, Zenon DEF reserveSlot, Reserving

LEMMA UnboundTurn ==
    ASSUME TypeOK, StageInv, NEW v \in pending, leaveUnbound(v)
    PROVE  UniformTurn(v, -1) /\ declared(v).binding = -1 /\ UNCHANGED slots
BY SettleTurn DEF leaveUnbound

LEMMA TakeTurn ==
    ASSUME TypeOK, StageInv, NEW v \in pending, takeSlot(v)
    PROVE  Reserving(v, base) /\ base # -1
<1>1. Resolving(v) /\ base \in Nat /\ base \in Nat \cup {-1} /\ base # -1 /\ reserveSlot(v, base)
  BY DEF takeSlot, TypeOK
<1>. QED  BY <1>1, SettleTurn, Zenon DEF reserveSlot, Reserving

LEMMA SearchTurn ==
    ASSUME NEW v \in pending, getFreeSlot(v) \/ \E at \in slots[LayoutSet(v)] : skipSlot(v, at)
    PROVE  /\ Kept /\ Current(v) /\ declared(v).storage = "uniform"
           /\ UNCHANGED <<entries, pending, slots, nextLocation, hadError>>
BY Zenon DEF getFreeSlot, skipSlot, Resolving, Kept, programVars, traverseVars

(* The variables' declarations and what is computed from them stay.        *)
LEMMA KeptOperators ==
    ASSUME Kept, NEW v, NEW w
    PROVE  /\ declared(v)' = declared(v) /\ BaseBinding(v)' = BaseBinding(v)
           /\ resolveSet(v)' = resolveSet(v) /\ LayoutSet(v)' = LayoutSet(v)
           /\ Before(v, w)' = Before(v, w) /\ WantsBinding(v)' = (declared(v).binding = -1 /\ entries'[v].live /\ unit.autoBindings)
<1>1. program' = program /\ qualifiers' = qualifiers /\ stage' = stage
  BY Zenon DEF Kept
<1>2. unit' = unit /\ declared(v)' = declared(v) /\ declared(w)' = declared(w)
  BY <1>1, Zenon DEF unit, declared
<1>3. LayoutSet(v)' = LayoutSet(v)
  BY <1>2, Zenon DEF LayoutSet
<1>4. BaseBinding(v)' = BaseBinding(v) /\ resolveSet(v)' = resolveSet(v)
  BY <1>2, <1>3, Zenon DEF BaseBinding, resolveSet
<1>5. Precedes(v, w)' = Precedes(v, w)
  BY <1>2, Zenon DEF Precedes, Points
<1>6. Before(v, w)' = Before(v, w)
  BY <1>2, <1>5, Zenon DEF Before
<1>. QED  BY <1>2, <1>3, <1>4, <1>6, Zenon DEF WantsBinding

LEMMA KeptStage ==
    ASSUME StageInv, Kept, DOMAIN entries' = DOMAIN entries
    PROVE  StageInv'
BY DEF StageInv, Kept, Processing, declared

LEMMA StageStep ==
    ASSUME TypeOK, StageInv, EntryInv, Next
    PROVE  StageInv'
<1>0. program' = program
  BY ProgramStays
<1>00. \A s \in DOMAIN program : s \in Nat
  BY UnitTypes, Zenon
<1>1. CASE mapIO
  <2>1. phase' \in {"idle", "stage"}
    BY <1>1, NextStage DEF mapIO
  <2>2. \A s \in DOMAIN program : qualifiers[s] = program[s].decl
    BY <1>1, Zenon DEF mapIO, MayMap, StageInv
  <2>3. ioMapper'
    BY <1>1, Zenon DEF mapIO
  <2>. QED  BY <1>0, <1>1, <2>1, <2>2, <2>3 DEF mapIO, StageInv, Processing
<1>2. CASE mapIORefused
  BY <1>2 DEF mapIORefused, StageInv, Processing
<1>3. CASE SkipStage
  <2>1. ioMapper /\ ioMapper' /\ qualifiers' = qualifiers
    <3>1. phase # "idle"
      BY <1>3 DEF SkipStage
    <3>. QED  BY <1>3, <3>1, Zenon DEF SkipStage, StageInv, programVars
  <2>2. phase' = "idle" \/ (phase' = "stage" /\ stage' \in DOMAIN program /\ stage' > stage)
    BY <1>3, NextStage, Zenon DEF SkipStage
  <2>3. stage \in DOMAIN program /\ \A s \in DOMAIN program : s >= stage => qualifiers[s] = program[s].decl
    BY <1>3, Zenon DEF SkipStage, StageInv, TypeOK
  <2>4. \A s \in DOMAIN program : phase' # "idle" /\ s >= stage' => qualifiers[s] = program[s].decl
    BY <1>00, <2>2, <2>3
  <2>. QED  BY <1>0, <2>1, <2>2, <2>4 DEF StageInv, Processing
<1>4. CASE RefuseStage
  BY <1>4 DEF RefuseStage, GiveUp, programVars, StageInv, Processing
<1>5. CASE GatherAll
  BY <1>5 DEF GatherAll, programVars, StageInv, Processing, declared
<1>6. CASE BeginResolve
  BY <1>6 DEF BeginResolve, programVars, StageInv, Processing, declared
<1>7. ASSUME NEW f \in functions, GatherLive(f) PROVE StageInv'
  <2>1. DOMAIN entries' = DOMAIN entries /\ phase = "live" /\ phase' = "live"
        /\ UNCHANGED <<program, qualifiers, ioMapper, stage>>
    BY <1>7 DEF GatherLive, programVars
  <2>. QED  BY <2>1 DEF StageInv, Processing, declared
<1>8. ASSUME NEW v \in pending, resolveInOut(v) PROVE StageInv'
  BY <1>8, InOutTurn, KeptStage DEF Turn
<1>9. ASSUME NEW v \in pending, resolveDeclared(v) PROVE StageInv'
  BY <1>9, DeclaredTurn, KeptStage DEF Reserving, UniformTurn, Turn
<1>10. ASSUME NEW v \in pending, leaveUnbound(v) PROVE StageInv'
  BY <1>10, UnboundTurn, KeptStage DEF UniformTurn, Turn
<1>11. ASSUME NEW v \in pending, takeSlot(v) PROVE StageInv'
  BY <1>11, TakeTurn, KeptStage DEF Reserving, UniformTurn, Turn
<1>12. ASSUME NEW v \in pending, getFreeSlot(v) \/ \E at \in slots[LayoutSet(v)] : skipSlot(v, at)
       PROVE  StageInv'
  BY <1>12, SearchTurn, KeptStage, Zenon
<1>13. CASE applyStage
  <2>1. ioMapper /\ ioMapper'
    <3>1. phase # "idle"
      BY <1>13 DEF applyStage
    <3>. QED  BY <1>13, <3>1, Zenon DEF applyStage, StageInv, programVars
  <2>2. phase' = "idle" \/ (phase' = "stage" /\ stage' \in DOMAIN program /\ stage' > stage)
    BY <1>13, NextStage, Zenon DEF applyStage
  <2>3. stage \in DOMAIN program /\ \A s \in DOMAIN program : s >= stage => qualifiers[s] = program[s].decl
    BY <1>13, Zenon DEF applyStage, StageInv, TypeOK
  <2>4. \A s \in DOMAIN program : s # stage => qualifiers'[s] = qualifiers[s]
    BY <1>13, Applied DEF TypeOK
  <2>5. \A s \in DOMAIN program : phase' # "idle" /\ s >= stage' => qualifiers'[s] = program[s].decl
    BY <1>00, <2>2, <2>3, <2>4
  <2>. QED  BY <1>0, <2>1, <2>2, <2>5 DEF StageInv, Processing
<1>14. CASE failStage
  BY <1>14 DEF failStage, GiveUp, programVars, StageInv, Processing
<1>. QED
  BY <1>1, <1>2, <1>3, <1>4, <1>5, <1>6, <1>7, <1>8, <1>9, <1>10, <1>11, <1>12, <1>13, <1>14, Zenon DEF Next

LEMMA EntryStep ==
    ASSUME TypeOK, StageInv, EntryInv, SearchInv, Next
    PROVE  EntryInv'
<1>1. CASE mapIO
  <2>1. phase' \in {"idle", "stage"}
    BY <1>1, NextStage DEF mapIO
  <2>. QED  BY <1>1, <2>1 DEF mapIO, EntryInv, resolveVars
<1>2. CASE mapIORefused
  BY <1>2 DEF mapIORefused, EntryInv, resolveVars
<1>3. CASE SkipStage
  <2>1. phase' \in {"idle", "stage"}
    BY <1>3, NextStage DEF SkipStage
  <2>. QED  BY <1>3, <2>1 DEF SkipStage, EntryInv, resolveVars
<1>4. CASE RefuseStage
  BY <1>4 DEF RefuseStage, GiveUp, EntryInv, resolveVars
<1>5. CASE GatherAll
  BY <1>5 DEF GatherAll, EntryInv, resolveVars, Waiting, Unmapped
<1>6. CASE BeginResolve
  BY <1>6 DEF BeginResolve, EntryInv, Waiting, TypeOK
<1>7. ASSUME NEW f \in functions, GatherLive(f) PROVE EntryInv'
  <2>1. phase = "live" /\ phase' = "live" /\ pending' = pending /\ DOMAIN entries' = DOMAIN entries
    BY <1>7 DEF GatherLive, resolveVars
  <2>2. ASSUME NEW v \in DOMAIN entries PROVE Waiting(entries'[v])
    <3>1. entries[v] \in MapEntry /\ Waiting(entries[v])
      BY <2>1, Zenon DEF EntryInv, TypeOK
    <3>. DEFINE l == entries[v].live \/ v \in unit.symbols[f]
    <3>2. entries'[v] = [entries[v] EXCEPT !.live = l]
      BY <1>7, Zenon DEF GatherLive
    <3>. HIDE DEF l
    <3>. QED  BY <3>1, <3>2 DEF MapEntry, Waiting
  <2>. QED  BY <2>1, <2>2 DEF EntryInv
<1>8. ASSUME NEW v \in pending, Turn(v), ~hadError' => ~hadError,
             IF declared(v).storage = "uniform" THEN UniformSettled(v)' ELSE InOutSettled(v)'
      PROVE  EntryInv'
  <2>1. Kept /\ phase = "resolve" /\ phase' = "resolve" /\ pending' = pending \ {v}
        /\ DOMAIN entries' = DOMAIN entries /\ pending \subseteq DOMAIN entries
        /\ \A w \in DOMAIN entries : w # v => entries'[w] = entries[w]
    BY <1>8, Zenon DEF Turn, Kept, TypeOK
  <2>2. ASSUME NEW w \in pending' PROVE Waiting(entries'[w])
    <3>1. w \in pending /\ w # v /\ w \in DOMAIN entries
      BY <2>1, Zenon
    <3>2. entries'[w] = entries[w]
      BY <2>1, <3>1, Zenon
    <3>. QED  BY <2>1, <3>1, <3>2, Zenon DEF EntryInv
  <2>3. ASSUME NEW w \in DOMAIN entries' \ pending'
        PROVE  IF declared(w)'.storage = "uniform" THEN UniformSettled(w)' ELSE InOutSettled(w)'
    <3>1. declared(w)' = declared(w) /\ BaseBinding(w)' = BaseBinding(w) /\ resolveSet(w)' = resolveSet(w)
      BY <2>1, KeptOperators, Zenon
    <3>2. CASE w = v
      BY <1>8, <3>1, <3>2, Zenon
    <3>3. CASE w # v
      <4>1. w \in DOMAIN entries \ pending /\ entries'[w] = entries[w]
        BY <2>1, <3>3, Zenon
      <4>2. IF declared(w).storage = "uniform" THEN UniformSettled(w) ELSE InOutSettled(w)
        BY <2>1, <4>1, Zenon DEF EntryInv
      <4>. QED  BY <1>8, <3>1, <4>1, <4>2, Zenon DEF UniformSettled, InOutSettled
    <3>. QED  BY <3>2, <3>3
  <2>. QED  BY <2>1, <2>2, <2>3, Zenon DEF EntryInv
<1>9. ASSUME NEW v \in pending, resolveInOut(v) PROVE EntryInv'
  <2>1. Turn(v) /\ declared(v).storage # "uniform" /\ hadError' = hadError
        /\ entries'[v].newBinding = entries[v].newBinding /\ entries'[v].newSet = entries[v].newSet
    BY <1>9, InOutTurn DEF InOut
  <2>2. Waiting(entries[v])
    BY <2>1, Zenon DEF EntryInv, Turn, Kept
  <2>3. InOutSettled(v)'
    BY <2>1, <2>2, Zenon DEF Waiting, InOutSettled
  <2>. QED  BY <1>8, <2>1, <2>3, Zenon
<1>10. ASSUME NEW v \in pending, NEW b, UniformTurn(v, b),
              declared(v).binding # -1 => b = BaseBinding(v) + declared(v).binding
       PROVE  EntryInv'
  <2>1. declared(v)' = declared(v) /\ BaseBinding(v)' = BaseBinding(v) /\ resolveSet(v)' = resolveSet(v)
    BY <1>10, KeptOperators, Zenon DEF UniformTurn, Turn
  <2>2. UniformSettled(v)'
    BY <1>10, <2>1, Zenon DEF UniformSettled, UniformTurn
  <2>. QED  BY <1>8, <1>10, <2>2, Zenon DEF UniformTurn
<1>11. ASSUME NEW v \in pending, resolveDeclared(v) PROVE EntryInv'
  BY <1>10, <1>11, DeclaredTurn, Zenon DEF Reserving
<1>12. ASSUME NEW v \in pending, leaveUnbound(v) PROVE EntryInv'
  BY <1>10, <1>12, UnboundTurn, Zenon
<1>13. ASSUME NEW v \in pending, takeSlot(v) PROVE EntryInv'
  <2>1. Reserving(v, base) /\ base # -1
    BY <1>13, TakeTurn
  <2>2. declared(v).binding = -1
    BY <2>1, Zenon DEF SearchInv, SearchedUpTo, WantsBinding, Reserving, UniformTurn, Turn, Kept
  <2>. QED  BY <1>10, <2>1, <2>2, Zenon DEF Reserving
<1>14. ASSUME NEW v \in pending, getFreeSlot(v) \/ \E at \in slots[LayoutSet(v)] : skipSlot(v, at)
       PROVE  EntryInv'
  <2>1. Kept /\ UNCHANGED <<entries, pending, hadError>>
    BY <1>14, SearchTurn, Zenon
  <2>2. \A w : declared(w)' = declared(w) /\ BaseBinding(w)' = BaseBinding(w) /\ resolveSet(w)' = resolveSet(w)
    BY <2>1, KeptOperators, Zenon
  <2>. QED  BY <2>1, <2>2, Zenon DEF EntryInv, Kept, UniformSettled, InOutSettled
<1>15. CASE applyStage
  <2>1. phase' \in {"idle", "stage"}
    BY <1>15, NextStage DEF applyStage
  <2>. QED  BY <1>15, <2>1 DEF applyStage, EntryInv, resolveVars
<1>16. CASE failStage
  BY <1>16 DEF failStage, GiveUp, EntryInv, resolveVars
<1>. QED
  BY <1>1, <1>2, <1>3, <1>4, <1>5, <1>6, <1>7, <1>9, <1>11, <1>12, <1>13, <1>14, <1>15, <1>16, Zenon DEF Next

-----------------------------------------------------------------------------
\* The order of the turns and the search for a slot

LEMMA CurrentUnique ==
    ASSUME TypeOK, StageInv, phase = "resolve", NEW v \in pending, NEW w \in pending, Current(v), Current(w)
    PROVE  v = w
<1>1. SUFFICES ASSUME v # w PROVE FALSE
  OBVIOUS
<1>2. Before(v, w) /\ Before(w, v)
  BY <1>1, Zenon DEF Current
<1>3. v \in Nat /\ w \in Nat
  BY Limits DEF TypeOK
<1>4. Points(v) \in Nat /\ Points(w) \in Nat
  BY DEF Points
<1>. DEFINE a == declared(v).storage
            b == declared(w).storage
            p == Points(v)
            q == Points(w)
<1>5. \/ a = "in" /\ b # "in"
      \/ a = "out" /\ b = "uniform"
      \/ a = b /\ a \in {"in", "out"} /\ v < w
      \/ a = b /\ a = "uniform" /\ (p > q \/ (p = q /\ v < w))
  BY <1>2, Zenon DEF Before, Precedes, InOut
<1>6. \/ b = "in" /\ a # "in"
      \/ b = "out" /\ a = "uniform"
      \/ b = a /\ b \in {"in", "out"} /\ w < v
      \/ b = a /\ b = "uniform" /\ (q > p \/ (q = p /\ w < v))
  BY <1>2, Zenon DEF Before, Precedes, InOut
<1>7. p \in Nat /\ q \in Nat
  BY <1>4
<1>. HIDE DEF a, b, p, q
<1>. QED  BY <1>3, <1>5, <1>6, <1>7

LEMMA OrderStep ==
    ASSUME TypeOK, StageInv, OrderInv, Next
    PROVE  OrderInv'
<1>1. ASSUME phase' # "resolve" PROVE OrderInv'
  BY <1>1 DEF OrderInv
<1>2. CASE BeginResolve
  BY <1>2 DEF BeginResolve, OrderInv
<1>3. CASE mapIORefused
  BY <1>3 DEF mapIORefused, OrderInv
<1>4. ASSUME NEW v \in pending, Turn(v) PROVE OrderInv'
  <2>1. SUFFICES ASSUME NEW x \in pending', NEW w \in DOMAIN entries' \ pending' PROVE Before(w, x)'
    BY DEF OrderInv
  <2>2. Before(w, x)' = Before(w, x)
    BY <1>4, KeptOperators, Zenon DEF Turn
  <2>3. x \in pending /\ x # v /\ (w \in DOMAIN entries \ pending \/ w = v)
    BY <1>4, Zenon DEF Turn
  <2>. QED  BY <1>4, <2>2, <2>3, Zenon DEF Turn, Kept, OrderInv, Current
<1>5. ASSUME NEW v \in pending, resolveInOut(v) \/ resolveDeclared(v) \/ leaveUnbound(v) \/ takeSlot(v)
      PROVE  OrderInv'
  <2>1. Turn(v)
    BY <1>5, InOutTurn, DeclaredTurn, UnboundTurn, TakeTurn, Zenon DEF Reserving, UniformTurn
  <2>. QED  BY <1>4, <2>1
<1>6. ASSUME NEW v \in pending, getFreeSlot(v) \/ \E at \in slots[LayoutSet(v)] : skipSlot(v, at)
      PROVE  OrderInv'
  <2>1. Kept /\ UNCHANGED <<entries, pending>>
    BY <1>6, SearchTurn, Zenon
  <2>2. \A x, w : Before(w, x)' = Before(w, x)
    BY <2>1, KeptOperators, Zenon
  <2>. QED  BY <2>1, <2>2, Zenon DEF OrderInv, Kept
<1>7. CASE mapIO \/ SkipStage \/ RefuseStage \/ GatherAll \/ applyStage \/ failStage \/ \E f \in functions : GatherLive(f)
  <2>1. phase' # "resolve"
    BY <1>7, NextStage DEF mapIO, SkipStage, RefuseStage, GatherAll, applyStage, failStage, GatherLive, GiveUp
  <2>. QED  BY <1>1, <2>1
<1>. QED  BY <1>2, <1>3, <1>5, <1>6, <1>7, Zenon DEF Next

LEMMA SearchStep ==
    ASSUME TypeOK, StageInv, SearchInv, Next
    PROVE  SearchInv'
<1>1. ASSUME phase' # "resolve" \/ base' = -1 PROVE SearchInv'
  BY <1>1, Zenon DEF SearchInv
<1>2. CASE BeginResolve
  BY <1>1, <1>2, Zenon DEF BeginResolve
<1>3. CASE mapIORefused
  BY <1>3 DEF mapIORefused, SearchInv
<1>4. ASSUME NEW v \in pending, resolveInOut(v) PROVE SearchInv'
  <2>1. Turn(v) /\ declared(v).storage # "uniform" /\ base' = base
    BY <1>4, InOutTurn DEF InOut
  <2>2. base = -1
    BY <2>1, Zenon DEF SearchInv, SearchedUpTo, Turn, Kept
  <2>. QED  BY <1>1, <2>1, <2>2, Zenon
<1>5. ASSUME NEW v \in pending, resolveDeclared(v) \/ leaveUnbound(v) \/ takeSlot(v) PROVE SearchInv'
  BY <1>1, <1>5, DeclaredTurn, UnboundTurn, TakeTurn, Zenon DEF Reserving, UniformTurn
<1>6. ASSUME NEW v \in pending, Kept, Current(v), UNCHANGED <<entries, pending, slots>>, SearchedUpTo(v, base')
      PROVE  SearchInv'
  <2>1. SUFFICES ASSUME NEW w \in pending', Current(w)' PROVE SearchedUpTo(w, base)'
    BY Zenon DEF SearchInv
  <2>2. Current(w)
    <3>1. \A x : Before(w, x)' = Before(w, x)
      BY <1>6, KeptOperators, Zenon
    <3>. QED  BY <1>6, <2>1, <3>1, Zenon DEF Current
  <2>3. w = v
    BY <1>6, <2>2, CurrentUnique, Zenon DEF Kept
  <2>4. declared(v)' = declared(v) /\ BaseBinding(v)' = BaseBinding(v) /\ LayoutSet(v)' = LayoutSet(v)
        /\ WantsBinding(v)' = WantsBinding(v)
    BY <1>6, KeptOperators, Zenon DEF WantsBinding
  <2>5. \A x : RangeAt(v, x)' = RangeAt(v, x)
    BY <2>4, Zenon DEF RangeAt
  <2>. QED  BY <1>6, <2>3, <2>4, <2>5, Zenon DEF SearchedUpTo
<1>7. ASSUME NEW v \in pending, getFreeSlot(v) PROVE SearchInv'
  <2>1. phase = "resolve" /\ v \in Ids /\ base' = BaseBinding(v) /\ declared(v).storage = "uniform" /\ WantsBinding(v)
    BY <1>7, Zenon DEF getFreeSlot, Resolving, TypeOK
  <2>2. BaseBinding(v) \in Nat
    BY <2>1, VariableTypes
  <2>3. SearchedUpTo(v, BaseBinding(v))
    BY <2>1, <2>2 DEF SearchedUpTo
  <2>. QED  BY <1>6, <1>7, <2>1, <2>3, SearchTurn, Zenon
<1>8. ASSUME NEW v \in pending, NEW at \in slots[LayoutSet(v)], skipSlot(v, at) PROVE SearchInv'
  <2>1. phase = "resolve" /\ v \in Ids /\ base' = at + 1 /\ base # -1 /\ at >= base /\ ~Fits(v, at)
    BY <1>8, Zenon DEF skipSlot, Resolving, TypeOK, IsAt
  <2>2. Kept /\ Current(v) /\ UNCHANGED <<entries, pending, slots>>
    BY <1>8, SearchTurn, Zenon
  <2>3. SearchedUpTo(v, base)
    BY <2>1, <2>2, Zenon DEF SearchInv
  <2>4. BaseBinding(v) \in Nat /\ declared(v).size \in Nat /\ LayoutSet(v) \in Sets
    BY <2>1, VariableTypes
  <2>5. at \in Nat /\ base \in Nat
    BY <2>1, <2>4 DEF TypeOK
  <2>6. ASSUME NEW x \in BaseBinding(v) .. at PROVE RangeAt(v, x) \cap slots[LayoutSet(v)] # {}
    <3>1. CASE x < base
      BY <2>3, <2>4, <2>5, <3>1 DEF SearchedUpTo
    <3>2. CASE x >= base
      <4>1. at \in RangeAt(v, x)
        BY <2>1, <2>4, <2>5, <3>2 DEF Fits, RangeAt
      <4>. QED  BY <4>1
    <3>. QED  BY <2>4, <2>5, <3>1, <3>2
  <2>7. SearchedUpTo(v, at + 1)
    <3>1. BaseBinding(v) <= at + 1 /\ BaseBinding(v) .. (at + 1) - 1 = BaseBinding(v) .. at
      BY <2>1, <2>3, <2>4, <2>5 DEF SearchedUpTo
    <3>. QED  BY <2>3, <2>6, <3>1, Zenon DEF SearchedUpTo
  <2>. QED  BY <1>6, <2>1, <2>2, <2>7, Zenon
<1>9. CASE mapIO \/ SkipStage \/ RefuseStage \/ GatherAll \/ applyStage \/ failStage \/ \E f \in functions : GatherLive(f)
  <2>1. phase' # "resolve"
    BY <1>9, NextStage DEF mapIO, SkipStage, RefuseStage, GatherAll, applyStage, failStage, GatherLive, GiveUp
  <2>. QED  BY <1>1, <2>1
<1>. QED  BY <1>2, <1>3, <1>4, <1>5, <1>7, <1>8, <1>9, Zenon DEF Next

-----------------------------------------------------------------------------
\* Bindings are shifted once

\* MappedOnce, for one variable
OnceShifted(s, v) ==
    LET d == program[s].decl[v]
        set == IF d.set # -1 THEN d.set ELSE 0
        shift == IF program[s].shiftForSet[d.type][set] # -1
                 THEN program[s].shiftForSet[d.type][set] ELSE program[s].shift[d.type]
    IN  d.binding # -1 => qualifiers[s][v].binding \in {d.binding, d.binding + shift}

LEMMA OnceStep ==
    ASSUME TypeOK, StageInv, EntryInv, MappedOnce, Next
    PROVE  MappedOnce'
<1>0. program' = program
  BY ProgramStays
<1>1. ASSUME qualifiers' = qualifiers PROVE MappedOnce'
  BY <1>0, <1>1, Zenon DEF MappedOnce
<1>2. CASE applyStage
  <2>1. SUFFICES ASSUME NEW s \in DOMAIN program, NEW v \in Ids, program[s].decl[v].binding # -1
                 PROVE  OnceShifted(s, v)'
    <3>1. MappedOnce' = \A s \in DOMAIN program', v \in Ids : OnceShifted(s, v)'
      BY Zenon DEF MappedOnce, OnceShifted
    <3>2. \A s, v : program[s].decl[v].binding = -1 => OnceShifted(s, v)'
      BY <1>0, Zenon DEF OnceShifted
    <3>. QED  BY <1>0, <3>1, <3>2, Zenon
  <2>2. CASE s # stage
    <3>1. qualifiers'[s] = qualifiers[s]
      BY <1>2, <2>2, Applied DEF TypeOK
    <3>. QED  BY <1>0, <3>1, Zenon DEF MappedOnce, OnceShifted
  <2>3. CASE s = stage
    <3>1. phase # "idle" /\ phase = "resolve" /\ pending = {}
      BY <1>2 DEF applyStage
    <3>2. qualifiers[stage] = program[stage].decl
      <4>1. stage >= stage
        BY <3>1 DEF TypeOK
      <4>. QED  BY <2>3, <3>1, <4>1, Zenon DEF StageInv
    <3>3. declared(v) = program[s].decl[v] /\ unit = program[s]
      BY <2>3, <3>2, Zenon DEF declared, unit
    <3>4. CASE v \notin DOMAIN entries
      <4>1. qualifiers'[s][v] = program[s].decl[v]
        BY <1>2, <2>3, <3>3, <3>4, Applied, Zenon
      <4>. QED  BY <1>0, <4>1, Zenon DEF OnceShifted
    <3>5. CASE v \in DOMAIN entries
      <4>1. declared(v) \in Decl /\ entries[v].newBinding \in Nat \cup {-1}
            /\ entries[v].newBinding < BindingEnd /\ entries[v].newSet < SetEnd
            /\ entries[v].newSet \in Nat \cup {-1} /\ entries[v].newLocation \in Nat \cup {-1}
            /\ qualifiers'[stage][v] = Mapped(declared(v), entries[v])
        BY <1>2, <3>5, Applied DEF MapEntry
      <4>2. qualifiers'[stage][v].binding
            = IF entries[v].newBinding # -1 THEN entries[v].newBinding ELSE declared(v).binding
        <5>1. Mapped(declared(v), entries[v]).binding
                = IF entries[v].newBinding # -1 THEN entries[v].newBinding ELSE declared(v).binding
          BY <4>1, MappedType
        <5>. QED  BY <4>1, <5>1
      <4>3. IF declared(v).storage = "uniform" THEN UniformSettled(v) ELSE InOutSettled(v)
        BY <3>1, <3>5, Zenon DEF EntryInv
      <4>4. BaseBinding(v) \in Nat /\ declared(v).binding \in -1 .. BindingEnd - 1
        BY <3>1, VariableTypes
      <4>5. qualifiers'[stage][v].binding \in {declared(v).binding, declared(v).binding + BaseBinding(v)}
        BY <2>1, <3>3, <4>2, <4>3, <4>4, Limits DEF UniformSettled, InOutSettled
      <4>. QED  BY <1>0, <2>3, <3>3, <4>5, Zenon DEF BaseBinding, LayoutSet, OnceShifted
    <3>. QED  BY <3>4, <3>5
  <2>. QED  BY <2>2, <2>3
<1>3. ASSUME NEW v \in pending, resolveInOut(v) \/ resolveDeclared(v) \/ leaveUnbound(v) \/ takeSlot(v)
      PROVE  qualifiers' = qualifiers
  BY <1>3, InOutTurn, DeclaredTurn, UnboundTurn, TakeTurn, Zenon DEF Reserving, UniformTurn, Turn, Kept
<1>4. ASSUME NEW v \in pending, getFreeSlot(v) \/ \E at \in slots[LayoutSet(v)] : skipSlot(v, at)
      PROVE  qualifiers' = qualifiers
  BY <1>4, SearchTurn, Zenon DEF Kept
<1>5. CASE mapIO \/ mapIORefused \/ SkipStage \/ RefuseStage \/ GatherAll \/ BeginResolve \/ failStage
           \/ \E f \in functions : GatherLive(f)
  BY <1>1, <1>5, Zenon DEF mapIO, mapIORefused, SkipStage, RefuseStage, GatherAll, BeginResolve, failStage, GatherLive
<1>. QED  BY <1>1, <1>2, <1>3, <1>4, <1>5, Zenon DEF Next

-----------------------------------------------------------------------------
\* Live is what is reached

\* the functions the traverser has met that have a body
Met == (liveFunctions \cup {Entry}) \cap unit.bodies

\* S has the entry point and what its functions call, as far as there are bodies
ClosedUnderCalls(S) ==
    /\ {Entry} \cap unit.bodies \subseteq S
    /\ \A g \in S : unit.calls[g] \cap unit.bodies \subseteq S

(* The functions met are among the reached ones.  Those no longer in the   *)
(* list have had all they call put into it and all they mention marked;    *)
(* nothing else is marked.                                                 *)
LiveInv ==
    Processing =>
        /\ functions \subseteq Met
        /\ \A S \in SUBSET Functions : ClosedUnderCalls(S) => Met \subseteq S
        /\ \A f \in Met \ functions :
             /\ unit.calls[f] \subseteq liveFunctions
             /\ \A v \in DOMAIN entries : v \in unit.symbols[f] => entries[v].live
        /\ \A v \in DOMAIN entries : entries[v].live => \E f \in Met : v \in unit.symbols[f]
        /\ phase = "resolve" => functions = {}

LEMMA KeptLive ==
    ASSUME LiveInv, Kept, DOMAIN entries' = DOMAIN entries,
           \A v \in DOMAIN entries : entries'[v].live = entries[v].live
    PROVE  LiveInv'
<1>1. phase = "resolve" /\ UNCHANGED <<phase, functions, liveFunctions>> /\ unit' = unit
  BY Zenon DEF Kept, unit
<1>2. Met' = Met /\ \A S : ClosedUnderCalls(S)' = ClosedUnderCalls(S)
  BY <1>1, Zenon DEF Met, ClosedUnderCalls
<1>3. Processing /\ Processing'
  BY <1>1 DEF Processing
<1>. QED  BY <1>1, <1>2, <1>3, Zenon DEF LiveInv

LEMMA LiveStep ==
    ASSUME TypeOK, StageInv, LiveInv, Next
    PROVE  LiveInv'
<1>1. ASSUME phase' # "live", phase' # "resolve" PROVE LiveInv'
  BY <1>1 DEF LiveInv, Processing
<1>2. CASE mapIO \/ SkipStage \/ RefuseStage \/ applyStage \/ failStage
  <2>1. phase' \in {"idle", "stage"}
    BY <1>2, NextStage DEF mapIO, SkipStage, RefuseStage, applyStage, failStage, GiveUp
  <2>. QED  BY <1>1, <2>1
<1>3. CASE mapIORefused
  <2>1. phase = "idle" /\ phase' = phase
    BY <1>3, Zenon DEF mapIORefused
  <2>. QED  BY <1>1, <2>1
<1>4. CASE GatherAll
  <2>1. functions' = {Entry} \cap unit.bodies /\ liveFunctions' = {} /\ unit' = unit /\ phase' = "live"
    BY <1>4, Zenon DEF GatherAll, unit, programVars
  <2>2. Met' = functions'
    BY <2>1, Zenon DEF Met
  <2>3. \A S : ClosedUnderCalls(S)' => Met' \subseteq S
    BY <2>1, <2>2, Zenon DEF ClosedUnderCalls
  <2>4. \A v \in DOMAIN entries' : ~entries'[v].live
    BY <1>4 DEF GatherAll, Unmapped
  <2>. QED  BY <2>1, <2>2, <2>3, <2>4 DEF LiveInv
<1>5. ASSUME NEW f \in functions, GatherLive(f) PROVE LiveInv'
  <2>1. /\ functions' = (functions \ {f}) \cup (NewCalls(f) \cap unit.bodies)
        /\ liveFunctions' = liveFunctions \cup NewCalls(f) /\ unit' = unit /\ phase' = "live" /\ phase = "live"
        /\ DOMAIN entries' = DOMAIN entries
    BY <1>5, Zenon DEF GatherLive, unit, programVars
  <2>2. f \in Met /\ f \in Functions /\ Met' = Met \cup (NewCalls(f) \cap unit.bodies)
    <3>1. f \in Met
      BY <2>1 DEF LiveInv, Processing
    <3>. QED  BY <2>1, <3>1, Zenon DEF Met, TypeOK
  <2>3. \A v \in DOMAIN entries : entries'[v].live = (entries[v].live \/ v \in unit.symbols[f])
    <3>1. SUFFICES ASSUME NEW v \in DOMAIN entries
                   PROVE  entries'[v].live = (entries[v].live \/ v \in unit.symbols[f])
      OBVIOUS
    <3>. DEFINE l == entries[v].live \/ v \in unit.symbols[f]
    <3>2. entries'[v] = [entries[v] EXCEPT !.live = l] /\ entries[v] \in MapEntry
      BY <1>5, Zenon DEF GatherLive, TypeOK
    <3>. HIDE DEF l
    <3>3. entries'[v].live = l
      BY <3>2 DEF MapEntry
    <3>. QED  BY <3>3, Zenon DEF l
  <2>4. functions' \subseteq Met'
    BY <2>1, <2>2 DEF LiveInv, Processing
  <2>5. ASSUME NEW S \in SUBSET Functions, ClosedUnderCalls(S)' PROVE Met' \subseteq S
    <3>1. ClosedUnderCalls(S)
      BY <2>1, <2>5, Zenon DEF ClosedUnderCalls
    <3>2. Met \subseteq S
      BY <2>1, <3>1 DEF LiveInv, Processing
    <3>3. NewCalls(f) \cap unit.bodies \subseteq S
      BY <2>2, <3>1, <3>2, Zenon DEF ClosedUnderCalls, NewCalls
    <3>. QED  BY <2>2, <3>2, <3>3
  <2>6. ASSUME NEW g \in Met' \ functions'
        PROVE  /\ unit.calls[g] \subseteq liveFunctions'
               /\ \A v \in DOMAIN entries : v \in unit.symbols[g] => entries'[v].live
    <3>1. CASE g = f
      <4>1. unit.calls[f] \subseteq liveFunctions'
        BY <2>1, Zenon DEF NewCalls
      <4>. QED  BY <2>3, <3>1, <4>1, Zenon
    <3>2. CASE g # f
      <4>1. g \in Met \ functions
        BY <2>1, <2>2, <2>6, <3>2, Zenon
      <4>2. Processing
        BY <2>1 DEF Processing
      <4>3. /\ unit.calls[g] \subseteq liveFunctions
            /\ \A v \in DOMAIN entries : v \in unit.symbols[g] => entries[v].live
        BY <4>1, <4>2, Zenon DEF LiveInv
      <4>. QED  BY <2>1, <2>3, <4>3, Zenon
    <3>. QED  BY <3>1, <3>2
  <2>7. ASSUME NEW v \in DOMAIN entries, entries'[v].live PROVE \E g \in Met' : v \in unit.symbols[g]
    <3>1. Processing
      BY <2>1 DEF Processing
    <3>. QED  BY <2>2, <2>3, <2>7, <3>1, Zenon DEF LiveInv
  <2>8. phase' # "resolve"
    BY <2>1
  <2>. QED  BY <2>1, <2>4, <2>5, <2>6, <2>7, <2>8, Zenon DEF LiveInv
<1>6. CASE BeginResolve
  <2>1. functions' = {} /\ functions' = functions /\ liveFunctions' = liveFunctions /\ unit' = unit /\ entries' = entries
        /\ phase = "live" /\ phase' = "resolve"
    BY <1>6, Zenon DEF BeginResolve, unit, programVars, traverseVars
  <2>2. Met' = Met /\ \A S : ClosedUnderCalls(S)' = ClosedUnderCalls(S)
    BY <2>1, Zenon DEF Met, ClosedUnderCalls
  <2>3. Processing
    BY <2>1 DEF Processing
  <2>. QED  BY <2>1, <2>2, <2>3, Zenon DEF LiveInv
<1>7. ASSUME NEW v \in pending, resolveInOut(v) \/ resolveDeclared(v) \/ leaveUnbound(v) \/ takeSlot(v)
      PROVE  LiveInv'
  <2>1. Turn(v)
    BY <1>7, InOutTurn, DeclaredTurn, UnboundTurn, TakeTurn, Zenon DEF Reserving, UniformTurn
  <2>2. \A w \in DOMAIN entries : entries'[w].live = entries[w].live
    BY <2>1, Zenon DEF Turn
  <2>. QED  BY <2>1, <2>2, KeptLive, Zenon DEF Turn
<1>8. ASSUME NEW v \in pending, getFreeSlot(v) \/ \E at \in slots[LayoutSet(v)] : skipSlot(v, at)
      PROVE  LiveInv'
  BY <1>8, SearchTurn, KeptLive, Zenon
<1>. QED  BY <1>2, <1>3, <1>4, <1>5, <1>6, <1>7, <1>8, Zenon DEF Next

LEMMA MetIsReached ==
    ASSUME TypeOK, StageInv, LiveInv, phase = "resolve"
    PROVE  Met = Reached
<1>1. Processing /\ functions = {}
  BY DEF Processing, LiveInv
<1>2. stage \in DOMAIN program
  BY DEF TypeOK
<1>3. Met \in SUBSET Functions /\ ClosedUnderCalls(Met)
  <2>1. unit.bodies \in SUBSET Functions
    BY <1>2, UnitTypes, Zenon DEF unit
  <2>2. \A g \in Met : unit.calls[g] \subseteq liveFunctions
    BY <1>1, Zenon DEF LiveInv
  <2>. QED  BY <2>1, <2>2, Zenon DEF Met, ClosedUnderCalls
<1>4. \A S \in SUBSET Functions : ClosedUnderCalls(S) => Met \subseteq S
  BY <1>1, Zenon DEF LiveInv
<1>5. Reached = {f \in Functions : \A S \in SUBSET Functions : ClosedUnderCalls(S) => f \in S}
  BY Zenon DEF Reached, ClosedUnderCalls
<1>. QED  BY <1>3, <1>4, <1>5, Zenon

LEMMA LiveHolds ==
    ASSUME TypeOK, StageInv, LiveInv
    PROVE  LiveIsReached
<1>1. SUFFICES ASSUME phase = "resolve", NEW v \in DOMAIN entries
               PROVE  entries[v].live <=> \E f \in Reached : v \in unit.symbols[f]
  BY Zenon DEF LiveIsReached
<1>2. Processing /\ functions = {} /\ Met = Reached
  BY <1>1, MetIsReached DEF Processing, LiveInv
<1>3. entries[v].live => \E f \in Reached : v \in unit.symbols[f]
  BY <1>2, Zenon DEF LiveInv
<1>4. ASSUME NEW f \in Reached, v \in unit.symbols[f] PROVE entries[v].live
  BY <1>2, <1>4, Zenon DEF LiveInv
<1>. QED  BY <1>3, <1>4, Zenon

-----------------------------------------------------------------------------
\* The places given so far

places == [v \in Placed |-> PlaceOf(v)]

(* A turn can add its own variable to those placed and changes no other.   *)
LEMMA PlacedTurn ==
    ASSUME NEW v \in pending, Turn(v)
    PROVE  /\ v \notin Placed
           /\ (declared(v).storage = "uniform" /\ entries'[v].newBinding # -1) => Placed' = Placed \cup {v}
           /\ ~(declared(v).storage = "uniform" /\ entries'[v].newBinding # -1) => Placed' = Placed
           /\ \A w \in Placed : w # v /\ entries'[w] = entries[w] /\ PlaceOf(w)' = PlaceOf(w)
           /\ \A w : LayoutSet(w)' = LayoutSet(w) /\ \A b : RangeAt(w, b)' = RangeAt(w, b)
<1>1. Kept /\ phase = "resolve" /\ phase' = "resolve" /\ v \in DOMAIN entries /\ pending' = pending \ {v}
      /\ DOMAIN entries' = DOMAIN entries /\ \A w \in DOMAIN entries : w # v => entries'[w] = entries[w]
  BY Zenon DEF Turn, Kept
<1>2. \A w : declared(w)' = declared(w) /\ BaseBinding(w)' = BaseBinding(w) /\ LayoutSet(w)' = LayoutSet(w)
  BY <1>1, KeptOperators, Zenon
<1>3. \A w : w \in Placed <=> w \in DOMAIN entries \ pending /\ declared(w).storage = "uniform" /\ entries[w].newBinding # -1
  BY <1>1, Zenon DEF Placed
<1>4. \A w : w \in Placed' <=> w \in DOMAIN entries \ (pending \ {v}) /\ declared(w).storage = "uniform"
                               /\ entries'[w].newBinding # -1
  BY <1>1, <1>2, Zenon DEF Placed
<1>5. v \notin Placed /\ \A w \in Placed : w # v /\ entries'[w] = entries[w]
  BY <1>1, <1>3, Zenon
<1>6. \A w : w # v => (w \in Placed' <=> w \in Placed)
  BY <1>1, <1>3, <1>4, Zenon
<1>7. v \in Placed' <=> declared(v).storage = "uniform" /\ entries'[v].newBinding # -1
  BY <1>1, <1>4, Zenon
<1>8. \A w \in Placed : PlaceOf(w)' = PlaceOf(w)
  BY <1>2, <1>5, Zenon DEF PlaceOf
<1>9. \A w, b : RangeAt(w, b)' = RangeAt(w, b)
  BY <1>2, Zenon DEF RangeAt
<1>10. (declared(v).storage = "uniform" /\ entries'[v].newBinding # -1) => Placed' = Placed \cup {v}
  BY <1>6, <1>7, Zenon
<1>11. ~(declared(v).storage = "uniform" /\ entries'[v].newBinding # -1) => Placed' = Placed
  BY <1>5, <1>6, <1>7, Zenon
<1>. QED  BY <1>2, <1>5, <1>8, <1>9, <1>10, <1>11, Zenon

LEMMA KeptPlaces ==
    ASSUME Kept, UNCHANGED <<entries, pending>>
    PROVE  Placed' = Placed /\ places' = places /\ \A w : LayoutSet(w)' = LayoutSet(w) /\ \A b : RangeAt(w, b)' = RangeAt(w, b)
<1>1. \A w : declared(w)' = declared(w) /\ BaseBinding(w)' = BaseBinding(w) /\ LayoutSet(w)' = LayoutSet(w)
  BY KeptOperators, Zenon
<1>2. phase' = phase
  BY Zenon DEF Kept
<1>3. \A w : w \in Placed' <=> w \in Placed
  BY <1>1, <1>2, Zenon DEF Placed
<1>4. Placed' = Placed
  BY <1>3, Zenon
<1>5. \A w : PlaceOf(w)' = PlaceOf(w)
  BY <1>1, Zenon DEF PlaceOf
<1>. QED  BY <1>1, <1>4, <1>5, Zenon DEF places, RangeAt

LEMMA SlotsStep ==
    ASSUME TypeOK, StageInv, EntryInv, SlotsInv, Next
    PROVE  SlotsInv'
<1>1. ASSUME phase' # "resolve" PROVE SlotsInv'
  BY <1>1 DEF SlotsInv
<1>2. CASE BeginResolve
  <2>1. phase' = "resolve" /\ pending' = DOMAIN entries' /\ slots' = [set \in Sets |-> {}]
    BY <1>2, Zenon DEF BeginResolve
  <2>2. \A w : w \notin Placed'
    BY <2>1, Zenon DEF Placed
  <2>. QED  BY <2>1, <2>2, Zenon DEF SlotsInv
<1>3. CASE mapIORefused
  <2>1. phase' = "idle"
    BY <1>3, Zenon DEF mapIORefused
  <2>. QED  BY <1>1, <2>1
<1>4. ASSUME NEW v \in pending, Turn(v), ~(declared(v).storage = "uniform" /\ entries'[v].newBinding # -1), slots' = slots
      PROVE  SlotsInv'
  <2>1. /\ Placed' = Placed /\ phase = "resolve"
        /\ \A w \in Placed : entries'[w] = entries[w]
        /\ \A w : LayoutSet(w)' = LayoutSet(w) /\ \A x : RangeAt(w, x)' = RangeAt(w, x)
    BY <1>4, PlacedTurn, Zenon DEF Turn, Kept
  <2>2. SUFFICES ASSUME NEW set \in Sets, NEW x
                 PROVE  x \in slots[set] <=> \E w \in Placed : LayoutSet(w) = set /\ x \in RangeAt(w, entries'[w].newBinding)
    BY <1>4, <2>1, Zenon DEF SlotsInv
  <2>. QED  BY <2>1, Zenon DEF SlotsInv
<1>5. ASSUME NEW v \in pending, resolveInOut(v) PROVE SlotsInv'
  <2>1. Turn(v) /\ declared(v).storage # "uniform" /\ slots' = slots
    BY <1>5, InOutTurn DEF InOut
  <2>. QED  BY <1>4, <2>1, Zenon
<1>6. ASSUME NEW v \in pending, leaveUnbound(v) PROVE SlotsInv'
  BY <1>4, <1>6, UnboundTurn, Zenon DEF UniformTurn
<1>7. ASSUME NEW v \in pending, NEW b, Reserving(v, b) PROVE SlotsInv'
  <2>1. Turn(v) /\ b \in Nat /\ declared(v).storage = "uniform" /\ entries'[v].newBinding = b
        /\ slots' = [slots EXCEPT ![LayoutSet(v)] = slots[LayoutSet(v)] \cup RangeAt(v, b)]
    BY <1>7, Zenon DEF Reserving, UniformTurn
  <2>2. b # -1
    BY <2>1
  <2>3. /\ Placed' = Placed \cup {v} /\ v \notin Placed /\ phase = "resolve"
        /\ \A w \in Placed : entries'[w] = entries[w]
        /\ \A w : LayoutSet(w)' = LayoutSet(w) /\ \A x : RangeAt(w, x)' = RangeAt(w, x)
    BY <2>1, <2>2, PlacedTurn, Zenon DEF Turn, Kept
  <2>4. LayoutSet(v) \in Sets /\ slots \in [Sets -> SUBSET Nat]
    BY <2>1, VariableTypes DEF Turn, Kept, TypeOK
  <2>5. SUFFICES ASSUME NEW set \in Sets, NEW x
                 PROVE  x \in slots'[set] <=> \E w \in Placed \cup {v} : LayoutSet(w) = set /\ x \in RangeAt(w, entries'[w].newBinding)
    BY <2>3, Zenon DEF SlotsInv
  <2>6. x \in slots[set] <=> \E w \in Placed : LayoutSet(w) = set /\ x \in RangeAt(w, entries'[w].newBinding)
    BY <2>3, Zenon DEF SlotsInv
  <2>7. x \in slots'[set] <=> (x \in slots[set] \/ (set = LayoutSet(v) /\ x \in RangeAt(v, b)))
    BY <2>1, <2>4, <2>5, Zenon
  <2>. QED  BY <2>1, <2>6, <2>7, Zenon
<1>8. ASSUME NEW v \in pending, resolveDeclared(v) \/ takeSlot(v) PROVE SlotsInv'
  BY <1>7, <1>8, DeclaredTurn, TakeTurn, Zenon
<1>9. ASSUME NEW v \in pending, getFreeSlot(v) \/ \E at \in slots[LayoutSet(v)] : skipSlot(v, at)
      PROVE  SlotsInv'
  <2>1. Kept /\ UNCHANGED <<entries, pending, slots>>
    BY <1>9, SearchTurn, Zenon
  <2>2. /\ Placed' = Placed /\ phase = "resolve"
        /\ \A w : LayoutSet(w)' = LayoutSet(w) /\ \A x : RangeAt(w, x)' = RangeAt(w, x)
    BY <2>1, KeptPlaces, Zenon DEF Kept
  <2>3. SUFFICES ASSUME NEW set \in Sets, NEW x
                 PROVE  x \in slots[set] <=> \E w \in Placed : LayoutSet(w) = set /\ x \in RangeAt(w, entries[w].newBinding)
    BY <2>1, <2>2, Zenon DEF SlotsInv
  <2>. QED  BY <2>2, Zenon DEF SlotsInv
<1>10. CASE mapIO \/ SkipStage \/ RefuseStage \/ GatherAll \/ applyStage \/ failStage \/ \E f \in functions : GatherLive(f)
  <2>1. phase' # "resolve"
    BY <1>10, NextStage DEF mapIO, SkipStage, RefuseStage, GatherAll, applyStage, failStage, GatherLive, GiveUp
  <2>. QED  BY <1>1, <2>1
<1>. QED  BY <1>2, <1>3, <1>5, <1>6, <1>8, <1>9, <1>10, Zenon DEF Next

-----------------------------------------------------------------------------
\* Resolving implements OpenBindings

LEMMA LeastNat ==
    ASSUME NEW T \in SUBSET Nat, T # {}
    PROVE  \E x \in T : \A y \in T : x <= y
<1>. DEFINE R == {ss \in Nat \X Nat : ss[1] < ss[2]}
<1>1. R = OpToRel(<, Nat)
  BY DEF OpToRel
<1>2. IsWellFoundedOn(R, Nat)
  BY <1>1, NatLessThanWellFounded
<1>. HIDE DEF R
<1>3. PICK x \in T : \A y \in T : ~ (<<y, x>> \in R)
  BY <1>2, WFMin, Zenon
<1>4. \A y \in T : ~(y < x)
  BY <1>3 DEF R
<1>. QED  BY <1>4

LEMMA PlaceTypes ==
    ASSUME TypeOK, StageInv, phase = "resolve", NEW v \in Ids, NEW b \in Nat
    PROVE  [set |-> LayoutSet(v), base |-> BaseBinding(v), first |-> b, size |-> declared(v).size,
            open |-> declared(v).binding = -1] \in Abstract!Place
<1>1. LayoutSet(v) \in Sets /\ BaseBinding(v) \in Nat /\ declared(v).size \in Nat \ {0}
  BY VariableTypes
<1>2. (declared(v).binding = -1) \in BOOLEAN
  OBVIOUS
<1>. DEFINE o == declared(v).binding = -1
            z == declared(v).size
            t == LayoutSet(v)
            c == BaseBinding(v)
<1>3. o \in BOOLEAN /\ z \in Nat \ {0} /\ t \in Sets /\ c \in Nat
  BY <1>1, <1>2
<1>. HIDE DEF o, z, t, c
<1>4. [set |-> t, base |-> c, first |-> b, size |-> z, open |-> o] \in Abstract!Place
  BY <1>3, Zenon DEF Abstract!Place
<1>. QED  BY <1>4, Zenon DEF o, z, t, c

(* No slot from base is in use in the set of the variable that takes it.   *)
LEMMA TakenIsFree ==
    ASSUME TypeOK, StageInv, NEW v \in pending, takeSlot(v)
    PROVE  RangeAt(v, base) \cap slots[LayoutSet(v)] = {}
<1>1. phase = "resolve" /\ v \in Ids /\ base \in Nat
  BY DEF takeSlot, Resolving, TypeOK
<1>2. LayoutSet(v) \in Sets /\ declared(v).size \in Nat
  BY <1>1, VariableTypes
<1>. DEFINE S == slots[LayoutSet(v)]
            T == {x \in S : x >= base}
<1>3. S \in SUBSET Nat
  BY <1>2 DEF TypeOK
<1>4. SUFFICES ASSUME NEW y \in S, y \in RangeAt(v, base) PROVE FALSE
  BY Zenon
<1>5. y \in Nat /\ y >= base /\ y - base < declared(v).size
  BY <1>1, <1>2, <1>3, <1>4 DEF RangeAt
<1>6. T \in SUBSET Nat /\ y \in T
  BY <1>3, <1>5
<1>. HIDE DEF T
<1>7. PICK at \in T : \A x \in T : at <= x
  BY <1>6, LeastNat, Zenon
<1>8. at \in S /\ at >= base /\ (\A x \in S : x >= base => at <= x) /\ at <= y /\ at \in Nat
  BY <1>6, <1>7 DEF T
<1>9. IsAt(v, at) /\ at \in slots[LayoutSet(v)]
  BY <1>8, Zenon DEF IsAt
<1>10. Fits(v, at)
  BY <1>9, Zenon DEF takeSlot
<1>. QED  BY <1>1, <1>2, <1>5, <1>8, <1>10 DEF Fits

\* the place of v at b
PlaceAt(v, b) == [set |-> LayoutSet(v), base |-> BaseBinding(v), first |-> b, size |-> declared(v).size,
                  open |-> declared(v).binding = -1]

LEMMA PlaceFields ==
    ASSUME NEW v, NEW b
    PROVE  /\ PlaceAt(v, b).set = LayoutSet(v) /\ PlaceAt(v, b).base = BaseBinding(v)
           /\ PlaceAt(v, b).first = b /\ PlaceAt(v, b).size = declared(v).size
           /\ PlaceAt(v, b).open <=> declared(v).binding = -1
<1>. DEFINE o == declared(v).binding = -1
            z == declared(v).size
            t == LayoutSet(v)
            c == BaseBinding(v)
            r == [set |-> t, base |-> c, first |-> b, size |-> z, open |-> o]
<1>1. PlaceAt(v, b) = r
  BY Zenon DEF PlaceAt
<1>. HIDE DEF o, z, t, c
<1>2. r.set = t /\ r.base = c /\ r.first = b /\ r.size = z /\ r.open = o
  BY Zenon
<1>. HIDE DEF r
<1>. QED  BY <1>1, <1>2, Zenon DEF o, z, t, c

(* Placing v at b, as the abstraction sees it.                             *)
LEMMA PlacesGrow ==
    ASSUME TypeOK, StageInv, NEW v \in pending, NEW b \in Nat, UniformTurn(v, b)
    PROVE  /\ Abstract!Add(v) /\ v \in Ids
           /\ places'[v] = PlaceAt(v, b)
<1>1. Turn(v) /\ declared(v).storage = "uniform" /\ entries'[v].newBinding = b /\ b # -1 /\ v \in Ids /\ phase = "resolve"
  BY DEF UniformTurn, Turn, Kept, TypeOK
<1>2. /\ Placed' = Placed \cup {v} /\ v \notin Placed
      /\ \A w \in Placed : w # v /\ PlaceOf(w)' = PlaceOf(w)
  BY <1>1, PlacedTurn, Zenon
<1>3. declared(v)' = declared(v) /\ BaseBinding(v)' = BaseBinding(v) /\ LayoutSet(v)' = LayoutSet(v)
  BY <1>1, KeptOperators, Zenon DEF Turn
<1>4. PlaceOf(v)' = PlaceAt(v, b)
  BY <1>1, <1>3, Zenon DEF PlaceOf, PlaceAt
<1>5. PlaceOf(v)' \in Abstract!Place
  BY <1>1, <1>4, PlaceTypes, Zenon DEF PlaceAt
<1>6. places' = [w \in Placed \cup {v} |-> PlaceOf(w)'] /\ DOMAIN places = Placed /\ DOMAIN places' = Placed \cup {v}
  BY <1>2, Zenon DEF places
<1>7. places'[v] = PlaceOf(v)' /\ \A w \in Placed : places'[w] = places[w] /\ places[w] = PlaceOf(w)
  BY <1>2, <1>6, Zenon DEF places
<1>8. places' = [w \in DOMAIN places \cup {v} |-> IF w = v THEN places'[v] ELSE places[w]]
  BY <1>2, <1>6, <1>7, Zenon
<1>9. Abstract!Add(v)
  BY <1>2, <1>5, <1>6, <1>7, <1>8, Zenon DEF Abstract!Add, places
<1>. QED  BY <1>1, <1>4, <1>7, <1>9, Zenon

LEMMA DeclaredPlaces ==
    ASSUME TypeOK, StageInv, OrderInv, NEW v \in pending, resolveDeclared(v)
    PROVE  Abstract!PlaceDeclared(v) /\ v \in Ids
<1>. DEFINE b == BaseBinding(v) + declared(v).binding
<1>1. UniformTurn(v, b) /\ b \in Nat /\ declared(v).binding # -1
  BY DeclaredTurn, Zenon DEF Reserving
<1>. HIDE DEF b
<1>2. Abstract!Add(v) /\ v \in Ids
      /\ places'[v] = PlaceAt(v, b)
  BY <1>1, PlacesGrow, Zenon
<1>3. ~places'[v].open
  BY <1>1, <1>2, PlaceFields, Zenon
<1>4. ASSUME NEW w \in Placed PROVE ~places[w].open
  <2>1. declared(v).storage = "uniform" /\ declared(w).storage = "uniform" /\ w \in DOMAIN entries \ pending
        /\ phase = "resolve"
    BY <1>1, Zenon DEF Placed, UniformTurn
  <2>2. Before(w, v)
    BY <2>1, Zenon DEF OrderInv
  <2>3. Precedes(w, v)
    BY <2>1, <2>2 DEF Before, InOut
  <2>4. declared(w).binding # -1
    BY <1>1, <2>3 DEF Precedes, Points
  <2>5. places[w] = PlaceAt(w, entries[w].newBinding)
    BY Zenon DEF places, PlaceOf, PlaceAt
  <2>. QED  BY <2>4, <2>5, PlaceFields, Zenon
<1>. QED  BY <1>2, <1>3, <1>4, Zenon DEF Abstract!PlaceDeclared, places

LEMMA OpenPlaces ==
    ASSUME TypeOK, StageInv, SearchInv, SlotsInv, NEW v \in pending, takeSlot(v)
    PROVE  Abstract!PlaceOpen(v) /\ v \in Ids
<1>1. UniformTurn(v, base) /\ base \in Nat /\ base # -1 /\ phase = "resolve" /\ Current(v)
  BY TakeTurn, Zenon DEF Reserving, UniformTurn, Turn, Kept
<1>2. Abstract!Add(v) /\ v \in Ids
      /\ places'[v] = PlaceAt(v, base)
  BY <1>1, PlacesGrow, Zenon
<1>3. SearchedUpTo(v, base)
  BY <1>1, Zenon DEF SearchInv
<1>4. /\ places'[v].open /\ places'[v].base = BaseBinding(v) /\ places'[v].first = base
      /\ places'[v].size = declared(v).size /\ places'[v].set = LayoutSet(v)
  <2>1. /\ PlaceAt(v, base).set = LayoutSet(v) /\ PlaceAt(v, base).base = BaseBinding(v)
        /\ PlaceAt(v, base).first = base /\ PlaceAt(v, base).size = declared(v).size
        /\ PlaceAt(v, base).open <=> declared(v).binding = -1
    BY PlaceFields
  <2>2. declared(v).binding = -1
    BY <1>3, Zenon DEF SearchedUpTo, WantsBinding
  <2>. QED  BY <1>2, <2>1, <2>2, Zenon
<1>5. LayoutSet(v) \in Sets
  BY <1>1, <1>2, VariableTypes
<1>6. ASSUME NEW b
      PROVE  Abstract!IsOpen(LayoutSet(v), b, declared(v).size) <=> RangeAt(v, b) \cap slots[LayoutSet(v)] = {}
  <2>1. \A w \in Placed : /\ places[w].set = LayoutSet(w)
                          /\ Abstract!Slots(places[w]) = RangeAt(w, entries[w].newBinding)
    BY DEF places, PlaceOf, RangeAt, Abstract!Slots
  <2>2. Abstract!IsOpen(LayoutSet(v), b, declared(v).size)
          <=> \A w \in Placed : LayoutSet(w) = LayoutSet(v) => RangeAt(w, entries[w].newBinding) \cap RangeAt(v, b) = {}
    <3>1. b .. b + declared(v).size - 1 = RangeAt(v, b) /\ DOMAIN places = Placed
      BY Zenon DEF RangeAt, places
    <3>. QED  BY <2>1, <3>1, Zenon DEF Abstract!IsOpen, places
  <2>3. \A x : x \in slots[LayoutSet(v)]
                 <=> \E w \in Placed : LayoutSet(w) = LayoutSet(v) /\ x \in RangeAt(w, entries[w].newBinding)
    BY <1>1, <1>5, Zenon DEF SlotsInv
  <2>. QED  BY <2>2, <2>3, Zenon
<1>7. Abstract!IsOpen(LayoutSet(v), base, declared(v).size)
  BY <1>6, TakenIsFree, Zenon
<1>8. \A b \in BaseBinding(v) .. base - 1 : ~Abstract!IsOpen(LayoutSet(v), b, declared(v).size)
  BY <1>3, <1>6, Zenon DEF SearchedUpTo
<1>9. BaseBinding(v) <= base
  BY <1>3, Zenon DEF SearchedUpTo
<1>. QED  BY <1>2, <1>4, <1>7, <1>8, <1>9, Zenon DEF Abstract!PlaceOpen, places

LEMMA NoPlaces ==
    phase # "resolve" => places = [w \in {} |-> {}]
<1>1. SUFFICES ASSUME phase # "resolve" PROVE places = [w \in {} |-> {}]
  OBVIOUS
<1>2. Placed = {}
  BY <1>1, Zenon DEF Placed
<1>. QED  BY <1>2, Zenon DEF places

LEMMA PlacesStep ==
    ASSUME TypeOK, StageInv, OrderInv, SearchInv, SlotsInv, Next
    PROVE  Abstract!Next \/ places' = places
<1>1. CASE mapIO \/ mapIORefused \/ SkipStage \/ RefuseStage \/ GatherAll \/ \E f \in functions : GatherLive(f)
  <2>1. phase # "resolve" /\ phase' # "resolve"
    BY <1>1, NextStage DEF mapIO, mapIORefused, SkipStage, RefuseStage, GatherAll, GatherLive, GiveUp
  <2>2. places = [w \in {} |-> {}] /\ places' = [w \in {} |-> {}]
    <3>1. Placed' = {}
      BY <2>1, Zenon DEF Placed
    <3>. QED  BY <2>1, <3>1, NoPlaces, Zenon DEF places
  <2>. QED  BY <2>2
<1>2. CASE BeginResolve
  <2>1. phase # "resolve" /\ pending' = DOMAIN entries'
    BY <1>2 DEF BeginResolve
  <2>2. Placed' = {}
    BY <2>1, Zenon DEF Placed
  <2>3. places' = [w \in {} |-> {}]
    BY <2>2, Zenon DEF places
  <2>. QED  BY <2>1, <2>3, NoPlaces
<1>3. CASE applyStage \/ failStage
  <2>1. phase' # "resolve"
    BY <1>3, NextStage DEF applyStage, failStage, GiveUp
  <2>2. places' = [w \in {} |-> {}]
    <3>1. Placed' = {}
      BY <2>1, Zenon DEF Placed
    <3>. QED  BY <3>1, Zenon DEF places
  <2>. QED  BY <2>2, Zenon DEF Abstract!Next, Abstract!Restart, places
<1>4. ASSUME NEW v \in pending, Turn(v), ~(declared(v).storage = "uniform" /\ entries'[v].newBinding # -1)
      PROVE  places' = places
  <2>1. Placed' = Placed /\ \A w \in Placed : PlaceOf(w)' = PlaceOf(w)
    BY <1>4, PlacedTurn, Zenon
  <2>. QED  BY <2>1, Zenon DEF places
<1>5. ASSUME NEW v \in pending, resolveInOut(v) PROVE places' = places
  <2>1. Turn(v) /\ declared(v).storage # "uniform"
    BY <1>5, InOutTurn DEF InOut
  <2>. QED  BY <1>4, <2>1, Zenon
<1>6. ASSUME NEW v \in pending, leaveUnbound(v) PROVE places' = places
  BY <1>4, <1>6, UnboundTurn, Zenon DEF UniformTurn
<1>7. ASSUME NEW v \in pending, resolveDeclared(v) PROVE Abstract!Next
  BY <1>7, DeclaredPlaces, Zenon DEF Abstract!Next
<1>8. ASSUME NEW v \in pending, takeSlot(v) PROVE Abstract!Next
  BY <1>8, OpenPlaces, Zenon DEF Abstract!Next
<1>9. ASSUME NEW v \in pending, getFreeSlot(v) \/ \E at \in slots[LayoutSet(v)] : skipSlot(v, at)
      PROVE  places' = places
  BY <1>9, SearchTurn, KeptPlaces, Zenon
<1>. QED  BY <1>1, <1>2, <1>3, <1>5, <1>6, <1>7, <1>8, <1>9, Zenon DEF Next

-----------------------------------------------------------------------------
\* The invariant and the theorems

IInv ==
    /\ TypeOK /\ StageInv /\ EntryInv /\ OrderInv /\ SearchInv /\ SlotsInv
    /\ LiveInv /\ MappedOnce

LEMMA InitIInv == Init => IInv
<1>. SUFFICES ASSUME Init PROVE IInv
  OBVIOUS
<1>1. program \in Programs /\ qualifiers = [s \in DOMAIN program |-> program[s].decl]
      /\ phase = "idle" /\ ioMapper = FALSE
  BY DEF Init
<1>2. StageInv
  BY <1>1, Zenon DEF StageInv, Processing
<1>3. \A s \in DOMAIN program : program[s].decl \in [Ids -> Decl]
  BY <1>2, UnitTypes, Zenon
<1>4. TypeOK
  <2>1. MaxCalls \in Nat
    BY IoMapperAssumption, Zenon DEF IoMapperAssumption
  <2>2. ioMapper \in BOOLEAN /\ hadError \in BOOLEAN
    BY Zenon DEF Init
  <2>3. DOMAIN qualifiers = DOMAIN program /\ \A s \in DOMAIN qualifiers : qualifiers[s] \in [Ids -> Decl]
    BY <1>1, <1>3
  <2>4. entries \in [DOMAIN entries -> MapEntry] /\ DOMAIN entries = {}
    BY DEF Init
  <2>5. /\ result \in {"none", "true", "false"} /\ calls \in 0 .. MaxCalls
        /\ phase \in {"idle", "stage", "live", "resolve"} /\ stage \in Nat /\ phase = "idle"
        /\ functions \subseteq Functions /\ liveFunctions \subseteq Functions
        /\ pending = {} /\ slots \in [Sets -> SUBSET Nat] /\ base \in Nat \cup {-1}
        /\ nextLocation \in [Storages -> Nat]
    BY <2>1 DEF Init
  <2>. QED  BY <2>2, <2>3, <2>4, <2>5 DEF TypeOK
<1>5. EntryInv /\ OrderInv /\ SearchInv /\ SlotsInv /\ LiveInv
  BY DEF Init, EntryInv, OrderInv, SearchInv, SlotsInv, LiveInv, Processing
<1>6. MappedOnce
  BY <1>1, Zenon DEF MappedOnce
<1>. QED  BY <1>2, <1>4, <1>5, <1>6 DEF IInv

LEMMA StutterIInv == IInv /\ UNCHANGED vars => IInv'
<1>. SUFFICES ASSUME IInv, UNCHANGED vars PROVE IInv'
  OBVIOUS
<1>0. UNCHANGED <<program, qualifiers, ioMapper, result, calls, phase, stage, functions, liveFunctions, entries,
                  pending, slots, base, nextLocation, hadError>>
  BY Zenon DEF vars, programVars, traverseVars, resolveVars
<1>1. TypeOK'
  BY <1>0, Zenon DEF IInv, TypeOK
<1>2. unit' = unit /\ \A v : declared(v)' = declared(v)
  BY <1>0, Zenon DEF unit, declared
<1>3. \A v : LayoutSet(v)' = LayoutSet(v) /\ resolveSet(v)' = resolveSet(v) /\ Points(v)' = Points(v)
  BY <1>2, Zenon DEF LayoutSet, resolveSet, Points
<1>4. \A v : BaseBinding(v)' = BaseBinding(v) /\ (WantsBinding(v)' <=> WantsBinding(v))
  BY <1>0, <1>2, <1>3, Zenon DEF BaseBinding, WantsBinding
<1>5. \A v, w : Before(v, w)' <=> Before(v, w)
  BY <1>2, <1>3, Zenon DEF Before, Precedes
<1>6. StageInv' /\ EntryInv'
  BY <1>0, <1>2, <1>3, <1>4, Zenon DEF IInv, StageInv, Processing, EntryInv, UniformSettled, InOutSettled
<1>7. OrderInv'
  BY <1>0, <1>5, Zenon DEF IInv, OrderInv
<1>8. \A v : Current(v)' <=> Current(v)
  BY <1>0, <1>5, Zenon DEF Current
<1>9. \A v, b : RangeAt(v, b)' = RangeAt(v, b)
  BY <1>2, Zenon DEF RangeAt
<1>10. SearchInv'
  BY <1>0, <1>2, <1>3, <1>4, <1>8, <1>9, Zenon DEF IInv, SearchInv, SearchedUpTo
<1>11. Placed' = Placed
  BY <1>0, <1>2, Zenon DEF Placed
<1>12. SlotsInv'
  BY <1>0, <1>3, <1>9, <1>11, Zenon DEF IInv, SlotsInv
<1>13. LiveInv'
  BY <1>0, <1>2, Zenon DEF IInv, LiveInv, Processing, Met, ClosedUnderCalls
<1>14. MappedOnce'
  BY <1>0, Zenon DEF IInv, MappedOnce
<1>. QED  BY <1>1, <1>6, <1>7, <1>10, <1>12, <1>13, <1>14, Zenon DEF IInv

THEOREM Invariance == Spec => []IInv
<1>1. IInv /\ [Next]_vars => IInv'
  <2>. SUFFICES ASSUME IInv, [Next]_vars PROVE IInv'
    OBVIOUS
  <2>1. CASE Next
    BY <2>1, TypeStep, StageStep, EntryStep, OrderStep, SearchStep, SlotsStep, LiveStep, OnceStep, Zenon DEF IInv
  <2>2. CASE UNCHANGED vars
    BY <2>2, StutterIInv, Zenon
  <2>. QED  BY <2>1, <2>2
<1>. QED  BY <1>1, InitIInv, PTL DEF Spec

(* No binding or set that mapIO writes reaches the value that means none,  *)
(* whatever the shifts, the slots in use and the limits.                   *)
THEOREM TypeCorrect == Spec => []TypeOK
<1>1. IInv => TypeOK
  BY DEF IInv
<1>. QED  BY <1>1, Invariance, PTL

(* Declared bindings are shifted once, over any number of calls of mapIO   *)
(* and whichever of them fail.                                             *)
THEOREM MappedOnceHolds == Spec => []MappedOnce
<1>1. IInv => MappedOnce
  BY DEF IInv
<1>. QED  BY <1>1, Invariance, PTL

(* The live traverser marks exactly what the entry point reaches, for any  *)
(* call graph and whatever order its list is worked off in.                *)
THEOREM LiveIsReachedHolds == Spec => []LiveIsReached
<1>1. IInv => LiveIsReached
  BY LiveHolds DEF IInv
<1>. QED  BY <1>1, Invariance, PTL

(* Resolving a stage implements OpenBindings: the order of priority puts   *)
(* the declared bindings first, and getFreeSlot finds the first gap.       *)
THEOREM OpenBindingsImplemented == Spec => ImplementsOpenBindings
<1>1. Init => Abstract!Init
  <2>. SUFFICES ASSUME Init PROVE Abstract!Init
    OBVIOUS
  <2>1. phase # "resolve"
    BY DEF Init
  <2>. QED  BY <2>1, NoPlaces, Zenon DEF Abstract!Init, places
<1>2. IInv /\ [Next]_vars => [Abstract!Next]_places
  <2>. SUFFICES ASSUME IInv, [Next]_vars PROVE Abstract!Next \/ places' = places
    OBVIOUS
  <2>1. CASE Next
    BY <2>1, PlacesStep, Zenon DEF IInv
  <2>2. CASE UNCHANGED vars
    <3>1. UNCHANGED <<program, qualifiers, phase, stage, entries, pending>>
      BY <2>2, Zenon DEF vars, programVars, resolveVars
    <3>2. unit' = unit /\ \A v : declared(v)' = declared(v)
      BY <3>1, Zenon DEF unit, declared
    <3>3. Placed' = Placed /\ \A v : PlaceOf(v)' = PlaceOf(v)
      BY <3>1, <3>2, Zenon DEF Placed, PlaceOf, BaseBinding, LayoutSet
    <3>. QED  BY <3>3, Zenon DEF places
  <2>. QED  BY <2>1, <2>2
<1>. QED  BY <1>1, <1>2, Invariance, PTL DEF Spec, ImplementsOpenBindings, Abstract!Spec, places

-----------------------------------------------------------------------------
\* what OpenBindings promises of places
Apart(p) ==
    \A v, w \in DOMAIN p :
        v # w /\ p[v].open /\ p[v].set = p[w].set => Abstract!Slots(p[v]) \cap Abstract!Slots(p[w]) = {}

(* Automatic places overlap no other place of their set, while the stage   *)
(* is resolved and in the trees that mapIO leaves.                         *)
BindingsInv ==
    /\ Apart(places)
    /\ \A s \in DOMAIN program : program[s].resourceSet \in {-1, 0} => OpenBindingsApart(s)

\* the variables of a storage that had a location, and the locations they take
Numbered(st) == {v \in DOMAIN entries \ pending : declared(v).storage = st /\ NeedsLocation(v)}
Cells(S) == UNION {{v} \X (1 .. declared(v).locations) : v \in S}
Follows(v, w) == entries[v].newLocation + declared(v).locations <= entries[w].newLocation

(* Each list has handed out as many locations as its variables take, one   *)
(* range after the other.                                                  *)
CountInv ==
    phase = "resolve" =>
        \A st \in Storages :
            /\ IsFiniteSet(Cells(Numbered(st)))
            /\ Cardinality(Cells(Numbered(st))) = nextLocation[st]

RangesInv ==
    phase = "resolve" =>
        \A v \in DOMAIN entries \ pending :
            IF NeedsLocation(v)
            THEN /\ entries[v].newLocation \in Nat
                 /\ entries[v].newLocation + declared(v).locations <= nextLocation[declared(v).storage]
                 /\ \A w \in Numbered(declared(v).storage) : v = w \/ Follows(v, w) \/ Follows(w, v)
            ELSE entries[v].newLocation = -1

LocationsInv == \A s \in DOMAIN program : LocationsFit(s) => LocationsApart(s)

AInv == IInv /\ BindingsInv /\ CountInv /\ RangesInv /\ LocationsInv

-----------------------------------------------------------------------------
\* Bindings

LEMMA PlacesApartStep ==
    ASSUME IInv, Next, Apart(places)
    PROVE  Apart(places')
<1>1. Abstract!Next \/ places' = places
  BY PlacesStep, Zenon DEF IInv
<1>2. CASE places' = places
  BY <1>2, Zenon
<1>3. CASE Abstract!Restart
  <2>1. DOMAIN places' = {}
    BY <1>3, Zenon DEF Abstract!Restart, places
  <2>. QED  BY <2>1, Zenon DEF Apart
<1>4. ASSUME NEW v, Abstract!Add(v)
      PROVE  /\ v \notin DOMAIN places /\ DOMAIN places' = DOMAIN places \cup {v}
             /\ \A w \in DOMAIN places : places'[w] = places[w]
  BY <1>4, Zenon DEF Abstract!Add, places
<1>5. ASSUME NEW v \in Ids, Abstract!PlaceDeclared(v) PROVE Apart(places')
  <2>1. Abstract!Add(v) /\ ~places'[v].open /\ \A w \in DOMAIN places : ~places[w].open
    BY <1>5, Zenon DEF Abstract!PlaceDeclared, places
  <2>2. \A w \in DOMAIN places' : ~places'[w].open
    BY <1>4, <2>1, Zenon
  <2>. QED  BY <2>2, Zenon DEF Apart
<1>6. ASSUME NEW v \in Ids, Abstract!PlaceOpen(v) PROVE Apart(places')
  <2>. DEFINE p == places'[v]
  <2>1. Abstract!Add(v) /\ Abstract!IsOpen(p.set, p.first, p.size)
    BY <1>6, Zenon DEF Abstract!PlaceOpen, places
  <2>2. \A w \in DOMAIN places : places[w].set = p.set =>
           Abstract!Slots(places[w]) \cap Abstract!Slots(p) = {}
    BY <2>1, Zenon DEF Abstract!IsOpen, Abstract!Slots, places
  <2>3. SUFFICES ASSUME NEW x \in DOMAIN places', NEW y \in DOMAIN places',
                        x # y, places'[x].open, places'[x].set = places'[y].set
                 PROVE  Abstract!Slots(places'[x]) \cap Abstract!Slots(places'[y]) = {}
    BY Zenon DEF Apart
  <2>4. CASE x = v
    <3>0. y # v
      BY <2>3, <2>4
    <3>1. y \in DOMAIN places /\ places'[y] = places[y]
      BY <1>4, <2>1, <3>0, Zenon
    <3>2. Abstract!Slots(places'[y]) \cap Abstract!Slots(p) = {}
      BY <2>2, <2>3, <2>4, <3>1, Zenon
    <3>. QED  BY <2>4, <3>2
  <2>5. CASE y = v
    <3>1. x \in DOMAIN places /\ places'[x] = places[x]
      BY <1>4, <2>1, <2>3, <2>5, Zenon
    <3>. QED  BY <2>2, <2>3, <2>5, <3>1, Zenon
  <2>6. CASE x # v /\ y # v
    <3>1. x \in DOMAIN places /\ y \in DOMAIN places /\ places'[x] = places[x] /\ places'[y] = places[y]
      BY <1>4, <2>1, <2>3, <2>6, Zenon
    <3>. QED  BY <2>3, <3>1, Zenon DEF Apart
  <2>. QED  BY <2>4, <2>5, <2>6
<1>. QED  BY <1>1, <1>2, <1>3, <1>5, <1>6, Zenon DEF Abstract!Next, places
(* Where the places are, in terms of the stage's entries.                  *)
LEMMA PlacesSay ==
    ASSUME TypeOK, StageInv, phase = "resolve", Apart(places),
           NEW v \in Placed, NEW w \in Placed, v # w, declared(v).binding = -1, LayoutSet(v) = LayoutSet(w)
    PROVE  RangeAt(v, entries[v].newBinding) \cap RangeAt(w, entries[w].newBinding) = {}
<1>1. DOMAIN places = Placed /\ places[v] = PlaceAt(v, entries[v].newBinding) /\ places[w] = PlaceAt(w, entries[w].newBinding)
  BY Zenon DEF places, PlaceOf, PlaceAt
<1>2. /\ places[v].open /\ places[v].set = LayoutSet(v) /\ places[w].set = LayoutSet(w)
      /\ places[v].first = entries[v].newBinding /\ places[v].size = declared(v).size
      /\ places[w].first = entries[w].newBinding /\ places[w].size = declared(w).size
  <2>1. ASSUME NEW x
        PROVE  LET p == PlaceAt(x, entries[x].newBinding) IN
               /\ p.open <=> declared(x).binding = -1
               /\ p.set = LayoutSet(x) /\ p.first = entries[x].newBinding /\ p.size = declared(x).size
    BY PlaceFields
  <2>. QED  BY <1>1, <2>1, Zenon
<1>3. Abstract!Slots(places[v]) \cap Abstract!Slots(places[w]) = {}
  BY <1>1, <1>2, Zenon DEF Apart
<1>4. /\ Abstract!Slots(places[v]) = RangeAt(v, entries[v].newBinding)
      /\ Abstract!Slots(places[w]) = RangeAt(w, entries[w].newBinding)
  BY <1>2, Zenon DEF Abstract!Slots, RangeAt
<1>. QED  BY <1>3, <1>4

(* What a variable of the mapped stage has, with the options' set at most  *)
(* the one that slots are kept for.                                        *)
LEMMA BoundIsPlaced ==
    ASSUME IInv, applyStage, NEW s, s = stage, NEW v \in Ids, Bound(s, v)'
    PROVE  /\ v \in Placed
           /\ SlotsOf(s, v)' = RangeAt(v, entries[v].newBinding)
           /\ OpenBound(s, v)' => declared(v).binding = -1
           /\ unit.resourceSet \in {-1, 0} => qualifiers'[stage][v].set = LayoutSet(v)
<1>1. /\ stage \in DOMAIN program /\ program[stage].decl = qualifiers[stage] /\ phase = "resolve" /\ pending = {} /\ ~hadError
      /\ TypeOK /\ StageInv /\ EntryInv /\ unit = program[stage] /\ program' = program
  <2>1. phase = "resolve" /\ pending = {} /\ ~hadError /\ TypeOK /\ StageInv /\ EntryInv /\ program' = program
    BY Zenon DEF applyStage, programVars, IInv
  <2>2. phase # "idle"
    BY <2>1
  <2>3. stage \in DOMAIN program /\ stage \in Nat
    BY <2>1, <2>2 DEF TypeOK
  <2>4. program[stage].decl = qualifiers[stage]
    BY <2>1, <2>2, <2>3 DEF StageInv
  <2>. QED  BY <2>1, <2>3, <2>4, Zenon DEF unit
<1>. DEFINE q == qualifiers'[s][v]
            e == entries[v]
            d == declared(v)
<1>2. q.storage = "uniform" /\ q.binding # -1
  BY Zenon DEF Bound
<1>3. v \in DOMAIN entries
  <2>1. CASE v \notin DOMAIN entries
    <3>1. q = d
      BY <1>1, <2>1, Applied, Zenon
    <3>2. DOMAIN entries = {w \in Ids : declared(w).storage \in Storages}
      BY <1>1, Zenon DEF StageInv, Processing
    <3>. QED  BY <1>2, <2>1, <3>1, <3>2 DEF Storages
  <2>. QED  BY <2>1
<1>4. /\ d \in Decl /\ e \in MapEntry /\ e.newBinding < BindingEnd /\ e.newSet < SetEnd
      /\ q = Mapped(d, e)
  BY <1>1, <1>3, Applied, Zenon
<1>5. e.newBinding \in Nat \cup {-1} /\ e.newSet \in Nat \cup {-1} /\ e.newLocation \in Nat \cup {-1}
  BY <1>4 DEF MapEntry
<1>6. /\ q.storage = d.storage /\ q.size = d.size
      /\ q.binding = IF e.newBinding # -1 THEN e.newBinding ELSE d.binding
      /\ q.set = IF e.newSet # -1 THEN e.newSet ELSE d.set
  BY <1>4, <1>5, MappedType
<1>7. d.storage = "uniform" /\ v \in DOMAIN entries \ pending
  BY <1>1, <1>2, <1>3, <1>6, Zenon
<1>8. e.newSet = resolveSet(v) /\ (d.binding # -1 => e.newBinding = BaseBinding(v) + d.binding)
  BY <1>1, <1>7, Zenon DEF EntryInv, UniformSettled
<1>9. BaseBinding(v) \in Nat /\ d.binding \in -1 .. BindingEnd - 1 /\ resolveSet(v) \in Nat
  BY <1>1, VariableTypes
<1>10. e.newBinding # -1
  BY <1>2, <1>6, <1>8, <1>9, Limits
<1>11. v \in Placed
  BY <1>1, <1>7, <1>10, Zenon DEF Placed
<1>12. SlotsOf(s, v)' = RangeAt(v, e.newBinding)
  <2>1. SlotsOf(s, v)' = q.binding .. q.binding + q.size - 1
    BY Zenon DEF SlotsOf
  <2>. QED  BY <1>6, <1>10, <2>1 DEF RangeAt
<1>13. OpenBound(s, v)' => d.binding = -1
  BY <1>1, Zenon DEF OpenBound, declared
<1>14. unit.resourceSet \in {-1, 0} => q.set = LayoutSet(v)
  BY <1>6, <1>8, <1>9 DEF resolveSet, LayoutSet
<1>. QED  BY <1>11, <1>12, <1>13, <1>14

LEMMA OnlyApplyWrites ==
    ASSUME IInv, Next
    PROVE  program' = program /\ (qualifiers' = qualifiers \/ applyStage)
<1>1. TypeOK /\ StageInv /\ program' = program
  BY ProgramStays, Zenon DEF IInv
<1>2. ASSUME NEW v \in pending, resolveInOut(v) \/ resolveDeclared(v) \/ leaveUnbound(v) \/ takeSlot(v)
      PROVE  qualifiers' = qualifiers
  BY <1>1, <1>2, InOutTurn, DeclaredTurn, UnboundTurn, TakeTurn, Zenon DEF Reserving, UniformTurn, Turn, Kept
<1>3. ASSUME NEW v \in pending, getFreeSlot(v) \/ \E at \in slots[LayoutSet(v)] : skipSlot(v, at)
      PROVE  qualifiers' = qualifiers
  BY <1>3, SearchTurn, Zenon DEF Kept
<1>4. ASSUME mapIO \/ mapIORefused \/ SkipStage \/ RefuseStage \/ GatherAll \/ BeginResolve \/ failStage
             \/ \E f \in functions : GatherLive(f)
      PROVE  qualifiers' = qualifiers
  BY <1>4, Zenon DEF mapIO, mapIORefused, SkipStage, RefuseStage, GatherAll, BeginResolve, failStage, GatherLive
<1>5. ASSUME ~applyStage PROVE qualifiers' = qualifiers
  BY <1>2, <1>3, <1>4, <1>5, Zenon DEF Next
<1>. QED  BY <1>1, <1>5, Zenon

(* The stages that are not being written stay as they are.                 *)
LEMMA OtherStages ==
    ASSUME IInv, Next, NEW s \in DOMAIN program, ~(applyStage /\ s = stage)
    PROVE  qualifiers'[s] = qualifiers[s]
<1>1. CASE applyStage
  <2>1. TypeOK /\ StageInv /\ EntryInv
    BY Zenon DEF IInv
  <2>. QED  BY <1>1, <2>1, Applied DEF TypeOK
<1>. QED  BY <1>1, OnlyApplyWrites, Zenon

LEMMA BindingsStep ==
    ASSUME IInv, BindingsInv, Next
    PROVE  BindingsInv'
<1>1. Apart(places') /\ Apart(places) /\ program' = program
  BY PlacesApartStep, OnlyApplyWrites, Zenon DEF BindingsInv
<1>2. SUFFICES ASSUME NEW s \in DOMAIN program, program[s].resourceSet \in {-1, 0}
               PROVE  OpenBindingsApart(s)'
  BY <1>1, Zenon DEF BindingsInv, Apart
<1>3. CASE ~(applyStage /\ s = stage)
  <2>1. OpenBindingsApart(s)
    BY <1>2, Zenon DEF BindingsInv
  <2>2. qualifiers'[s] = qualifiers[s]
    BY <1>3, OtherStages, Zenon
  <2>. QED  BY <1>1, <2>1, <2>2, Zenon DEF OpenBindingsApart, OpenBound, Bound, SlotsOf
<1>4. CASE applyStage /\ s = stage
  <2>1. SUFFICES ASSUME NEW v \in Ids, NEW w \in Ids, v # w, OpenBound(s, v)', Bound(s, w)',
                        qualifiers'[s][v].set = qualifiers'[s][w].set
                 PROVE  SlotsOf(s, v)' \cap SlotsOf(s, w)' = {}
    BY Zenon DEF OpenBindingsApart
  <2>2. Bound(s, v)'
    BY <2>1, Zenon DEF OpenBound
  <2>3. unit.resourceSet \in {-1, 0}
    BY <1>2, <1>4, Zenon DEF unit
  <2>4. /\ v \in Placed /\ w \in Placed /\ declared(v).binding = -1 /\ LayoutSet(v) = LayoutSet(w)
        /\ SlotsOf(s, v)' = RangeAt(v, entries[v].newBinding) /\ SlotsOf(s, w)' = RangeAt(w, entries[w].newBinding)
    BY <1>4, <2>1, <2>2, <2>3, BoundIsPlaced, Zenon
  <2>5. TypeOK /\ StageInv /\ phase = "resolve"
    BY <1>4, Zenon DEF IInv, applyStage
  <2>. QED  BY <1>1, <2>1, <2>4, <2>5, PlacesSay, Zenon
<1>. QED  BY <1>3, <1>4

-----------------------------------------------------------------------------
\* Locations

LEMMA RowSize ==
    ASSUME NEW v, NEW n \in Nat
    PROVE  IsFiniteSet({v} \X (1 .. n)) /\ Cardinality({v} \X (1 .. n)) = n
<1>1. IsFiniteSet({v}) /\ Cardinality({v}) = 1
  BY FS_Singleton, Zenon
<1>2. IsFiniteSet(1 .. n) /\ Cardinality(1 .. n) = n
  BY FS_Interval
<1>3. IsFiniteSet({v} \X (1 .. n)) /\ Cardinality({v} \X (1 .. n)) = Cardinality({v}) * Cardinality(1 .. n)
  BY <1>1, <1>2, FS_Product
<1>. QED  BY <1>1, <1>2, <1>3

(* One more row of cells adds its length.                                  *)
LEMMA CellsGrow ==
    ASSUME NEW S, NEW v, v \notin S, declared(v).locations \in Nat, IsFiniteSet(Cells(S))
    PROVE  /\ IsFiniteSet(Cells(S \cup {v}))
           /\ Cardinality(Cells(S \cup {v})) = Cardinality(Cells(S)) + declared(v).locations
<1>. DEFINE n == declared(v).locations
            Row == {v} \X (1 .. n)
<1>1. IsFiniteSet(Row) /\ Cardinality(Row) = n
  BY RowSize
<1>2. Cells(S \cup {v}) = Cells(S) \cup Row
  BY Zenon DEF Cells
<1>3. Cells(S) \cap Row = {}
  BY DEF Cells
<1>. HIDE DEF Row, n
<1>4. Cardinality(Cells(S) \cap Row) = 0 /\ Cardinality(Cells(S)) \in Nat
  BY <1>3, FS_EmptySet, FS_CardinalityType
<1>5. IsFiniteSet(Cells(S) \cup Row)
      /\ Cardinality(Cells(S) \cup Row) = Cardinality(Cells(S)) + Cardinality(Row) - Cardinality(Cells(S) \cap Row)
  BY <1>1, FS_Union
<1>6. n \in Nat
  BY DEF n
<1>7. Cardinality(Cells(S) \cup Row) = Cardinality(Cells(S)) + n
  BY <1>1, <1>4, <1>5, <1>6
<1>. QED  BY <1>2, <1>5, <1>7, Zenon DEF n

\* a turn, as far as locations go
LocatedTurn(v) ==
    /\ Turn(v) /\ entries'[v].newLocation = Location(v) /\ Locate(v)

LEMMA EveryTurnLocates ==
    ASSUME IInv, NEW v \in pending,
           resolveInOut(v) \/ resolveDeclared(v) \/ leaveUnbound(v) \/ takeSlot(v)
    PROVE  LocatedTurn(v) /\ declared(v).storage \in Storages
<1>1. TypeOK /\ StageInv /\ v \in DOMAIN entries /\ entries \in [DOMAIN entries -> MapEntry]
  BY Zenon DEF IInv, TypeOK
<1>2. entries[v] \in MapEntry
  BY <1>1
<1>3. CASE resolveInOut(v)
  <2>. DEFINE e == [entries[v] EXCEPT !.newLocation = Location(v)]
  <2>1. entries' = [entries EXCEPT ![v] = e] /\ Locate(v)
    BY <1>3, Zenon DEF resolveInOut
  <2>2. e.newLocation = Location(v)
    BY <1>2 DEF MapEntry
  <2>. HIDE DEF e
  <2>3. entries'[v].newLocation = Location(v)
    BY <1>1, <2>1, <2>2, Zenon
  <2>4. Turn(v) /\ declared(v).storage \in InOut
    BY <1>1, <1>3, InOutTurn, Zenon
  <2>. QED  BY <2>1, <2>3, <2>4, Zenon DEF LocatedTurn, Storages
<1>4. ASSUME NEW b, Settle(v, b), Resolving(v), Turn(v)
      PROVE  LocatedTurn(v) /\ declared(v).storage \in Storages
  <2>. DEFINE l == Location(v)
              t == resolveSet(v)
              old == entries[v]
              e == [old EXCEPT !.newBinding = b, !.newSet = t, !.newLocation = l]
  <2>1. entries' = [entries EXCEPT ![v] = e] /\ Locate(v)
    BY <1>4, Zenon DEF Settle
  <2>2. "newLocation" \in DOMAIN old
    BY <1>2 DEF MapEntry
  <2>. HIDE DEF l, t, old
  <2>3. e.newLocation = l
    BY <2>2
  <2>. HIDE DEF e
  <2>4. entries'[v].newLocation = l
    BY <1>1, <2>1, <2>3, Zenon
  <2>5. declared(v).storage \in Storages
    BY <1>4 DEF Resolving, Storages
  <2>. QED  BY <1>4, <2>1, <2>4, <2>5, Zenon DEF LocatedTurn, l
<1>5. CASE resolveDeclared(v)
  BY <1>1, <1>4, <1>5, DeclaredTurn, Zenon DEF resolveDeclared, reserveSlot, Reserving, UniformTurn
<1>6. CASE leaveUnbound(v)
  BY <1>1, <1>4, <1>6, UnboundTurn, Zenon DEF leaveUnbound, UniformTurn
<1>7. CASE takeSlot(v)
  BY <1>1, <1>4, <1>7, TakeTurn, Zenon DEF takeSlot, reserveSlot, Reserving, UniformTurn
<1>. QED  BY <1>3, <1>5, <1>6, <1>7

(* What a variable needs stays, whoever's turn it is.                      *)
LEMMA KeptNeeds ==
    ASSUME Kept, NEW v
    PROVE  declared(v)' = declared(v) /\ NeedsLocation(v)' = NeedsLocation(v)
<1>1. program' = program /\ qualifiers' = qualifiers /\ stage' = stage
  BY Zenon DEF Kept
<1>2. unit' = unit /\ declared(v)' = declared(v)
  BY <1>1, Zenon DEF unit, declared
<1>. QED  BY <1>2, Zenon DEF NeedsLocation

LEMMA NumberedTurn ==
    ASSUME TypeOK, StageInv, NEW v \in pending, Turn(v), NEW st
    PROVE  /\ v \notin Numbered(st)
           /\ Numbered(st)' = IF declared(v).storage = st /\ NeedsLocation(v) THEN Numbered(st) \cup {v} ELSE Numbered(st)
           /\ \A S : Cells(S)' = Cells(S)
<1>1. Kept /\ v \in DOMAIN entries /\ pending' = pending \ {v} /\ DOMAIN entries' = DOMAIN entries
  BY Zenon DEF Turn
<1>2. \A w : declared(w)' = declared(w) /\ NeedsLocation(w)' = NeedsLocation(w)
  BY <1>1, KeptNeeds, Zenon
<1>3. \A w : w \in Numbered(st)' <=> w \in DOMAIN entries \ (pending \ {v}) /\ declared(w).storage = st /\ NeedsLocation(w)
  BY <1>1, <1>2, Zenon DEF Numbered
<1>4. \A w : w \in Numbered(st) <=> w \in DOMAIN entries \ pending /\ declared(w).storage = st /\ NeedsLocation(w)
  BY Zenon DEF Numbered
<1>5. CASE declared(v).storage = st /\ NeedsLocation(v)
  <2>1. \A w : w \in Numbered(st)' <=> w \in Numbered(st) \cup {v}
    BY <1>1, <1>3, <1>4, <1>5, Zenon
  <2>2. Numbered(st)' = Numbered(st) \cup {v}
    BY <2>1, Zenon
  <2>. QED  BY <1>2, <1>4, <1>5, <2>2, Zenon DEF Cells
<1>6. CASE ~(declared(v).storage = st /\ NeedsLocation(v))
  <2>1. \A w : w \in Numbered(st)' <=> w \in Numbered(st)
    BY <1>1, <1>3, <1>4, <1>6, Zenon
  <2>2. Numbered(st)' = Numbered(st)
    BY <2>1, Zenon
  <2>. QED  BY <1>2, <1>4, <1>6, <2>2, Zenon DEF Cells
<1>. QED  BY <1>5, <1>6

LEMMA LocatedNumbers ==
    ASSUME IInv, NEW v \in pending, LocatedTurn(v), declared(v).storage \in Storages
    PROVE  /\ declared(v).locations \in Nat \ {0} /\ nextLocation \in [Storages -> Nat]
           /\ NeedsLocation(v) => /\ entries'[v].newLocation = nextLocation[declared(v).storage]
                                  /\ nextLocation'[declared(v).storage] = nextLocation[declared(v).storage] + declared(v).locations
           /\ ~NeedsLocation(v) => entries'[v].newLocation = -1 /\ nextLocation' = nextLocation
           /\ \A st \in Storages : st # declared(v).storage => nextLocation'[st] = nextLocation[st]
<1>1. TypeOK /\ StageInv /\ phase # "idle" /\ v \in Ids
  BY DEF IInv, TypeOK, LocatedTurn, Turn, Kept
<1>2. declared(v).locations \in Nat \ {0} /\ nextLocation \in [Storages -> Nat]
  BY <1>1, VariableTypes DEF TypeOK
<1>3. CASE NeedsLocation(v)
  <2>1. entries'[v].newLocation = nextLocation[declared(v).storage]
    BY <1>3, Zenon DEF LocatedTurn, Location
  <2>2. nextLocation' = [nextLocation EXCEPT ![declared(v).storage] = nextLocation[declared(v).storage] + declared(v).locations]
    BY <1>3, Zenon DEF LocatedTurn, Locate, Advanced
  <2>. QED  BY <1>2, <1>3, <2>1, <2>2, Zenon
<1>4. CASE ~NeedsLocation(v)
  BY <1>2, <1>4, Zenon DEF LocatedTurn, Locate, Location
<1>. QED  BY <1>3, <1>4

LEMMA CountTurn ==
    ASSUME IInv, CountInv, NEW v \in pending, LocatedTurn(v), declared(v).storage \in Storages
    PROVE  CountInv'
<1>1. TypeOK /\ StageInv /\ Turn(v) /\ phase = "resolve"
  BY Zenon DEF IInv, LocatedTurn, Turn, Kept
<1>2. SUFFICES ASSUME NEW st \in Storages
               PROVE  /\ IsFiniteSet(Cells(Numbered(st)'))
                      /\ Cardinality(Cells(Numbered(st)')) = nextLocation'[st]
  <2>1. \A S : Cells(S)' = Cells(S)
    BY <1>1, NumberedTurn, Zenon
  <2>2. \A st \in Storages : Cells(Numbered(st))' = Cells(Numbered(st)')
    BY <1>1, KeptNeeds, Zenon DEF Cells, Turn
  <2>. QED  BY <1>2, <2>2, Zenon DEF CountInv
<1>3. IsFiniteSet(Cells(Numbered(st))) /\ Cardinality(Cells(Numbered(st))) = nextLocation[st]
  BY <1>1, Zenon DEF CountInv
<1>4. CASE declared(v).storage = st /\ NeedsLocation(v)
  <2>1. Numbered(st)' = Numbered(st) \cup {v} /\ v \notin Numbered(st)
    BY <1>1, <1>4, NumberedTurn, Zenon
  <2>2. declared(v).locations \in Nat /\ nextLocation'[st] = nextLocation[st] + declared(v).locations
    BY <1>4, LocatedNumbers
  <2>3. IsFiniteSet(Cells(Numbered(st) \cup {v}))
        /\ Cardinality(Cells(Numbered(st) \cup {v})) = nextLocation[st] + declared(v).locations
    BY <1>3, <2>1, <2>2, CellsGrow, Zenon
  <2>. QED  BY <2>1, <2>2, <2>3, Zenon
<1>5. CASE ~(declared(v).storage = st /\ NeedsLocation(v))
  <2>1. Numbered(st)' = Numbered(st)
    BY <1>1, <1>5, NumberedTurn, Zenon
  <2>2. nextLocation'[st] = nextLocation[st]
    BY <1>5, LocatedNumbers, Zenon
  <2>. QED  BY <1>3, <2>1, <2>2, Zenon
<1>. QED  BY <1>4, <1>5

LEMMA RangesTurn ==
    ASSUME IInv, RangesInv, NEW v \in pending, LocatedTurn(v), declared(v).storage \in Storages
    PROVE  RangesInv'
<1>1. /\ TypeOK /\ StageInv /\ Turn(v) /\ phase = "resolve" /\ phase' = "resolve" /\ Kept
      /\ v \in DOMAIN entries /\ pending' = pending \ {v} /\ DOMAIN entries' = DOMAIN entries
      /\ \A w \in DOMAIN entries : w # v => entries'[w] = entries[w]
  BY Zenon DEF IInv, LocatedTurn, Turn, Kept
<1>2. \A w : declared(w)' = declared(w) /\ NeedsLocation(w)' = NeedsLocation(w)
  BY <1>1, KeptNeeds, Zenon
<1>. DEFINE st == declared(v).storage
            n == declared(v).locations
<1>3. /\ n \in Nat \ {0} /\ nextLocation \in [Storages -> Nat] /\ st \in Storages
      /\ NeedsLocation(v) => entries'[v].newLocation = nextLocation[st] /\ nextLocation'[st] = nextLocation[st] + n
      /\ ~NeedsLocation(v) => entries'[v].newLocation = -1 /\ nextLocation' = nextLocation
      /\ \A s \in Storages : s # st => nextLocation'[s] = nextLocation[s]
  BY LocatedNumbers, Zenon
<1>4. ASSUME NEW x \in DOMAIN entries \ pending, NeedsLocation(x)
      PROVE  /\ x # v /\ entries'[x] = entries[x] /\ declared(x).locations \in Nat \ {0} /\ declared(x).storage \in Storages
             /\ entries[x].newLocation \in Nat /\ nextLocation[declared(x).storage] \in Nat
             /\ entries[x].newLocation + declared(x).locations <= nextLocation[declared(x).storage]
             /\ \A w \in Numbered(declared(x).storage) : x = w \/ Follows(x, w) \/ Follows(w, x)
  <2>1. declared(x).locations \in Nat \ {0} /\ declared(x).storage \in Storages
    <3>1. x \in Ids /\ phase # "idle"
      BY <1>1 DEF TypeOK
    <3>2. declared(x).locations \in Nat \ {0}
      BY <1>1, <3>1, VariableTypes, Zenon
    <3>3. x \in {w \in Ids : declared(w).storage \in Storages}
      BY <1>1, <1>4, Zenon DEF StageInv, Processing
    <3>. QED  BY <3>2, <3>3, Zenon
  <2>2. nextLocation[declared(x).storage] \in Nat
    BY <1>3, <2>1, Zenon
  <2>. QED  BY <1>1, <1>4, <2>1, <2>2, Zenon DEF RangesInv
<1>. HIDE DEF st, n
<1>5. ASSUME NEW x \in DOMAIN entries \ pending, NeedsLocation(x), declared(x).storage = st, NeedsLocation(v)
      PROVE  Follows(x, v)'
  <2>1. entries'[x].newLocation + declared(x).locations <= entries'[v].newLocation
    BY <1>3, <1>4, <1>5
  <2>. QED  BY <1>2, <2>1, Zenon DEF Follows
<1>6. SUFFICES ASSUME NEW x \in DOMAIN entries \ (pending \ {v})
               PROVE  IF NeedsLocation(x)
                      THEN /\ entries'[x].newLocation \in Nat
                           /\ entries'[x].newLocation + declared(x).locations <= nextLocation'[declared(x).storage]
                           /\ \A w \in Numbered(declared(x).storage)' : x = w \/ Follows(x, w)' \/ Follows(w, x)'
                      ELSE entries'[x].newLocation = -1
  <2>1. \A x : Numbered(declared(x).storage)' = {w \in DOMAIN entries \ (pending \ {v}) : declared(w).storage = declared(x).storage /\ NeedsLocation(w)}
    BY <1>1, <1>2, Zenon DEF Numbered
  <2>. QED  BY <1>1, <1>2, <1>6, Zenon DEF RangesInv
<1>7. \A w \in Numbered(declared(x).storage)' :
        w \in DOMAIN entries /\ declared(w).storage = declared(x).storage /\ NeedsLocation(w) /\ (w = v \/ w \notin pending)
  BY <1>1, <1>2, Zenon DEF Numbered
<1>8. CASE x = v /\ NeedsLocation(v)
  <2>1. entries'[x].newLocation \in Nat
        /\ entries'[x].newLocation + declared(x).locations <= nextLocation'[declared(x).storage]
    BY <1>3, <1>8 DEF st, n
  <2>2. \A w \in Numbered(declared(x).storage)' : w # v => Follows(w, x)'
    BY <1>5, <1>7, <1>8, Zenon DEF st
  <2>. QED  BY <1>8, <2>1, <2>2, Zenon
<1>9. CASE x = v /\ ~NeedsLocation(v)
  BY <1>3, <1>9, Zenon
<1>10. CASE x # v /\ ~NeedsLocation(x)
  <2>1. x \in DOMAIN entries \ pending
    BY <1>6, <1>10, Zenon
  <2>. QED  BY <1>1, <1>10, <2>1, Zenon DEF RangesInv
<1>11. CASE x # v /\ NeedsLocation(x)
  <2>1. x \in DOMAIN entries \ pending
    BY <1>6, <1>11, Zenon
  <2>. DEFINE sx == declared(x).storage
              nx == declared(x).locations
  <2>2. /\ entries'[x] = entries[x] /\ entries[x].newLocation \in Nat /\ nx \in Nat /\ sx \in Storages
        /\ nextLocation[sx] \in Nat /\ entries[x].newLocation + nx <= nextLocation[sx]
    BY <1>4, <1>11, <2>1
  <2>. HIDE DEF sx, nx
  <2>3. nextLocation'[sx] \in Nat /\ nextLocation'[sx] >= nextLocation[sx]
    BY <1>3, <2>2
  <2>4. entries'[x].newLocation + nx <= nextLocation'[sx]
    BY <2>2, <2>3
  <2>5. ASSUME NEW w \in Numbered(declared(x).storage)' PROVE x = w \/ Follows(x, w)' \/ Follows(w, x)'
    <3>1. CASE w = v
      BY <1>5, <1>7, <1>11, <2>1, <2>5, <3>1, Zenon DEF st
    <3>2. CASE w # v
      <4>1. w \in Numbered(declared(x).storage) /\ w \in DOMAIN entries
        BY <1>7, <2>5, <3>2, Zenon DEF Numbered
      <4>2. x = w \/ Follows(x, w) \/ Follows(w, x)
        BY <1>4, <1>11, <2>1, <4>1, Zenon
      <4>3. entries'[x] = entries[x] /\ entries'[w] = entries[w]
        BY <1>1, <1>11, <2>1, <3>2, <4>1, Zenon
      <4>. QED  BY <1>2, <4>2, <4>3, Zenon DEF Follows
    <3>. QED  BY <3>1, <3>2
  <2>. QED  BY <1>11, <2>2, <2>4, <2>5, Zenon DEF sx, nx
<1>. QED  BY <1>8, <1>9, <1>10, <1>11

LEMMA CountsStart ==
    ASSUME phase' = "resolve", pending' = DOMAIN entries', nextLocation' = [st \in Storages |-> 0]
    PROVE  CountInv' /\ RangesInv'
<1>1. \A st : Numbered(st)' = {}
  BY Zenon DEF Numbered
<1>3. IsFiniteSet({}) /\ Cardinality({}) = 0
  BY FS_EmptySet, Zenon
<1>4. \A st \in Storages : nextLocation'[st] = 0
  BY Zenon
<1>5. \A st : Cells(Numbered(st))' = {}
  BY <1>1, Zenon DEF Cells
<1>6. CountInv'
  BY <1>3, <1>4, <1>5, Zenon DEF CountInv
<1>7. RangesInv'
  BY Zenon DEF RangesInv
<1>. QED  BY <1>6, <1>7

LEMMA CountsStep ==
    ASSUME IInv, CountInv, RangesInv, Next
    PROVE  CountInv' /\ RangesInv'
<1>1. ASSUME phase' # "resolve" PROVE CountInv' /\ RangesInv'
  BY <1>1 DEF CountInv, RangesInv
<1>2. CASE BeginResolve
  BY <1>2, CountsStart, Zenon DEF BeginResolve
<1>3. ASSUME NEW v \in pending, resolveInOut(v) \/ resolveDeclared(v) \/ leaveUnbound(v) \/ takeSlot(v)
      PROVE  CountInv' /\ RangesInv'
  <2>1. LocatedTurn(v) /\ declared(v).storage \in Storages
    BY <1>3, EveryTurnLocates, Zenon
  <2>. QED  BY <2>1, CountTurn, RangesTurn, Zenon
<1>4. ASSUME NEW v \in pending, getFreeSlot(v) \/ \E at \in slots[LayoutSet(v)] : skipSlot(v, at)
      PROVE  CountInv' /\ RangesInv'
  <2>1. Kept /\ phase = "resolve" /\ UNCHANGED <<entries, pending, nextLocation>>
    BY <1>4, SearchTurn, Zenon DEF Kept
  <2>2. \A w : declared(w)' = declared(w) /\ NeedsLocation(w)' = NeedsLocation(w)
    BY <2>1, KeptNeeds, Zenon
  <2>3. \A st : Numbered(st)' = Numbered(st)
    BY <2>1, <2>2, Zenon DEF Numbered
  <2>4. \A st : Cells(Numbered(st))' = Cells(Numbered(st))
    BY <2>2, <2>3, Zenon DEF Cells
  <2>5. CountInv'
    BY <2>1, <2>4, Zenon DEF CountInv
  <2>6. RangesInv'
    BY <2>1, <2>2, <2>3, Zenon DEF RangesInv, Follows
  <2>. QED  BY <2>5, <2>6
<1>5. CASE mapIORefused
  <2>1. phase' = "idle"
    BY <1>5, Zenon DEF mapIORefused
  <2>. QED  BY <1>1, <2>1
<1>6. CASE mapIO \/ SkipStage \/ RefuseStage \/ GatherAll \/ applyStage \/ failStage \/ \E f \in functions : GatherLive(f)
  <2>1. phase' # "resolve"
    BY <1>6, NextStage DEF mapIO, SkipStage, RefuseStage, GatherAll, applyStage, failStage, GatherLive, GiveUp
  <2>. QED  BY <1>1, <2>1
<1>. QED  BY <1>2, <1>3, <1>4, <1>5, <1>6, Zenon DEF Next

LEMMA SmallStays ==
    ASSUME NEW l \in Nat, l < LocationEnd
    PROVE  InField(l) = l
<1>1. l % (LocationEnd + 1) = l
  BY Limits
<1>. QED  BY <1>1, Limits DEF InField

(* When the stage is written, the variables that a list numbered are those *)
(* whose locations LocationsFit counts.                                    *)
LEMMA AllNumbered ==
    ASSUME IInv, CountInv, applyStage, NEW s, s = stage, unit.autoLocations, LocationsFit(s), NEW st \in Storages
    PROVE  nextLocation[st] <= LocationEnd
<1>. DEFINE wanting == {v \in Ids : LET d == program[s].decl[v] IN
                                      d.storage = st /\ d.location = -1 /\ d.locatable}
<1>1. /\ phase = "resolve" /\ pending = {} /\ StageInv /\ TypeOK
  BY Zenon DEF IInv, applyStage
<1>2. stage \in DOMAIN program /\ program[stage].decl = qualifiers[stage]
  <2>1. stage \in DOMAIN program /\ stage \in Nat
    BY <1>1 DEF TypeOK
  <2>. QED  BY <1>1, <2>1 DEF StageInv
<1>3. \A v : program[s].decl[v] = declared(v)
  BY <1>2, Zenon DEF declared
<1>4. DOMAIN entries = {w \in Ids : declared(w).storage \in Storages}
  BY <1>1, Zenon DEF StageInv, Processing
<1>5. \A v : v \in wanting <=> v \in Numbered(st)
  BY <1>1, <1>3, <1>4, Zenon DEF Numbered, NeedsLocation
<1>6. wanting = Numbered(st)
  BY <1>5, Zenon
<1>7. UNION {{v} \X (1 .. program[s].decl[v].locations) : v \in wanting} = Cells(Numbered(st))
  BY <1>3, <1>6, Zenon DEF Cells
<1>8. Cardinality(UNION {{v} \X (1 .. program[s].decl[v].locations) : v \in wanting}) <= LocationEnd
  BY Zenon DEF LocationsFit
<1>9. Cardinality(Cells(Numbered(st))) = nextLocation[st]
  BY <1>1, Zenon DEF CountInv
<1>. QED  BY <1>7, <1>8, <1>9, Zenon

(* A location that the stage got is the one its entry has.                 *)
LEMMA LocatedIsNumbered ==
    ASSUME IInv, CountInv, RangesInv, applyStage, NEW s, s = stage, LocationsFit(s), NEW v \in Ids, Located(s, v)'
    PROVE  /\ v \in Numbered(declared(v).storage) /\ NeedsLocation(v) /\ v \in DOMAIN entries \ pending
           /\ declared(v).locations \in Nat \ {0} /\ entries[v].newLocation \in Nat
           /\ LocationsOf(s, v)' = entries[v].newLocation .. entries[v].newLocation + declared(v).locations - 1
           /\ qualifiers'[s][v].storage = declared(v).storage
<1>. DEFINE q == qualifiers'[s][v]
            e == entries[v]
            d == declared(v)
<1>1. /\ stage \in DOMAIN program /\ program[stage].decl = qualifiers[stage] /\ phase = "resolve" /\ pending = {}
      /\ TypeOK /\ StageInv /\ EntryInv /\ program' = program
  <2>1. phase = "resolve" /\ pending = {} /\ TypeOK /\ StageInv /\ EntryInv /\ program' = program
    BY Zenon DEF applyStage, programVars, IInv
  <2>2. stage \in DOMAIN program /\ stage \in Nat
    BY <2>1 DEF TypeOK
  <2>. QED  BY <2>1, <2>2 DEF StageInv
<1>2. q.location # -1 /\ d.location = -1
  BY <1>1, Zenon DEF Located, declared
<1>3. v \in DOMAIN entries
  BY <1>1, <1>2, Applied, Zenon
<1>4. /\ d \in Decl /\ e \in MapEntry /\ e.newBinding < BindingEnd /\ e.newSet < SetEnd
      /\ q = Mapped(d, e)
  BY <1>1, <1>3, Applied, Zenon
<1>5. e.newBinding \in Nat \cup {-1} /\ e.newSet \in Nat \cup {-1} /\ e.newLocation \in Nat \cup {-1}
  BY <1>4 DEF MapEntry
<1>6. /\ q.storage = d.storage /\ q.locations = d.locations
      /\ q.location = IF e.newLocation # -1 THEN InField(e.newLocation) ELSE d.location
  BY <1>4, <1>5, MappedType
<1>7. e.newLocation # -1
  BY <1>2, <1>6, Zenon
<1>8. NeedsLocation(v) /\ e.newLocation + d.locations <= nextLocation[d.storage]
  BY <1>1, <1>3, <1>7, Zenon DEF RangesInv
<1>9. d.locations \in Nat \ {0} /\ d.storage \in Storages
  <2>1. v \in {w \in Ids : declared(w).storage \in Storages}
    BY <1>1, <1>3, Zenon DEF StageInv, Processing
  <2>. QED  BY <1>4, <2>1, DeclTypes, Zenon
<1>10. nextLocation[d.storage] <= LocationEnd /\ nextLocation[d.storage] \in Nat
  BY <1>1, <1>8, <1>9, AllNumbered, Zenon DEF NeedsLocation, TypeOK
<1>11. e.newLocation \in Nat /\ e.newLocation < LocationEnd
  BY <1>5, <1>7, <1>8, <1>9, <1>10, Limits
<1>12. q.location = e.newLocation
  BY <1>6, <1>7, <1>11, SmallStays, Zenon
<1>13. LocationsOf(s, v)' = e.newLocation .. e.newLocation + d.locations - 1
  <2>1. LocationsOf(s, v)' = q.location .. q.location + q.locations - 1
    BY Zenon DEF LocationsOf
  <2>. QED  BY <1>6, <1>12, <2>1
<1>14. v \in Numbered(d.storage)
  BY <1>1, <1>3, <1>8, Zenon DEF Numbered
<1>. QED  BY <1>1, <1>3, <1>6, <1>8, <1>9, <1>11, <1>13, <1>14, Zenon

LEMMA FitStays ==
    ASSUME program' = program, NEW s
    PROVE  LocationsFit(s)' <=> LocationsFit(s)
<1>. DEFINE fit(p) == \A st \in Storages :
                        Cardinality(UNION {{v} \X (1 .. p[s].decl[v].locations) :
                          v \in {w \in Ids : p[s].decl[w].storage = st /\ p[s].decl[w].location = -1
                                              /\ p[s].decl[w].locatable}}) <= LocationEnd
<1>1. LocationsFit(s) <=> fit(program)
  BY Zenon DEF LocationsFit
<1>2. LocationsFit(s)' <=> fit(program')
  BY Zenon DEF LocationsFit
<1>. HIDE DEF fit
<1>. QED  BY <1>1, <1>2

LEMMA LocationsStep ==
    ASSUME IInv, CountInv, RangesInv, LocationsInv, Next
    PROVE  LocationsInv'
<1>1. program' = program
  BY OnlyApplyWrites, Zenon
<1>2. SUFFICES ASSUME NEW s \in DOMAIN program, LocationsFit(s) PROVE LocationsApart(s)'
  BY <1>1, FitStays, Zenon DEF LocationsInv
<1>3. CASE ~(applyStage /\ s = stage)
  <2>1. LocationsApart(s)
    BY <1>2, Zenon DEF LocationsInv
  <2>2. qualifiers'[s] = qualifiers[s]
    BY <1>3, OtherStages, Zenon
  <2>. QED  BY <1>1, <2>1, <2>2, Zenon DEF LocationsApart, Located, LocationsOf
<1>4. CASE applyStage /\ s = stage
  <2>1. SUFFICES ASSUME NEW v \in Ids, NEW w \in Ids, v # w, Located(s, v)', Located(s, w)',
                        qualifiers'[s][v].storage = qualifiers'[s][w].storage
                 PROVE  LocationsOf(s, v)' \cap LocationsOf(s, w)' = {}
    BY Zenon DEF LocationsApart
  <2>. DEFINE lv == entries[v].newLocation
              lw == entries[w].newLocation
              nv == declared(v).locations
              nw == declared(w).locations
  <2>2. /\ v \in DOMAIN entries \ pending /\ NeedsLocation(v) /\ qualifiers'[s][v].storage = declared(v).storage
        /\ nv \in Nat \ {0} /\ lv \in Nat /\ LocationsOf(s, v)' = lv .. lv + nv - 1
    BY <1>2, <1>4, <2>1, LocatedIsNumbered, Zenon
  <2>3. /\ w \in Numbered(declared(w).storage) /\ qualifiers'[s][w].storage = declared(w).storage
        /\ nw \in Nat \ {0} /\ lw \in Nat /\ LocationsOf(s, w)' = lw .. lw + nw - 1
    BY <1>2, <1>4, <2>1, LocatedIsNumbered, Zenon
  <2>4. phase = "resolve" /\ w \in Numbered(declared(v).storage)
    BY <1>4, <2>1, <2>2, <2>3, Zenon DEF applyStage
  <2>5. Follows(v, w) \/ Follows(w, v)
    BY <2>1, <2>2, <2>4, Zenon DEF RangesInv
  <2>6. lv + nv <= lw \/ lw + nw <= lv
    BY <2>5, Zenon DEF Follows
  <2>. HIDE DEF lv, lw, nv, nw
  <2>7. (lv .. lv + nv - 1) \cap (lw .. lw + nw - 1) = {}
    BY <2>2, <2>3, <2>6
  <2>. QED  BY <2>2, <2>3, <2>7, Zenon
<1>. QED  BY <1>3, <1>4

-----------------------------------------------------------------------------
\* The theorem

LEMMA InitAInv == Init => AInv
<1>. SUFFICES ASSUME Init PROVE AInv
  OBVIOUS
<1>1. IInv /\ phase # "resolve" /\ \A s \in DOMAIN program : qualifiers[s] = program[s].decl
  BY InitIInv DEF Init
<1>2. CountInv /\ RangesInv
  BY <1>1, Zenon DEF CountInv, RangesInv
<1>3. Apart(places)
  <2>1. DOMAIN places = {}
    BY <1>1, NoPlaces, Zenon
  <2>. QED  BY <2>1, Zenon DEF Apart
<1>4. \A s \in DOMAIN program : OpenBindingsApart(s)
  BY <1>1, Zenon DEF OpenBindingsApart, OpenBound, Bound
<1>5. \A s \in DOMAIN program : LocationsApart(s)
  BY <1>1, Zenon DEF LocationsApart, Located
<1>. QED  BY <1>1, <1>2, <1>3, <1>4, <1>5, Zenon DEF AInv, BindingsInv, LocationsInv

LEMMA StutterAInv == AInv /\ UNCHANGED vars => AInv'
<1>. SUFFICES ASSUME AInv, UNCHANGED vars PROVE AInv'
  OBVIOUS
<1>1. UNCHANGED <<program, qualifiers, phase, stage, entries, pending, nextLocation>>
  BY Zenon DEF vars, programVars, resolveVars
<1>2. unit' = unit /\ \A v : declared(v)' = declared(v)
  BY <1>1, Zenon DEF unit, declared
<1>3. \A v : NeedsLocation(v)' = NeedsLocation(v)
  BY <1>2, Zenon DEF NeedsLocation
<1>4. \A st : Numbered(st)' = Numbered(st) /\ Cells(Numbered(st))' = Cells(Numbered(st))
  BY <1>1, <1>2, <1>3, Zenon DEF Numbered, Cells
<1>5. Placed' = Placed /\ \A v : PlaceOf(v)' = PlaceOf(v)
  BY <1>1, <1>2, Zenon DEF Placed, PlaceOf, BaseBinding, LayoutSet
<1>6. places' = places
  BY <1>5, Zenon DEF places
<1>7. CountInv' /\ RangesInv'
  BY <1>1, <1>2, <1>3, <1>4, Zenon DEF AInv, CountInv, RangesInv, Follows
<1>8. BindingsInv'
  BY <1>1, <1>6, Zenon DEF AInv, BindingsInv, OpenBindingsApart, OpenBound, Bound, SlotsOf
<1>9. LocationsInv'
  BY <1>1, FitStays, Zenon DEF AInv, LocationsInv, LocationsApart, Located, LocationsOf
<1>10. IInv'
  BY StutterIInv, Zenon DEF AInv
<1>. QED  BY <1>7, <1>8, <1>9, <1>10, Zenon DEF AInv

(* In the trees that mapIO leaves, automatic bindings overlap no binding   *)
(* of their set, when no option moves the set, and automatic locations no  *)
(* other automatic location, when they fit their field.                    *)
THEOREM AutomaticMappingsApartHolds == Spec => []AutomaticMappingsApart
<1>1. AInv /\ [Next]_vars => AInv'
  <2>. SUFFICES ASSUME AInv, [Next]_vars PROVE AInv'
    OBVIOUS
  <2>1. CASE Next
    <3>1. IInv'
      BY <2>1, TypeStep, StageStep, EntryStep, OrderStep, SearchStep, SlotsStep, LiveStep, OnceStep, Zenon
      DEF AInv, IInv
    <3>. QED  BY <2>1, <3>1, BindingsStep, CountsStep, LocationsStep, Zenon DEF AInv
  <2>2. CASE UNCHANGED vars
    BY <2>2, StutterAInv, Zenon
  <2>. QED  BY <2>1, <2>2
<1>2. AInv => AutomaticMappingsApart
  BY Zenon DEF AInv, BindingsInv, LocationsInv, AutomaticMappingsApart
<1>. QED  BY <1>1, <1>2, InitAInv, PTL DEF Spec
=============================================================================
