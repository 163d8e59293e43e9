------------------------------ MODULE PpMacros ------------------------------
(***************************************************************************)
(* Macro expansion of the preprocessor.  Tokens come from a stack of       *)
(* inputs, an expansion is a tMacroInput pushed on it, and one bit per     *)
(* macro, busy, is to keep it from being expanded within itself.  The      *)
(* arguments of a call are expanded beforehand (PrescanMacroArg), over a   *)
(* marker that keeps the scan from running on; MacroExpand and             *)
(* PrescanMacroArg call each other, which expansions holds as a stack.     *)
(* A step is one call of scanToken and what its caller does with the       *)
(* token, or the end of one input.  # o stands for the line #undef o.      *)
(***************************************************************************)
EXTENDS MacroReference

CONSTANTS
    Tables,    \* tables of macros: name -> [functionLike, args, body]
    Sources    \* sequences of atoms

\* the atoms that no macro names or holds
Reserved == {"\n", "marker", "end of input"}

ASSUME MacroAssumption ==
    /\ \A table \in Tables :
         /\ IsFiniteSet(DOMAIN table) /\ DOMAIN table \subseteq STRING \ Reserved
         /\ \A m \in DOMAIN table :
              /\ table[m] \in [functionLike : BOOLEAN, args : Seq(STRING), body : Seq(STRING \ Reserved)]
              /\ ~table[m].functionLike => table[m].args = <<>>
    /\ Sources \subseteq Seq(STRING \ {"marker", "end of input"})

VARIABLES
    source, macroDefs,
    undef, busy,     \* the macros with the bit set
    currentPos,      \* of the body of every macro
    inputStack,
    newLine,         \* previous_token is '\n'
    expansions,      \* calls of MacroExpand and PrescanMacroArg under way
    output, errors,
    over,            \* tokenize has returned EndOfInput
    recursed         \* history: a macro was expanded within itself

macroVars == <<source, macroDefs, undef>>
vars == <<macroVars, busy, currentPos, inputStack, newLine, expansions, output, errors, over, recursed>>

\* hide, a history: the macros this token has come out of
Token(atom, hide) == [atom |-> atom, hide |-> hide]
EndOfInput == Token("end of input", {})
Marker     == Token("marker", {})

Within(tokens, hide) == [i \in DOMAIN tokens |-> [tokens[i] EXCEPT !.hide = @ \cup hide]]

\* tStringInput, tTokenInput, tUngotTokenInput
Tokens(tokens) == [kind |-> "tokens", rest |-> tokens]
tMarkerInput   == [kind |-> "marker", rest |-> <<Marker>>]
tMacroInput(m, args, hide) == [kind |-> "macro", mac |-> m, args |-> args, hide |-> hide]

Init ==
    /\ macroDefs \in Tables /\ source \in Sources
    /\ undef = {} /\ busy = {} /\ currentPos = [m \in DOMAIN macroDefs |-> 1]
    /\ inputStack = <<Tokens([i \in DOMAIN source |-> Token(source[i], {})])>>
    /\ newLine = TRUE /\ expansions = <<>> /\ output = <<>>
    /\ errors = FALSE /\ over = FALSE /\ recursed = FALSE

-----------------------------------------------------------------------------
\* scanToken

top  == Last(inputStack)
body == macroDefs[top.mac].body

AtEnd == IF top.kind = "macro" THEN currentPos[top.mac] > Len(body) ELSE top.rest = <<>>

\* the parameter the body of top is at, none if 0
Parameter ==
    LET params == macroDefs[top.mac].args
        at == {i \in DOMAIN params : params[i] = body[currentPos[top.mac]]}
    IN  IF top.kind = "macro" /\ at # {} THEN CHOOSE i \in at : TRUE ELSE 0

Ready == ~over /\ (inputStack # <<>> => ~AtEnd /\ Parameter = 0)

token ==
    IF inputStack = <<>> THEN EndOfInput
    ELSE IF top.kind = "macro" THEN Token(body[currentPos[top.mac]], top.hide)
    ELSE Head(top.rest)

Moved ==
    IF inputStack # <<>> /\ top.kind = "macro"
    THEN [currentPos EXCEPT ![top.mac] = @ + 1] ELSE currentPos

\* the inputs once the token has been taken
Rest ==
    IF inputStack = <<>> \/ top.kind = "macro" THEN inputStack
    ELSE Append(Front(inputStack), [top EXCEPT !.rest = Tail(@)])

StillBusy == busy
NoLongerBusy == IF top.kind = "macro" THEN busy \ {top.mac} ELSE busy

popInput ==
    /\ ~over /\ inputStack # <<>> /\ AtEnd
    /\ inputStack' = Front(inputStack)
    /\ busy' = NoLongerBusy
    /\ UNCHANGED <<macroVars, currentPos, newLine, expansions, output, errors, over, recursed>>

scanArgument ==
    /\ ~over /\ inputStack # <<>> /\ ~AtEnd /\ Parameter # 0
    /\ inputStack' = Append(inputStack, Tokens(Within(top.args[Parameter], top.hide)))
    /\ currentPos' = Moved
    /\ UNCHANGED <<macroVars, busy, newLine, expansions, output, errors, over, recursed>>

-----------------------------------------------------------------------------
\* MacroExpand

\* what scanning leaves behind when nothing is expanded or reported
Taken == inputStack' = Rest /\ currentPos' = Moved
Quiet == UNCHANGED <<macroVars, busy, errors, over, recursed>>

Expandable(t) == t.atom \in DOMAIN macroDefs \ (undef \cup busy)

call   == Last(expansions)
At(place) == expansions # <<>> /\ call.at = place
Return == Front(expansions)
Params == macroDefs[call.name.atom].args
Continue(frame) == expansions' = Append(Return, frame)

\* MacroExpandNotStarted: the caller, in the frames given, keeps the token
Keep(frames, t) ==
    IF frames = <<>>
    THEN output' = Append(output, t.atom) /\ expansions' = frames
    ELSE /\ expansions' = Append(Front(frames), [Last(frames) EXCEPT !.expanded = Append(@, t)])
         /\ UNCHANGED output

\* MacroExpandStarted, name having come with its hide
Push(inputs, frames, name, args, hide) ==
    /\ inputStack' = Append(inputs, tMacroInput(name.atom, args, hide \cup {name.atom}))
    /\ busy' = busy \cup {name.atom}
    /\ currentPos' = [Moved EXCEPT ![name.atom] = 1]
    /\ expansions' = frames
    /\ recursed' = (recursed \/ name.atom \in name.hide)
    /\ UNCHANGED <<macroVars, output, over>>

\* MacroExpandError: tokenize gives up, PrescanMacroArg tosses the rest of the argument
Fail ==
    /\ errors' = TRUE
    /\ IF Return = <<>>
       THEN over' = TRUE /\ expansions' = <<>>
       ELSE /\ expansions' = Append(Front(Return), [Last(Return) EXCEPT !.tossing = TRUE])
            /\ UNCHANGED over
    /\ UNCHANGED <<macroVars, busy, newLine, output, recursed>>

MacroExpand ==
    IF macroDefs[token.atom].functionLike
    THEN /\ expansions' = Append(expansions, [at |-> "paren", name |-> token])
         /\ Taken /\ Quiet /\ UNCHANGED output
    ELSE /\ Push(Rest, expansions, token, <<>>, token.hide)
         /\ UNCHANGED errors

\* looking for the '(' of a call
CallBegins ==
    /\ Ready /\ At("paren") /\ token.atom = "("
    /\ Continue([at |-> "args", name |-> call.name, args |-> << <<>> >>, nest |-> 0, recorded |-> FALSE])
    /\ Taken /\ Quiet /\ UNCHANGED <<newLine, output>>

NoCall ==
    /\ Ready /\ At("paren") /\ token.atom \notin {"(", "\n"}
    /\ inputStack' = IF token = EndOfInput THEN Rest ELSE Append(Rest, Tokens(<<token>>))
    /\ currentPos' = Moved
    /\ Keep(Return, call.name)
    /\ Quiet /\ UNCHANGED newLine

SkipNewLine ==
    /\ Ready /\ (At("paren") \/ At("args")) /\ token.atom = "\n"
    /\ Taken /\ Quiet /\ UNCHANGED <<newLine, expansions, output>>

\* gathering the arguments
EndsInput(t) == t.atom = EndOfInput.atom
EndsArgument(t) == t.atom \in {EndOfInput.atom, Marker.atom}

BadCall ==
    /\ Ready /\ At("args") /\ (EndsArgument(token) \/ token.atom = "#")
    /\ Taken /\ Fail

InArgs == Ready /\ At("args") /\ ~EndsArgument(token) /\ token.atom \notin {"#", "\n"}

\* the call has an argument too many; braces count as parentheses from here on
AtFirst == IF token.atom = "}" THEN -1 ELSE 0

Recover ==
    /\ Continue([at |-> "recover", name |-> call.name, args |-> call.args, depth |-> AtFirst])
    /\ Taken /\ Quiet /\ UNCHANGED <<newLine, output>>

Excess ==
    /\ InArgs
    /\ \/ Params = <<>> /\ token.atom # ")"
       \/ Params # <<>> /\ call.nest = 0 /\ token.atom = "," /\ Len(call.args) = Len(Params)
    /\ Recover

NextArgument ==
    /\ InArgs /\ call.nest = 0 /\ token.atom = "," /\ Len(call.args) < Len(Params)
    /\ Continue([call EXCEPT !.args = Append(@, <<>>)])
    /\ Taken /\ Quiet /\ UNCHANGED <<newLine, output>>

FlatNest == 0
Nest ==
    IF token.atom = "(" THEN call.nest + 1
    ELSE IF token.atom = ")" THEN call.nest - 1 ELSE call.nest

Record ==
    /\ InArgs /\ Params # <<>> /\ ~(call.nest = 0 /\ token.atom \in {",", ")"})
    /\ Continue([call EXCEPT !.args = Append(Front(@), Append(Last(@), token)),
                             !.nest = Nest, !.recorded = TRUE])
    /\ Taken /\ Quiet /\ UNCHANGED <<newLine, output>>

Given == IF Len(Params) = 1 /\ ~call.recorded THEN 0 ELSE Len(call.args)

\* PrescanMacroArg for the i-th argument, over inputs
Prescan(inputs, i, args, name, hide) ==
    /\ inputStack' = inputs \o <<tMarkerInput, Tokens(args[i])>>
    /\ currentPos' = Moved
    /\ Continue([at |-> "prescan", name |-> name, args |-> args, hide |-> hide, arg |-> i,
                 expanded |-> <<>>, tossing |-> FALSE, outer |-> inputs, outerPos |-> Moved])
    /\ UNCHANGED <<macroVars, busy, output, over, recursed>>

\* the call is complete, closed by a ')' within hide
Called(given, hide) ==
    LET args == [i \in DOMAIN Params |-> IF i <= Len(call.args) THEN call.args[i] ELSE <<>>]
        inside == call.name.hide \cap hide
    IN
    IF Params = <<>>
    THEN Push(Rest, Return, call.name, <<>>, inside)
    ELSE Prescan(Rest, 1, args, call.name, inside)

CloseCall ==
    /\ InArgs /\ token.atom = ")" /\ call.nest = 0
    /\ Called(Given, token.hide)
    /\ errors' = (errors \/ Given < Len(Params))
    /\ UNCHANGED newLine

Deeper == IF token.atom \in {"(", "{"} THEN call.depth + 1 ELSE call.depth

SkipExcess ==
    /\ Ready /\ At("recover") /\ ~EndsInput(token) /\ (token.atom = ")" => Deeper > 0)
    /\ Continue([call EXCEPT !.depth = IF token.atom \in {")", "}"} THEN @ - 1 ELSE Deeper])
    /\ Taken /\ Quiet /\ UNCHANGED <<newLine, output>>

EndExcess ==
    /\ Ready /\ At("recover") /\ token.atom = ")" /\ Deeper <= 0
    /\ Called(Len(Params), token.hide)
    /\ errors' = TRUE
    /\ UNCHANGED newLine

ExcessUnclosed ==
    /\ Ready /\ At("recover") /\ EndsInput(token)
    /\ Taken /\ Fail

-----------------------------------------------------------------------------
\* PrescanMacroArg

Prescanning == Ready /\ At("prescan")

PrescanMacro ==
    /\ Prescanning /\ ~call.tossing /\ Expandable(token)
    /\ MacroExpand
    /\ UNCHANGED newLine

PrescanToken ==
    /\ Prescanning /\ ~call.tossing /\ ~Expandable(token) /\ ~EndsArgument(token)
    /\ Keep(expansions, token)
    /\ Taken /\ Quiet /\ UNCHANGED newLine

EndsAtMarker(t) == t = Marker
EndsToss(t) == t = Marker \/ t = EndOfInput

Toss ==
    /\ Prescanning /\ call.tossing /\ ~EndsToss(token)
    /\ Taken /\ Quiet /\ UNCHANGED <<newLine, expansions, output>>

\* without its marker the scan has no result, and the argument stays as it was
EndPrescan ==
    LET args == IF token = Marker THEN [call.args EXCEPT ![call.arg] = call.expanded] ELSE call.args IN
    /\ Prescanning /\ IF call.tossing THEN EndsToss(token) ELSE EndsArgument(token)
    /\ IF call.arg < Len(args)
       THEN Prescan(Rest, call.arg + 1, args, call.name, call.hide)
       ELSE Push(Rest, Return, call.name, args, call.hide)
    /\ UNCHANGED <<newLine, errors>>

-----------------------------------------------------------------------------
\* tokenize

Tokenizing == Ready /\ expansions = <<>>

TokenizeMacro ==
    /\ Tokenizing /\ Expandable(token)
    /\ MacroExpand
    /\ newLine' = FALSE

TokenizeToken ==
    /\ Tokenizing /\ ~Expandable(token) /\ token.atom \notin {"\n", "#", Marker.atom, EndOfInput.atom}
    /\ Keep(expansions, token)
    /\ newLine' = FALSE
    /\ Taken /\ Quiet

TokenizeNewLine ==
    /\ Tokenizing /\ token.atom = "\n"
    /\ newLine' = TRUE
    /\ Taken /\ Quiet /\ UNCHANGED <<expansions, output>>

readCPPline ==
    /\ Tokenizing /\ token.atom = "#" /\ newLine
    /\ expansions' = <<[at |-> "undef"]>>
    /\ Taken /\ Quiet /\ UNCHANGED <<newLine, output>>

CPPundef ==
    /\ Ready /\ At("undef")
    /\ undef' = undef \cup ({token.atom} \cap DOMAIN macroDefs)
    /\ expansions' = <<>>
    /\ Taken /\ UNCHANGED <<source, macroDefs, busy, newLine, output, errors, over, recursed>>

StrayDirective ==
    /\ Tokenizing /\ token.atom = "#" /\ ~newLine
    /\ errors' = TRUE /\ over' = TRUE
    /\ Taken /\ UNCHANGED <<macroVars, busy, newLine, expansions, output, recursed>>

TokenizeEnd ==
    /\ Tokenizing /\ token = EndOfInput
    /\ over' = TRUE
    /\ Taken /\ UNCHANGED <<macroVars, busy, newLine, expansions, output, errors, recursed>>

Next ==
    \/ popInput \/ scanArgument
    \/ CallBegins \/ NoCall \/ SkipNewLine
    \/ BadCall \/ Excess \/ NextArgument \/ Record \/ CloseCall
    \/ SkipExcess \/ EndExcess \/ ExcessUnclosed
    \/ PrescanMacro \/ PrescanToken \/ Toss \/ EndPrescan
    \/ TokenizeMacro \/ TokenizeToken \/ TokenizeNewLine
    \/ readCPPline \/ CPPundef \/ StrayDirective \/ TokenizeEnd

Spec == Init /\ [][Next]_vars /\ WF_vars(Next)
-----------------------------------------------------------------------------
\* Properties

OnStack(m) == {i \in DOMAIN inputStack : inputStack[i].kind = "macro" /\ inputStack[i].mac = m}

(* A macro is busy exactly while its one tMacroInput is on the stack, so   *)
(* two inputs never read one body from one position; and no macro is busy  *)
(* when a directive could change its definition.  The bit is set and reset *)
(* in different inputs' hands, with speculative scans, prescans and errors *)
(* in between (Pp.cpp:1131, 1315).                                         *)
BusyIsOnStack ==
    /\ \A m \in DOMAIN macroDefs :
         /\ m \in busy <=> OnStack(m) # {}
         /\ \A i, j \in OnStack(m) : i = j
    /\ At("undef") => busy = {}

(* Expanding an argument beforehand disturbs nothing outside it: the       *)
(* inputs below its marker stay as they were, their places in their bodies *)
(* included, although the look for a '(' may read the marker itself and    *)
(* put it back (Pp.cpp:1034, 1226).  This holds until an error is reported *)
(* or the end of a call with too many arguments is looked for: that search *)
(* reads over the marker (Pp.cpp:1291), and reports once it is through.    *)
PrescanStaysInside ==
    ~errors /\ ~At("recover") =>
        \A k \in DOMAIN expansions :
            expansions[k].at = "prescan" =>
                LET outer == expansions[k].outer IN
                /\ Len(inputStack) > Len(outer) /\ SubSeq(inputStack, 1, Len(outer)) = outer
                /\ \A i \in DOMAIN outer :
                     outer[i].kind = "macro" =>
                         currentPos[outer[i].mac] = expansions[k].outerPos[outer[i].mac]

(* "no recursive expansions" (Pp.cpp:1195): no name that came out of a     *)
(* macro's expansion is expanded by this macro again.                      *)
NoRecursiveExpansion == ~recursed

(* What comes out is what C defines, for every source without an error and *)
(* without a macro expanded within itself: one busy bit for each macro is  *)
(* as good as a set of hidden names on each token (Pp.cpp:1163).           *)
ExpandsAsDefined ==
    over /\ ~errors /\ ~recursed /\ (\A i \in DOMAIN source : source[i] # "#")
        => output = Meaning(macroDefs, source)

(* Preprocessing ends whatever the macros and the calls are, recursive,    *)
(* unclosed and ill-formed ones included (Pp.cpp:1044, 1294).              *)
PreprocessingEnds == <>over
=============================================================================
