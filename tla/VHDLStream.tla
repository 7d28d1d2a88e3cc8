----------------------------- MODULE VHDLStream -----------------------------
(***************************************************************************)
(* The two passes over the VHDL that a constructor writes.                 *)
(*                                                                         *)
(* FlopocoStream keeps what is written in a buffer.  When a piece with a   *)
(* semicolon is written the buffer goes through the lexer                  *)
(* (src/src/VHDLLexerRule.l), which marks the names on both sides of the   *)
(* assignments and records who reads whom; its state lives from one buffer *)
(* to the next.  schedule() moves the recorded dependencies to the signal  *)
(* graph.  Once the signals have their cycles, doApplySchedule() goes      *)
(* through the marked text again, one statement after the other, removes   *)
(* the marks and adds to the names the registers between the two cycles.   *)
(*                                                                         *)
(* Text is a sequence of lexemes, as flex cuts it.                         *)
(***************************************************************************)
EXTENDS Integers, Sequences, SequencesExt

CONSTANTS
  Programs,   \* what a constructor may write: sequences of statements
  Instances,  \* for each label, whether the component isShared(), and its io list
  Timings     \* the results of scheduling: functions of the declared signals

\* A lexeme has a kind, and a name with a delay (sig^1) if it is an identifier.
\* Its role in the statement is what the lexer has to find out; reader is the
\* signal that the statement assigns, or the label of the instance.
Lexeme(kind) == [kind |-> kind, name |-> "", delay |-> 0, role |-> "text", reader |-> ""]
Name(x, role, reader) == [Lexeme("identifier") EXCEPT !.name = x, !.role = role, !.reader = reader]

Declared == UNION {DOMAIN timing : timing \in Timings}

VARIABLES
  program,          \* the statements that the constructor writes
  written,          \* how many of their lexemes are in the stream
  vhdlCodeBuffer,
  vhdlCode,         \* lexemes with their marks and their registers
  lexer,            \* the lexing context
  dependenceTable,
  graph,            \* the dependencies moved to the signal graph
  cycle,            \* what the schedule gave
  currentPos, newStr,  \* doApplySchedule() is at this lexeme and has produced this
  phase

streamVars == <<vhdlCodeBuffer, vhdlCode, lexer, dependenceTable>>
applyVars == <<cycle, currentPos, newStr>>
vars == <<program, written, streamVars, graph, applyVars, phase>>

Text == FlattenSeq(program)

Fresh == [mode |-> "unset", modeOld |-> "unset", lhsName |-> "", isLhsSet |-> FALSE,
          extraRhsNames |-> <<>>, failed |-> FALSE]

Init ==
  /\ program \in Programs
  /\ written = 0
  /\ vhdlCodeBuffer = <<>>
  /\ vhdlCode = <<>>
  /\ lexer = Fresh
  /\ dependenceTable = <<>>
  /\ graph = {}
  /\ cycle = [s \in {} |-> 0]
  /\ currentPos = 1
  /\ newStr = <<>>
  /\ phase = "write"

-----------------------------------------------------------------------------
(***************************************************************************)
(* The lexer.  A scan carries the context c, the text marked so far and    *)
(* the dependencies found.                                                 *)
(***************************************************************************)
\* The dependency of lhs on an identifier; the delay stays in the name for now.
Dependency(lhs, t) == [lhs |-> lhs, rhs |-> t.name, suffix |-> t.delay, delay |-> 0]

\* The modes where an identifier is the left-hand side, or the component, or a
\* formal parameter, and those where it is read.
LhsModes == {"unset", "selectedSignalAssignment2", "portmap"}
RhsModes == {"signalAssignment", "conditionalSignalAssignment", "selectedSignalAssignment",
             "selectedSignalAssignment3", "portmap2"}

Mark(mode) == CASE mode \in LhsModes -> "lhs"
                [] mode \in RhsModes -> "rhs"
                [] OTHER -> "none"

OnIdentifier(c, t) ==
  LET assigned == c.mode \in {"unset", "selectedSignalAssignment2"}
  IN [c EXCEPT
        !.lhsName = IF c.mode = "selectedSignalAssignment2" \/ (c.mode = "unset" /\ @ = "")
                    THEN t.name ELSE @,
        !.failed = @ \/ (assigned /\ c.isLhsSet),
        !.isLhsSet = @ \/ assigned,
        !.extraRhsNames = IF c.mode = "selectedSignalAssignment" THEN @ \o <<t, t>> ELSE @,
        !.mode = CASE @ = "selectedSignalAssignment" -> "selectedSignalAssignment2"
                   [] @ = "selectedSignalAssignment2" -> "selectedSignalAssignment3"
                   [] @ = "portmap" -> "portmap2"
                   [] @ = "portmap2" -> "portmap"
                   [] OTHER -> @]

\* A wrong variant of OnSemicolon, for a mutation run: the selectors of the
\* statement are not forgotten.
OnSemicolonKeeping(c) == [Fresh EXCEPT !.failed = c.failed, !.extraRhsNames = c.extraRhsNames]

OnSemicolon(c) == [Fresh EXCEPT !.failed = c.failed]

\* <=, which also is a comparison.
OnArrow(c) ==
  [c EXCEPT !.failed = @ \/ c.mode = "signalAssignment",
            !.mode = CASE @ = "unset" -> "signalAssignment"
                       [] @ = "selectedSignalAssignment2" -> "selectedSignalAssignment3"
                       [] OTHER -> @]

\* A wrong variant of OnNewline, for a mutation run: a comment ends the statement.
OnNewlineUnset(c) == [c EXCEPT !.mode = IF @ = "comment" THEN "unset" ELSE @]

OnNewline(c) == [c EXCEPT !.mode = IF @ = "comment" THEN c.modeOld ELSE @]

\* :=, port map, generic map, case: no assignment of a signal.
NewMode(c, mode) == [c EXCEPT !.mode = mode, !.lhsName = "", !.extraRhsNames = <<>>]

Transition(c, t) ==
  CASE t.kind = "identifier" -> OnIdentifier(c, t)
    [] t.kind = ";" -> OnSemicolon(c)
    [] t.kind = "<=" -> OnArrow(c)
    [] t.kind = "newline" -> OnNewline(c)
    [] t.kind \in {"comment", "comment;"} -> [c EXCEPT !.modeOld = c.mode, !.mode = "comment"]
    [] t.kind = "when" ->
         [c EXCEPT !.mode = IF @ = "selectedSignalAssignment" THEN @ ELSE "conditionalSignalAssignment"]
    [] t.kind = "with" -> [c EXCEPT !.mode = "selectedSignalAssignment"]
    [] t.kind = "select" -> [c EXCEPT !.mode = "selectedSignalAssignment2"]
    [] t.kind = "port map" -> NewMode(c, "portmap")
    [] t.kind = "generic map" -> NewMode(c, "genericmap")
    [] t.kind = "case" -> NewMode(c, "caseStatement")
    [] t.kind = ":=" -> NewMode(c, "variableAssignment")
    [] t.kind = "," -> [c EXCEPT !.mode = IF @ = "portmap2" THEN "portmap" ELSE @]
    [] OTHER -> c

\* What a lexeme adds to the table of the lexer: the selectors wait for the end
\* of the statement.
Found(c, t) ==
  CASE t.kind = "identifier" /\ c.mode \in RhsModes \ {"selectedSignalAssignment", "portmap2"} ->
         << Dependency(c.lhsName, t) >>
    [] t.kind = ";" -> [i \in DOMAIN c.extraRhsNames |-> Dependency(c.lhsName, c.extraRhsNames[i])]
    [] OTHER -> <<>>

\* A comment is one lexeme up to the end of the line, or of the buffer: if the
\* line goes on in the next buffer, its rest is scanned in comment mode.
LexStep(scan, t) ==
  LET swallowed == scan.inComment /\ t.kind # "newline"
      mark == IF t.kind = "identifier" /\ ~swallowed THEN Mark(scan.context.mode) ELSE "none"
  IN [ context |-> IF swallowed THEN scan.context ELSE Transition(scan.context, t),
       inComment |-> swallowed \/ t.kind \in {"comment", "comment;"},
       code |-> Append(scan.code, [text |-> t, mark |-> mark, registers |-> <<>>]),
       found |-> IF swallowed THEN scan.found ELSE scan.found \o Found(scan.context, t) ]

Scan(buffer) ==
  FoldLeft(LexStep, [context |-> lexer, inComment |-> FALSE, code |-> <<>>, found |-> <<>>], buffer)

\* cleanupDependenceTable(), on the whole table: a delay is taken out of the
\* name, and one taken out by an earlier call is not kept.  A dependency of
\* nobody disappears.
Cleaned(table) ==
  LET clean(e) == [e EXCEPT !.suffix = 0, !.delay = e.suffix]
      named == SelectSeq(table, LAMBDA e : e.lhs # "")
  IN [i \in DOMAIN named |-> clean(named[i])]

\* flushAndParseAndBuildDependencyTable()
Flush(buffer) ==
  LET scan == Scan(buffer)
  IN /\ vhdlCodeBuffer' = <<>>
     /\ vhdlCode' = vhdlCode \o scan.code
     /\ lexer' = scan.context
     /\ dependenceTable' = IF buffer = <<>> THEN dependenceTable
                           ELSE Cleaned(dependenceTable \o scan.found)

-----------------------------------------------------------------------------
(***************************************************************************)
(* Writing and scheduling.                                                 *)
(***************************************************************************)
HasSemicolon(piece) == \E i \in DOMAIN piece : piece[i].kind \in {";", "comment;"}

\* vhdl << piece
Write ==
  /\ phase = "write" /\ ~lexer.failed
  /\ \E last \in (written + 1)..Len(Text) :
       LET piece == SubSeq(Text, written + 1, last)
       IN /\ written' = last
          /\ IF HasSemicolon(piece)
             THEN Flush(vhdlCodeBuffer \o piece)
             ELSE /\ vhdlCodeBuffer' = vhdlCodeBuffer \o piece
                  /\ UNCHANGED <<vhdlCode, lexer, dependenceTable>>
  /\ UNCHANGED <<program, graph, applyVars, phase>>

\* moveDependenciesToSignalGraph(), which a schedule() begins with at any time.
MoveDependencies ==
  /\ phase = "write" /\ dependenceTable # <<>>
  /\ graph' = graph \cup Range(dependenceTable)
  /\ dependenceTable' = <<>>
  /\ UNCHANGED <<program, written, vhdlCodeBuffer, vhdlCode, lexer, applyVars, phase>>

\* All is written and scheduled; str() flushes what is left.
StartApplySchedule ==
  /\ phase = "write" /\ ~lexer.failed
  /\ written = Len(Text) /\ dependenceTable = <<>>
  /\ Flush(vhdlCodeBuffer)
  /\ cycle' \in Timings
  /\ phase' = "apply"
  /\ UNCHANGED <<program, written, graph, currentPos, newStr>>

-----------------------------------------------------------------------------
(***************************************************************************)
(* doApplySchedule()                                                       *)
(***************************************************************************)
\* The first position from i on with a property, beyond the end if there is none.
FirstFrom(i, Test(_)) ==
  LET found == {j \in i..Len(vhdlCode) : Test(vhdlCode[j])}
  IN IF found = {} THEN Len(vhdlCode) + 1 ELSE Min(found)

FirstMark(mark, i) == FirstFrom(i, LAMBDA e : e.mark = mark)
NextPos == Min({FirstMark("lhs", currentPos), FirstMark("rhs", currentPos)})

\* The statement at hand ends with the next semicolon, wherever it stands.
StatementEnd ==
  Min({FirstFrom(NextPos, LAMBDA e : e.text.kind \in {";", "comment;"}), Len(vhdlCode)})
HasKind(kind) == \E i \in NextPos..StatementEnd : vhdlCode[i].text.kind = kind

Applying(mark) ==
  /\ phase = "apply"
  /\ NextPos <= Len(vhdlCode)
  /\ vhdlCode[NextPos].mark = mark

Unmarked(e, registers) == [e EXCEPT !.mark = "none", !.registers = registers]

\* The suffix _d for a name of an earlier cycle, if both names are signals.
Registers(lhs, rhs) ==
  IF {lhs, rhs} \subseteq Declared /\ cycle[lhs] > cycle[rhs]
  THEN << cycle[lhs] - cycle[rhs] >> ELSE <<>>

\* Names that are read, from position i on: a functional delay adds its own suffix.
Delayed(lhs, e) ==
  Unmarked(e, Registers(lhs, e.text.name)
                \o (IF e.text.name \in Declared /\ e.text.delay > 0 THEN <<e.text.delay>> ELSE <<>>))
Reads(lhs, i) ==
  [k \in 1..(StatementEnd - i + 1) |->
     LET e == vhdlCode[i + k - 1] IN IF e.mark = "rhs" THEN Delayed(lhs, e) ELSE e]

Produce(codes) ==
  /\ newStr' = newStr \o SubSeq(vhdlCode, currentPos, NextPos - 1) \o codes
  /\ currentPos' = StatementEnd + 1
  /\ UNCHANGED <<program, written, streamVars, graph, cycle, phase>>

Assignment ==
  /\ Applying("lhs") /\ ~HasKind("port map")
  /\ Produce(<<Unmarked(vhdlCode[NextPos], <<>>)>> \o Reads(vhdlCode[NextPos].text.name, NextPos + 1))

\* A wrong variant of Selector, for a mutation run: it is not delayed.
UndelayedSelector(lhs, e) == Unmarked(e, <<>>)

Selector(lhs, e) == Unmarked(e, Registers(lhs, e.text.name))

\* with ... select: the first name read comes before the one assigned.
SelectedAssignment ==
  /\ Applying("rhs")
  /\ LET left == FirstMark("lhs", NextPos)
         lhs == vhdlCode[left].text.name
     IN Produce(<<Selector(lhs, vhdlCode[NextPos])>> \o SubSeq(vhdlCode, NextPos + 1, left - 1)
                  \o <<Unmarked(vhdlCode[left], <<>>)>> \o Reads(lhs, left + 1))

\* An input of a shared component waits for the cycle of its first output; the
\* dependency graph takes care of other components.
ActualRegisters(instance, formal, actual) ==
  LET outputs == {i \in DOMAIN instance.io : instance.io[i].out}
      isInput == \E i \in DOMAIN instance.io : instance.io[i].formal = formal /\ ~instance.io[i].out
  IN IF instance.shared /\ isInput
     THEN Registers(instance.io[Min(outputs)].actual, actual) ELSE <<>>

\* The name of the component is marked like one that is assigned, each formal
\* parameter too, and the signal connected to it like one that is read.
PortMap ==
  /\ Applying("lhs") /\ HasKind("port map")
  /\ LET labels == {i \in 1..NextPos : vhdlCode[i].text.kind = "label"}
         instance == Instances[vhdlCode[Max(labels)].text.name]
         formal(i) == Max({j \in NextPos..(i - 1) : vhdlCode[j].mark = "lhs"})
         connected(i) == LET e == vhdlCode[i]
                         IN IF e.mark = "rhs"
                            THEN Unmarked(e, ActualRegisters(instance, vhdlCode[formal(i)].text.name, e.text.name))
                            ELSE Unmarked(e, <<>>)
     IN Produce([k \in 1..(StatementEnd - NextPos + 1) |-> connected(NextPos + k - 1)])

\* The text behind the last mark.
EndApplySchedule ==
  /\ phase = "apply"
  /\ NextPos > Len(vhdlCode)
  /\ newStr' = newStr \o SubSeq(vhdlCode, currentPos, Len(vhdlCode))
  /\ phase' = "done"
  /\ UNCHANGED <<program, written, streamVars, graph, cycle, currentPos>>

Next ==
  \/ Write
  \/ MoveDependencies
  \/ StartApplySchedule
  \/ Assignment
  \/ SelectedAssignment
  \/ PortMap
  \/ EndApplySchedule

Spec == Init /\ [][Next]_vars

-----------------------------------------------------------------------------
(***************************************************************************)
(* Properties.                                                             *)
(***************************************************************************)
\* The names that the statements written so far read, from the statements.
ReadsOf(text) ==
  {<<text[i].reader, text[i].name>> : i \in {j \in DOMAIN text : text[j].role = "read"}}

\* However the constructor cuts the text into pieces, and whatever comments stand
\* in it, the lexer finds the dependencies of the statements, and no others.
DependenciesAreExact ==
  LET known == graph \cup Range(dependenceTable)
  IN vhdlCodeBuffer = <<>> /\ lexer.mode = "unset" =>
       {<<e.lhs, e.rhs>> : e \in known} = ReadsOf(SubSeq(Text, 1, written))

\* No text is lost, moved or repeated, no mark is left, and nothing is refused.
TextIsPreserved ==
  /\ ~lexer.failed
  /\ phase = "done" =>
       /\ [i \in DOMAIN newStr |-> newStr[i].text] = Text
       /\ \A i \in DOMAIN newStr : newStr[i].mark = "none"

\* How long a name has to wait: up to the cycle of the signal that the statement
\* assigns, or of the first output of the shared component that it enters.
FirstOutput(label) == LET io == SelectSeq(Instances[label].io, LAMBDA p : p.out) IN io[1].actual
Waiting(t) ==
  LET until == IF t.role = "input" THEN FirstOutput(t.reader) ELSE t.reader
      waits == t.role = "read" \/ (t.role = "input" /\ Instances[t.reader].shared)
  IN IF waits /\ {t.name, until} \subseteq Declared
     THEN t.delay + Max({0, cycle[until] - cycle[t.name]}) ELSE 0

\* Each name gets the registers that the schedule wants between it and the
\* statement that reads it, as one suffix.
RegistersAreRight ==
  phase = "done" =>
    \A i \in DOMAIN newStr :
      newStr[i].registers = IF Waiting(newStr[i].text) = 0 THEN <<>> ELSE << Waiting(newStr[i].text) >>
=============================================================================
