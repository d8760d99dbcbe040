---------------------------- MODULE SyncRun_proofs ----------------------------
(***************************************************************************)
(* What the reports of framework.sync say, and what a command that ends    *)
(* badly leaves behind, for any repositories, command lines and number of  *)
(* commands.                                                               *)
(***************************************************************************)
EXTENDS SyncRun, SequenceLemmas, FiniteSetTheorems, FunctionTheorems

\* The temporary directory exists between materialize() and the finally clause.
TempWhileAnalyzing == temp # None => at \in {"fill", "collect", "read", "cleanup"}

\* Only an analysis without an error is saved.
SavedIsComplete == at \in {"save", "write"} => exit = None

\* Until write_text opens the report, the command has changed none.
NotYetWritten == at \notin {"idle", "write"} => reports = reportsBefore

\* Then its own report is torn, and no other has changed.
BeingWritten ==
    /\ DOMAIN reports = ReportFiles
    /\ at = "write" => \A r \in ReportFiles :
                          reports[r] = IF r = options.report THEN Torn ELSE reportsBefore[r]
NotEnded == at # "idle" => ended = None

SInv ==
    /\ TempWhileAnalyzing
    /\ SavedIsComplete
    /\ NotYetWritten
    /\ BeingWritten
    /\ NotEnded
    /\ FailureKeepsReports
    /\ OnlyMaterializeLeavesTemp

USE DEF None

-----------------------------------------------------------------------------
\* Before the first command nothing has failed and nothing is left.
LEMMA InitInv == Init => SInv
  BY DEF Init, SInv, TempWhileAnalyzing, SavedIsComplete, NotYetWritten, BeingWritten, NotEnded,
         FailureKeepsReports, OnlyMaterializeLeavesTemp

\* Each action keeps the directory, the completeness of what is saved and the
\* reports in step with the stage of the command.
LEMMA StepInv == SInv /\ [Next]_vars => SInv'
<1> SUFFICES ASSUME SInv, [Next]_vars PROVE SInv'
  OBVIOUS
<1> USE DEF SInv, TempWhileAnalyzing, SavedIsComplete, NotYetWritten, BeingWritten, NotEnded,
            FailureKeepsReports, OnlyMaterializeLeavesTemp
<1>1. CASE \E l \in CommandLines : Start(l)
  BY <1>1 DEF Start
<1>2. CASE Edit
  BY <1>2 DEF Edit
<1>3. CASE AnalyzeStep
  <2>1. CASE OpenDirectory
    BY <2>1 DEF OpenDirectory, Running, End, Stay
  <2>2. CASE MakeTempDir
    BY <2>2 DEF MakeTempDir, Running, Stay
  <2>3. CASE Collect
    BY <2>3 DEF Collect, Stay
  <2>4. CASE ReadAndAnalyze
    BY <2>4 DEF ReadAndAnalyze, Stay
  <2>5. CASE Cleanup
    BY <2>5 DEF Cleanup, Stay
  <2>6. CASE OpenReport
    BY <2>6 DEF OpenReport, End, Stay
  <2>7. CASE WriteReport
    <3>1. at = "write" /\ at' = "idle" /\ exit' = "0" /\ temp = None
      BY <2>7 DEF WriteReport, End
    <3>2. DOMAIN reports' = ReportFiles /\ temp' = None /\ left' = left
      BY <2>7, <3>1 DEF WriteReport, End
    <3> QED
      BY <3>1, <3>2
  <2>8. CASE WriteFails
    <3>1. /\ at = "write" /\ at' = "idle" /\ exit' = "traceback" /\ ended' = "write" /\ temp = None
          /\ temp' = None /\ left' = left
          /\ UNCHANGED <<options, reports, reportsBefore>>
      BY <2>8 DEF WriteFails, End, Stay
    <3> QED
      BY <3>1
  <2> QED
    BY <1>3, <2>1, <2>2, <2>3, <2>4, <2>5, <2>6, <2>7, <2>8 DEF AnalyzeStep
<1>4. CASE FillStep
  <2>1. CASE Fill
    BY <2>1 DEF Fill, Stay
  <2>2. CASE ExtractFails
    BY <2>2 DEF ExtractFails, End, Stay
  <2>3. CASE CloneRefused
    BY <2>3 DEF CloneRefused, Stay
  <2>4. CASE CloneTimesOut
    BY <2>4 DEF CloneTimesOut, End, Stay
  <2> QED
    BY <1>4, <2>1, <2>2, <2>3, <2>4 DEF FillStep
<1>5. CASE ScaffoldCommand
  BY <1>5 DEF ScaffoldCommand, Running, End
<1>6. CASE DiffCommand
  BY <1>6 DEF DiffCommand, Running, End, Stay
<1>7. CASE RecommendCommand
  BY <1>7 DEF RecommendCommand, Running, End
<1>8. CASE Killed
  BY <1>8 DEF Killed, End
<1>9. CASE UNCHANGED vars
  BY <1>9 DEF vars
<1> QED
  BY <1>1, <1>2, <1>3, <1>4, <1>5, <1>6, <1>7, <1>8, <1>9 DEF Next, Step

\* The strengthened invariant holds in every state of every behaviour.
LEMMA Invariant == Spec => []SInv
  BY InitInv, StepInv, PTL DEF Spec

\* A command of framework.sync that fails, other than by being killed, leaves
\* every report as the command found it, but for its own when writing it failed.
THEOREM FailureKeepsReportsHolds == Spec => []FailureKeepsReports
<1>1. SInv => FailureKeepsReports
  BY DEF SInv
<1> QED
  BY Invariant, <1>1, PTL

\* Only a failed materialize() or a kill leaves a temporary directory behind.
THEOREM OnlyMaterializeLeavesTempHolds == Spec => []OnlyMaterializeLeavesTemp
<1>1. SInv => OnlyMaterializeLeavesTemp
  BY DEF SInv
<1> QED
  BY Invariant, <1>1, PTL
-----------------------------------------------------------------------------
(* What is saved was read from one repository. *)

Together(v, w) == \E history \in Histories : v \in history /\ w \in history

\* The running command lists and reads either its own copy, which stays as it
\* is, or the customer's directory, which goes from version to version.
FromOneSource ==
    /\ at = "fill" => temp = options.source /\ temp # None
    /\ at \in {"collect", "read", "cleanup"} => (temp = None <=> options.source = "dir")
    /\ at \in {"read", "cleanup", "save", "write"} =>
          IF options.source = "dir" THEN Together(listed, disk) ELSE listed = copy
    /\ at \in {"cleanup", "save", "write"} =>
          IF options.source = "dir" THEN Together(read, disk) ELSE read = copy

TInv == TypeOK /\ TempWhileAnalyzing /\ FromOneSource

\* Versions are together in one history, or in none.
LEMMA OneHistory ==
  /\ \A v \in DOMAIN Versions : Together(v, v)
  /\ \A v, w : Together(v, w) => Together(w, v)
  /\ \A u, v, w : Together(u, v) /\ Together(v, w) => Together(u, w)
  <1>1. \A v \in DOMAIN Versions : \E h \in Histories : v \in h
    BY HistoriesAssumption
  <1>2. ASSUME NEW u, NEW v, NEW w, Together(u, v), Together(v, w) PROVE Together(u, w)
    <2>1. PICK g \in Histories : u \in g /\ v \in g
      BY <1>2 DEF Together
    <2>2. PICK h \in Histories : v \in h /\ w \in h
      BY <1>2 DEF Together
    <2>3. g \cap h # {}
      BY <2>1, <2>2
    <2>4. g = h
      BY <2>3, HistoriesAssumption
    <2> QED
      BY <2>1, <2>2, <2>4 DEF Together
  <1> QED
    BY <1>1, <1>2 DEF Together

\* What is listed and read together is a report that there may be.
LEMMA SavedIsPossible ==
  ASSUME NEW v \in DOMAIN Versions, NEW w \in DOMAIN Versions
  PROVE  /\ Together(v, w) => ReportOf(Checkout, v, w) \in PossibleReports
         /\ ReportOf(TempDir, v, v) \in PossibleReports
  <1> DEFINE OfCheckout(history) == {ReportOf(Checkout, f, c) : f, c \in history}
             OfCopies == {ReportOf(TempDir, u, u) : u \in DOMAIN Versions}
  <1>0. PossibleReports = (UNION {OfCheckout(history) : history \in Histories}) \cup OfCopies
    BY DEF PossibleReports
  <1>1. ReportOf(TempDir, v, v) \in PossibleReports
    <2>1. ReportOf(TempDir, v, v) \in OfCopies
      OBVIOUS
    <2> HIDE DEF OfCheckout, OfCopies
    <2> QED
      BY <1>0, <2>1
  <1>2. ASSUME NEW history \in Histories, v \in history, w \in history
        PROVE  ReportOf(Checkout, v, w) \in PossibleReports
    <2>1. ReportOf(Checkout, v, w) \in OfCheckout(history)
      BY <1>2
    <2> HIDE DEF OfCheckout, OfCopies
    <2> QED
      BY <1>0, <2>1
  <1> QED
    BY <1>1, <1>2 DEF Together

\* Before the first command there is no report, or one of the checkout.
LEMMA InitTyped == Init => TInv
  <1> SUFFICES ASSUME Init PROVE TInv
    OBVIOUS
  <1>1. disk \in DOMAIN Versions /\ Together(disk, disk)
    BY OneHistory DEF Init
  <1>2. ReportOf(Checkout, disk, disk) \in PossibleReports
    BY <1>1, SavedIsPossible
  <1>3. PICK earlier \in {Absent, ReportOf(Checkout, disk, disk)} : reports = [r \in ReportFiles |-> earlier]
    BY DEF Init
  <1>4. reports \in [ReportFiles -> PossibleReports \cup {Absent, Torn}]
    BY <1>2, <1>3
  <1>5. commands \in 0 .. MaxCommands
    <2>1. commands = 0
      BY DEF Init
    <2> QED
      BY <2>1, BoundAssumption
  <1>6. TypeOK
    BY <1>4, <1>5 DEF Init, TypeOK
  <1> QED
    BY <1>6 DEF Init, TInv, TempWhileAnalyzing, FromOneSource

\* Each action keeps the types, and what was listed and read together.
LEMMA StepTyped == TInv /\ [Next]_vars => TInv'
  <1> SUFFICES ASSUME TInv, [Next]_vars PROVE TInv'
    OBVIOUS
  <1>0. TypeOK /\ TempWhileAnalyzing /\ FromOneSource
    BY DEF TInv
  <1>01. options.source \in {"dir", "zip", "git"} /\ options.report \in ReportFiles
    BY <1>0, OptionsAssumption DEF TypeOK
  <1>1. ASSUME NEW l \in CommandLines, Start(l) PROVE TInv'
    <2>1. commands + 1 \in 0 .. MaxCommands
      <3>1. commands \in 0 .. MaxCommands /\ commands < MaxCommands
        BY <1>0, <1>1 DEF Start, TypeOK
      <3> QED
        BY <3>1, BoundAssumption
    <2>2. temp = None
      BY <1>0, <1>1 DEF Start, TempWhileAnalyzing
    <2> QED
      BY <1>0, <1>1, <2>1, <2>2 DEF Start, TInv, TypeOK, TempWhileAnalyzing, FromOneSource
  <1>2. CASE Edit
    <2>1. Together(disk, disk') /\ disk' \in DOMAIN Versions
      BY <1>2, HistoriesAssumption DEF Edit, Together
    <2>2. \A v : Together(v, disk) => Together(v, disk')
      BY <2>1, OneHistory
    <2> HIDE DEF Together
    <2> QED
      BY <1>0, <1>2, <2>1, <2>2 DEF Edit, TInv, TypeOK, TempWhileAnalyzing, FromOneSource
  <1>3. CASE AnalyzeStep
    <2>1. CASE OpenDirectory
      BY <1>0, <1>01, <2>1 DEF OpenDirectory, Running, End, Stay, TInv, TypeOK, TempWhileAnalyzing, FromOneSource
    <2>2. CASE MakeTempDir
      BY <1>0, <1>01, <2>2 DEF MakeTempDir, Running, Stay, TInv, TypeOK, TempWhileAnalyzing, FromOneSource
    <2>3. CASE Collect
      <3>1. Root \in DOMAIN Versions /\ IF options.source = "dir" THEN Together(Root, disk) ELSE Root = copy
        BY <1>0, <2>3, OneHistory DEF Collect, Root, TypeOK, FromOneSource
      <3> QED
        BY <1>0, <2>3, <3>1 DEF Collect, Stay, TInv, TypeOK, TempWhileAnalyzing, FromOneSource
    <2>4. CASE ReadAndAnalyze
      <3>1. Root \in DOMAIN Versions /\ IF options.source = "dir" THEN Together(Root, disk) ELSE Root = copy
        BY <1>0, <2>4, OneHistory DEF ReadAndAnalyze, Root, TypeOK, FromOneSource
      <3> QED
        BY <1>0, <2>4, <3>1 DEF ReadAndAnalyze, Stay, TInv, TypeOK, TempWhileAnalyzing, FromOneSource
    <2>5. CASE Cleanup
      BY <1>0, <2>5 DEF Cleanup, Stay, TInv, TypeOK, TempWhileAnalyzing, FromOneSource
    <2>6. CASE OpenReport
      <3>1. reports' \in [ReportFiles -> PossibleReports \cup {Absent, Torn}]
        BY <1>0, <1>01, <2>6 DEF OpenReport, TypeOK
      <3>2. temp = None
        BY <1>0, <2>6 DEF OpenReport, TempWhileAnalyzing
      <3> QED
        BY <1>0, <2>6, <3>1, <3>2 DEF OpenReport, End, Stay, TInv, TypeOK, TempWhileAnalyzing, FromOneSource
    <2>7. CASE WriteReport
      <3> DEFINE root == IF options.source = "dir" THEN Checkout ELSE TempDir
      <3>1. ReportOf(root, listed, read) \in PossibleReports
        <4>1. listed \in DOMAIN Versions /\ read \in DOMAIN Versions
          BY <1>0 DEF TypeOK
        <4>2. IF options.source = "dir" THEN Together(listed, read) ELSE listed = read
          BY <1>0, <2>7, OneHistory DEF WriteReport, FromOneSource
        <4> QED
          BY <4>1, <4>2, SavedIsPossible
      <3>2. reports' \in [ReportFiles -> PossibleReports \cup {Absent, Torn}]
        <4> HIDE DEF root
        <4> QED
          BY <1>0, <1>01, <2>7, <3>1 DEF WriteReport, TypeOK, root
      <3>3. temp = None
        BY <1>0, <2>7 DEF WriteReport, TempWhileAnalyzing
      <3> QED
        BY <1>0, <2>7, <3>2, <3>3 DEF WriteReport, End, Stay, TInv, TypeOK, TempWhileAnalyzing, FromOneSource
    <2>8. CASE WriteFails
      BY <1>0, <2>8 DEF WriteFails, End, Stay, TInv, TypeOK, TempWhileAnalyzing, FromOneSource
    <2> QED
      BY <1>3, <2>1, <2>2, <2>3, <2>4, <2>5, <2>6, <2>7, <2>8 DEF AnalyzeStep
  <1>4. CASE FillStep
    <2>1. CASE Fill
      BY <1>0, <1>01, <2>1 DEF Fill, Stay, TInv, TypeOK, TempWhileAnalyzing, FromOneSource
    <2>2. CASE ExtractFails
      BY <1>0, <2>2 DEF ExtractFails, End, Stay, TInv, TypeOK, TempWhileAnalyzing, FromOneSource
    <2>3. CASE CloneRefused
      BY <1>0, <2>3 DEF CloneRefused, Stay, TInv, TypeOK, TempWhileAnalyzing, FromOneSource
    <2>4. CASE CloneTimesOut
      BY <1>0, <2>4 DEF CloneTimesOut, End, Stay, TInv, TypeOK, TempWhileAnalyzing, FromOneSource
    <2> QED
      BY <1>4, <2>1, <2>2, <2>3, <2>4 DEF FillStep
  <1>5. CASE ScaffoldCommand \/ DiffCommand \/ RecommendCommand
    <2>1. /\ at = "start" /\ at' = "idle" /\ temp' = None /\ left' = left
          /\ ended' = "start" /\ exit' \in {"0", "1"} /\ UNCHANGED <<disk, options, copy, listed, read, reports, commands>>
      BY <1>0, <1>5 DEF ScaffoldCommand, DiffCommand, RecommendCommand, Running, End, Stay, TempWhileAnalyzing
    <2> QED
      BY <1>0, <2>1 DEF TInv, TypeOK, TempWhileAnalyzing, FromOneSource
  <1>6. CASE Killed
    BY <1>0, <1>6 DEF Killed, End, TInv, TypeOK, TempWhileAnalyzing, FromOneSource
  <1>7. CASE UNCHANGED vars
    BY <1>0, <1>7 DEF vars, TInv, TypeOK, TempWhileAnalyzing, FromOneSource
  <1> QED
    BY <1>1, <1>2, <1>3, <1>4, <1>5, <1>6, <1>7 DEF Next, Step

LEMMA TypedHolds == Spec => []TInv
  BY InitTyped, StepTyped, PTL DEF Spec

\* Every variable has its type; in particular a report is absent, torn or was
\* made of two versions of one repository, or of one copy.
THEOREM TypeCorrect == Spec => []TypeOK
<1>1. TInv => TypeOK
  BY DEF TInv
<1> QED
  BY TypedHolds, <1>1, PTL
-----------------------------------------------------------------------------
(* What a report says is about its files. *)

HasLines(file) ==
    IsSequence(file.lines) /\ \A line \in ToSet(file.lines) : IsSequence(line.tables)

\* A list of what was found in files with these paths.
FoundIn(items, paths) == IsSequence(items) /\ \A item \in ToSet(items) : item.file \in paths

\* Lists with none and with one element.
LEMMA ShortLists ==
  /\ IsSequence(<<>>) /\ ToSet(<<>>) = {}
  /\ \A x : IsSequence(<<x>>) /\ ToSet(<<x>>) = {x}
  <1>1. ToSet(<<>>) = {} /\ <<>> \in Seq({})
    BY DEF ToSet
  <1>2. ASSUME NEW x PROVE ToSet(<<x>>) = {x} /\ <<x>> \in Seq({x})
    <2>1. DOMAIN <<x>> = 1 .. 1 /\ <<x>>[1] = x
      OBVIOUS
    <2>2. ToSet(<<x>>) = {x}
      BY <2>1 DEF ToSet
    <2> QED
      BY <2>2
  <1> QED
    BY <1>1, <1>2 DEF IsSequence

\* What is put together from what was found in the files was found in them.
LEMMA FoundApart ==
  ASSUME NEW a, NEW b, NEW paths, FoundIn(a, paths), FoundIn(b, paths)
  PROVE  FoundIn(a \o b, paths)
  <1>1. IsSequence(a \o b) /\ ToSet(a \o b) = ToSet(a) \cup ToSet(b)
    BY ListsJoined DEF FoundIn
  <1> QED
    BY <1>1 DEF FoundIn
LEMMA FoundInParts ==
  ASSUME NEW list, IsSequence(list), NEW parts, NEW paths,
         parts = [n \in DOMAIN list |-> parts[n]], \A n \in DOMAIN list : FoundIn(parts[n], paths)
  PROVE  FoundIn(FlattenSeq(parts), paths)
  <1> DEFINE N == Len(list)
  <1>1. N \in Nat /\ DOMAIN list = 1 .. N
    BY DEF IsSequence
  <1> HIDE DEF N
  <1>2. DOMAIN parts = 1 .. N /\ parts = [n \in 1 .. N |-> parts[n]]
    BY <1>1, Zenon
  <1>3. \A n \in 1 .. N : IsSequence(parts[n]) /\ \A item \in ToSet(parts[n]) : item.file \in paths
    BY <1>1 DEF FoundIn
  <1>4. /\ IsSequence(FlattenSeq(parts))
        /\ ToSet(FlattenSeq(parts)) = UNION {ToSet(parts[n]) : n \in 1 .. N}
    BY <1>1, <1>2, <1>3, ListsFlattened
  <1> QED
    BY <1>3, <1>4 DEF FoundIn
LEMMA FoundByScan ==
  ASSUME NEW file, HasLines(file), NEW paths, NEW found, \A n \in DOMAIN found : found[n].file \in paths
  PROVE  FoundIn(Scanned(file, found), paths)
  <1> DEFINE parts == [n \in DOMAIN file.lines |-> IF n \in DOMAIN found THEN <<found[n]>> ELSE <<>>]
  <1>1. ASSUME NEW n \in DOMAIN file.lines PROVE FoundIn(parts[n], paths)
    BY ShortLists DEF FoundIn
  <1>2. IsSequence(file.lines) /\ parts = [n \in DOMAIN file.lines |-> parts[n]]
    BY DEF HasLines
  <1>3. Scanned(file, found) = FlattenSeq(parts)
    BY DEF Scanned
  <1> HIDE DEF parts
  <1> QED
    BY <1>1, <1>2, <1>3, FoundInParts
\* Every extractor names the file that it reads.
LEMMA TestsOfFile ==
  ASSUME NEW file, HasLines(file), NEW paths, PathOf(file) \in paths
  PROVE  /\ FoundIn(JavaTests(file), paths) /\ FoundIn(PytestTests(file), paths)
         /\ FoundIn(PlaywrightTests(file), paths) /\ FoundIn(CypressTests(file), paths)
         /\ FoundIn(RobotTests(file), paths)
  <1>1. FoundIn(<<>>, paths)
    BY ShortLists DEF FoundIn
  <1>2. FoundIn(JavaTests(file), paths)
    <2>1. \A n \in DOMAIN JavaFound(file) : JavaFound(file)[n].file \in paths
      BY DEF JavaFound, Test
    <2> QED
      BY <1>1, <2>1, FoundByScan DEF JavaTests
  <1>3. FoundIn(PytestTests(file), paths)
    <2>1. \A n \in DOMAIN PytestFound(file) : PytestFound(file)[n].file \in paths
      BY DEF PytestFound, Test
    <2> QED
      BY <1>1, <2>1, FoundByScan DEF PytestTests
  <1>4. FoundIn(PlaywrightTests(file), paths)
    <2>1. \A n \in DOMAIN PlaywrightFound(file) : PlaywrightFound(file)[n].file \in paths
      BY DEF PlaywrightFound, Test
    <2> QED
      BY <1>1, <2>1, FoundByScan DEF PlaywrightTests
  <1>5. FoundIn(CypressTests(file), paths)
    <2>1. \A n \in DOMAIN CypressFound(file) : CypressFound(file)[n].file \in paths
      BY DEF CypressFound, Test
    <2> QED
      BY <1>1, <2>1, FoundByScan DEF CypressTests
  <1>6. FoundIn(RobotTests(file), paths)
    <2>1. \A n \in DOMAIN RobotFound(file) : RobotFound(file)[n].file \in paths
      BY DEF RobotFound, Test
    <2> QED
      BY <1>1, <2>1, FoundByScan DEF RobotTests
  <1> QED
    BY <1>2, <1>3, <1>4, <1>5, <1>6

LEMMA CapabilitiesOfFile ==
  ASSUME NEW file, HasLines(file), NEW paths, PathOf(file) \in paths
  PROVE  /\ FoundIn(ClientCapabilities(file), paths) /\ FoundIn(DatabaseCapabilities(file), paths)
         /\ FoundIn(ValidatorCapabilities(file), paths) /\ FoundIn(PageCapabilities(file), paths)
         /\ FoundIn(DataAndReportCapabilities(file), paths)
  <1>1. FoundIn(<<>>, paths)
    BY ShortLists DEF FoundIn
  <1>2. ASSUME NEW category, NEW name PROVE FoundIn(<<Capability(category, name, file)>>, paths)
    <2> DEFINE item == Capability(category, name, file)
    <2>1. item.file \in paths
      BY DEF Capability
    <2> HIDE DEF item
    <2>2. IsSequence(<<item>>) /\ ToSet(<<item>>) = {item}
      BY ShortLists
    <2>3. FoundIn(<<item>>, paths)
      BY <2>1, <2>2 DEF FoundIn
    <2> QED
      BY <2>3 DEF item
  <1>3. ASSUME NEW hints, NEW category
        PROVE  FoundIn(Scanned(file, ClassesLike(file, hints, category)), paths)
    <2>1. \A n \in DOMAIN ClassesLike(file, hints, category) :
             ClassesLike(file, hints, category)[n].file \in paths
      BY DEF ClassesLike, Capability
    <2> QED
      BY <2>1, FoundByScan
  <1>4. FoundIn(ClientCapabilities(file), paths)
    <2>1. \A n \in DOMAIN ClientCalls(file) : ClientCalls(file)[n].file \in paths
      BY DEF ClientCalls, Calling, Capability
    <2>2. \A n \in DOMAIN ClientKeywords(file) : ClientKeywords(file)[n].file \in paths
      BY DEF ClientKeywords, Calling, Capability
    <2>3. FoundIn(Scanned(file, ClientCalls(file)), paths) /\ FoundIn(Scanned(file, ClientKeywords(file)), paths)
      BY <2>1, <2>2, FoundByScan
    <2> QED
      BY <2>3, FoundApart DEF ClientCapabilities
  <1>5. FoundIn(DatabaseCapabilities(file), paths)
    <2>1. ASSUME NEW n \in DOMAIN file.lines PROVE FoundIn(TablesAt(file, n), paths)
      <3> DEFINE line == file.lines[n]
                 S == ToSet(TablesAt(file, n))
      <3>1. line \in ToSet(file.lines)
        BY Zenon DEF ToSet
      <3>2. Len(line.tables) \in Nat /\ DOMAIN line.tables = 1 .. Len(line.tables)
        BY <3>1 DEF HasLines, IsSequence
      <3>3. DOMAIN TablesAt(file, n) = 1 .. Len(line.tables)
        BY <3>2 DEF TablesAt
      <3>4. ASSUME NEW k \in DOMAIN TablesAt(file, n)
            PROVE  TablesAt(file, n)[k] \in S /\ TablesAt(file, n)[k].file \in paths
        <4>1. TablesAt(file, n)[k] \in S
          BY Zenon DEF ToSet
        <4>2. TablesAt(file, n)[k].file \in paths
          BY DEF TablesAt, Capability
        <4> QED
          BY <4>1, <4>2
      <3>5. TablesAt(file, n) = [k \in DOMAIN TablesAt(file, n) |-> TablesAt(file, n)[k]]
        BY DEF TablesAt
      <3> DEFINE L == Len(line.tables)
                 items == TablesAt(file, n)
      <3> HIDE DEF S, line, items, L
      <3>6. items \in [1 .. L -> S] /\ L \in Nat
        BY <3>2, <3>3, <3>4, <3>5, Zenon DEF items, L
      <3>7. items \in Seq(S)
        BY <3>6
      <3>8. \A item \in ToSet(items) : item.file \in paths
        BY <3>4 DEF items, ToSet
      <3> QED
        BY <3>7, <3>8 DEF FoundIn, IsSequence, S, items
    <2> DEFINE parts == [n \in DOMAIN file.lines |-> TablesAt(file, n)]
    <2>2. FoundIn(FlattenSeq(parts), paths)
      <3>1. IsSequence(file.lines) /\ parts = [n \in DOMAIN file.lines |-> parts[n]]
            /\ \A n \in DOMAIN file.lines : FoundIn(parts[n], paths)
        BY <2>1 DEF HasLines
      <3> HIDE DEF parts
      <3> QED
        BY <3>1, FoundInParts
    <2> QED
      BY <1>3, <2>2, FoundApart DEF DatabaseCapabilities
  <1>6. FoundIn(ValidatorCapabilities(file), paths)
    <2> DEFINE a == Scanned(file, ClassesLike(file, {"Validator"}, "VALIDATION"))
               b == IF Mentions(file, "datacomparator")
                    THEN <<Capability("VALIDATION", <<"DataComparator">>, file)>> ELSE <<>>
    <2>1. FoundIn(a, paths) /\ FoundIn(b, paths) /\ ValidatorCapabilities(file) = a \o b
      BY <1>1, <1>2, <1>3 DEF ValidatorCapabilities
    <2> HIDE DEF a, b
    <2> QED
      BY <2>1, FoundApart
  <1>7. FoundIn(PageCapabilities(file), paths)
    BY <1>1, <1>2 DEF PageCapabilities
  <1>8. FoundIn(DataAndReportCapabilities(file), paths)
    <2>1. ASSUME NEW a, NEW b, FoundIn(a, paths), FoundIn(b, paths) PROVE FoundIn(a \o b, paths)
      BY <2>1, FoundApart
    <2> QED
      BY <1>1, <1>2, <2>1, Zenon DEF DataAndReportCapabilities
  <1> QED
    BY <1>4, <1>5, <1>6, <1>7, <1>8
-----------------------------------------------------------------------------
(* The files that are collected, and the ones that are read. *)

OnePathEach(files) == \A m, n \in DOMAIN files : PathOf(files[m]) = PathOf(files[n]) => m = n

\* Collecting takes files of the repository, each path once.
LEMMA Collected ==
  ASSUME NEW root, NEW repository, IsRepository(repository)
  PROVE  LET files == CollectFiles(root, repository)
         IN  /\ IsSequence(files) /\ ToSet(files) \subseteq ToSet(repository)
             /\ Cardinality({PathOf(f) : f \in ToSet(files)}) = Len(files)
             /\ OnePathEach(files)
  <1> DEFINE S == ToSet(repository)
             wanted == {file \in S : ~file.link /\ ToSet(root \o PathOf(file)) \cap IgnoredDirs = {}}
             files == Among(repository, wanted)
             paths == {PathOf(f) : f \in ToSet(files)}
  <1>1. CollectFiles(root, repository) = files
    BY DEF CollectFiles
  <1>2. repository \in Seq(S) /\ \A m, n \in DOMAIN repository : PathOf(repository[m]) = PathOf(repository[n]) => m = n
    BY DEF IsRepository, IsSequence
  <1>3. \A m, n \in DOMAIN repository : repository[m] = repository[n] => m = n
    BY <1>2
  <1>4. \A f \in S : \E n \in DOMAIN repository : f = repository[n]
    BY DEF ToSet
  <1>5. \A f, g \in S : PathOf(f) = PathOf(g) => f = g
    BY <1>2, <1>4
  <1> HIDE DEF S, wanted
  <1>6. files \in Seq(S) /\ ToSet(files) = ToSet(repository) \cap wanted
    BY <1>2, AmongElements
  <1>7. \A i, j \in DOMAIN files : files[i] = files[j] => i = j
    BY <1>2, <1>3, AmongApart
  <1> HIDE DEF files
  <1> DEFINE N == Len(files)
             path == [i \in 1 .. N |-> PathOf(files[i])]
  <1>8. N \in Nat /\ DOMAIN files = 1 .. N /\ \A i \in 1 .. N : files[i] \in S
    BY <1>6
  <1>9. paths = {PathOf(files[i]) : i \in 1 .. N}
    BY <1>8 DEF ToSet
  <1>10. Cardinality(paths) = N
    <2> HIDE DEF N, paths
    <2>1. path \in [1 .. N -> paths] /\ \A p \in paths : \E i \in 1 .. N : path[i] = p
      BY <1>9
    <2>2. \A i, j \in 1 .. N : path[i] = path[j] => i = j
      BY <1>5, <1>7, <1>8
    <2> HIDE DEF path
    <2>3. path \in Bijection(1 .. N, paths)
      BY <2>1, <2>2, Fun_IsBij
    <2>4. ExistsBijection(1 .. N, paths)
      BY <2>3 DEF ExistsBijection
    <2> QED
      BY <1>8, <2>4, FS_CountingElements
  <1>11. IsSequence(files)
    <2>1. files \in [1 .. N -> ToSet(files)]
      <3>1. files = [i \in 1 .. N |-> files[i]]
        BY <1>6
      <3>2. \A i \in 1 .. N : files[i] \in ToSet(files)
        BY <1>8 DEF ToSet
      <3> HIDE DEF N
      <3> QED
        BY <3>1, <3>2, Zenon
    <2> DEFINE T == ToSet(files)
    <2> HIDE DEF T, N
    <2>2. files \in Seq(T)
      BY <1>8, <2>1 DEF T
    <2> QED
      BY <2>2 DEF IsSequence, T
  <1>12. Cardinality(paths) = Len(files) /\ ToSet(files) \subseteq ToSet(repository)
    BY <1>6, <1>10
  <1>13. OnePathEach(files)
    BY <1>5, <1>7, <1>8 DEF OnePathEach
  <1> QED
    BY <1>1, <1>11, <1>12, <1>13 DEF paths

\* What is read: files of a repository as they are now, each with a path that
\* was collected.
WasRead(contents, paths) ==
    /\ IsSequence(contents) /\ OnePathEach(contents)
    /\ \A file \in ToSet(contents) : HasLines(file) /\ PathOf(file) \in paths
LEMMA Read ==
  ASSUME NEW files, IsSequence(files), OnePathEach(files), NEW repository, IsRepository(repository)
  PROVE  /\ WasRead(ReadTextFiles(files, repository), {PathOf(f) : f \in ToSet(files)})
         /\ ToSet(ReadTextFiles(files, repository)) \subseteq ToSet(repository)
  <1> DEFINE Now(path) == SelectInSeq(repository, LAMBDA file : PathOf(file) = path)
             readable == Among(files, {file \in ToSet(files) :
                                          file.suffix \in TextExtensions /\ Now(PathOf(file)) # 0})
             contents == [n \in DOMAIN readable |-> repository[Now(PathOf(readable[n]))]]
             paths == {PathOf(f) : f \in ToSet(files)}
             R == ToSet(repository)
  <1>1. ReadTextFiles(files, repository) = contents
    BY DEF ReadTextFiles
  <1>2. ASSUME NEW path, Now(path) # 0
        PROVE  Now(path) \in DOMAIN repository /\ PathOf(repository[Now(path)]) = path
    <2> DEFINE I == {i \in 1 .. Len(repository) : PathOf(repository[i]) = path}
    <2>1. Now(path) = IF I # {} THEN Min(I) ELSE 0
      BY DEF SelectInSeq
    <2>2. I \in SUBSET Nat
      OBVIOUS
    <2> HIDE DEF I
    <2>3. Now(path) \in I
      BY <1>2, <2>1, <2>2, LeastNumber
    <2>4. DOMAIN repository = 1 .. Len(repository)
      BY DEF IsRepository, IsSequence
    <2> QED
      BY <2>3, <2>4 DEF I
  <1> HIDE DEF Now
  <1>3. /\ readable \in Seq(ToSet(files))
        /\ \A n \in DOMAIN readable : readable[n] \in ToSet(files) /\ Now(PathOf(readable[n])) # 0
    <2> DEFINE S == ToSet(files)
               set == {file \in S : file.suffix \in TextExtensions /\ Now(PathOf(file)) # 0}
    <2>1. files \in Seq(S)
      BY DEF IsSequence
    <2> HIDE DEF S, set
    <2>2. Among(files, set) \in Seq(S) /\ ToSet(Among(files, set)) = ToSet(files) \cap set
      BY <2>1, AmongElements
    <2>3. \A n \in DOMAIN Among(files, set) : Among(files, set)[n] \in ToSet(Among(files, set))
      BY DEF ToSet
    <2>4. \A n \in DOMAIN Among(files, set) : Among(files, set)[n] \in set
      BY <2>2, <2>3
    <2> QED
      BY <2>2, <2>4 DEF set, S
  <1>30. \A m, n \in DOMAIN readable : PathOf(readable[m]) = PathOf(readable[n]) => m = n
    <2> DEFINE S == ToSet(files)
               set == {file \in S : file.suffix \in TextExtensions /\ Now(PathOf(file)) # 0}
    <2>1. files \in Seq(S)
      BY DEF IsSequence
    <2>2. \A m, n \in DOMAIN files : files[m] = files[n] => m = n
      BY DEF OnePathEach
    <2>3. \A f, g \in S : PathOf(f) = PathOf(g) => f = g
      BY DEF OnePathEach, ToSet
    <2>4. \A n \in DOMAIN readable : readable[n] \in S
      BY <1>3
    <2>5. \A m, n \in DOMAIN readable : readable[m] = readable[n] => m = n
      <3> HIDE DEF S, set
      <3>1. \A m, n \in DOMAIN Among(files, set) : Among(files, set)[m] = Among(files, set)[n] => m = n
        BY <2>1, <2>2, AmongApart
      <3> QED
        BY <3>1 DEF set, S
    <2> HIDE DEF readable, S
    <2> QED
      BY <2>3, <2>4, <2>5
  <1> HIDE DEF readable
  <1>31. OnePathEach(contents)
    <2>1. ASSUME NEW n \in DOMAIN readable PROVE PathOf(contents[n]) = PathOf(readable[n])
      BY <1>2, <1>3
    <2>2. DOMAIN contents = DOMAIN readable
      OBVIOUS
    <2> HIDE DEF contents
    <2> QED
      BY <1>30, <2>1, <2>2 DEF OnePathEach
  <1>32. DOMAIN contents = DOMAIN readable
    OBVIOUS
  <1>4. ASSUME NEW n \in DOMAIN readable
        PROVE  contents[n] \in R /\ PathOf(contents[n]) \in paths
    <2>1. Now(PathOf(readable[n])) \in DOMAIN repository
          /\ PathOf(repository[Now(PathOf(readable[n]))]) = PathOf(readable[n])
      BY <1>2, <1>3
    <2>2. repository[Now(PathOf(readable[n]))] \in R
      BY <2>1 DEF ToSet
    <2>3. PathOf(readable[n]) \in paths
      BY <1>3
    <2> QED
      BY <2>1, <2>2, <2>3
  <1>5. \A file \in R : HasLines(file)
    BY DEF IsRepository, HasLines
  <1> DEFINE L == Len(readable)
  <1>6. L \in Nat /\ DOMAIN readable = 1 .. L
    BY <1>3
  <1>7. contents = [n \in 1 .. L |-> contents[n]] /\ \A n \in 1 .. L : contents[n] \in ToSet(contents)
    <2>1. DOMAIN contents = 1 .. L
      BY <1>6
    <2>2. contents = [n \in DOMAIN contents |-> contents[n]]
      OBVIOUS
    <2> HIDE DEF contents, L
    <2> QED
      BY <2>1, <2>2 DEF ToSet
  <1>8. \A file \in ToSet(contents) : \E n \in DOMAIN readable : file = contents[n]
    BY DEF ToSet
  <1> HIDE DEF contents, L, R, paths
  <1>9. IsSequence(contents)
    <2> DEFINE T == ToSet(contents)
    <2>1. contents \in [1 .. L -> T]
      BY <1>7, Zenon
    <2> HIDE DEF T
    <2>2. contents \in Seq(T)
      BY <1>6, <2>1
    <2> QED
      BY <2>2 DEF IsSequence, T
  <1>10. WasRead(contents, paths)
    BY <1>4, <1>5, <1>8, <1>9, <1>31, <1>32 DEF WasRead
  <1>11. ToSet(contents) \subseteq R
    BY <1>4, <1>8, <1>32
  <1> QED
    BY <1>1, <1>10, <1>11 DEF paths, R

\* So the inventory is of files that were collected.
LEMMA TestsOfFiles ==
  ASSUME NEW contents, NEW paths, WasRead(contents, paths)
  PROVE  FoundIn(ExtractTests(contents), paths)
  <1> DEFINE java == [n \in DOMAIN contents |-> JavaTests(contents[n])]
             pytest == [n \in DOMAIN contents |-> PytestTests(contents[n])]
             playwright == [n \in DOMAIN contents |-> PlaywrightTests(contents[n])]
             cypress == [n \in DOMAIN contents |-> CypressTests(contents[n])]
             robot == [n \in DOMAIN contents |-> RobotTests(contents[n])]
  <1>1. ASSUME NEW n \in DOMAIN contents
        PROVE  HasLines(contents[n]) /\ PathOf(contents[n]) \in paths
    BY DEF WasRead, ToSet
  <1>2. \A n \in DOMAIN contents :
           /\ FoundIn(java[n], paths) /\ FoundIn(pytest[n], paths) /\ FoundIn(playwright[n], paths)
           /\ FoundIn(cypress[n], paths) /\ FoundIn(robot[n], paths)
    BY <1>1, TestsOfFile
  <1>3. ExtractTests(contents) = FlattenSeq(java) \o FlattenSeq(pytest) \o FlattenSeq(playwright)
                                 \o FlattenSeq(cypress) \o FlattenSeq(robot)
    BY DEF ExtractTests
  <1>4. /\ java = [n \in DOMAIN contents |-> java[n]] /\ pytest = [n \in DOMAIN contents |-> pytest[n]]
        /\ playwright = [n \in DOMAIN contents |-> playwright[n]]
        /\ cypress = [n \in DOMAIN contents |-> cypress[n]] /\ robot = [n \in DOMAIN contents |-> robot[n]]
    OBVIOUS
  <1>5. IsSequence(contents)
    BY DEF WasRead
  <1> HIDE DEF java, pytest, playwright, cypress, robot
  <1>6. /\ FoundIn(FlattenSeq(java), paths) /\ FoundIn(FlattenSeq(pytest), paths)
        /\ FoundIn(FlattenSeq(playwright), paths) /\ FoundIn(FlattenSeq(cypress), paths)
        /\ FoundIn(FlattenSeq(robot), paths)
    <2>1. FoundIn(FlattenSeq(java), paths)
      BY <1>2, <1>4, <1>5, FoundInParts
    <2>2. FoundIn(FlattenSeq(pytest), paths)
      BY <1>2, <1>4, <1>5, FoundInParts
    <2>3. FoundIn(FlattenSeq(playwright), paths)
      BY <1>2, <1>4, <1>5, FoundInParts
    <2>4. FoundIn(FlattenSeq(cypress), paths)
      BY <1>2, <1>4, <1>5, FoundInParts
    <2>5. FoundIn(FlattenSeq(robot), paths)
      BY <1>2, <1>4, <1>5, FoundInParts
    <2> QED
      BY <2>1, <2>2, <2>3, <2>4, <2>5
  <1>7. FoundIn(FlattenSeq(java) \o FlattenSeq(pytest) \o FlattenSeq(playwright), paths)
    BY <1>6, FoundApart
  <1>8. FoundIn(FlattenSeq(java) \o FlattenSeq(pytest) \o FlattenSeq(playwright)
                \o FlattenSeq(cypress), paths)
    BY <1>6, <1>7, FoundApart
  <1>9. FoundIn(FlattenSeq(java) \o FlattenSeq(pytest) \o FlattenSeq(playwright)
                \o FlattenSeq(cypress) \o FlattenSeq(robot), paths)
    BY <1>6, <1>8, FoundApart
  <1> QED
    BY <1>3, <1>9

\* A mechanism of authentication is not in a file, every other capability is.
Placed(items, paths) ==
    IsSequence(items) /\ \A item \in ToSet(items) : item.category # "AUTHENTICATION" => item.file \in paths
LEMMA PlacedApart ==
  ASSUME NEW a, NEW b, NEW paths, Placed(a, paths), Placed(b, paths)
  PROVE  Placed(a \o b, paths)
  <1>1. IsSequence(a \o b) /\ ToSet(a \o b) = ToSet(a) \cup ToSet(b)
    BY ListsJoined DEF Placed
  <1> QED
    BY <1>1 DEF Placed
LEMMA MechanismsPlaced ==
  ASSUME NEW contents, NEW paths, NEW nowhere
  PROVE  Placed([n \in DOMAIN AuthenticationMechanisms(contents) |->
                    Capability("AUTHENTICATION", <<AuthenticationMechanisms(contents)[n]>>, nowhere)], paths)
  <1> DEFINE S == ToSet(AuthMechanisms)
             set == {m \in S : \E f \in ToSet(contents) : MentionsAny(f, m[2])}
             found == Among(AuthMechanisms, set)
             mechanisms == AuthenticationMechanisms(contents)
             auth == [n \in DOMAIN mechanisms |-> Capability("AUTHENTICATION", <<mechanisms[n]>>, nowhere)]
             N == Len(found)
  <1>1. DOMAIN mechanisms = DOMAIN found
    BY DEF AuthenticationMechanisms
  <1>2. AuthMechanisms \in Seq(S)
    <2>1. DOMAIN AuthMechanisms = 1 .. 6 /\ AuthMechanisms = [n \in 1 .. 6 |-> AuthMechanisms[n]]
      BY DEF AuthMechanisms
    <2>2. \A n \in 1 .. 6 : AuthMechanisms[n] \in S
      BY <2>1, Zenon DEF ToSet
    <2> HIDE DEF S
    <2>3. AuthMechanisms \in [1 .. 6 -> S]
      BY <2>1, <2>2, Zenon
    <2>4. \A m \in Nat : \A f \in [1 .. m -> S] : f \in Seq(S)
      OBVIOUS
    <2> QED
      BY <2>3, <2>4
  <1>3. N \in Nat /\ DOMAIN found = 1 .. N
    <2> HIDE DEF S, set
    <2>1. found \in Seq(S)
      BY <1>2, AmongElements
    <2> QED
      BY <2>1
  <1>4. \A n \in DOMAIN auth : auth[n].category = "AUTHENTICATION" /\ auth[n] \in ToSet(auth)
    BY DEF Capability, ToSet
  <1>5. DOMAIN auth = 1 .. N /\ auth = [n \in DOMAIN auth |-> auth[n]]
    BY <1>1, <1>3
  <1> DEFINE T == ToSet(auth)
  <1>6. \A item \in T : item.category = "AUTHENTICATION"
    BY <1>4 DEF ToSet
  <1> HIDE DEF mechanisms, auth, N, T, found
  <1>7. auth \in [1 .. N -> T]
    <2>1. \A n \in 1 .. N : auth[n] \in T
      BY <1>4, <1>5 DEF T
    <2> QED
      BY <1>5, <2>1, Zenon
  <1>8. auth \in Seq(T)
    BY <1>3, <1>7
  <1>9. Placed(auth, paths)
    BY <1>6, <1>8 DEF Placed, IsSequence, T
  <1> QED
    BY <1>9 DEF auth, mechanisms
LEMMA CatalogOfFiles ==
  ASSUME NEW contents, NEW paths, WasRead(contents, paths)
  PROVE  Placed(BuildCatalog(contents, AuthenticationMechanisms(contents)), paths)
  <1> DEFINE client == [n \in DOMAIN contents |-> ClientCapabilities(contents[n])]
             database == [n \in DOMAIN contents |-> DatabaseCapabilities(contents[n])]
             validator == [n \in DOMAIN contents |-> ValidatorCapabilities(contents[n])]
             page == [n \in DOMAIN contents |-> PageCapabilities(contents[n])]
             data == [n \in DOMAIN contents |-> DataAndReportCapabilities(contents[n])]
             mechanisms == AuthenticationMechanisms(contents)
             auth == [n \in DOMAIN mechanisms |->
                         Capability("AUTHENTICATION", <<mechanisms[n]>>, [dir |-> <<>>, name |-> None])]
  <1>1. ASSUME NEW n \in DOMAIN contents
        PROVE  HasLines(contents[n]) /\ PathOf(contents[n]) \in paths
    BY DEF WasRead, ToSet
  <1>2. \A n \in DOMAIN contents :
           /\ FoundIn(client[n], paths) /\ FoundIn(database[n], paths) /\ FoundIn(validator[n], paths)
           /\ FoundIn(page[n], paths) /\ FoundIn(data[n], paths)
    BY <1>1, CapabilitiesOfFile
  <1>3. BuildCatalog(contents, mechanisms)
          = FlattenSeq(client) \o FlattenSeq(database) \o FlattenSeq(validator)
            \o FlattenSeq(page) \o auth \o FlattenSeq(data)
    BY DEF BuildCatalog
  <1>4. /\ client = [n \in DOMAIN contents |-> client[n]] /\ database = [n \in DOMAIN contents |-> database[n]]
        /\ validator = [n \in DOMAIN contents |-> validator[n]]
        /\ page = [n \in DOMAIN contents |-> page[n]] /\ data = [n \in DOMAIN contents |-> data[n]]
    OBVIOUS
  <1>5. IsSequence(contents)
    BY DEF WasRead
  <1>6. Placed(auth, paths)
    BY MechanismsPlaced
  <1> HIDE DEF client, database, validator, page, data, auth
  <1>7. \A items : FoundIn(items, paths) => Placed(items, paths)
    BY DEF FoundIn, Placed
  <1>8. /\ Placed(FlattenSeq(client), paths) /\ Placed(FlattenSeq(database), paths)
        /\ Placed(FlattenSeq(validator), paths) /\ Placed(FlattenSeq(page), paths)
        /\ Placed(FlattenSeq(data), paths)
    <2>1. FoundIn(FlattenSeq(client), paths)
      BY <1>2, <1>4, <1>5, FoundInParts
    <2>2. FoundIn(FlattenSeq(database), paths)
      BY <1>2, <1>4, <1>5, FoundInParts
    <2>3. FoundIn(FlattenSeq(validator), paths)
      BY <1>2, <1>4, <1>5, FoundInParts
    <2>4. FoundIn(FlattenSeq(page), paths)
      BY <1>2, <1>4, <1>5, FoundInParts
    <2>5. FoundIn(FlattenSeq(data), paths)
      BY <1>2, <1>4, <1>5, FoundInParts
    <2> QED
      BY <1>7, <2>1, <2>2, <2>3, <2>4, <2>5
  <1>9. Placed(FlattenSeq(client) \o FlattenSeq(database) \o FlattenSeq(validator), paths)
    BY <1>8, PlacedApart
  <1>10. Placed(FlattenSeq(client) \o FlattenSeq(database) \o FlattenSeq(validator)
                \o FlattenSeq(page) \o auth, paths)
    BY <1>6, <1>8, <1>9, PlacedApart
  <1>11. Placed(FlattenSeq(client) \o FlattenSeq(database) \o FlattenSeq(validator)
                \o FlattenSeq(page) \o auth \o FlattenSeq(data), paths)
    BY <1>8, <1>10, PlacedApart
  <1> QED
    BY <1>3, <1>11

\* A report that there may be was made of two versions of the repository.
LEMMA ReportsOfVersions ==
  ASSUME NEW r \in PossibleReports
  PROVE  IsRepository(Versions[r.files]) /\ IsRepository(Versions[r.contents])
         /\ r.contents \in DOMAIN Versions /\ IsReport(r)
  <1> DEFINE OfCheckout(history) == {ReportOf(Checkout, f, c) : f, c \in history}
             OfCopies == {ReportOf(TempDir, u, u) : u \in DOMAIN Versions}
  <1>0. PossibleReports = (UNION {OfCheckout(history) : history \in Histories}) \cup OfCopies
    BY DEF PossibleReports
  <1>1. CASE r \in OfCopies
    <2>1. PICK u \in DOMAIN Versions : r = ReportOf(TempDir, u, u)
      BY <1>1
    <2> QED
      BY <2>1, VersionsAssumption DEF ReportOf, IsReport
  <1>2. ASSUME NEW history \in Histories, r \in OfCheckout(history)
        PROVE  IsRepository(Versions[r.files]) /\ IsRepository(Versions[r.contents])
               /\ r.contents \in DOMAIN Versions /\ IsReport(r)
    <2>1. PICK f \in history, c \in history : r = ReportOf(Checkout, f, c)
      BY <1>2
    <2>2. f \in DOMAIN Versions /\ c \in DOMAIN Versions
      BY HistoriesAssumption
    <2> QED
      BY <2>1, <2>2, VersionsAssumption DEF ReportOf, IsReport
  <1> HIDE DEF OfCheckout, OfCopies
  <1> QED
    BY <1>0, <1>1, <1>2

\* Whatever two versions it was made of, a report is of the files it counts.
LEMMA OfTheirFilesHolds ==
  ASSUME NEW r \in PossibleReports
  PROVE  r \in OfTheirFiles
  <1> DEFINE files == CollectFiles(r.root, Versions[r.files])
             contents == ReadTextFiles(files, Versions[r.contents])
             counted == {PathOf(f) : f \in ToSet(files)}
             analysis == AnalysisOf[r]
  <1>1. analysis = Analysis(files, contents)
    BY AnalysisAssumption DEF Analyses
  <1>2. IsSequence(files) /\ OnePathEach(files) /\ Cardinality(counted) = Len(files)
    BY ReportsOfVersions, Collected
  <1>3. WasRead(contents, counted)
    BY <1>2, ReportsOfVersions, Read
  <1> HIDE DEF analysis, files, contents, counted
  <1>4. /\ analysis.structure.files = Len(files)
        /\ analysis.tests = ExtractTests(contents)
        /\ analysis.catalog = BuildCatalog(contents, AuthenticationMechanisms(contents))
        /\ analysis.findings = ScanFindings(contents)
    <2>1. analysis.structure = Structure(files) /\ analysis.findings = ScanFindings(contents)
      BY <1>1 DEF Analysis
    <2>2. analysis.tests = ExtractTests(contents)
      BY <1>1 DEF Analysis
    <2>3. analysis.catalog = BuildCatalog(contents, AuthenticationMechanisms(contents))
      BY <1>1 DEF Analysis, BuildInventory
    <2>4. Structure(files).files = Len(files)
      BY DEF Structure
    <2> QED
      BY <2>1, <2>2, <2>3, <2>4
  <1>5. \A t \in ToSet(analysis.tests) : t.file \in counted
    BY <1>3, <1>4, TestsOfFiles DEF FoundIn
  <1>6. \A c \in ToSet(analysis.catalog) : c.category # "AUTHENTICATION" => c.file \in counted
    BY <1>3, <1>4, CatalogOfFiles DEF Placed
  <1>7. \A f \in analysis.findings : f.file \in counted
    <2>1. ASSUME NEW l \in LinesOf(contents) PROVE PathOf(contents[l[1]]) \in counted
      <3>1. PICK k \in DOMAIN contents : l \in {k} \X DOMAIN contents[k].lines
        BY DEF LinesOf
      <3>2. contents[l[1]] \in ToSet(contents)
        BY <3>1 DEF ToSet
      <3> QED
        BY <1>3, <3>2 DEF WasRead
    <2>2. \A f \in ScanFindings(contents) : \E l \in LinesOf(contents) : f.file = PathOf(contents[l[1]])
      <3> DEFINE finding(l) == [file |-> PathOf(contents[l[1]]), line |-> l[2],
                                category |-> FindingOf(contents[l[1]], l[2])]
      <3>1. \A f \in ScanFindings(contents) : \E l \in LinesOf(contents) : f = finding(l)
        BY Zenon DEF ScanFindings
      <3>2. \A l : finding(l).file = PathOf(contents[l[1]])
        OBVIOUS
      <3> HIDE DEF finding
      <3> QED
        BY <3>1, <3>2
    <2> QED
      BY <1>4, <2>1, <2>2
  <1>8. NamesOnly(analysis, counted)
    BY <1>2, <1>4, <1>5, <1>6, <1>7 DEF NamesOnly
  <1> QED
    BY <1>8 DEF OfTheirFiles, analysis, counted, files

\* The tests, findings and capabilities of a report, apart from the mechanisms
\* of authentication, name files that the report counts, even when the customer
\* adds and removes files between the listing and the reading of them.
THEOREM ReportIsOfItsFilesHolds == Spec => []ReportIsOfItsFiles
<1>1. TInv => ReportIsOfItsFiles
  <2> SUFFICES ASSUME TInv, NEW r \in Saved PROVE r \in OfTheirFiles
    BY DEF ReportIsOfItsFiles
  <2>1. r \in PossibleReports \cup {Absent, Torn} /\ IsReport(r)
    BY DEF TInv, TypeOK, Saved
  <2>2. r \in PossibleReports
    BY <2>1 DEF IsReport, Absent, Torn
  <2> QED
    BY <2>2, OfTheirFilesHolds
<1> QED
  BY TypedHolds, <1>1, PTL
-----------------------------------------------------------------------------
(* How many of the elements of a list are in a set. *)

Places(list, set) == {k \in DOMAIN list : list[k] \in set}

LEMMA PlacesAreFinite ==
  ASSUME NEW list, IsSequence(list), NEW set
  PROVE  IsFiniteSet(Places(list, set)) /\ Cardinality(Places(list, set)) \in Nat
  <1>1. DOMAIN list = 1 .. Len(list) /\ Len(list) \in Nat
    BY DEF IsSequence
  <1>2. IsFiniteSet(1 .. Len(list))
    BY <1>1, FS_Interval
  <1>3. Places(list, set) \in SUBSET (1 .. Len(list))
    BY <1>1 DEF Places
  <1>4. IsFiniteSet(Places(list, set))
    BY <1>2, <1>3, FS_Subset
  <1> QED
    BY <1>4, FS_CardinalityType

\* The places of two lists joined.
LEMMA PlacesJoined ==
  ASSUME NEW a, NEW b, IsSequence(a), IsSequence(b), NEW set
  PROVE  Cardinality(Places(a \o b, set)) = Cardinality(Places(a, set)) + Cardinality(Places(b, set))
  <1> DEFINE A == Places(a, set)
             B == Places(b, set)
             L == Len(a)
             C == {k + L : k \in B}
             f == [k \in B |-> k + L]
  <1>1. /\ L \in Nat /\ Len(b) \in Nat /\ DOMAIN a = 1 .. L /\ DOMAIN b = 1 .. Len(b)
        /\ DOMAIN (a \o b) = 1 .. L + Len(b)
        /\ \A k \in 1 .. L : (a \o b)[k] = a[k]
        /\ \A k \in 1 .. Len(b) : (a \o b)[k + L] = b[k]
    <2> DEFINE S == ToSet(a) \cup ToSet(b)
    <2>1. a \in Seq(ToSet(a)) /\ b \in Seq(ToSet(b))
      BY DEF IsSequence
    <2> QED
      BY <2>1
  <1>2. A \subseteq 1 .. L /\ B \subseteq 1 .. Len(b)
    BY <1>1 DEF Places
  <1>3. Places(a \o b, set) = A \cup C
    <2>1. ASSUME NEW k \in 1 .. L + Len(b), k > L PROVE k - L \in 1 .. Len(b) /\ k = (k - L) + L
      BY <1>1, <2>1
    <2>2. ASSUME NEW k \in DOMAIN (a \o b), (a \o b)[k] \in set PROVE k \in A \cup C
      <3>1. CASE k <= L
        <4>1. k \in 1 .. L
          BY <1>1, <3>1
        <4> QED
          BY <1>1, <2>2, <4>1 DEF Places
      <3>2. CASE k > L
        <4>1. k - L \in 1 .. Len(b) /\ k = (k - L) + L
          BY <1>1, <2>1, <3>2
        <4>2. k - L \in B
          BY <1>1, <2>2, <4>1 DEF Places
        <4> QED
          BY <4>1, <4>2
      <3> QED
        BY <1>1, <3>1, <3>2
    <2>3. A \subseteq Places(a \o b, set)
      BY <1>1 DEF Places
    <2>4. C \subseteq Places(a \o b, set)
      <3>1. ASSUME NEW k \in B PROVE k + L \in Places(a \o b, set)
        BY <1>1 DEF Places
      <3> QED
        BY <3>1
    <2> HIDE DEF A, C
    <2> QED
      BY <2>2, <2>3, <2>4 DEF Places
  <1>4. IsFiniteSet(A) /\ IsFiniteSet(B) /\ Cardinality(A) \in Nat /\ Cardinality(B) \in Nat
    BY PlacesAreFinite
  <1>5. IsFiniteSet(C) /\ Cardinality(C) = Cardinality(B)
    <2>1. f \in [B -> C] /\ \A c \in C : \E k \in B : f[k] = c
      OBVIOUS
    <2>2. \A i, j \in B : f[i] = f[j] => i = j
      BY <1>1, <1>2
    <2> HIDE DEF f, C, B
    <2>3. f \in Bijection(B, C)
      BY <2>1, <2>2, Fun_IsBij
    <2>4. ExistsBijection(B, C)
      BY <2>3 DEF ExistsBijection
    <2> QED
      BY <1>4, <2>4, FS_Bijection
  <1>6. A \cap C = {}
    BY <1>1, <1>2
  <1> HIDE DEF A, B, C
  <1>7. Cardinality(A \cup C) = Cardinality(A) + Cardinality(C) - Cardinality(A \cap C)
    BY <1>4, <1>5, FS_Union
  <1>8. Cardinality(A \cap C) = 0
    BY <1>6, FS_EmptySet
  <1>9. Cardinality(Places(a \o b, set)) = Cardinality(A) + Cardinality(B)
    BY <1>3, <1>4, <1>5, <1>7, <1>8
  <1> QED
    BY <1>9 DEF A, B

\* The places of lists put together, as many as there are marks for each list.
LEMMA PlacesFlattened ==
  ASSUME NEW N \in Nat, NEW parts, DOMAIN parts = 1 .. N, parts = [n \in 1 .. N |-> parts[n]],
         \A n \in 1 .. N : IsSequence(parts[n]), NEW set, NEW marks,
         \A n \in 1 .. N : IsFiniteSet(marks[n]) /\ Cardinality(marks[n]) = Cardinality(Places(parts[n], set))
  PROVE  Cardinality(Places(FlattenSeq(parts), set)) = Cardinality(UNION {{n} \X marks[n] : n \in 1 .. N})
  <1> DEFINE S == UNION {ToSet(parts[n]) : n \in 1 .. N}
             upTo(n) == UNION {{i} \X marks[i] : i \in 1 .. n}
  <1>1. ASSUME NEW n \in 1 .. N PROVE parts[n] \in Seq(S)
    <2> DEFINE A == ToSet(parts[n])
    <2>1. A \subseteq S /\ parts[n] \in Seq(A)
      BY DEF IsSequence
    <2> HIDE DEF A, S
    <2> QED
      BY <2>1, SeqMonotonic
  <1> HIDE DEF S
  <1>2. parts \in Seq(Seq(S)) /\ Len(parts) = N
    <2>1. parts \in [1 .. N -> Seq(S)]
      BY <1>1, Zenon
    <2> QED
      BY <2>1
  <1>3. PICK f : Joins(f, S, parts)
    BY <1>2, FlattenJoins
  <1>4. /\ f \in [0 .. N -> Seq(S)] /\ f[0] = <<>> /\ FlattenSeq(parts) = f[N]
        /\ \A n \in 1 .. N : f[n] = f[n - 1] \o parts[n]
    BY <1>2, <1>3, Zenon DEF Joins
  <1>5. \A n \in 0 .. N : IsSequence(f[n])
    <2>1. ASSUME NEW s \in Seq(S) PROVE IsSequence(s)
      <3> DEFINE T == ToSet(s)
                 L == Len(s)
      <3>1. L \in Nat /\ DOMAIN s = 1 .. L /\ s = [n \in 1 .. L |-> s[n]]
        OBVIOUS
      <3>2. \A n \in 1 .. L : s[n] \in T
        BY <3>1, Zenon DEF ToSet
      <3> HIDE DEF T, L
      <3>3. s \in [1 .. L -> T]
        BY <3>1, <3>2, Zenon
      <3>4. s \in Seq(T)
        BY <3>1, <3>3
      <3> QED
        BY <3>4 DEF IsSequence, T
    <2> QED
      BY <1>4, <2>1
  <1> DEFINE T == {n \in 0 .. N : /\ IsFiniteSet(upTo(n))
                                  /\ Cardinality(upTo(n)) = Cardinality(Places(f[n], set))}
  <1>6. 0 \in T
    <2>1. upTo(0) = {} /\ 0 \in 0 .. N
      OBVIOUS
    <2>2. Places(f[0], set) = {}
      BY <1>4 DEF Places
    <2> HIDE DEF upTo
    <2> QED
      BY <2>1, <2>2, FS_EmptySet
  <1>7. ASSUME NEW n \in 1 .. N, n - 1 \in T PROVE n \in T
    <2> DEFINE here == {n} \X marks[n]
               before == upTo(n - 1)
    <2>1. n \in 0 .. N /\ n - 1 \in 0 .. N /\ \A i \in 1 .. n - 1 : i # n
      OBVIOUS
    <2>2. upTo(n) = before \cup here
      <3>1. \A i : i \in 1 .. n <=> i \in 1 .. n - 1 \/ i = n
        OBVIOUS
      <3> QED
        BY <3>1
    <2>3. before \cap here = {}
      BY <2>1
    <2>4. IsFiniteSet(here) /\ Cardinality(here) = Cardinality(marks[n]) /\ Cardinality(here) \in Nat
      <3>1. IsFiniteSet({n}) /\ Cardinality({n}) = 1
        BY FS_Singleton
      <3>2. IsFiniteSet(marks[n]) /\ Cardinality(marks[n]) \in Nat
        BY FS_CardinalityType
      <3>3. IsFiniteSet(here) /\ Cardinality(here) = 1 * Cardinality(marks[n])
        BY <3>1, <3>2, FS_Product
      <3> QED
        BY <3>2, <3>3
    <2>5. /\ IsFiniteSet(before) /\ Cardinality(before) \in Nat
          /\ Cardinality(before) = Cardinality(Places(f[n - 1], set))
      <3>1. IsFiniteSet(before) /\ Cardinality(before) = Cardinality(Places(f[n - 1], set))
        BY <1>7
      <3> QED
        BY <3>1, FS_CardinalityType
    <2>6. Cardinality(Places(f[n], set)) = Cardinality(Places(f[n - 1], set)) + Cardinality(Places(parts[n], set))
      <3>1. f[n] = f[n - 1] \o parts[n] /\ IsSequence(f[n - 1]) /\ IsSequence(parts[n])
        BY <1>4, <1>5, <2>1
      <3>2. Cardinality(Places(f[n - 1] \o parts[n], set))
              = Cardinality(Places(f[n - 1], set)) + Cardinality(Places(parts[n], set))
        BY <3>1, PlacesJoined
      <3> QED
        BY <3>1, <3>2
    <2> HIDE DEF before, here, upTo
    <2>7. /\ IsFiniteSet(before \cup here)
          /\ Cardinality(before \cup here) = Cardinality(before) + Cardinality(here) - Cardinality(before \cap here)
      BY <2>4, <2>5, FS_Union
    <2>8. Cardinality(before \cap here) = 0
      BY <2>3, FS_EmptySet
    <2>9. Cardinality(upTo(n)) = Cardinality(Places(f[n], set))
      BY <2>2, <2>4, <2>5, <2>6, <2>7, <2>8
    <2> QED
      BY <2>1, <2>2, <2>7, <2>9
  <1> HIDE DEF T
  <1>8. \A n \in 0 .. N : n \in T
    BY <1>6, <1>7, InductionTo, Zenon
  <1>9. N \in T
    BY <1>8
  <1> HIDE DEF upTo
  <1>10. Cardinality(Places(FlattenSeq(parts), set)) = Cardinality(upTo(N))
    BY <1>4, <1>9 DEF T
  <1> QED
    BY <1>10 DEF upTo

\* What a scan finds is listed, each find once.
LEMMA PlacesOfScan ==
  ASSUME NEW file, HasLines(file), NEW found, DOMAIN found \subseteq DOMAIN file.lines, NEW set,
         \A n \in DOMAIN found : found[n] \in set
  PROVE  /\ IsFiniteSet(DOMAIN found)
         /\ Cardinality(Places(Scanned(file, found), set)) = Cardinality(DOMAIN found)
         /\ ToSet(Scanned(file, found)) = {found[n] : n \in DOMAIN found}
  <1> DEFINE N == Len(file.lines)
             D == DOMAIN found
             parts == [n \in DOMAIN file.lines |-> IF n \in D THEN <<found[n]>> ELSE <<>>]
             marks == [n \in 1 .. N |-> IF n \in D THEN {1} ELSE {}]
  <1>1. N \in Nat /\ DOMAIN file.lines = 1 .. N
    BY DEF HasLines, IsSequence
  <1>2. Scanned(file, found) = FlattenSeq(parts)
    BY DEF Scanned
  <1>3. IsFiniteSet(D)
    <2>1. IsFiniteSet(1 .. N) /\ D \in SUBSET (1 .. N)
      BY <1>1, FS_Interval
    <2> QED
      BY <2>1, FS_Subset
  <1>4. \A n \in 1 .. N : IsSequence(parts[n]) /\ ToSet(parts[n]) = (IF n \in D THEN {found[n]} ELSE {})
    BY <1>1, ShortLists
  <1>5. \A n \in 1 .. N : IsFiniteSet(marks[n]) /\ marks[n] = Places(parts[n], set)
    <2>1. ASSUME NEW n \in 1 .. N, n \in D PROVE Places(parts[n], set) = {1}
      <3>1. parts[n] = <<found[n]>> /\ found[n] \in set
        BY <1>1, <2>1
      <3>2. DOMAIN <<found[n]>> = {1} /\ <<found[n]>>[1] = found[n]
        OBVIOUS
      <3> HIDE DEF parts
      <3> QED
        BY <3>1, <3>2 DEF Places
    <2>2. ASSUME NEW n \in 1 .. N, n \notin D PROVE Places(parts[n], set) = {}
      <3>1. parts[n] = <<>>
        BY <1>1, <2>2
      <3> HIDE DEF parts
      <3> QED
        BY <3>1 DEF Places
    <2>3. IsFiniteSet({1}) /\ IsFiniteSet({})
      BY FS_Singleton, FS_EmptySet
    <2> HIDE DEF parts, D
    <2> QED
      BY <2>1, <2>2, <2>3
  <1>6. DOMAIN parts = 1 .. N /\ parts = [n \in 1 .. N |-> parts[n]]
    BY <1>1
  <1>7. UNION {{n} \X marks[n] : n \in 1 .. N} = D \X {1}
    <2>1. \A n \in D : n \in 1 .. N
      BY <1>1
    <2> HIDE DEF D, N
    <2> QED
      BY <2>1
  <1>8. Cardinality(D \X {1}) = Cardinality(D)
    <2>1. IsFiniteSet({1}) /\ Cardinality({1}) = 1 /\ Cardinality(D) \in Nat
      BY <1>3, FS_Singleton, FS_CardinalityType
    <2>2. Cardinality(D \X {1}) = Cardinality(D) * 1
      <3> HIDE DEF D
      <3> QED
        BY <1>3, <2>1, FS_Product
    <2> QED
      BY <2>1, <2>2
  <1>9. \A n \in D : n \in 1 .. N
    BY <1>1
  <1> HIDE DEF parts, marks, D, N
  <1>10. Cardinality(Places(FlattenSeq(parts), set)) = Cardinality(UNION {{n} \X marks[n] : n \in 1 .. N})
    BY <1>1, <1>4, <1>5, <1>6, PlacesFlattened
  <1>11. ToSet(FlattenSeq(parts)) = UNION {ToSet(parts[n]) : n \in 1 .. N}
    BY <1>1, <1>4, <1>6, ListsFlattened
  <1>12. ToSet(FlattenSeq(parts)) = {found[n] : n \in D}
    <2>1. ASSUME NEW n \in D PROVE found[n] \in ToSet(parts[n]) /\ n \in 1 .. N
      BY <1>4, <1>9
    <2>2. ASSUME NEW n \in 1 .. N, NEW x \in ToSet(parts[n]) PROVE x = found[n] /\ n \in D
      BY <1>4
    <2> QED
      BY <1>11, <2>1, <2>2, Zenon
  <1> QED
    BY <1>2, <1>3, <1>7, <1>8, <1>10, <1>12 DEF D
-----------------------------------------------------------------------------
(* What the inventory counts. *)

\* Tests of one file, of one kind of files and with one of these technologies.
Told(items, file, suffixes, technologies) ==
    /\ IsSequence(items)
    /\ \A t \in ToSet(items) :
          file.suffix \in suffixes /\ t.file = PathOf(file) /\ t.technology \in technologies
JavaRunners == {"TestNG", "JUnit"}

LEMMA ToldByScan ==
  ASSUME NEW file, HasLines(file), NEW suffixes, file.suffix \in suffixes, NEW technologies,
         NEW found, DOMAIN found \subseteq DOMAIN file.lines,
         \A n \in DOMAIN found : found[n].file = PathOf(file) /\ found[n].technology \in technologies
  PROVE  Told(Scanned(file, found), file, suffixes, technologies)
  <1> DEFINE set == {found[n] : n \in DOMAIN found}
  <1>1. ToSet(Scanned(file, found)) = set
    <2>1. \A n \in DOMAIN found : found[n] \in set
      OBVIOUS
    <2> HIDE DEF set
    <2>2. ToSet(Scanned(file, found)) = {found[n] : n \in DOMAIN found}
      BY <2>1, PlacesOfScan
    <2> QED
      BY <2>2 DEF set
  <1>2. IsSequence(Scanned(file, found))
    <2>1. FoundIn(Scanned(file, found), {PathOf(file)})
      <3>1. \A n \in DOMAIN found : found[n].file \in {PathOf(file)}
        OBVIOUS
      <3> QED
        BY <3>1, FoundByScan
    <2> QED
      BY <2>1 DEF FoundIn
  <1> QED
    BY <1>1, <1>2 DEF Told
LEMMA TestsTold ==
  ASSUME NEW file, HasLines(file)
  PROVE  /\ Told(JavaTests(file), file, {".java"}, JavaRunners)
         /\ Told(PytestTests(file), file, {".py"}, {"pytest"})
         /\ Told(PlaywrightTests(file), file, ScriptSuffixes, {"Playwright"})
         /\ Told(CypressTests(file), file, ScriptSuffixes, {"Cypress"})
         /\ Told(RobotTests(file), file, {".robot"}, {"Robot Framework"})
  <1>0. \A suffixes, technologies : Told(<<>>, file, suffixes, technologies)
    BY ShortLists DEF Told
  <1>1. Told(JavaTests(file), file, {".java"}, JavaRunners)
    <2>1. CASE file.suffix = ".java" /\ RunnerForFile(file) # None
      <3>1. RunnerForFile(file) \in JavaRunners
        BY <2>1 DEF RunnerForFile, JavaRunners
      <3>2. \A n \in DOMAIN JavaFound(file) :
               /\ JavaFound(file)[n].file = PathOf(file)
               /\ JavaFound(file)[n].technology \in JavaRunners
        BY <3>1 DEF JavaFound, Test
      <3>3. DOMAIN JavaFound(file) \subseteq DOMAIN file.lines
        BY DEF JavaFound
      <3>4. Told(Scanned(file, JavaFound(file)), file, {".java"}, JavaRunners)
        BY <2>1, <3>2, <3>3, ToldByScan
      <3> QED
        BY <2>1, <3>4 DEF JavaTests
    <2> QED
      BY <1>0, <2>1 DEF JavaTests
  <1>2. Told(PytestTests(file), file, {".py"}, {"pytest"})
    <2>1. DOMAIN PytestFound(file) \subseteq DOMAIN file.lines
          /\ \A n \in DOMAIN PytestFound(file) :
               PytestFound(file)[n].file = PathOf(file) /\ PytestFound(file)[n].technology \in {"pytest"}
      BY DEF PytestFound, Test
    <2>2. file.suffix = ".py" => Told(Scanned(file, PytestFound(file)), file, {".py"}, {"pytest"})
      BY <2>1, ToldByScan
    <2> QED
      BY <1>0, <2>2 DEF PytestTests
  <1>3. Told(PlaywrightTests(file), file, ScriptSuffixes, {"Playwright"})
    <2>1. DOMAIN PlaywrightFound(file) \subseteq DOMAIN file.lines
          /\ \A n \in DOMAIN PlaywrightFound(file) :
               /\ PlaywrightFound(file)[n].file = PathOf(file)
               /\ PlaywrightFound(file)[n].technology \in {"Playwright"}
      BY DEF PlaywrightFound, CallsOf, Test
    <2>2. file.suffix \in ScriptSuffixes =>
             Told(Scanned(file, PlaywrightFound(file)), file, ScriptSuffixes, {"Playwright"})
      BY <2>1, ToldByScan
    <2> QED
      BY <1>0, <2>2 DEF PlaywrightTests
  <1>4. Told(CypressTests(file), file, ScriptSuffixes, {"Cypress"})
    <2>1. DOMAIN CypressFound(file) \subseteq DOMAIN file.lines
          /\ \A n \in DOMAIN CypressFound(file) :
               CypressFound(file)[n].file = PathOf(file) /\ CypressFound(file)[n].technology \in {"Cypress"}
      BY DEF CypressFound, CallsOf, Test
    <2>2. file.suffix \in ScriptSuffixes =>
             Told(Scanned(file, CypressFound(file)), file, ScriptSuffixes, {"Cypress"})
      BY <2>1, ToldByScan
    <2> QED
      BY <1>0, <2>2 DEF CypressTests
  <1>5. Told(RobotTests(file), file, {".robot"}, {"Robot Framework"})
    <2>1. DOMAIN RobotFound(file) \subseteq DOMAIN file.lines
          /\ \A n \in DOMAIN RobotFound(file) :
               /\ RobotFound(file)[n].file = PathOf(file)
               /\ RobotFound(file)[n].technology \in {"Robot Framework"}
      BY DEF RobotFound, ItemsOf, Test
    <2>2. file.suffix = ".robot" =>
             Told(Scanned(file, RobotFound(file)), file, {".robot"}, {"Robot Framework"})
      BY <2>1, ToldByScan
    <2> QED
      BY <1>0, <2>2 DEF RobotTests
  <1> QED
    BY <1>1, <1>2, <1>3, <1>4, <1>5

\* A set that has no test of pytest, Playwright or Cypress, and for each file as
\* many marks as it has Java and Robot tests in the set.
Marking(contents, set, java, robot) ==
    /\ \A n \in DOMAIN contents : \A items :
          \/ Told(items, contents[n], {".py"}, {"pytest"})
          \/ Told(items, contents[n], ScriptSuffixes, {"Playwright"})
          \/ Told(items, contents[n], ScriptSuffixes, {"Cypress"})
          => Places(items, set) = {}
    /\ \A n \in DOMAIN contents :
          IsFiniteSet(java[n]) /\ Cardinality(java[n]) = Cardinality(Places(JavaTests(contents[n]), set))
    /\ \A n \in DOMAIN contents :
          IsFiniteSet(robot[n]) /\ Cardinality(robot[n]) = Cardinality(Places(RobotTests(contents[n]), set))

\* There are as many tests in the set as there are marks.
Marked(contents, marks) == Cardinality(UNION {{n} \X marks[n] : n \in DOMAIN contents})
LEMMA TestsCounted ==
  ASSUME NEW contents, IsSequence(contents), \A file \in ToSet(contents) : HasLines(file), NEW set,
         NEW java, NEW robot, Marking(contents, set, java, robot)
  PROVE  /\ Cardinality(Places(ExtractTests(contents), set)) = Marked(contents, java) + Marked(contents, robot)
         /\ Marked(contents, java) \in Nat /\ Marked(contents, robot) \in Nat
  <1> DEFINE N == Len(contents)
             javas == [n \in DOMAIN contents |-> JavaTests(contents[n])]
             pytests == [n \in DOMAIN contents |-> PytestTests(contents[n])]
             playwrights == [n \in DOMAIN contents |-> PlaywrightTests(contents[n])]
             cypresses == [n \in DOMAIN contents |-> CypressTests(contents[n])]
             robots == [n \in DOMAIN contents |-> RobotTests(contents[n])]
             none == [n \in DOMAIN contents |-> {}]
  <1>1. N \in Nat /\ DOMAIN contents = 1 .. N
    BY DEF IsSequence
  <1>2. \A n \in 1 .. N : HasLines(contents[n])
    BY <1>1 DEF ToSet
  <1>3. \A n \in 1 .. N :
           /\ IsSequence(javas[n]) /\ IsSequence(pytests[n]) /\ IsSequence(playwrights[n])
           /\ IsSequence(cypresses[n]) /\ IsSequence(robots[n])
    BY <1>1, <1>2, TestsTold DEF Told
  <1>4. \A n \in 1 .. N :
           Places(pytests[n], set) = {} /\ Places(playwrights[n], set) = {} /\ Places(cypresses[n], set) = {}
    BY <1>1, <1>2, TestsTold DEF Marking
  <1>5. ExtractTests(contents) = FlattenSeq(javas) \o FlattenSeq(pytests) \o FlattenSeq(playwrights)
                                 \o FlattenSeq(cypresses) \o FlattenSeq(robots)
    BY DEF ExtractTests
  <1>6. /\ DOMAIN javas = 1 .. N /\ javas = [n \in 1 .. N |-> javas[n]]
        /\ DOMAIN pytests = 1 .. N /\ pytests = [n \in 1 .. N |-> pytests[n]]
        /\ DOMAIN playwrights = 1 .. N /\ playwrights = [n \in 1 .. N |-> playwrights[n]]
        /\ DOMAIN cypresses = 1 .. N /\ cypresses = [n \in 1 .. N |-> cypresses[n]]
        /\ DOMAIN robots = 1 .. N /\ robots = [n \in 1 .. N |-> robots[n]]
    BY <1>1
  <1>7. \A n \in 1 .. N : Cardinality(java[n]) = Cardinality(Places(javas[n], set))
                          /\ Cardinality(robot[n]) = Cardinality(Places(robots[n], set))
    BY <1>1 DEF Marking
  <1>8. \A n \in 1 .. N : IsFiniteSet(java[n]) /\ IsFiniteSet(robot[n])
    BY <1>1 DEF Marking
  <1>9. \A n \in 1 .. N : none[n] = {} /\ IsFiniteSet(none[n]) /\ Cardinality(none[n]) = Cardinality({})
    BY <1>1, FS_EmptySet
  <1>10. Cardinality(UNION {{n} \X none[n] : n \in 1 .. N}) = 0
    <2>1. UNION {{n} \X none[n] : n \in 1 .. N} = {}
      BY <1>9
    <2> QED
      BY <2>1, FS_EmptySet
  <1> HIDE DEF N, javas, pytests, playwrights, cypresses, robots, none
  <1> DEFINE Parts(parts) == DOMAIN parts = 1 .. N /\ parts = [n \in 1 .. N |-> parts[n]]
                             /\ \A n \in 1 .. N : IsSequence(parts[n])
             Marks(marks, parts) ==
                \A n \in 1 .. N :
                    IsFiniteSet(marks[n]) /\ Cardinality(marks[n]) = Cardinality(Places(parts[n], set))
  <1>100. ASSUME NEW parts, Parts(parts), NEW marks, Marks(marks, parts)
          PROVE  Cardinality(Places(FlattenSeq(parts), set)) = Cardinality(UNION {{n} \X marks[n] : n \in 1 .. N})
    BY <1>1, <1>100, PlacesFlattened
  <1>101. Parts(javas) /\ Parts(pytests) /\ Parts(playwrights) /\ Parts(cypresses) /\ Parts(robots)
    BY <1>3, <1>6
  <1>102. Marks(java, javas) /\ Marks(robot, robots)
    BY <1>7, <1>8
  <1>103. Marks(none, pytests) /\ Marks(none, playwrights) /\ Marks(none, cypresses)
    BY <1>4, <1>9
  <1> HIDE DEF Parts, Marks
  <1>11. Cardinality(Places(FlattenSeq(javas), set)) = Cardinality(UNION {{n} \X java[n] : n \in 1 .. N})
    BY <1>100, <1>101, <1>102
  <1>12. Cardinality(Places(FlattenSeq(robots), set)) = Cardinality(UNION {{n} \X robot[n] : n \in 1 .. N})
    BY <1>100, <1>101, <1>102
  <1>13. Cardinality(Places(FlattenSeq(pytests), set)) = 0
    BY <1>10, <1>100, <1>101, <1>103
  <1>14. Cardinality(Places(FlattenSeq(playwrights), set)) = 0
    BY <1>10, <1>100, <1>101, <1>103
  <1>15. Cardinality(Places(FlattenSeq(cypresses), set)) = 0
    BY <1>10, <1>100, <1>101, <1>103
  <1>16. /\ IsSequence(FlattenSeq(javas)) /\ IsSequence(FlattenSeq(pytests)) /\ IsSequence(FlattenSeq(playwrights))
         /\ IsSequence(FlattenSeq(cypresses)) /\ IsSequence(FlattenSeq(robots))
    <2>1. IsSequence(FlattenSeq(javas))
      BY <1>1, <1>3, <1>6, ListsFlattened
    <2>2. IsSequence(FlattenSeq(pytests))
      BY <1>1, <1>3, <1>6, ListsFlattened
    <2>3. IsSequence(FlattenSeq(playwrights))
      BY <1>1, <1>3, <1>6, ListsFlattened
    <2>4. IsSequence(FlattenSeq(cypresses))
      BY <1>1, <1>3, <1>6, ListsFlattened
    <2>5. IsSequence(FlattenSeq(robots))
      BY <1>1, <1>3, <1>6, ListsFlattened
    <2> QED
      BY <2>1, <2>2, <2>3, <2>4, <2>5
  <1> DEFINE a == FlattenSeq(javas)
             b == FlattenSeq(pytests)
             c == FlattenSeq(playwrights)
             d == FlattenSeq(cypresses)
             e == FlattenSeq(robots)
             P(s) == Cardinality(Places(s, set))
  <1>17. \A s, t : IsSequence(s) /\ IsSequence(t) => IsSequence(s \o t) /\ P(s \o t) = P(s) + P(t)
    BY ListsJoined, PlacesJoined
  <1>18. P(a) \in Nat /\ P(e) \in Nat /\ P(b) = 0 /\ P(c) = 0 /\ P(d) = 0
    BY <1>13, <1>14, <1>15, <1>16, PlacesAreFinite
  <1>19. /\ IsSequence(a) /\ IsSequence(b) /\ IsSequence(c) /\ IsSequence(d) /\ IsSequence(e)
         /\ ExtractTests(contents) = a \o b \o c \o d \o e
         /\ P(a) = Cardinality(UNION {{n} \X java[n] : n \in 1 .. N})
         /\ P(e) = Cardinality(UNION {{n} \X robot[n] : n \in 1 .. N})
    BY <1>5, <1>11, <1>12, <1>16
  <1> HIDE DEF a, b, c, d, e, P
  <1>20. IsSequence(a \o b) /\ P(a \o b) = P(a) + P(b)
    BY <1>17, <1>19
  <1>21. IsSequence(a \o b \o c) /\ P(a \o b \o c) = P(a) + P(b) + P(c)
    BY <1>17, <1>19, <1>20
  <1>22. IsSequence(a \o b \o c \o d) /\ P(a \o b \o c \o d) = P(a) + P(b) + P(c) + P(d)
    BY <1>17, <1>19, <1>21
  <1>23. P(a \o b \o c \o d \o e) = P(a) + P(b) + P(c) + P(d) + P(e)
    BY <1>17, <1>19, <1>22
  <1>24. P(ExtractTests(contents)) = P(a) + P(e)
    BY <1>18, <1>19, <1>23
  <1> QED
    BY <1>1, <1>18, <1>19, <1>24 DEF P, Marked

\* The look ahead finds the method of a plain annotation, and for any other one
\* something when there is a method near it.
LEMMA AnnotationsTold ==
  ASSUME NEW file, HasLines(file)
  PROVE  LET found == JavaFound(file)
         IN  /\ DOMAIN found = Plain(file) \cup Strays(file)
             /\ \A n \in Plain(file) : /\ found[n].name = file.lines[file.lines[n].on].def
                                       /\ found[n].class = Latest(file, n, Class)
  <1> DEFINE lines == file.lines
             D == DOMAIN JavaFound(file)
             L == Len(lines)
  <1>1. L \in Nat /\ DOMAIN lines = 1 .. L
    BY DEF HasLines, IsSequence
  <1> HIDE DEF L
  <1>2. \A n : n \in D <=> n \in DOMAIN lines /\ lines[n].test /\ JavaMethods(file, n) # {}
    BY DEF JavaFound
  <1>3. \A n, m : m \in JavaMethods(file, n) <=>
                     m \in DOMAIN lines /\ n <= m /\ m <= n + 3 /\ lines[m].def # None
    BY DEF JavaMethods
  <1>4. ASSUME NEW n \in Plain(file)
        PROVE  /\ n \in DOMAIN lines /\ lines[n].test /\ lines[n].on \in JavaMethods(file, n)
               /\ \A i \in n .. lines[n].on - 1 : lines[i].def = None
    BY <1>3 DEF Plain
  <1>5. \A n : n \in D <=> n \in Plain(file) \/ n \in Strays(file)
    <2>1. \A n : n \in Plain(file) => n \in D
      BY <1>2, <1>4
    <2>2. \A n : n \in Strays(file) <=> n \in DOMAIN lines /\ n \notin Plain(file) /\ lines[n].test
                                        /\ JavaMethods(file, n) # {}
      BY <1>3 DEF Strays
    <2> QED
      BY <1>2, <2>1, <2>2
  <1>6. ASSUME NEW n \in Plain(file) PROVE Min(JavaMethods(file, n)) = lines[n].on
    <2> DEFINE J == JavaMethods(file, n)
               on == lines[n].on
    <2>1. \A m \in J : m \in 1 .. L /\ n <= m /\ lines[m].def # None
      BY <1>1, <1>3
    <2>2. on \in J /\ n \in 1 .. L /\ \A i \in n .. on - 1 : lines[i].def = None
      BY <1>1, <1>4
    <2> HIDE DEF J, on, lines
    <2>21. \A m \in 1 .. L : m \in Nat
      BY <1>1
    <2>3. J \in SUBSET Nat /\ J # {}
      BY <2>1, <2>2, <2>21
    <2>4. Min(J) \in J /\ \A m \in J : Min(J) <= m
      BY <2>3, LeastNumber
    <2>5. Min(J) \in 1 .. L /\ on \in 1 .. L /\ n <= Min(J) /\ Min(J) <= on
      BY <2>1, <2>2, <2>4
    <2>6. Min(J) \notin n .. on - 1
      BY <2>1, <2>2, <2>4
    <2>22. n \in Nat /\ on \in Nat /\ Min(J) \in Nat
      BY <2>2, <2>5, <2>21
    <2> HIDE DEF L
    <2> DEFINE least == Min(J)
    <2> HIDE DEF least
    <2>23. least = Min(J)
      BY DEF least
    <2>24. least = on
      BY <2>5, <2>6, <2>22, <2>23
    <2>7. Min(J) = on
      BY <2>23, <2>24
    <2> QED
      BY <2>7 DEF J, on, lines
  <1>7. ASSUME NEW n \in Plain(file)
        PROVE  /\ JavaFound(file)[n].name = lines[lines[n].on].def
               /\ JavaFound(file)[n].class = Latest(file, n, Class)
    <2>1. n \in D
      BY <1>5
    <2>2. /\ JavaFound(file)[n].class = Latest(file, n, Class)
          /\ JavaFound(file)[n].name = lines[Min(JavaMethods(file, n))].def
      BY <2>1 DEF JavaFound, Test
    <2> QED
      BY <1>6, <2>2
  <1> QED
    BY <1>5, <1>7

\* The tests of the inventory are those that the five extractors find.
TestsIn(file) ==
    ToSet(JavaTests(file)) \cup ToSet(PytestTests(file)) \cup ToSet(PlaywrightTests(file))
    \cup ToSet(CypressTests(file)) \cup ToSet(RobotTests(file))
LEMMA TestsListed ==
  ASSUME NEW contents, IsSequence(contents), \A file \in ToSet(contents) : HasLines(file)
  PROVE  ToSet(ExtractTests(contents)) = UNION {TestsIn(contents[n]) : n \in DOMAIN contents}
  <1> DEFINE N == Len(contents)
             javas == [n \in DOMAIN contents |-> JavaTests(contents[n])]
             pytests == [n \in DOMAIN contents |-> PytestTests(contents[n])]
             playwrights == [n \in DOMAIN contents |-> PlaywrightTests(contents[n])]
             cypresses == [n \in DOMAIN contents |-> CypressTests(contents[n])]
             robots == [n \in DOMAIN contents |-> RobotTests(contents[n])]
             Parts(parts) == DOMAIN parts = 1 .. N /\ parts = [n \in 1 .. N |-> parts[n]]
                             /\ \A n \in 1 .. N : IsSequence(parts[n])
             all(parts) == UNION {ToSet(parts[n]) : n \in 1 .. N}
  <1>1. N \in Nat /\ DOMAIN contents = 1 .. N
    BY DEF IsSequence
  <1>2. \A n \in 1 .. N : HasLines(contents[n])
    BY <1>1 DEF ToSet
  <1>3. Parts(javas) /\ Parts(pytests) /\ Parts(playwrights) /\ Parts(cypresses) /\ Parts(robots)
    BY <1>1, <1>2, TestsTold DEF Told
  <1>4. ExtractTests(contents) = FlattenSeq(javas) \o FlattenSeq(pytests) \o FlattenSeq(playwrights)
                                 \o FlattenSeq(cypresses) \o FlattenSeq(robots)
    BY DEF ExtractTests
  <1>5. \A n \in 1 .. N : TestsIn(contents[n]) = ToSet(javas[n]) \cup ToSet(pytests[n])
                             \cup ToSet(playwrights[n]) \cup ToSet(cypresses[n]) \cup ToSet(robots[n])
    BY <1>1 DEF TestsIn
  <1> HIDE DEF N, javas, pytests, playwrights, cypresses, robots
  <1>6. ASSUME NEW parts, Parts(parts) PROVE IsSequence(FlattenSeq(parts)) /\ ToSet(FlattenSeq(parts)) = all(parts)
    BY <1>1, <1>6, ListsFlattened
  <1> DEFINE a == FlattenSeq(javas)
             b == FlattenSeq(pytests)
             c == FlattenSeq(playwrights)
             d == FlattenSeq(cypresses)
             e == FlattenSeq(robots)
  <1> HIDE DEF Parts, all
  <1>7. /\ IsSequence(a) /\ IsSequence(b) /\ IsSequence(c) /\ IsSequence(d) /\ IsSequence(e)
        /\ ToSet(a) = all(javas) /\ ToSet(b) = all(pytests) /\ ToSet(c) = all(playwrights)
        /\ ToSet(d) = all(cypresses) /\ ToSet(e) = all(robots)
        /\ ExtractTests(contents) = a \o b \o c \o d \o e
    BY <1>3, <1>4, <1>6
  <1> HIDE DEF a, b, c, d, e
  <1>8. IsSequence(a \o b) /\ ToSet(a \o b) = ToSet(a) \cup ToSet(b)
    BY <1>7, ListsJoined
  <1>9. IsSequence(a \o b \o c) /\ ToSet(a \o b \o c) = ToSet(a \o b) \cup ToSet(c)
    BY <1>7, <1>8, ListsJoined
  <1>10. IsSequence(a \o b \o c \o d) /\ ToSet(a \o b \o c \o d) = ToSet(a \o b \o c) \cup ToSet(d)
    BY <1>7, <1>9, ListsJoined
  <1>11. ToSet(a \o b \o c \o d \o e) = ToSet(a \o b \o c \o d) \cup ToSet(e)
    BY <1>7, <1>10, ListsJoined
  <1>12. ToSet(ExtractTests(contents)) = all(javas) \cup all(pytests) \cup all(playwrights)
                                         \cup all(cypresses) \cup all(robots)
    BY <1>7, <1>8, <1>9, <1>10, <1>11
  <1>13. all(javas) \cup all(pytests) \cup all(playwrights) \cup all(cypresses) \cup all(robots)
           = UNION {TestsIn(contents[n]) : n \in 1 .. N}
    BY <1>5 DEF all
  <1> QED
    BY <1>1, <1>12, <1>13

\* One pair for each element.
LEMMA Paired ==
  ASSUME NEW m, NEW D, IsFiniteSet(D)
  PROVE  Cardinality({m} \X D) = Cardinality(D)
  <1>1. IsFiniteSet({m}) /\ Cardinality({m}) = 1 /\ Cardinality(D) \in Nat
    BY FS_Singleton, FS_CardinalityType
  <1>2. Cardinality({m} \X D) = Cardinality({m}) * Cardinality(D)
    BY <1>1, FS_Product
  <1> QED
    BY <1>1, <1>2

\* A Java file with tests.
IsJavaTest(file) == file.suffix = ".java" /\ RunnerForFile(file) # None

\* The tests listed for a Java file are its plain ones and its strays.
LEMMA JavaExact ==
  ASSUME NEW contents, NEW paths, WasRead(contents, paths), NEW f \in ToSet(contents),
         IsJavaTest(f)
  PROVE  LET tests == ExtractTests(contents)
             found == {k \in DOMAIN tests : tests[k].file = PathOf(f)}
             method(n) == f.lines[f.lines[n].on]
         IN  /\ Cardinality(found) = Cardinality(Plain(f) \cup Strays(f))
             /\ \A n \in Plain(f) : \E k \in found :
                   /\ tests[k].name = method(n).def
                   /\ Latest(f, n, Class) = method(n).owner => tests[k].class = method(n).owner
  <1> DEFINE tests == ExtractTests(contents)
             found == {k \in DOMAIN tests : tests[k].file = PathOf(f)}
             set == {t \in ToSet(tests) : t.file = PathOf(f)}
             D == DOMAIN JavaFound(f)
             java == [n \in DOMAIN contents |-> IF contents[n] = f THEN D ELSE {}]
             robot == [n \in DOMAIN contents |-> {}]
  <1>1. PICK m \in DOMAIN contents : f = contents[m]
    BY DEF ToSet
  <1>2. IsSequence(contents) /\ OnePathEach(contents) /\ \A file \in ToSet(contents) : HasLines(file)
    BY DEF WasRead
  <1>3. \A n \in DOMAIN contents : contents[n] = f <=> n = m
    BY <1>1, <1>2 DEF OnePathEach
  <1>4. \A n \in DOMAIN contents : PathOf(contents[n]) = PathOf(f) => n = m
    BY <1>1, <1>2 DEF OnePathEach
  <1>5. \A n \in DOMAIN contents : HasLines(contents[n])
    BY <1>2 DEF ToSet
  <1>6. HasLines(f)
    BY <1>1, <1>5
  \* Nothing else is in this file.
  <1>7. ASSUME NEW n \in DOMAIN contents, NEW items, NEW suffixes, NEW technologies,
               Told(items, contents[n], suffixes, technologies), n # m \/ ".java" \notin suffixes
        PROVE  Places(items, set) = {}
    <2>1. ASSUME NEW t \in ToSet(items) PROVE t \notin set
      <3>1. contents[n].suffix \in suffixes /\ t.file = PathOf(contents[n])
        BY <1>7 DEF Told
      <3>2. n # m
        BY <1>1, <1>7, <3>1 DEF IsJavaTest
      <3> QED
        BY <1>4, <3>1, <3>2
    <2>2. \A k \in DOMAIN items : items[k] \in ToSet(items)
      BY DEF ToSet
    <2> QED
      BY <2>1, <2>2 DEF Places
  <1>8. \A n \in DOMAIN contents : \A items :
            \/ Told(items, contents[n], {".py"}, {"pytest"})
            \/ Told(items, contents[n], ScriptSuffixes, {"Playwright"})
            \/ Told(items, contents[n], ScriptSuffixes, {"Cypress"})
            => Places(items, set) = {}
    <2>1. ".java" \notin {".py"} /\ ".java" \notin ScriptSuffixes
      BY DEF ScriptSuffixes
    <2> HIDE DEF set
    <2> QED
      BY <1>7, <2>1
  <1>9. Scanned(f, JavaFound(f)) = JavaTests(f)
    BY DEF JavaTests, IsJavaTest
  \* What the scan of this file finds is all in the list.
  <1>10. ASSUME NEW n \in D PROVE JavaFound(f)[n] \in set
    <2> DEFINE all == {JavaFound(f)[i] : i \in D}
               javas == [i \in DOMAIN contents |-> JavaTests(contents[i])]
    <2>1. \A i \in D : JavaFound(f)[i] \in all
      OBVIOUS
    <2>2. DOMAIN JavaFound(f) \subseteq DOMAIN f.lines
      BY DEF JavaFound
    <2> HIDE DEF all
    <2>3. ToSet(JavaTests(f)) = {JavaFound(f)[i] : i \in D}
      BY <1>6, <1>9, <2>1, <2>2, PlacesOfScan
    <2>4. ToSet(JavaTests(f)) \subseteq ToSet(tests)
      <3>1. ToSet(tests) = UNION {TestsIn(contents[i]) : i \in DOMAIN contents}
        BY <1>2, TestsListed
      <3>2. ToSet(JavaTests(f)) \subseteq TestsIn(f)
        BY DEF TestsIn
      <3> HIDE DEF tests
      <3>3. TestsIn(f) \subseteq ToSet(tests)
        BY <1>1, <3>1
      <3> QED
        BY <3>2, <3>3
    <2>5. JavaFound(f)[n].file = PathOf(f)
      BY DEF JavaFound, Test
    <2> QED
      BY <2>3, <2>4, <2>5
  <1>11. /\ IsFiniteSet(D) /\ Cardinality(Places(JavaTests(f), set)) = Cardinality(D)
         /\ ToSet(JavaTests(f)) = {JavaFound(f)[n] : n \in D}
    <2>1. DOMAIN JavaFound(f) \subseteq DOMAIN f.lines
      BY DEF JavaFound
    <2> HIDE DEF set
    <2> QED
      BY <1>6, <1>9, <1>10, <2>1, PlacesOfScan
  <1>12. \A n \in DOMAIN contents :
            IsFiniteSet(java[n]) /\ Cardinality(java[n]) = Cardinality(Places(JavaTests(contents[n]), set))
    <2>1. ASSUME NEW n \in DOMAIN contents, n # m PROVE Places(JavaTests(contents[n]), set) = {}
      <3>1. Told(JavaTests(contents[n]), contents[n], {".java"}, JavaRunners)
        BY <1>5, TestsTold
      <3> HIDE DEF set
      <3> QED
        BY <1>7, <2>1, <3>1
    <2>2. \A n \in DOMAIN contents : java[n] = IF n = m THEN D ELSE {}
      BY <1>3
    <2>3. IsFiniteSet({})
      BY FS_EmptySet
    <2> HIDE DEF set, java, D
    <2> QED
      BY <1>1, <1>11, <2>1, <2>2, <2>3
  <1>13. \A n \in DOMAIN contents :
            IsFiniteSet(robot[n]) /\ Cardinality(robot[n]) = Cardinality(Places(RobotTests(contents[n]), set))
    <2>1. ASSUME NEW n \in DOMAIN contents PROVE Places(RobotTests(contents[n]), set) = {}
      <3>1. Told(RobotTests(contents[n]), contents[n], {".robot"}, {"Robot Framework"})
        BY <1>5, TestsTold
      <3>2. ".java" \notin {".robot"}
        OBVIOUS
      <3> HIDE DEF set
      <3> QED
        BY <1>7, <3>1, <3>2
    <2>2. IsFiniteSet({})
      BY FS_EmptySet
    <2> HIDE DEF set
    <2> QED
      BY <2>1, <2>2
  <1>14. Marked(contents, java) = Cardinality(D)
    <2>1. \A n \in DOMAIN contents : java[n] = IF n = m THEN D ELSE {}
      BY <1>3
    <2> HIDE DEF java, D
    <2>2. UNION {{n} \X java[n] : n \in DOMAIN contents} = {m} \X D
      BY <1>1, <2>1
    <2>3. Cardinality({m} \X D) = Cardinality(D)
      BY <1>11, Paired
    <2> QED
      BY <2>2, <2>3, Zenon DEF Marked
  <1>15. Marked(contents, robot) = 0
    <2>0. \A n \in DOMAIN contents : robot[n] = {}
      OBVIOUS
    <2> HIDE DEF robot
    <2>1. UNION {{n} \X robot[n] : n \in DOMAIN contents} = {}
      BY <2>0
    <2> QED
      BY <2>1, FS_EmptySet DEF Marked
  <1>16. found = Places(tests, set)
    <2>1. \A k \in DOMAIN tests : tests[k] \in ToSet(tests)
      BY DEF ToSet
    <2> QED
      BY <2>1 DEF Places
  <1>17. Cardinality(Places(tests, set)) = Cardinality(D)
    <2>1. Cardinality(Places(tests, set)) = Marked(contents, java) + Marked(contents, robot)
      <3> HIDE DEF set, java, robot
      <3>1. Marking(contents, set, java, robot)
        BY <1>8, <1>12, <1>13 DEF Marking
      <3> QED
        BY <1>2, <3>1, TestsCounted
    <2>2. Cardinality(D) \in Nat
      BY <1>11, FS_CardinalityType
    <2> DEFINE P == Cardinality(Places(tests, set))
               J == Marked(contents, java)
               R == Marked(contents, robot)
               C == Cardinality(D)
    <2>3. P = J + R /\ J = C /\ R = 0 /\ C \in Nat
      BY <1>14, <1>15, <2>1, <2>2, Zenon
    <2> HIDE DEF P, J, R, C
    <2>4. P = C
      BY <2>3
    <2> QED
      BY <2>4 DEF P, C
  \* The places hold what the scan found.
  <1>18. ASSUME NEW n \in D PROVE \E k \in found : tests[k] = JavaFound(f)[n]
    BY <1>10 DEF ToSet
  <1>19. /\ D = Plain(f) \cup Strays(f)
         /\ \A n \in Plain(f) : /\ JavaFound(f)[n].name = f.lines[f.lines[n].on].def
                                /\ JavaFound(f)[n].class = Latest(f, n, Class)
    BY <1>6, AnnotationsTold
  <1>20. ASSUME NEW n \in Plain(f)
         PROVE  \E k \in found : /\ tests[k].name = f.lines[f.lines[n].on].def
                                 /\ tests[k].class = Latest(f, n, Class)
    <2>1. n \in D
      BY <1>19
    <2>2. PICK k \in found : tests[k] = JavaFound(f)[n]
      BY <1>18, <2>1
    <2> HIDE DEF found, tests
    <2> QED
      BY <1>19, <2>2
  <1>21. Cardinality(found) = Cardinality(Plain(f) \cup Strays(f))
    BY <1>16, <1>17, <1>19, Zenon
  <1> HIDE DEF found, tests, D
  <1>22. \A n \in Plain(f) : \E k \in found :
            /\ tests[k].name = f.lines[f.lines[n].on].def
            /\ Latest(f, n, Class) = f.lines[f.lines[n].on].owner
                 => tests[k].class = f.lines[f.lines[n].on].owner
    BY <1>20, Zenon
  <1> QED
    BY <1>21, <1>22, Zenon DEF found, tests

\* The files of a repository have finitely many lines.
LEMMA LinesAreFinite ==
  ASSUME NEW contents, IsSequence(contents), \A file \in ToSet(contents) : HasLines(file)
  PROVE  IsFiniteSet(LinesOf(contents))
  <1> DEFINE parts == [k \in DOMAIN contents |-> {k} \X DOMAIN contents[k].lines]
             Parts == {parts[k] : k \in DOMAIN contents}
  <1>1. Len(contents) \in Nat /\ DOMAIN contents = 1 .. Len(contents)
    BY DEF IsSequence
  <1>2. IsFiniteSet(DOMAIN contents)
    BY <1>1, FS_Interval
  <1>3. ASSUME NEW k \in DOMAIN contents PROVE IsFiniteSet(parts[k])
    <2>1. HasLines(contents[k])
      BY DEF ToSet
    <2>2. Len(contents[k].lines) \in Nat /\ DOMAIN contents[k].lines = 1 .. Len(contents[k].lines)
      BY <2>1 DEF HasLines, IsSequence
    <2>3. IsFiniteSet(DOMAIN contents[k].lines)
      BY <2>2, FS_Interval
    <2>4. IsFiniteSet({k})
      BY FS_Singleton
    <2> QED
      BY <2>3, <2>4, FS_Product
  <1>4. \A part \in Parts : IsFiniteSet(part)
    BY <1>3
  <1>5. LinesOf(contents) = UNION Parts
    BY DEF LinesOf
  <1>51. parts \in [DOMAIN contents -> Parts] /\ \A part \in Parts : \E k \in DOMAIN contents : parts[k] = part
    OBVIOUS
  <1> HIDE DEF parts
  <1>6. IsFiniteSet(Parts)
    <2>1. parts \in Surjection(DOMAIN contents, Parts)
      BY <1>51, Fun_IsSurj
    <2> HIDE DEF Parts
    <2> QED
      BY <1>2, <2>1, FS_Surjection
  <1> HIDE DEF Parts
  <1> QED
    BY <1>4, <1>5, <1>6, FS_UNION

\* The Robot test cases that are counted are the ones that are listed and those
\* of the resources.
LEMMA RobotExact ==
  ASSUME NEW contents, NEW paths, WasRead(contents, paths)
  PROVE  LET tests == ExtractTests(contents)
         IN  RobotStructure(contents).test_cases
               = Cardinality({k \in DOMAIN tests : tests[k].technology = "Robot Framework"})
                 + CasesOfResources(contents)
  <1> DEFINE tests == ExtractTests(contents)
             found == {k \in DOMAIN tests : tests[k].technology = "Robot Framework"}
             set == {t \in ToSet(tests) : t.technology = "Robot Framework"}
             cases(file) == IF file.suffix = ".robot" THEN ItemsOf(file, "test_cases") ELSE {}
             java == [n \in DOMAIN contents |-> {}]
             robot == [n \in DOMAIN contents |-> cases(contents[n])]
  <1>1. IsSequence(contents) /\ \A file \in ToSet(contents) : HasLines(file)
    BY DEF WasRead
  <1>2. \A n \in DOMAIN contents : contents[n] \in ToSet(contents) /\ HasLines(contents[n])
    BY <1>1 DEF ToSet
  <1>3. ASSUME NEW n, NEW items, NEW suffixes, NEW technologies,
               Told(items, contents[n], suffixes, technologies), "Robot Framework" \notin technologies
        PROVE  Places(items, set) = {}
    <2>1. \A k \in DOMAIN items : items[k] \in ToSet(items)
      BY DEF ToSet
    <2> QED
      BY <1>3, <2>1 DEF Places, Told
  <1>4. \A n \in DOMAIN contents : \A items :
            \/ Told(items, contents[n], {".py"}, {"pytest"})
            \/ Told(items, contents[n], ScriptSuffixes, {"Playwright"})
            \/ Told(items, contents[n], ScriptSuffixes, {"Cypress"})
            => Places(items, set) = {}
    <2>1. "Robot Framework" \notin {"pytest"} /\ "Robot Framework" \notin {"Playwright"}
          /\ "Robot Framework" \notin {"Cypress"}
      OBVIOUS
    <2> HIDE DEF set
    <2> QED
      BY <1>3, <2>1
  <1>5. \A n \in DOMAIN contents :
            IsFiniteSet(java[n]) /\ Cardinality(java[n]) = Cardinality(Places(JavaTests(contents[n]), set))
    <2>1. ASSUME NEW n \in DOMAIN contents PROVE Places(JavaTests(contents[n]), set) = {}
      <3>1. Told(JavaTests(contents[n]), contents[n], {".java"}, JavaRunners)
        BY <1>2, TestsTold
      <3>2. "Robot Framework" \notin JavaRunners
        BY DEF JavaRunners
      <3> HIDE DEF set
      <3> QED
        BY <1>3, <3>1, <3>2
    <2>2. IsFiniteSet({})
      BY FS_EmptySet
    <2> HIDE DEF set
    <2> QED
      BY <2>1, <2>2
  <1>6. \A n \in DOMAIN contents : ToSet(RobotTests(contents[n])) \subseteq ToSet(tests)
    <2>1. ToSet(tests) = UNION {TestsIn(contents[i]) : i \in DOMAIN contents}
      BY <1>1, TestsListed
    <2>2. \A n : ToSet(RobotTests(contents[n])) \subseteq TestsIn(contents[n])
      BY DEF TestsIn
    <2> HIDE DEF tests
    <2> QED
      BY <2>1, <2>2
  <1>7. ASSUME NEW n \in DOMAIN contents
        PROVE  /\ IsFiniteSet(cases(contents[n]))
               /\ Cardinality(cases(contents[n])) = Cardinality(Places(RobotTests(contents[n]), set))
    <2> DEFINE file == contents[n]
    <2>1. CASE file.suffix = ".robot"
      <3>1. RobotTests(file) = Scanned(file, RobotFound(file)) /\ cases(file) = DOMAIN RobotFound(file)
        BY <2>1 DEF RobotTests, RobotFound
      <3>2. DOMAIN RobotFound(file) \subseteq DOMAIN file.lines
        BY DEF RobotFound, ItemsOf
      <3>3. ASSUME NEW l \in DOMAIN RobotFound(file) PROVE RobotFound(file)[l] \in set
        <4> DEFINE all == {RobotFound(file)[i] : i \in DOMAIN RobotFound(file)}
        <4>1. \A i \in DOMAIN RobotFound(file) : RobotFound(file)[i] \in all
          OBVIOUS
        <4> HIDE DEF all
        <4>2. ToSet(RobotTests(file)) = {RobotFound(file)[i] : i \in DOMAIN RobotFound(file)}
          BY <1>2, <3>1, <3>2, <4>1, PlacesOfScan
        <4>3. RobotFound(file)[l].technology = "Robot Framework"
          BY DEF RobotFound, Test
        <4> QED
          BY <1>6, <4>2, <4>3
      <3> HIDE DEF file, set, cases
      <3>4. HasLines(file)
        BY <1>2 DEF file
      <3>5. /\ IsFiniteSet(DOMAIN RobotFound(file))
            /\ Cardinality(Places(Scanned(file, RobotFound(file)), set)) = Cardinality(DOMAIN RobotFound(file))
        BY <3>2, <3>3, <3>4, PlacesOfScan
      <3> QED
        BY <3>1, <3>5 DEF file
    <2>2. CASE file.suffix # ".robot"
      <3>1. cases(file) = {}
        BY <2>2
      <3>2. RobotTests(file) = <<>>
        BY <2>2 DEF RobotTests
      <3>3. Places(<<>>, set) = {} /\ IsFiniteSet({})
        BY FS_EmptySet DEF Places
      <3> QED
        BY <3>1, <3>2, <3>3
    <2> QED
      BY <2>1, <2>2
  <1>8. \A n \in DOMAIN contents :
            IsFiniteSet(robot[n]) /\ Cardinality(robot[n]) = Cardinality(Places(RobotTests(contents[n]), set))
    <2> HIDE DEF set, cases
    <2> QED
      BY <1>7
  <1>9. Marked(contents, java) = 0
    <2>1. UNION {{n} \X java[n] : n \in DOMAIN contents} = {}
      OBVIOUS
    <2> QED
      BY <2>1, FS_EmptySet DEF Marked
  \* The items of the suites and those of the resources lie apart.
  <1>10. RobotStructure(contents).test_cases = Marked(contents, robot) + CasesOfResources(contents)
    <2> DEFINE places == {k \in DOMAIN contents : contents[k].suffix \in RobotSuffixes}
               resources == {k \in DOMAIN contents : contents[k].suffix = ".resource"}
               items(k) == ItemsOf(contents[k], "test_cases")
               All == UNION {{k} \X items(k) : k \in places}
               Suites == UNION {{n} \X robot[n] : n \in DOMAIN contents}
               Shared == UNION {{k} \X items(k) : k \in resources}
    <2>1. RobotStructure(contents).test_cases = Cardinality(All)
      BY DEF RobotStructure
    <2>2. \A n \in DOMAIN contents :
             /\ n \in places <=> contents[n].suffix = ".robot" \/ n \in resources
             /\ n \in resources => contents[n].suffix # ".robot"
             /\ robot[n] = IF contents[n].suffix = ".robot" THEN items(n) ELSE {}
      BY DEF RobotSuffixes
    <2>3. places \subseteq DOMAIN contents /\ resources \subseteq DOMAIN contents
      OBVIOUS
    <2>4. \A k \in DOMAIN contents : items(k) \subseteq DOMAIN contents[k].lines
      BY DEF ItemsOf
    <2>5. IsFiniteSet(LinesOf(contents))
      BY <1>1, LinesAreFinite
    <2> HIDE DEF places, resources, items, robot
    <2>6. All = Suites \cup Shared
      BY <2>2, <2>3
    <2>7. Suites \cap Shared = {}
      BY <2>2, <2>3
    <2>8. All \subseteq LinesOf(contents)
      BY <2>3, <2>4 DEF LinesOf
    <2> HIDE DEF All, Suites, Shared
    <2>9. IsFiniteSet(Suites) /\ IsFiniteSet(Shared)
      BY <2>5, <2>6, <2>8, FS_Subset
    <2>10. Cardinality(All) = Cardinality(Suites) + Cardinality(Shared) - Cardinality(Suites \cap Shared)
      BY <2>6, <2>9, FS_Union
    <2>11. Cardinality(Suites \cap Shared) = 0
      BY <2>7, FS_EmptySet
    <2>12. Cardinality(Suites) \in Nat /\ Cardinality(Shared) \in Nat
      BY <2>9, FS_CardinalityType
    <2>13. Cardinality(All) = Cardinality(Suites) + Cardinality(Shared)
      BY <2>10, <2>11, <2>12
    <2>14. Cardinality(Suites) = Marked(contents, robot) /\ Cardinality(Shared) = CasesOfResources(contents)
      BY Zenon DEF Marked, CasesOfResources, Suites, Shared, resources, items
    <2> QED
      BY <2>1, <2>13, <2>14, Zenon
  <1>11. found = Places(tests, set)
    <2>1. \A k \in DOMAIN tests : tests[k] \in ToSet(tests)
      BY DEF ToSet
    <2> QED
      BY <2>1 DEF Places
  <1>12. /\ Cardinality(Places(tests, set)) = Marked(contents, java) + Marked(contents, robot)
         /\ Marked(contents, robot) \in Nat
    <2> HIDE DEF set, java, robot
    <2>1. Marking(contents, set, java, robot)
      BY <1>4, <1>5, <1>8 DEF Marking
    <2> QED
      BY <1>1, <2>1, TestsCounted
  <1> DEFINE P == Cardinality(Places(tests, set))
             J == Marked(contents, java)
             R == Marked(contents, robot)
  <1>13. P = J + R /\ J = 0 /\ R \in Nat
    BY <1>9, <1>12
  <1> HIDE DEF P, J, R
  <1>14. P = R
    BY <1>13
  <1> QED
    BY <1>10, <1>11, <1>14, Zenon DEF P, R

\* Whatever two versions it was made of, the inventory of a report is exact.
LEMMA ToldExactly ==
  ASSUME NEW r \in PossibleReports
  PROVE  r \in JavaListed \cap RobotCounted
  <1> DEFINE files == CollectFiles(r.root, Versions[r.files])
             contents == ReadTextFiles(files, Versions[r.contents])
             counted == {PathOf(f) : f \in ToSet(files)}
             analysis == AnalysisOf[r]
  <1>1. analysis = Analysis(files, contents)
    BY AnalysisAssumption DEF Analyses
  <1>2. IsSequence(files) /\ OnePathEach(files)
    BY ReportsOfVersions, Collected
  <1>3. WasRead(contents, counted) /\ ToSet(contents) \subseteq ToSet(Versions[r.contents])
    BY <1>2, ReportsOfVersions, Read
  <1>4. contents = ContentsOf(r)
    BY DEF ContentsOf
  <1> HIDE DEF analysis, files, contents, counted
  <1>5. analysis.tests = ExtractTests(contents) /\ analysis.robot = RobotStructure(contents)
    BY <1>1 DEF Analysis
  <1>6. r \in RobotCounted
    <2>1. RobotAgrees(analysis, contents)
      BY <1>3, <1>5, RobotExact DEF RobotAgrees
    <2> QED
      BY <1>4, <2>1 DEF RobotCounted, analysis
  <1>7. ASSUME NEW f \in ToSet(contents), f.suffix = ".java" /\ RunnerForFile(f) # None
        PROVE  Lists(analysis.tests, f)
    <2>1. IsJavaTest(f)
      BY <1>7 DEF IsJavaTest
    <2> QED
      BY <1>3, <1>5, <2>1, JavaExact DEF Lists
  <1>8. r \in JavaListed
    BY <1>4, <1>7, Zenon DEF JavaListed, ListsJava, analysis
  <1> QED
    BY <1>6, <1>8

\* Whatever the sources: a report lists every plain Java test once, under its
\* class, and besides one entry for each stray annotation; it lists the Robot
\* test cases that it counts, but for those in resources.
THEOREM InventoryIsExactHolds == Spec => []InventoryIsExact
<1>1. TInv => InventoryIsExact
  <2> SUFFICES ASSUME TInv, NEW r \in Saved PROVE r \in JavaListed \cap RobotCounted
    BY DEF InventoryIsExact
  <2>1. r \in PossibleReports \cup {Absent, Torn} /\ IsReport(r)
    BY DEF TInv, TypeOK, Saved
  <2>2. r \in PossibleReports
    BY <2>1 DEF IsReport, Absent, Torn
  <2> QED
    BY <2>2, ToldExactly
<1> QED
  BY TypedHolds, <1>1, PTL
-----------------------------------------------------------------------------
(* Every test has guidance. *)

\* What a test of this technology was found in.
ComesFrom(technology, file) ==
    \/ technology \in AlreadyThisStack
    \/ technology = "TestNG" /\ file.suffix = ".java" /\ Mentions(file, "org.testng")
    \/ technology = "JUnit" /\ file.suffix = ".java" /\ Mentions(file, "org.junit")
    \/ /\ technology = "Cypress" /\ file.suffix \in ScriptSuffixes
       /\ MentionsAny(file, {"cypress", "cy.visit(", "cy.get("})
    \/ technology = "Robot Framework" /\ file.suffix = ".robot" /\ ItemsOf(file, "test_cases") # {}

LEMMA ElementsOfScan ==
  ASSUME NEW file, HasLines(file), NEW found, DOMAIN found \subseteq DOMAIN file.lines
  PROVE  ToSet(Scanned(file, found)) = {found[n] : n \in DOMAIN found}
  <1> DEFINE all == {found[n] : n \in DOMAIN found}
  <1>1. \A n \in DOMAIN found : found[n] \in all
    OBVIOUS
  <1> HIDE DEF all
  <1> QED
    BY <1>1, PlacesOfScan

\* Every test in the inventory was found in a file that it can come from.
LEMMA TestsComeFrom ==
  ASSUME NEW contents, IsSequence(contents), \A file \in ToSet(contents) : HasLines(file),
         NEW t \in ToSet(ExtractTests(contents))
  PROVE  \E file \in ToSet(contents) : ComesFrom(t.technology, file)
  <1>1. PICK n \in DOMAIN contents : t \in TestsIn(contents[n])
    <2>1. ToSet(ExtractTests(contents)) = UNION {TestsIn(contents[n]) : n \in DOMAIN contents}
      BY TestsListed
    <2> QED
      BY <2>1
  <1> DEFINE file == contents[n]
  <1>2. file \in ToSet(contents) /\ HasLines(file)
    BY DEF ToSet
  <1> HIDE DEF file
  <1>3. /\ Told(JavaTests(file), file, {".java"}, JavaRunners)
        /\ Told(PytestTests(file), file, {".py"}, {"pytest"})
        /\ Told(PlaywrightTests(file), file, ScriptSuffixes, {"Playwright"})
        /\ Told(CypressTests(file), file, ScriptSuffixes, {"Cypress"})
        /\ Told(RobotTests(file), file, {".robot"}, {"Robot Framework"})
    BY <1>2, TestsTold
  <1>4. ToSet(<<>>) = {}
    BY ShortLists
  <1>5. CASE t \in ToSet(JavaTests(file))
    <2>1. file.suffix = ".java" /\ t.technology \in JavaRunners
      BY <1>3, <1>5 DEF Told
    <2>2. JavaTests(file) = Scanned(file, JavaFound(file))
      BY <1>4, <1>5 DEF JavaTests
    <2>3. PICK l \in DOMAIN JavaFound(file) : t = JavaFound(file)[l]
      <3>1. DOMAIN JavaFound(file) \subseteq DOMAIN file.lines
        BY DEF JavaFound
      <3>2. ToSet(JavaTests(file)) = {JavaFound(file)[l] : l \in DOMAIN JavaFound(file)}
        BY <1>2, <2>2, <3>1, ElementsOfScan
      <3> QED
        BY <1>5, <3>2
    <2>4. t.technology = RunnerForFile(file)
      BY <2>3 DEF JavaFound, Test
    <2>5. ComesFrom(t.technology, file)
      BY <2>1, <2>4 DEF RunnerForFile, JavaRunners, ComesFrom
    <2> QED
      BY <1>2, <2>5
  <1>6. CASE t \in ToSet(PytestTests(file)) \cup ToSet(PlaywrightTests(file))
    <2>1. ComesFrom(t.technology, file)
      BY <1>3, <1>6 DEF Told, ComesFrom, AlreadyThisStack
    <2> QED
      BY <1>2, <2>1
  <1>7. CASE t \in ToSet(CypressTests(file))
    <2>1. MentionsAny(file, {"cypress", "cy.visit(", "cy.get("})
      BY <1>4, <1>7 DEF CypressTests
    <2>2. ComesFrom(t.technology, file)
      BY <1>3, <1>7, <2>1 DEF Told, ComesFrom
    <2> QED
      BY <1>2, <2>2
  <1>8. CASE t \in ToSet(RobotTests(file))
    <2>1. file.suffix = ".robot" /\ t.technology = "Robot Framework"
      BY <1>3, <1>8 DEF Told
    <2>2. DOMAIN RobotFound(file) = ItemsOf(file, "test_cases")
      BY DEF RobotFound
    <2>3. ItemsOf(file, "test_cases") # {}
      <3>1. DOMAIN RobotFound(file) \subseteq DOMAIN file.lines
        BY <2>2 DEF ItemsOf
      <3>2. ToSet(RobotTests(file)) = {RobotFound(file)[l] : l \in DOMAIN RobotFound(file)}
        BY <1>2, <2>1, <3>1, ElementsOfScan DEF RobotTests
      <3> QED
        BY <1>8, <2>2, <3>2
    <2>4. ComesFrom(t.technology, file)
      BY <2>1, <2>3 DEF ComesFrom
    <2> QED
      BY <1>2, <2>4
  <1> QED
    BY <1>1, <1>5, <1>6, <1>7, <1>8 DEF TestsIn, file

\* The adapters that know the technologies of tests, by the tokens that the
\* extractors look for.
LEMMA AdaptersKnown ==
  /\ IsSequence(DefaultAdapters)
  /\ {".java"} \cup ScriptSuffixes \subseteq TextExtensions
  /\ \E a \in ToSet(DefaultAdapters) :
        a.name = "TestNG" /\ a.suffixes = TextExtensions /\ "org.testng" \in a.tokens
  /\ \E a \in ToSet(DefaultAdapters) :
        a.name = "JUnit" /\ a.suffixes = TextExtensions /\ "org.junit" \in a.tokens
  /\ \E a \in ToSet(DefaultAdapters) :
        a.name = "Cypress" /\ a.suffixes = TextExtensions /\ a.tokens = {"cypress", "cy.visit(", "cy.get("}
  <1>1. IsSequence(UIAdapters) /\ UIAdapters[3] \in ToSet(UIAdapters)
    <2>1. UIAdapters = [n \in 1 .. 4 |-> UIAdapters[n]]
      BY DEF UIAdapters
    <2>2. IsSequence(UIAdapters) /\ DOMAIN UIAdapters = 1 .. 4
      BY <2>1, ListOfResults
    <2> QED
      BY <2>2 DEF ToSet
  <1>2. IsSequence(RunnerAdapters) /\ RunnerAdapters[2] \in ToSet(RunnerAdapters)
        /\ RunnerAdapters[3] \in ToSet(RunnerAdapters)
    <2>1. RunnerAdapters = [n \in 1 .. 5 |-> RunnerAdapters[n]]
      BY DEF RunnerAdapters
    <2>2. IsSequence(RunnerAdapters) /\ DOMAIN RunnerAdapters = 1 .. 5
      BY <2>1, ListOfResults
    <2> QED
      BY <2>2 DEF ToSet
  <1>3. IsSequence(RobotAdapters)
    <2>1. RobotAdapters = [n \in 1 .. 4 |-> RobotAdapters[n]]
      BY DEF RobotAdapters
    <2> QED
      BY <2>1, ListOfResults
  <1>4. IsSequence(UIAdapters \o RunnerAdapters)
        /\ ToSet(UIAdapters \o RunnerAdapters) = ToSet(UIAdapters) \cup ToSet(RunnerAdapters)
    BY <1>1, <1>2, ListsJoined
  <1>5. IsSequence(DefaultAdapters)
        /\ ToSet(DefaultAdapters) = ToSet(UIAdapters \o RunnerAdapters) \cup ToSet(RobotAdapters)
    BY <1>3, <1>4, ListsJoined DEF DefaultAdapters
  <1>6. {".java"} \cup ScriptSuffixes \subseteq TextExtensions
    BY DEF ScriptSuffixes, TextExtensions, SourceExtensions
  <1>7. /\ RunnerAdapters[3].name = "TestNG" /\ RunnerAdapters[3].suffixes = TextExtensions
        /\ "org.testng" \in RunnerAdapters[3].tokens
    BY DEF RunnerAdapters, Adapter, AnySuffix
  <1>8. /\ RunnerAdapters[2].name = "JUnit" /\ RunnerAdapters[2].suffixes = TextExtensions
        /\ "org.junit" \in RunnerAdapters[2].tokens
    BY DEF RunnerAdapters, Adapter, AnySuffix
  <1>9. /\ UIAdapters[3].name = "Cypress" /\ UIAdapters[3].suffixes = TextExtensions
        /\ UIAdapters[3].tokens = {"cypress", "cy.visit(", "cy.get("}
    BY DEF UIAdapters, Adapter, AnySuffix
  <1> QED
    BY <1>1, <1>2, <1>4, <1>5, <1>6, <1>7, <1>8, <1>9

\* What is detected is a list, by the names of the adapters that found something.
LEMMA DetectedIsList ==
  ASSUME NEW contents, IsSequence(contents)
  PROVE  LET found == Among(DefaultAdapters, {a \in ToSet(DefaultAdapters) : Hits(a, contents) # <<>>})
         IN  /\ IsSequence(Detected(contents)) /\ DOMAIN Detected(contents) = DOMAIN found
             /\ \A n \in DOMAIN found : Detected(contents)[n].name = found[n].name
  <1> DEFINE set == {a \in ToSet(DefaultAdapters) : Hits(a, contents) # <<>>}
             found == Among(DefaultAdapters, set)
  <1>1. /\ DOMAIN Detected(contents) = DOMAIN found
        /\ Detected(contents) = [n \in DOMAIN found |-> Detected(contents)[n]]
        /\ \A n \in DOMAIN found : Detected(contents)[n].name = found[n].name
    BY DEF Detected
  <1>2. IsSequence(found)
    <2> HIDE DEF set
    <2> QED
      BY AdaptersKnown, AmongLists
  <1>3. IsSequence(Detected(contents))
    <2> HIDE DEF found
    <2>1. DOMAIN found = 1 .. Len(found) /\ Len(found) \in Nat
      BY <1>2, ListDomain
    <2> QED
      BY <1>1, <2>1, ListOfResults
  <1> QED
    BY <1>1, <1>3

\* An adapter that finds its tokens in a file is detected.
LEMMA AdapterDetected ==
  ASSUME NEW contents, IsSequence(contents), NEW a \in ToSet(DefaultAdapters), a.name # "Robot Framework",
         NEW f \in ToSet(contents), f.suffix \in a.suffixes, MentionsAny(f, a.tokens)
  PROVE  \E d \in ToSet(Detected(contents)) : d.name = a.name
  <1> DEFINE found == Among(DefaultAdapters, {b \in ToSet(DefaultAdapters) : Hits(b, contents) # <<>>})
             own == CASE a.name = "pytest" ->
                           Among(contents, {g \in ToSet(contents) : g.name \in {"pytest.ini", "conftest.py"}})
                      [] a.name = "Robot Framework" ->
                           Among(contents, {g \in ToSet(contents) : g.suffix \in RobotSuffixes})
                      [] OTHER -> <<>>
  <1>1. Hits(a, contents) # <<>>
    <2>1. IsSequence(own)
      <3>1. \A set : IsSequence(Among(contents, set))
        BY AmongLists
      <3> QED
        BY <3>1, ShortLists
    <2>2. IsSequence(Matches(a, contents)) /\ f \in ToSet(Matches(a, contents))
      <3> DEFINE set == {g \in ToSet(contents) : g.suffix \in a.suffixes /\ MentionsAny(g, a.tokens)}
      <3>1. f \in set
        OBVIOUS
      <3>2. Matches(a, contents) = Among(contents, set)
        BY DEF Matches
      <3> HIDE DEF set
      <3> QED
        BY <3>1, <3>2, AmongLists
    <2>3. Hits(a, contents) = Matches(a, contents) \o own
      BY DEF Hits
    <2> HIDE DEF own
    <2>4. ToSet(Matches(a, contents) \o own) = ToSet(Matches(a, contents)) \cup ToSet(own)
      BY <2>1, <2>2, ListsJoined
    <2> QED
      BY <2>2, <2>3, <2>4, ShortLists
  <1>2. IsSequence(found) /\ a \in ToSet(found)
    <2> DEFINE set == {b \in ToSet(DefaultAdapters) : Hits(b, contents) # <<>>}
    <2>1. a \in set
      BY <1>1
    <2>2. found = Among(DefaultAdapters, set)
      OBVIOUS
    <2>3. IsSequence(DefaultAdapters)
      BY AdaptersKnown
    <2> HIDE DEF set, found
    <2> QED
      BY <2>1, <2>2, <2>3, AmongLists
  <1>3. DOMAIN Detected(contents) = DOMAIN found
        /\ \A n \in DOMAIN found : Detected(contents)[n].name = found[n].name
    BY DetectedIsList
  <1> HIDE DEF found
  <1>4. PICK n \in DOMAIN found : found[n] = a
    BY <1>2 DEF ToSet
  <1>5. Detected(contents)[n] \in ToSet(Detected(contents)) /\ Detected(contents)[n].name = a.name
    BY <1>3, <1>4 DEF ToSet
  <1> QED
    BY <1>5

\* A table of mappings: first the ones of what was detected, then Robot
\* Framework's own, of which the one for test cases comes first.
Tables(analysis, own, robot) ==
    /\ LookupMappings(analysis) = own \o robot /\ IsSequence(own) /\ IsSequence(robot)
    /\ \A m \in ToSet(own) : m.source \in DOMAIN TechnologyMappings
    /\ \A d \in ToSet(analysis.detected) :
          d.name \in DOMAIN TechnologyMappings => \E m \in ToSet(own) : m.source = d.name
    /\ analysis.robot.present /\ analysis.robot["test_cases"] > 0 =>
          1 \in DOMAIN robot /\ robot[1] = RobotMapping("Test Case", "pytest test function")

LEMMA TablesOf ==
  ASSUME NEW analysis, IsSequence(analysis.detected)
  PROVE  \E own, robot : Tables(analysis, own, robot)
  <1> DEFINE detected == analysis.detected
             mapped == {d \in ToSet(detected) : d.name \in DOMAIN TechnologyMappings}
             known == Among(detected, mapped)
             positive == {m \in ToSet(RobotCountMappings) : analysis.robot[m[1]] > 0}
             used == {m \in ToSet(RobotFlagMappings) : m[1] \in analysis.robot.lifecycle}
             counted == Among(RobotCountMappings, positive)
             flagged == Among(RobotFlagMappings, used)
             rows == IF analysis.robot.present THEN counted \o flagged ELSE <<>>
             own == [n \in DOMAIN known |-> TechnologyMappings[known[n].name]]
             robot == [n \in DOMAIN rows |-> rows[n][2]]
  <1>1. LookupMappings(analysis) = own \o robot
    BY DEF LookupMappings
  <1>2. IsSequence(known) /\ ToSet(known) = ToSet(detected) \cap mapped
    <2> HIDE DEF mapped
    <2> QED
      BY AmongLists
  <1>3. \A d \in mapped : d \in ToSet(detected)
    OBVIOUS
  <1>4. IsSequence(own)
    <2> HIDE DEF known
    <2>1. Len(known) \in Nat /\ DOMAIN known = 1 .. Len(known)
      BY <1>2, ListDomain
    <2>2. own = [n \in DOMAIN known |-> own[n]]
      OBVIOUS
    <2> HIDE DEF own
    <2> QED
      BY <2>1, <2>2, ListOfResults
  <1>5. \A t \in DOMAIN TechnologyMappings : TechnologyMappings[t].source = t
    BY DEF TechnologyMappings, Mapping, BrowserDrivers, ForeignRunners, HttpLibraries
  <1>6. \A n \in DOMAIN known : known[n] \in mapped /\ own[n].source = known[n].name
    <2>1. \A n \in DOMAIN known : known[n] \in ToSet(known)
      BY DEF ToSet
    <2>2. \A n \in DOMAIN known : known[n] \in mapped
      <3> HIDE DEF mapped, known
      <3> QED
        BY <1>2, <2>1
    <2>3. \A n \in DOMAIN known : known[n].name \in DOMAIN TechnologyMappings
      <3>1. \A d \in mapped : d.name \in DOMAIN TechnologyMappings
        OBVIOUS
      <3> HIDE DEF mapped, known
      <3> QED
        BY <2>2, <3>1
    <2> HIDE DEF mapped, known
    <2> QED
      BY <1>5, <2>2, <2>3
  <1>7. \A m \in ToSet(own) : m.source \in DOMAIN TechnologyMappings
    <2>1. \A d \in mapped : d.name \in DOMAIN TechnologyMappings
      OBVIOUS
    <2>2. \A m \in ToSet(own) : \E n \in DOMAIN known : m = own[n]
      BY DEF ToSet
    <2> HIDE DEF own, known, mapped
    <2> QED
      BY <1>6, <2>1, <2>2
  <1>8. ASSUME NEW d \in ToSet(detected), d.name \in DOMAIN TechnologyMappings
        PROVE  \E m \in ToSet(own) : m.source = d.name
    <2>1. d \in mapped
      BY <1>8
    <2>2. d \in ToSet(known)
      <3> HIDE DEF mapped, known
      <3> QED
        BY <1>2, <2>1
    <2>3. PICK n \in DOMAIN known : known[n] = d
      BY <2>2 DEF ToSet
    <2>4. own[n] \in ToSet(own)
      BY DEF ToSet
    <2> HIDE DEF own, known
    <2> QED
      BY <1>6, <2>3, <2>4
  <1>9. IsSequence(RobotCountMappings) /\ IsSequence(RobotFlagMappings)
    <2>1. RobotCountMappings = [n \in 1 .. 4 |-> RobotCountMappings[n]]
      BY DEF RobotCountMappings
    <2>2. RobotFlagMappings = [n \in 1 .. 4 |-> RobotFlagMappings[n]]
      BY DEF RobotFlagMappings
    <2> QED
      BY <2>1, <2>2, ListOfResults
  <1>10. IsSequence(counted) /\ IsSequence(flagged)
    <2> HIDE DEF positive, used
    <2> QED
      BY <1>9, AmongLists
  <1>11. IsSequence(rows)
    <2>1. IsSequence(counted \o flagged)
      <3> HIDE DEF counted, flagged
      <3> QED
        BY <1>10, ListsJoined
    <2> QED
      BY <2>1, ShortLists
  <1>12. IsSequence(robot)
    <2> HIDE DEF rows
    <2>1. Len(rows) \in Nat /\ DOMAIN rows = 1 .. Len(rows)
      BY <1>11, ListDomain
    <2>2. robot = [n \in DOMAIN rows |-> robot[n]]
      OBVIOUS
    <2> HIDE DEF robot
    <2> QED
      BY <2>1, <2>2, ListOfResults
  <1>13. ASSUME analysis.robot.present, analysis.robot["test_cases"] > 0
         PROVE  1 \in DOMAIN robot /\ robot[1] = RobotMapping("Test Case", "pytest test function")
    <2> DEFINE S == ToSet(RobotCountMappings)
               row == RobotCountMappings[1]
    <2>1. RobotCountMappings \in Seq(S) /\ RobotCountMappings # <<>>
      BY <1>9 DEF RobotCountMappings, IsSequence
    <2>2. row = <<"test_cases", RobotMapping("Test Case", "pytest test function")>>
      BY DEF RobotCountMappings
    <2>3. row \in positive
      <3>1. 1 \in DOMAIN RobotCountMappings
        BY DEF RobotCountMappings
      <3>2. row \in ToSet(RobotCountMappings)
        BY <3>1 DEF ToSet
      <3> HIDE DEF row
      <3>3. row[1] = "test_cases"
        BY <2>2
      <3> QED
        BY <1>13, <3>2, <3>3
    <2>4. 1 \in DOMAIN counted /\ counted[1] = row
      <3> HIDE DEF S, positive
      <3> QED
        BY <2>1, <2>3, AmongFirst
    <2>5. 1 \in DOMAIN rows /\ rows[1] = row
      <3> DEFINE C == ToSet(counted) \cup ToSet(flagged)
      <3>1. rows = counted \o flagged
        BY <1>13
      <3> HIDE DEF counted, flagged, rows, row
      <3>2. counted \in Seq(C) /\ flagged \in Seq(C)
        <4>1. counted \in Seq(ToSet(counted)) /\ flagged \in Seq(ToSet(flagged))
          BY <1>10 DEF IsSequence
        <4>2. ToSet(counted) \subseteq C /\ ToSet(flagged) \subseteq C
          OBVIOUS
        <4> DEFINE P == ToSet(counted)
                   Q == ToSet(flagged)
        <4> HIDE DEF C, P, Q
        <4>3. P \subseteq C /\ Q \subseteq C /\ counted \in Seq(P) /\ flagged \in Seq(Q)
          BY <4>1, <4>2 DEF P, Q
        <4> QED
          BY <4>3, SeqMonotonic
      <3> HIDE DEF C
      <3> QED
        BY <2>4, <3>1, <3>2
    <2> HIDE DEF rows, row
    <2>6. 1 \in DOMAIN robot /\ robot[1] = row[2]
      BY <2>5
    <2>7. row[2] = RobotMapping("Test Case", "pytest test function")
      BY <2>2
    <2> QED
      BY <2>6, <2>7
  <1> HIDE DEF own, robot, detected
  <1>14. Tables(analysis, own, robot)
    BY <1>1, <1>4, <1>7, <1>8, <1>12, <1>13 DEF Tables, detected
  <1> QED
    BY <1>14

\* The first mapping of a technology, as _guidance_for takes it.
FirstOf(mappings, technology) == SelectInSeq(mappings, LAMBDA m : m.source = technology)
LEMMA FirstMapping ==
  ASSUME NEW mappings, IsSequence(mappings), NEW technology, NEW k \in DOMAIN mappings,
         mappings[k].source = technology
  PROVE  LET first == FirstOf(mappings, technology)
         IN  /\ first # 0 /\ first \in DOMAIN mappings /\ mappings[first].source = technology
             /\ first <= k
  <1> DEFINE I == {i \in 1 .. Len(mappings) : mappings[i].source = technology}
             first == FirstOf(mappings, technology)
  <1>1. first = IF I # {} THEN Min(I) ELSE 0
    BY DEF SelectInSeq, FirstOf
  <1>2. DOMAIN mappings = 1 .. Len(mappings) /\ Len(mappings) \in Nat
    BY ListDomain
  <1>3. k \in I /\ I \in SUBSET Nat
    BY <1>2
  <1>4. \A i \in I : i \in DOMAIN mappings /\ mappings[i].source = technology /\ i # 0
    BY <1>2
  <1> HIDE DEF I, first
  <1>5. first \in I /\ first <= k
    BY <1>1, <1>3, LeastNumber
  <1> QED
    BY <1>4, <1>5 DEF first

\* What guidance must be.
Explained(t, mappings, guidance) ==
    /\ guidance.status # "unknown"
    /\ guidance.status = "conceptually_mappable" => \E m \in ToSet(mappings) : m.target = guidance.target
    /\ t.technology = "Robot Framework" => guidance.target = "pytest test function"

\* A test of this framework's own technologies, or with a mapping, is explained;
\* a Robot test also needs the mapping of test cases to come first.
LEMMA Guidance ==
  ASSUME NEW t, NEW mappings, IsSequence(mappings),
         \/ t.technology \in AlreadyThisStack
         \/ /\ t.technology # "Robot Framework"
            /\ \E m \in ToSet(mappings) : m.source = t.technology
         \/ mappings[FirstOf(mappings, t.technology)].target = "pytest test function"
            /\ \E m \in ToSet(mappings) : m.source = t.technology
  PROVE  Explained(t, mappings, GuidanceFor(t, mappings))
  <1> DEFINE first == FirstOf(mappings, t.technology)
             guidance == GuidanceFor(t, mappings)
  <1>1. CASE t.technology \in AlreadyThisStack
    <2>1. guidance = [target |-> t.technology, status |-> "directly_reusable"]
      BY <1>1 DEF GuidanceFor
    <2> HIDE DEF guidance
    <2>2. guidance.status = "directly_reusable"
      BY <2>1
    <2>3. t.technology # "Robot Framework"
      BY <1>1 DEF AlreadyThisStack
    <2> QED
      BY <2>2, <2>3 DEF Explained, guidance
  <1>2. CASE t.technology \notin AlreadyThisStack
    <2>1. PICK k \in DOMAIN mappings : mappings[k].source = t.technology
      BY <1>2 DEF ToSet
    <2>2. first # 0 /\ first \in DOMAIN mappings
      BY <2>1, FirstMapping
    <2>3. guidance = [target |-> mappings[first].target, status |-> "conceptually_mappable"]
      BY <1>2, <2>2 DEF GuidanceFor, FirstOf
    <2>4. mappings[first] \in ToSet(mappings)
      BY <2>2 DEF ToSet
    <2>5. t.technology = "Robot Framework" => mappings[first].target = "pytest test function"
      BY <1>2
    <2> HIDE DEF first, guidance
    <2>6. guidance.status = "conceptually_mappable" /\ guidance.target = mappings[first].target
      BY <2>3
    <2> QED
      BY <2>4, <2>5, <2>6 DEF Explained, guidance
  <1> QED
    BY <1>1, <1>2

LEMMA FirstOfSecond ==
  ASSUME NEW a, NEW b, IsSequence(a), IsSequence(b), 1 \in DOMAIN b
  PROVE  LET k == Len(a) + 1
         IN  /\ k \in DOMAIN (a \o b) /\ (a \o b)[k] = b[1] /\ k \in Nat
             /\ \A i \in DOMAIN (a \o b) : i \in Nat /\ (i < k => (a \o b)[i] \in ToSet(a))
  <1> DEFINE A == ToSet(a)
             B == ToSet(b)
             C == A \cup B
  <1>1. a \in Seq(A) /\ b \in Seq(B) /\ A \subseteq C /\ B \subseteq C
    BY DEF IsSequence
  <1>2. \A i \in DOMAIN a : a[i] \in ToSet(a)
    BY DEF ToSet
  <1> HIDE DEF A, B, C
  <1>3. a \in Seq(C) /\ b \in Seq(C)
    BY <1>1, SeqMonotonic
  <1>4. /\ Len(a) \in Nat /\ Len(b) \in Nat /\ DOMAIN a = 1 .. Len(a) /\ DOMAIN b = 1 .. Len(b)
        /\ DOMAIN (a \o b) = 1 .. Len(a) + Len(b)
        /\ \A i \in 1 .. Len(a) + Len(b) : (a \o b)[i] = IF i <= Len(a) THEN a[i] ELSE b[i - Len(a)]
    BY <1>3
  <1> DEFINE c == a \o b
  <1>5. ASSUME NEW i \in DOMAIN c, i < Len(a) + 1 PROVE c[i] \in ToSet(a)
    <2>1. i \in 1 .. Len(a) /\ c[i] = a[i]
      BY <1>4, <1>5
    <2> QED
      BY <1>2, <1>4, <2>1
  <1>6. Len(a) + 1 \in DOMAIN c /\ c[Len(a) + 1] = b[1]
    BY <1>4
  <1> QED
    BY <1>4, <1>5, <1>6

\* A Robot file with a test case shows in the structure.
LEMMA RobotIsPresent ==
  ASSUME NEW contents, IsSequence(contents), \A file \in ToSet(contents) : HasLines(file),
         NEW file \in ToSet(contents), file.suffix = ".robot", ItemsOf(file, "test_cases") # {}
  PROVE  RobotStructure(contents).present /\ RobotStructure(contents)["test_cases"] > 0
  <1> DEFINE robots == {f \in ToSet(contents) : f.suffix \in RobotSuffixes}
             robot == Among(contents, robots)
             places == {k \in DOMAIN contents : contents[k].suffix \in RobotSuffixes}
             pairs(k) == {k} \X ItemsOf(contents[k], "test_cases")
             all == UNION {pairs(k) : k \in places}
  <1>1. RobotStructure(contents).present = (robot # <<>>)
    BY DEF RobotStructure
  <1>2. RobotStructure(contents)["test_cases"] = Cardinality(all)
    BY DEF RobotStructure
  <1>3. robot # <<>>
    <2>1. file \in robots
      BY DEF RobotSuffixes
    <2> HIDE DEF robots
    <2>2. file \in ToSet(robot)
      BY <2>1, AmongLists
    <2> HIDE DEF robot
    <2> QED
      BY <2>2, ShortLists
  <1>4. PICK k \in DOMAIN contents : file = contents[k]
    BY DEF ToSet
  <1>5. k \in places /\ all # {}
    <2>1. k \in places
      BY <1>4 DEF RobotSuffixes
    <2>2. PICK l : l \in ItemsOf(contents[k], "test_cases")
      BY <1>4
    <2>3. <<k, l>> \in pairs(k)
      BY <2>2
    <2> HIDE DEF pairs, places
    <2> QED
      BY <2>1, <2>3
  <1>6. \A i \in DOMAIN contents : IsFiniteSet(pairs(i))
    <2> SUFFICES ASSUME NEW i \in DOMAIN contents PROVE IsFiniteSet(pairs(i))
      OBVIOUS
    <2> DEFINE items == ItemsOf(contents[i], "test_cases")
    <2> DEFINE lines == contents[i].lines
    <2>1. IsSequence(lines)
      BY DEF ToSet, HasLines
    <2>2. items \in SUBSET DOMAIN lines
      BY DEF ItemsOf
    <2> HIDE DEF items, lines
    <2>3. IsFiniteSet(DOMAIN lines)
      <3>1. Len(lines) \in Nat /\ DOMAIN lines = 1 .. Len(lines)
        BY <2>1, ListDomain
      <3> QED
        BY <3>1, FS_Interval
    <2>4. IsFiniteSet(items)
      BY <2>2, <2>3, FS_Subset
    <2>5. IsFiniteSet({i} \X items)
      BY <2>4, FS_Singleton, FS_Product
    <2> QED
      BY <2>5 DEF items
  <1>7. IsFiniteSet(places)
    <2>1. IsFiniteSet(1 .. Len(contents)) /\ DOMAIN contents = 1 .. Len(contents)
      BY ListDomain, FS_Interval
    <2>2. places \in SUBSET DOMAIN contents
      OBVIOUS
    <2> HIDE DEF places
    <2> QED
      BY <2>1, <2>2, FS_Subset
  <1>8. IsFiniteSet(all)
    <2>1. \A i \in places : IsFiniteSet(pairs(i))
      BY <1>6
    <2> HIDE DEF pairs, places
    <2> DEFINE g == [i \in places |-> pairs(i)]
               P == {pairs(i) : i \in places}
    <2>2. g \in [places -> P] /\ \A p \in P : \E i \in places : g[i] = p
      OBVIOUS
    <2>3. g \in Surjection(places, P)
      <3> HIDE DEF g, P
      <3> QED
        BY <2>2 DEF Surjection
    <2>4. \A p \in P : IsFiniteSet(p)
      BY <2>1
    <2> HIDE DEF g, P
    <2>5. IsFiniteSet(P)
      BY <1>7, <2>3, FS_Surjection
    <2>6. IsFiniteSet(UNION P)
      BY <2>4, <2>5, FS_UNION
    <2> QED
      BY <2>6 DEF P
  <1> HIDE DEF all
  <1>9. Cardinality(all) \in Nat /\ Cardinality(all) # 0
    BY <1>5, <1>8, FS_CardinalityType, FS_EmptySet
  <1> DEFINE n == Cardinality(all)
  <1>10. n > 0
    <2> HIDE DEF n
    <2>1. n \in Nat /\ n # 0
      BY <1>9 DEF n
    <2> QED
      BY <2>1
  <1> QED
    BY <1>1, <1>2, <1>3, <1>10

\* Every test of an analysis is explained by its table of mappings.
LEMMA TestsExplained ==
  ASSUME NEW analysis, NEW contents, NEW paths, WasRead(contents, paths),
         analysis.detected = Detected(contents), analysis.robot = RobotStructure(contents),
         NEW t \in ToSet(ExtractTests(contents))
  PROVE  /\ Explained(t, LookupMappings(analysis), GuidanceFor(t, LookupMappings(analysis)))
         /\ t.technology = "Robot Framework" => analysis.robot.present
         /\ IsSequence(LookupMappings(analysis))
  <1> DEFINE mappings == LookupMappings(analysis)
  <1>1. IsSequence(contents) /\ \A file \in ToSet(contents) : HasLines(file)
    BY DEF WasRead
  <1>2. PICK file \in ToSet(contents) : ComesFrom(t.technology, file)
    BY <1>1, TestsComeFrom
  <1>3. IsSequence(Detected(contents))
    BY <1>1, DetectedIsList
  <1>4. PICK own, robot : Tables(analysis, own, robot)
    BY <1>3, TablesOf
  <1>5. mappings = own \o robot /\ IsSequence(own) /\ IsSequence(robot)
    BY <1>4 DEF Tables
  <1> HIDE DEF mappings
  <1>6. IsSequence(mappings) /\ ToSet(mappings) = ToSet(own) \cup ToSet(robot)
    BY <1>5, ListsJoined
  <1>7. CASE t.technology \in AlreadyThisStack
    BY <1>6, <1>7, Guidance DEF AlreadyThisStack, mappings
  <1>8. CASE t.technology \in {"TestNG", "JUnit", "Cypress"}
    <2>1. \E d \in ToSet(Detected(contents)) : d.name = t.technology
      <3>1. PICK a \in ToSet(DefaultAdapters) :
               a.name = t.technology /\ a.suffixes = TextExtensions /\ MentionsAny(file, a.tokens)
        BY <1>2, <1>8, AdaptersKnown DEF ComesFrom, AlreadyThisStack, MentionsAny
      <3>2. file.suffix \in a.suffixes
        BY <1>2, <1>8, <3>1, AdaptersKnown DEF ComesFrom, AlreadyThisStack
      <3> QED
        BY <1>1, <1>8, <3>1, <3>2, AdapterDetected
    <2>2. t.technology \in DOMAIN TechnologyMappings
      BY <1>8 DEF TechnologyMappings, BrowserDrivers, ForeignRunners
    <2>3. \E m \in ToSet(mappings) : m.source = t.technology
      BY <1>4, <1>6, <2>1, <2>2 DEF Tables
    <2> QED
      BY <1>6, <1>8, <2>3, Guidance DEF mappings
  <1>9. CASE t.technology = "Robot Framework"
    <2>1. file.suffix = ".robot" /\ ItemsOf(file, "test_cases") # {}
      BY <1>2, <1>9 DEF ComesFrom, AlreadyThisStack
    <2>2. analysis.robot.present /\ analysis.robot["test_cases"] > 0
      BY <1>1, <2>1, RobotIsPresent
    <2>3. 1 \in DOMAIN robot /\ robot[1] = RobotMapping("Test Case", "pytest test function")
      BY <1>4, <2>2 DEF Tables
    <2>4. robot[1].source = t.technology /\ robot[1].target = "pytest test function"
      <3>1. /\ RobotMapping("Test Case", "pytest test function").source = "Robot Framework"
            /\ RobotMapping("Test Case", "pytest test function").target = "pytest test function"
        BY DEF RobotMapping, Mapping
      <3> QED
        BY <1>9, <2>3, <3>1
    <2>5. \A m \in ToSet(own) : m.source # t.technology
      BY <1>4, <1>9 DEF Tables, TechnologyMappings, BrowserDrivers, ForeignRunners, HttpLibraries
    <2> DEFINE k == Len(own) + 1
               first == FirstOf(mappings, t.technology)
    <2>6. /\ k \in DOMAIN mappings /\ mappings[k] = robot[1] /\ k \in Nat
          /\ \A i \in DOMAIN mappings : i \in Nat /\ (i < k => mappings[i] \in ToSet(own))
      BY <1>5, <2>3, FirstOfSecond
    <2> HIDE DEF k
    <2>7. first \in DOMAIN mappings /\ mappings[first].source = t.technology /\ first <= k
      <3>1. k \in DOMAIN mappings /\ mappings[k].source = t.technology
        BY <2>4, <2>6
      <3> QED
        BY <1>6, <3>1, FirstMapping
    <2>8. first = k
      BY <2>5, <2>6, <2>7
    <2>9. mappings[first].target = "pytest test function" /\ mappings[first] \in ToSet(mappings)
      BY <2>4, <2>6, <2>7, <2>8 DEF ToSet
    <2> HIDE DEF first, k
    <2>10. Explained(t, mappings, GuidanceFor(t, mappings))
      BY <1>6, <2>7, <2>9, Guidance DEF first
    <2> QED
      BY <1>6, <2>2, <2>10 DEF mappings
  <1> QED
    BY <1>2, <1>7, <1>8, <1>9 DEF ComesFrom

\* What a worksheet shows are candidates of the analysis's tests.
LEMMA ShownAreCandidates ==
  ASSUME NEW analysis, IsSequence(analysis.tests), NEW scope, NEW selector, NEW suggestions
  PROVE  LET sheet == Worksheet(analysis, scope, selector, suggestions)
             mappings == LookupMappings(analysis)
         IN  /\ sheet.mappings = mappings /\ sheet.robot = analysis.robot.present
             /\ \A c \in ToSet(sheet.shown) : \E t \in ToSet(analysis.tests) :
                   /\ c.test = t /\ c.target = GuidanceFor(t, mappings).target
                   /\ c.status = GuidanceFor(t, mappings).status
  <1> DEFINE sheet == Worksheet(analysis, scope, selector, suggestions)
             mappings == LookupMappings(analysis)
             tests == analysis.tests
             inScope == {t \in ToSet(tests) : InScope(t, scope, selector)}
             selected == Among(tests, inScope)
             candidates == Candidates(analysis, scope, selector)
             shown == Min({Len(candidates), MaxShown})
  <1>1. /\ sheet.mappings = mappings /\ sheet.robot = analysis.robot.present
        /\ sheet.shown = SubSeq(candidates, 1, shown)
    BY DEF Worksheet
  <1>2. /\ DOMAIN candidates = DOMAIN selected
        /\ candidates = [n \in DOMAIN selected |-> candidates[n]]
        /\ \A n \in DOMAIN selected :
              /\ candidates[n].test = selected[n]
              /\ candidates[n].target = GuidanceFor(selected[n], mappings).target
              /\ candidates[n].status = GuidanceFor(selected[n], mappings).status
    BY DEF Candidates
  <1>3. IsSequence(selected) /\ ToSet(selected) = ToSet(tests) \cap inScope
    <2> HIDE DEF inScope
    <2> QED
      BY AmongLists
  <1>4. \A n \in DOMAIN selected : selected[n] \in ToSet(tests)
    <2>1. \A n \in DOMAIN selected : selected[n] \in ToSet(selected)
      BY DEF ToSet
    <2> HIDE DEF selected, inScope
    <2> QED
      BY <1>3, <2>1
  <1> HIDE DEF selected, candidates, sheet, mappings
  <1>5. IsSequence(candidates)
    <2>1. Len(selected) \in Nat /\ DOMAIN selected = 1 .. Len(selected)
      BY <1>3, ListDomain
    <2> QED
      BY <1>2, <2>1, ListOfResults
  <1>6. \A c \in ToSet(sheet.shown) : \E n \in DOMAIN candidates : c = candidates[n]
    <2> DEFINE L == Len(candidates)
               S == ToSet(candidates)
    <2>1. L \in Nat /\ DOMAIN candidates = 1 .. L /\ candidates \in Seq(S)
      BY <1>5, ListDomain DEF IsSequence
    <2>2. shown \in Nat /\ shown <= L
      <3> DEFINE both == {L, MaxShown}
      <3>1. both \in SUBSET Nat /\ both # {} /\ L \in both
        BY <2>1 DEF MaxShown
      <3>2. shown = Min(both)
        OBVIOUS
      <3> HIDE DEF both, L, shown
      <3>3. Min(both) \in both /\ Min(both) <= L
        BY <3>1, LeastNumber
      <3> QED
        BY <3>1, <3>2, <3>3
    <2> HIDE DEF S, shown, L
    <2>3. /\ DOMAIN SubSeq(candidates, 1, shown) = 1 .. shown
          /\ \A n \in 1 .. shown : SubSeq(candidates, 1, shown)[n] = candidates[n]
      BY <2>1, <2>2 DEF L
    <2>4. \A n \in 1 .. shown : n \in 1 .. L
      BY <2>1, <2>2
    <2> QED
      BY <1>1, <2>1, <2>3, <2>4 DEF ToSet
  <1>7. ASSUME NEW c \in ToSet(sheet.shown)
        PROVE  \E t \in ToSet(tests) : /\ c.test = t /\ c.target = GuidanceFor(t, mappings).target
                                       /\ c.status = GuidanceFor(t, mappings).status
    <2>1. PICK n \in DOMAIN selected : c = candidates[n]
      BY <1>2, <1>6
    <2>2. selected[n] \in ToSet(tests)
      BY <1>4, <2>1
    <2> QED
      BY <1>2, <2>1, <2>2
  <1> QED
    BY <1>1, <1>7 DEF sheet, mappings

\* Whatever report it is made of and whatever it asks for, a worksheet explains
\* every test that it shows.
LEMMA GuidedSheets ==
  ASSUME NEW r \in PossibleReports, NEW scope, NEW selector, NEW suggestions
  PROVE  Guided(Worksheet(AnalysisOf[r], scope, selector, suggestions))
  <1> DEFINE files == CollectFiles(r.root, Versions[r.files])
             contents == ReadTextFiles(files, Versions[r.contents])
             counted == {PathOf(f) : f \in ToSet(files)}
             analysis == AnalysisOf[r]
             sheet == Worksheet(analysis, scope, selector, suggestions)
             mappings == LookupMappings(analysis)
  <1>1. analysis = Analysis(files, contents)
    BY AnalysisAssumption DEF Analyses
  <1>2. WasRead(contents, counted)
    BY ReportsOfVersions, Collected, Read
  <1> HIDE DEF files, contents, counted, analysis
  <1>3. /\ analysis.tests = ExtractTests(contents) /\ analysis.robot = RobotStructure(contents)
        /\ analysis.detected = Detected(contents)
    BY <1>1 DEF Analysis
  <1>4. IsSequence(analysis.tests)
    BY <1>2, <1>3, TestsOfFiles DEF FoundIn
  <1>5. \A t \in ToSet(analysis.tests) :
           /\ Explained(t, mappings, GuidanceFor(t, mappings))
           /\ t.technology = "Robot Framework" => analysis.robot.present
    BY <1>2, <1>3, TestsExplained
  <1> HIDE DEF sheet, mappings
  <1>6. /\ sheet.mappings = mappings /\ sheet.robot = analysis.robot.present
        /\ \A c \in ToSet(sheet.shown) : \E t \in ToSet(analysis.tests) :
              /\ c.test = t /\ c.target = GuidanceFor(t, mappings).target
              /\ c.status = GuidanceFor(t, mappings).status
    BY <1>4, ShownAreCandidates DEF sheet, mappings
  <1>7. ASSUME NEW c \in ToSet(sheet.shown)
        PROVE  /\ c.status # "unknown"
               /\ c.status = "conceptually_mappable" => \E m \in ToSet(sheet.mappings) : m.target = c.target
               /\ c.test.technology = "Robot Framework" => sheet.robot /\ c.target = "pytest test function"
    <2>1. PICK t \in ToSet(analysis.tests) :
             /\ c.test = t /\ c.target = GuidanceFor(t, mappings).target
             /\ c.status = GuidanceFor(t, mappings).status
      BY <1>6
    <2>2. Explained(t, mappings, GuidanceFor(t, mappings)) /\ (t.technology = "Robot Framework" => sheet.robot)
      BY <1>5, <1>6
    <2> QED
      BY <1>6, <2>1, <2>2 DEF Explained
  <1> QED
    BY <1>7 DEF Guided, sheet, analysis

\* A worksheet was made by scaffold, of a report that there may be.
SheetOfReport ==
    worksheet.kind = "worksheet" =>
        worksheet.of \in PossibleReports /\ worksheet.line \in CommandLines /\ worksheet.line.command = "scaffold"
LEMMA SheetOfReportHolds == Spec => []SheetOfReport
  <1>1. Init => SheetOfReport
    <2>1. Init => worksheet = NoWorksheet
      BY DEF Init
    <2>2. NoWorksheet.kind # "worksheet"
      BY DEF NoWorksheet
    <2> QED
      BY <2>1, <2>2 DEF SheetOfReport
  <1>2. TInv /\ SheetOfReport /\ [Next]_vars => SheetOfReport'
    <2> SUFFICES ASSUME TInv, SheetOfReport, [Next]_vars PROVE SheetOfReport'
      OBVIOUS
    <2>1. CASE ScaffoldCommand
      <3> DEFINE r == reports[options.report]
      <3>1. options \in CommandLines /\ options.command = "scaffold" /\ r \in PossibleReports \cup {Absent, Torn}
        BY <2>1, OptionsAssumption DEF TInv, TypeOK, ScaffoldCommand, Running
      <3>2. \/ worksheet' = worksheet
            \/ /\ IsReport(r)
               /\ \E given : worksheet' = [kind |-> "worksheet", of |-> r, line |-> options, suggestions |-> given]
        BY <2>1 DEF ScaffoldCommand, Loads
      <3>3. IsReport(r) => r \in PossibleReports
        BY <3>1 DEF IsReport, Absent, Torn
      <3> HIDE DEF r
      <3> QED
        BY <3>1, <3>2, <3>3 DEF SheetOfReport
    <2>2. CASE UNCHANGED worksheet
      BY <2>2 DEF SheetOfReport
    <2>3. [Next]_vars /\ ~ScaffoldCommand => UNCHANGED worksheet
      BY DEF Next, Start, Edit, Step, AnalyzeStep, OpenDirectory, MakeTempDir, Collect, ReadAndAnalyze, Cleanup,
             OpenReport, WriteReport, WriteFails, FillStep, Fill, ExtractFails, CloneRefused, CloneTimesOut, DiffCommand,
             RecommendCommand, Killed, Stay, vars
    <2> QED
      BY <2>1, <2>2, <2>3
  <1> QED
    BY <1>1, <1>2, TypedHolds, PTL DEF Spec

\* Every test that a worksheet shows has a status, its target is in the
\* worksheet's own table of mappings, and a Robot test becomes a test, whatever
\* the repository, the scope and the selector.
THEOREM EveryTestHasGuidanceHolds == Spec => []EveryTestHasGuidance
<1>1. SheetOfReport => EveryTestHasGuidance
  <2> SUFFICES ASSUME SheetOfReport, worksheet.kind = "worksheet"
               PROVE  \E w \in GuidedWorksheets : w.of = worksheet.of /\ w.line = worksheet.line
    BY DEF EveryTestHasGuidance
  <2> DEFINE lines == {l \in CommandLines : l.command = "scaffold"}
             w == [of |-> worksheet.of, line |-> worksheet.line]
  <2>1. worksheet.of \in PossibleReports /\ worksheet.line \in lines
    BY DEF SheetOfReport
  <2>2. w \in [of : PossibleReports, line : lines]
    BY <2>1
  <2>3. Guided(Worksheet(AnalysisOf[w.of], w.line.scope, w.line.selector, NoSuggestions))
    BY <2>1, GuidedSheets
  <2>4. w \in GuidedWorksheets
    BY <2>2, <2>3 DEF GuidedWorksheets
  <2> QED
    BY <2>4
<1> QED
  BY SheetOfReportHolds, <1>1, PTL
=============================================================================
