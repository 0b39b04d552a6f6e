------------------------------ MODULE TestCases ------------------------------
(***************************************************************************)
(* The golden test runner (testing/logic/compiler_test_cases.cpp) and the  *)
(* loop of lexer_test.cpp and parser_test.cpp that drives it: the tests of *)
(* a directory are collected and executed one by one; in update mode what  *)
(* a test expects is rewritten, inside the very file that is its input.    *)
(* Between two runs the compiler under test may change; nobody else        *)
(* changes a file.                                                         *)
(*                                                                         *)
(* A file is a text over the characters "x" (some construct), the line end *)
(* and those of the delimiters; any other character is nothing a program   *)
(* may hold.  The title of the header is left out.                         *)
(***************************************************************************)
EXTENDS TextUtils, FiniteSets, FiniteSetsExt, SequencesExt, TLC

CONSTANTS
  FileNames,    \* the files of the directory, in the order of their names
  ErrorTests,   \* those with "error_" in their name
  Characters,   \* those of the files and the outputs
  Contents,     \* the texts a file may hold at first
  Compilers,    \* what "x" may be compiled to: [does, text]
  MaxRuns       \* bound: runs of the tests

Names == ToSet(FileNames)

(* A directory holds no name twice.                                        *)
ASSUME FileNamesAssumption ==
  /\ FileNames \in Seq(Names)
  /\ \A i, j \in DOMAIN FileNames : FileNames[i] = FileNames[j] => i = j

ASSUME CharactersAssumption == {"x", "/", "*", "\n", "E", "1"} \subseteq Characters

ASSUME ContentsAssumption == \A text \in Contents : text \in Seq(Characters)

(* What the runners print ends in a line end, if there is any: that of a   *)
(* token, or the one behind a module.                                      *)
ASSUME CompilersAssumption ==
  \A c \in Compilers :
    /\ c.text \in Seq(Characters)
    /\ c.text # <<>> => c.text[Len(c.text)] = "\n"

VARIABLES
  files,        \* the directory
  compiler,     \* the compiler under test
  update_test_cases,  \* CompilerTestExecutionContext
  test_cases,   \* CompilerTestCaseCollection of the run
  outcome,      \* CompilerTestExecutionOutcome of the run
  running,      \* a run is in progress
  runs,         \* runs begun
  settled,      \* per file: successful updates in a row, up to 2 (history)
  lost          \* the files of the run whose new text got lost (history)

history == <<settled, lost>>
vars == <<files, compiler, update_test_cases, test_cases, outcome, running,
          runs, history>>

Header == <<"/", "*", "\n">>
Footer == <<"*", "/">>

-----------------------------------------------------------------------------
(* The test case runner: the program of a text is what the lexer sees of   *)
(* it, without comments and line ends.                                     *)

CommentEnd(text, i, end, from) ==
  LET ends == Occurrences(text, end, i + from)
  IN  IF ends = {} THEN Len(text) + 1 ELSE Min(ends) + Len(end)

Program(text) ==
  LET From[i \in 1 .. Len(text) + 1] ==
        IF AtEnd(text, i) THEN <<>>
        ELSE IF OccursAt(text, <<"/", "/">>, i)
             THEN From[CommentEnd(text, i, <<"\n">>, 2)]
        ELSE IF OccursAt(text, <<"/", "*">>, i)
             THEN From[CommentEnd(text, i, Footer, 2)]
        ELSE IF text[i] = "\n" THEN From[i + 1]
        ELSE <<i>> \o From[i + 1]
  IN  From[1]

Symbols(text) == LET program == Program(text)
                 IN  [k \in DOMAIN program |-> text[program[k]]]

LineOf(text, i) == 1 + Cardinality({k \in 1 .. i - 1 : text[k] = "\n"})

(* The first thing in the program that the compiler does not accept ends   *)
(* the test with a SourceLocationError, which names its line, or with some *)
(* other exception.  The number of the line is written in strokes.         *)
RunTestCase(text) ==
  LET program == Program(text)
      refused == {i \in ToSet(program) :
                    text[i] # "x" \/ compiler.does # "prints"}
      crashes == compiler.does = "crashes" /\ text[Min(refused)] = "x"
  IN  IF refused = {}
      THEN [did |-> "print",
            output |-> FlattenSeq([k \in DOMAIN program |-> compiler.text])]
      ELSE IF crashes THEN [did |-> "crash", output |-> <<>>]
      ELSE [did |-> "error",
            output |-> <<"E">> \o [k \in 1 .. LineOf(text, Min(refused)) |-> "1"]
                         \o <<"\n">>]

-----------------------------------------------------------------------------
(* The section of the expected output in a file.                           *)

ExpectedOutput(text) ==
  LET header == Find(text, Header)
      start == header + Len(Header)
      end == FindAfter(text, Footer, start)
  IN  IF AtEnd(text, header) \/ AtEnd(text, end) THEN <<>>
      ELSE Substr(text, start, end)

(* With one of two mistakes: the footer is looked for from the beginning   *)
(* of the file, or the old section is kept behind the new one.             *)
UpdatedBehindFirstFooter(text, expected_output) ==
  LET header == Find(text, Header)
      footer == Find(text, Footer)
  IN  HeadText(text, header) \o Header \o expected_output \o Footer
        \o TailText(text, IF AtEnd(text, footer) THEN footer
                          ELSE footer + Len(Footer))

UpdatedAboveOldSection(text, expected_output) ==
  LET header == Find(text, Header)
  IN  HeadText(text, header) \o Header \o expected_output \o Footer
        \o TailText(text, header)

Updated(text, expected_output) ==
  LET header == Find(text, Header)
      footer == FindAfter(text, Footer, header)
      tail == TailText(text, IF AtEnd(text, footer) THEN footer
                             ELSE footer + Len(Footer))
  IN  HeadText(text, header) \o Header \o expected_output \o Footer
        \o (IF tail = <<>> THEN <<"\n">> ELSE tail)

(* The section the searches see is the comment the lexer sees: the header  *)
(* they find begins a line (where they find none, the text ends in a line  *)
(* end), and there is no footer before the one they find.                  *)
SectionInSight(text) ==
  LET header == Find(text, Header)
      footer == FindAfter(text, Footer, header)
  IN  /\ header = 1 \/ text[header - 1] = "\n"
      /\ ~Occurs(Substr(text, header, footer), Footer)

Kept(text, output) == SectionInSight(text) /\ ~Occurs(output, Footer)

(* The successes of a file, counted while its output is kept in full.      *)
Settle(name, kept) ==
  settled' = [settled EXCEPT ![name] =
                IF ~kept THEN 0 ELSE IF @ < 2 THEN @ + 1 ELSE @]

(* write_file() does nothing, and says nothing, if it cannot open the file. *)
WriteFile(name, text, output) ==
  /\ files' = [files EXCEPT ![name] = Updated(text, output)]
  /\ Settle(name, Kept(text, output))

WriteNothing(name) == Settle(name, FALSE) /\ UNCHANGED files

-----------------------------------------------------------------------------
NoOutcome == [count_executed |-> 0, count_failed |-> 0, count_updated |-> 0]

Init ==
  /\ files \in [Names -> Contents]
  /\ compiler \in Compilers
  /\ update_test_cases = FALSE
  /\ test_cases = <<>>
  /\ outcome = NoOutcome
  /\ running = FALSE
  /\ runs = 0
  /\ settled = [name \in Names |-> 0]
  /\ lost = {}

(* The compiler is worked on between two runs.                             *)
ChangeCompiler ==
  /\ ~running
  /\ runs < MaxRuns
  /\ compiler' \in Compilers \ {compiler}
  /\ settled' = [name \in Names |-> 0]
  /\ UNCHANGED <<files, update_test_cases, test_cases, outcome, running, runs,
                 lost>>

(* The files whose names contain the filter, in order, each read once for  *)
(* the whole run.                                                          *)
CollectedCase(name) ==
  [filename |-> name, input |-> files[name],
   expected_output |-> ExpectedOutput(files[name])]

Collected(filtered) ==
  LET Upto[n \in 0 .. Len(FileNames)] ==
        IF n = 0 THEN <<>>
        ELSE IF FileNames[n] \in filtered
             THEN Append(Upto[n - 1], CollectedCase(FileNames[n]))
             ELSE Upto[n - 1]
  IN  Upto[Len(FileNames)]

(* collect_test_cases() and get_test_execution_context().                  *)
CollectTestCases(filtered, env_value) ==
  /\ ~running
  /\ runs < MaxRuns
  /\ running' = TRUE
  /\ runs' = runs + 1
  /\ update_test_cases' = (env_value \notin {"", "0"})
  /\ test_cases' = Collected(filtered)
  /\ outcome' = NoOutcome
  /\ lost' = {}
  /\ UNCHANGED <<files, compiler, settled>>

TestCase == test_cases[outcome.count_executed + 1]
Result == RunTestCase(TestCase.input)
ShouldError == TestCase.filename \in ErrorTests
DidError == Result.did = "error"

(* Output is rewritten on request only, and only if it is of the kind the  *)
(* name asks for (and, with a mistake, without a request).                 *)
MayUpdateUnasked == ShouldError = DidError
MayUpdate == update_test_cases /\ ShouldError = DidError

Executing == running /\ outcome.count_executed < Len(test_cases)

(* execute_test_case(): the output is the expected one (a test that should *)
(* raise an error and does not is reported, but passes), ...               *)
Pass ==
  /\ Executing
  /\ Result.did # "crash"
  /\ Result.output = TestCase.expected_output
  /\ outcome' = [outcome EXCEPT !.count_executed = @ + 1]
  /\ IF update_test_cases
     THEN Settle(TestCase.filename, Kept(TestCase.input, Result.output))
     ELSE UNCHANGED settled
  /\ UNCHANGED <<files, compiler, update_test_cases, test_cases, running, runs,
                 lost>>

(* ... or it becomes the expected one, ...                                 *)
Update ==
  /\ Executing
  /\ Result.did # "crash"
  /\ Result.output # TestCase.expected_output
  /\ MayUpdate
  /\ \/ /\ WriteFile(TestCase.filename, TestCase.input, Result.output)
        /\ UNCHANGED lost
     \/ /\ WriteNothing(TestCase.filename)
        /\ lost' = lost \cup {TestCase.filename}
  /\ outcome' = [outcome EXCEPT !.count_executed = @ + 1,
                                !.count_updated = @ + 1]
  /\ UNCHANGED <<compiler, update_test_cases, test_cases, running, runs>>

(* ... or the test fails.                                                  *)
Fail ==
  /\ Executing
  /\ Result.did # "crash"
  /\ Result.output # TestCase.expected_output
  /\ ~MayUpdate
  /\ outcome' = [outcome EXCEPT !.count_executed = @ + 1,
                                !.count_failed = @ + 1]
  /\ Settle(TestCase.filename, FALSE)
  /\ UNCHANGED <<files, compiler, update_test_cases, test_cases, running, runs,
                 lost>>

EndRun ==
  /\ running' = FALSE
  /\ update_test_cases' = FALSE
  /\ test_cases' = <<>>
  /\ outcome' = NoOutcome
  /\ lost' = {}

(* Any other exception escapes execute_test_case() and ends the run; the   *)
(* files updated so far stay updated.                                      *)
Abort ==
  /\ Executing
  /\ Result.did = "crash"
  /\ Settle(TestCase.filename, FALSE)
  /\ EndRun
  /\ UNCHANGED <<files, compiler, runs>>

Finish ==
  /\ running /\ ~Executing
  /\ EndRun
  /\ UNCHANGED <<files, compiler, runs, settled>>

(* update_expected_output() on a test just collected, outside such a run:  *)
(* every exception escapes, and the name of the file does not matter.      *)
UpdateExpectedOutput(name) ==
  LET text == files[name]
      result == RunTestCase(text)
  IN  /\ ~running
      /\ runs < MaxRuns
      /\ result.did = "print"
      /\ result.output # ExpectedOutput(text)
      /\ WriteFile(name, text, result.output) \/ WriteNothing(name)
      /\ runs' = runs + 1
      /\ UNCHANGED <<compiler, update_test_cases, test_cases, outcome, running,
                     lost>>

Next ==
  \/ ChangeCompiler
  \/ \E filtered \in SUBSET Names, env_value \in {"", "0", "1"} :
       CollectTestCases(filtered, env_value)
  \/ Pass \/ Update \/ Fail \/ Abort \/ Finish
  \/ \E name \in Names : UpdateExpectedOutput(name)

Spec == Init /\ [][Next]_vars

-----------------------------------------------------------------------------
(* Rewriting the section never changes the program of the test, wherever   *)
(* the section is and whatever else the file holds, unless the output      *)
(* holds the footer or the searches do not see the section as the lexer    *)
(* does: nothing before the header or behind the footer is lost, doubled,  *)
(* commented out or brought to life.                                       *)
ProgramKept ==
  [][\A name \in Names :
       \/ Symbols(files'[name]) = Symbols(files[name])
       \/ ~Kept(files[name], RunTestCase(files[name]).output)]_vars

(* Updating comes to rest.  After one update without a failure the file of *)
(* a test that prints expects what the compiler does; the file of a test   *)
(* that fails needs a second one where the error is below the section,     *)
(* because the line it names moves with the lines of the section.          *)
UpdatesSettle ==
  \A name \in Names :
    settled[name] = 2 \/ (settled[name] = 1 /\ name \notin ErrorTests)
      => ExpectedOutput(files[name]) = RunTestCase(files[name]).output

(* What a run reports is what happened on disk: the files it counts as     *)
(* updated are those that differ from what it collected and those whose    *)
(* new text got lost; there are none unless it was asked to update, none   *)
(* it counts as failed, and none it has not come to.                       *)
OutcomeMatchesFiles ==
  LET changed == {k \in DOMAIN test_cases :
                    files[test_cases[k].filename] # test_cases[k].input}
      updated == Cardinality(changed) + Cardinality(lost)
  IN  /\ changed \subseteq 1 .. outcome.count_executed
      /\ outcome.count_updated = updated
      /\ updated + outcome.count_failed <= outcome.count_executed
      /\ ~update_test_cases => updated = 0
=============================================================================
