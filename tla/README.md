# Amelia in TLA+

Specifications, model-checking runs and proofs for the Amelia compiler front end (`src/`, C++): its
hash table and deque, the lexer, the parser with the printing of its syntax tree, and the golden tests.
Paths below are relative to the repository's `src/src/` unless they start with `test/` or
`test_cases/`.

The program is sequential: one thread, no callbacks that suspend, nothing persisted but the golden
test-case files. What is hard in it is not concurrency but long histories: a hash table whose
behaviour depends on every earlier removal, containers whose storage wanders, a lexer whose next
token depends on a flag set several functions ago, a parser that looks ahead and back over one
cursor, a test runner that rewrites its own input.

## 1. Inventory

| Component | State | Operations | Talks to | What is hard | What makes it correct |
|---|---|---|---|---|---|
| **Hash table**: `Map`, `Set` (`util/data/map.hpp`, `set.hpp`) | array of (tagged hash, key, value), `table_size`, `remaining_elems`, `live_elems` | put, grow, has/get/find, remove, remove_and_get, clear, copy, move, compare, iterate | used by the lexer (reserved words), rational, serialization; keys are hashed by `utility.hpp` | robin-hood displacement, tombstones that are reused, early termination of lookups, growth in the middle of a put, iterators into an array that moves | lookups find what is stored, every probe ends, the counters are exact, the table is a map |
| **Deque** (`util/data/deque.hpp`) | `m_start`, `m_size`, two chunk arrays | push/pop at both ends, get, copy, move, compare, iterate | none | negative indexes, chunk arithmetic at powers of two, moves | a deque is a sequence; every item has its chunk |
| **List, Slice** (`util/data/list.hpp`, `slice.hpp`) | buffer, size, capacity | push/pop/emplace/append/assign/sort/reverse | everywhere | appending a list's own slice or element while the buffer is reallocated | a list is a sequence |
| **Flex** (`util/data/flex.hpp`) | object pointer, pointer into a control block of strong and weak counts | copy, move, assign, weak(), strong(), dereference, release | none | order of release and acquire, upgrading expired weak pointers, cycles | the object dies exactly when the last strong pointer goes, the block when the last pointer goes |
| **Lexer** (`lexer/data/lexer.cpp`, over `util/data/char_iterator.cpp`, into `lexer_result.cpp`) | input iterator, line, column, previous-char-was-whitespace flag, token list, scratch buffer | one read function per kind of token; re-lexing of single literals for the parser and the formatters | reads a `Text`, appends to `LexerResult`; throws `LexerError` | look-ahead at the end of input, backtracking in numbers, a flag that outlives the token that set it, string quoting | tokens and blanks tile the input, locations are right, `_NO_W` variants mean "touching", every failure is a located error |
| **Parser** (`parser/data/parser.cpp`, into `parser_result.cpp`) | token cursor, node list, lists of imports and submodules | recursive descent: declarations, statements, expressions, types, patterns | reads `LexerResult`, calls the lexer's re-lexing functions, appends nodes | look-ahead and look-behind (`peek(-1)`), separators by line, module nesting with saved lists, node spans read before or after a sub-parse | spans are well nested, operators associate by the ladder, every file ends in a tree or a located error |
| **Node types, node formatter** (`parser/data/node_type_list.hpp`, `node_formatter.cpp`) | fields printed and indentation, saved and restored by hand | print a tree | reads `ParserResult` | commas and indentation across the recursion; a field a struct has and its case forgets | every field of every node is printed once, in its place |
| **Token formatter** (`lexer/data/token_formatter.cpp`, `token.cpp`) | none | print a token | re-lexes literals | a token that lexes but does not re-lex | — |
| **Text, String, text utilities** (`util/data/text*.`, `string.*`) | bytes | search, split, substr, parse and print numbers | everywhere | off-by-one in search; invalid UTF-8 | agree with their definition on sequences |
| **Integer, Rational** (`util/data/integer.cpp`, `rational.cpp`) | limbs and sign | arithmetic, comparison, printing | serialization | carries, signs, zero | agree with the integers |
| **Sort, bit helpers, hash** (`util/data/utility.hpp`) | none | quicksort with last-element pivot; tag bits of hashes | list, hash table | bounds of partitions | result sorted, a permutation |
| **Source data** (`source/data`) | none | identifiers and their quoting, literals, locations, located errors | lexer, parser | escaping of quoted names | printing and reading agree |
| **Golden test-case runner** (`testing/`) | collection of paths, contents and cases; outcome counters; files | collect, execute, update expected output | lexer, parser, files, environment | rewriting a file that is the next run's input; expected errors | an update makes the next run pass and changes nothing else |
| **Option, Box, Ref, Pair, errors, serialization** (`util/data`) | values | — | everywhere | — | — |
| **Effects** (`util/effect`) | none | console, files, environment | runner | I/O only | — |
| **Builtin kinds, semantic analysis, entry point** | none | tables, a declaration, an empty `main` | — | — | — |

The hazards, each at its line, are the `hazards` of `PROJECT.json`; those that no property reaches say why in their `note`.

## 2. Modules

| Module | Models | Uses |
|---|---|---|
| `HashTable` | the table under `Map` and `Set` | — |
| `AbstractMap` | what a map promises: `set` puts, `get` gets, `remove` removes | — |
| `MapClient` | `HashTable` driven the way the tests and the lexer drive it; refines `AbstractMap` | `HashTable`, `AbstractMap` |
| `HashTableProofs` | theorems about `HashTable` and `MapClient`, the refinement of `AbstractMap` among them | `MapClient` |
| `Deque` | several deques with their chunks; refines `AbstractDeque` | `AbstractDeque` |
| `AbstractDeque` | deques as sequences | — |
| `DequeProofs` | theorems about `Deque`, the refinement among them | `Deque` |
| `LexerState` | what the read functions share: `next()`, `peek()`, `set_location()`, `emit_token()`, the errors | — |
| `TextLexer` | strings, character literals, quoted identifiers, escape sequences | `LexerState` |
| `NumberLexer` | `read_number()` | `LexerState` |
| `Lexer` | `tokenize()`: operators, comments, words, and the dispatch to all of the above | `TextLexer`, `NumberLexer` |
| `LexerProofs` | theorems about `Lexer`: places, order and the flag; then the gaps between tokens, their variants, strings, and numbers | `Lexer` |
| `ParserCode` | the steps that methods of the parser are made of, and their common sequences | — |
| `DeclGrammar`, `StatementGrammar`, `ExpressionGrammar` | the methods of `ParserState`, each a sequence of steps, and its `switch` statements | `ParserCode` |
| `Grammar` | all methods together | the three above |
| `Parser` | the machine that runs the methods: cursor, nodes, calls, lists | — |
| `ParserProofs` | theorems about `Parser`, for every grammar | `Parser` |
| `NodeStructs` | the 199 node types and the fields of their structs | — |
| `PrintedFields` | the cases of `format_node()`: which fields are printed, in which order | — |
| `NodeFormatter` | `NodeFormatter`: lines, commas, indentation | `Parser`, `NodeStructs`, `PrintedFields` |
| `SyntaxTree` | what the tree and its printed form have to be | `NodeFormatter` |
| `GrammarCheck` | a check of the parser's methods that needs no file: all points that a method can get to, and whether what it does there is right | `SyntaxTree` |
| `OperatorCheck` | another such check, of how strongly operators bind | `SyntaxTree` |
| `TokenCheck` | a third one, of which tokens a call consumes | `SyntaxTree` |
| `ElseCheck` | a fourth one, of where the else branches of a `when` are | `SyntaxTree` |
| `SyntaxProofs` | theorems about the shape of the tree of every file, and that operators bind right in it | `GrammarCheck`, `OperatorCheck`, `ParserProofs` |
| `TreeProofs` | the theorems that nothing written is missing in the tree of any file and that no node but a replaced else branch is | `TokenCheck`, `ElseCheck`, `SyntaxProofs` |
| `FormatterProofs` | the theorem that every tree is printed in full | `GrammarCheck`, `ParserProofs` |
| `TextUtils` | the searches of `util/data/text_utils.cpp` | — |
| `TestCases` | the golden tests over several runs | `TextUtils` |
| `TestCaseProofs` | theorems about `TestCases`, and what the searches of `TextUtils` return | `TestCases` |
| `MC...` | small instances for TLC | the module of the name |

In every module a definition commented "Bug:" is used nowhere. It is a plausible mistake in the
definition that follows it, and shows which property would notice.

### The hash table

| Code | Model |
|---|---|
| `elems[i]`: hash with its two tag bits, key, value | `tag[i]`, `first[i]`, `second[i]`; the other 62 bits are `Hash[first[i]]` |
| `table_size`, `remaining_elems`, `live_elems` | the variables of these names |
| `put()`, `put_with_hash()` | `Set` enters the loop; an iteration is `PutUpdate`, `PutSwap`, `PutSkip` or `PutInsert`; the element that the loop carries is `key`, `value` |
| `grow()` | `BeginGrow` keeps the table in `old` and allocates; `GrowMove`, `GrowSkip` and `GrowDone` walk over it, and the puts it makes run the same put actions; `PutReturn` goes back to the caller |
| `index_of()` in `has`, `get`, `find`, `remove`, `remove_and_get` | `Lookup` enters; `FindHit`, `FindSkip`, `FindFail` are the iterations; `FindStop` is the test for giving up early |
| `remove()`, `clear()` | `RemoveHit`, `TakeValue`, `Clear` |

The code is sequential. Each loop iteration is still a step of its own because the invariants that
make the loops right are about the table *in the middle of* a put or a growth: an element is in no
slot while the put that displaced it goes on.

### The deque

A call is one step. `SlotOf` is `get_item()`: from a global index, which is negative in front of the
first item pushed, to side, chunk and offset. `memory` holds what is in the slots, so that an item
read from a slot other than the one it was written to shows. `Insert` adds chunks as
`insert_item()` does; pops leave them. `Copy` clones only the live items into a deque of
their own chunks, `Move` hands over the chunk arrays, `Reset` is destruction. `chunk_index()` counts leading zeros in the code; in the model it is
the chunk that covers the index, which `DequeAssumption` states (it is the comment in that
function), and TLC evaluates it on the instance.

### The lexer

A character is a model character, and the input a sequence of them. `mode` says which read function is
running and where in it; each character read is a step. `here` is `current_location()` (iterator, line,
column), `white` is `m_previous_char_was_whitespace`, `start` the `start_location` every read function
is given, `scratch` the scratch buffer, `literal` the `NumberLiteral` being built together with the
locals of `read_number()`.

- The functions `read_at()` to `read_plus()` (`lexer.cpp:637-889`) are one table, `Operators`, and the rule that the longest
  spelling is read: `ReadOperator` reads on while the character behind continues the spelling,
  `CloseOperator` emits. The irregular ones are actions or conjuncts of their own: `..` (`TwoPoints`), `.5`
  (`PointBeforeDigit`), `::` only where it touches (`Continues`), `?` (`UnexpectedCharacter`), and the peek
  at the end of the input (`PeekPastEnd`), which fails with another exception than the others.
- The type of a keyword or operator is its spelling; all types are sequences, `<<"STRING_LITERAL">>` of one, so that what has been read
  (`Read`) can be compared with them. `no_w` tells the `_NO_W` variant of a
  type from the plain one.
- In `read_number()` the digit loops for the integer, the fraction and the exponent are one set of
  actions over `mode` and `Part`; where the three loops differ (`DigitsHere`, `EndOfDigits`) the
  definitions say so. `DecimalAfterAll` is the way back from a leading zero taken for octal.
- `OneCodePoint` leaves open whether escaped bytes of `\x80` and above make one valid code point:
  both outcomes are explored.

The model of the lexer was also compared, once, with the compiled lexer on every input of its run:
tokens, locations and outcome agreed on all 75,001.

### The parser

`Parser` is a machine, and the methods of the parser are its program. That way the 3,000 lines of
recursive descent are three tables of a few hundred rows, and what holds of the machine holds whatever is in
the tables (section 5).

| Code | Model |
|---|---|
| `m_input`, `m_token_index`, `m_output` | `tokens`, `index`, `nodes`: a token is its type and its line, a node its type, its token range, and its children with the fields they are in |
| the C++ call stack, with the locals of each call | `stack`: of each call what it has still to do (`todo`), its start token, its children so far, a saved list |
| `m_imports`, `m_submodules`; the lists a `ModuleNode` has | `imports`, `submodules`; `lists` |
| `parse_...()` | a row of `Methods`: a sequence of steps, written with the names of `ParserCode` |
| `peek()`, `is_identifier(peek(1))`, ... | tests: `On`, `Ahead`, `Off`, `OnThisLine`, ... |
| `next()`, `read_token_type()`, `throw_parser_error()` | `ReadAny`, `ReadType`, `Refuse` |
| `if`, `switch`, loops, the `..._SEPARATED_UNTIL` macros | `Branch`, `Dispatch`, `Loop`; `SeparatedUntil` |
| a call, `return parse_x()` | `Call`, `TailCall`; methods that begin with a call enter the called one at once (`Entering`) |
| `add_node(...)`; `left = add_node(...)`; `return left` | `MakeNode`, `MakeModuleNode`; `MakeOperand`; `HandOn` |
| `add_node(parse_x(), m_token_index)` and its like | `FixEnd`: the end is read before *or* after the operand is parsed, as C++ leaves it open |
| `peek(-1)` as first token; `start_token` of the caller | `FixStart`; `ParseWithin` |
| a second value for an optional; `pattern = field;` | `Reassign`; `Rename` |
| the saved list of submodules (`parser.cpp:388`) | `StartSubmodules`, and `MakeNode` with `keep = "module"` |
| `Lexer::read_..._literal()` on the text of a token | `ReadLiteral`, which may fail |

Calls that have nothing to do but return (`return parse_or_expr()` down the ladder of operators) are left with
the node in one step (`PassesOn`, `Deliver`); the levels in between have no effect of their own.
`exact` marks the nodes whose token range the code takes where the node begins and ends: it is false for the
ones whose range is moved back, taken from the caller, or left to the compiler. Left out are the error messages and the values in
a node that are not nodes (names, visibility, mutability).

The machine with these tables was compared, once, with the compiled parser and formatter: on the 491 texts of
`test_cases/` and on more than 12,000 mutations of them, outcome and printed tree agreed.

### The formatter

`NodeFormatter` runs behind the parser as `run_parser_test_case()` does. `out` is the text as lines of
pieces, `printing` the recursion, `fields_printed` and `indent` the members that the code saves and restores by hand.
`FormatNode` is the head of `format_node()`, and an action of `Format` a call of
one of its helpers. Which fields a node has is `NodeStructs`,
which it prints is `PrintedFields`; `PrintedInFull` compares the text with the tree by way of the former only.

### The golden tests

| Code | Model |
|---|---|
| the directory; `CompilerTestCaseCollection`; `CompilerTestExecutionOutcome` | `files`; `test_cases`; `outcome` |
| `collect_test_cases()`, the environment variables | `CollectTestCases(filtered, env_value)` |
| `execute_test_case()` | `Pass`, `Update`, `Fail`, `Abort` (another exception than `SourceLocationError`) |
| `find_test_case_expected_output()`, `update_file_expected_output()`, `update_expected_output()` | `ExpectedOutput`, `Updated`, `UpdateExpectedOutput`, over `Find` and `FindAfter` |
| `write_file()` | `WriteFile` or, the file could not be opened, `WriteNothing` |
| the compiler under test | `compiler`, which may change between runs; `RunTestCase` says what it makes of a text: it prints, refuses naming a line, or crashes |

The program of a test is what the lexer sees of its file: the text without comments and line ends. A text is a sequence of
characters, an output too; a line number in an error is written in strokes, so that two errors have the same text exactly if they name
the same line. `settled` and `lost` are history.

The searches do not know comments, the lexer does. They agree on a section (`SectionInSight`) if the header they find begins a line and
no footer comes before the one they find; where they find no header, the file has to end in a line end, because a header behind
`//` would be part of the comment. A file that breaks these conditions loses or gains program when it is updated, which the last
three texts of `MCTestCases` show; all files of `test_cases/` keep them.

## 3. Runs

| Run | Bounds | States | Shows |
|---|---|---|---|
| `hash_table` | 3 keys with hashes 7, 7, 0; 2 values; 4 slots growing to 8 | 1,501,818 | the probing invariant, the counters, lookups and stores, over every sequence of calls |
| `hash_table_live` | the same with 1 value | 169,583 | no key is lost by displacement or growth; every call returns |
| `map_client` | 4 keys with hashes 7, 7, 0, 3 | 153,883 | used in phases (fill, then empty), the table implements the map, and `size()` is its size |
| `removed_is_gone` | as `hash_table` | | **violated**: a removed key can still be found |
| `grow_keeps_values` | the colliding keys at slot 0 | | **violated**: a growth can bring back an old value |
| `deque` | 2 deques, 2 values, first chunk of 1 item, indexes -3..2, length 3 | 38,466 | deques are sequences; items are where chunks are; nothing is left behind |
| `lexer` | 75,001 texts | 641,786 | places, order, variants and text of the tokens; every run ends |
| `lexer_failures` | texts of up to 3 slashes, stars and blanks | | **violated**: the file `/` fails without a location |
| `lexer_octal` | as `lexer` | | **violated**: `08.` is refused as octal |
| `lexer_strings` | as `lexer` | | **violated**: `"""n"\\""` is a complete string |
| `parser` | 325 files of up to some thirty tokens; all 3,400 points, 2,555 places, 1,251 stages and 2,436 stations of the methods (`PointsAssumption`, `PlacesAssumption`, `StagesAssumption`, `StationsAssumption`) | 37,753 | the tree is a forest, well nested, well formed, bound as the ladder says, complete but for one case, printed in full; every run ends |
| `test_cases` | 2 files of 10 texts, 7 compilers, 3 runs | 520,960 | updates keep the program and come to rest; what is counted is what happened |

**Why the bounds are enough.** *Hash table.* Two keys with the same ideal slot, the last one, and a
third in the slot behind it give probe sequences that wrap around, displacements in both orders,
tombstones in front of live elements, reused tombstones, and a growth that starts with tombstones in
the table; what a slot does depends on the distances of two elements only. Four slots are the smallest table
whose capacity (3) leaves room for three keys and one never-used slot. `MaxSize` forbids only calls
that would grow a second time; growing from 0 and from 4 slots are both reached. *Deque.* With one
item in the first chunk the indexes cross two chunk boundaries on each side and the side boundary; the sizes 1, 2 of the chunks are
in the ratio of 16, 32. Two deques are all that a copy or a move involves. *Lexer.* Every text of up to 4
characters over an alphabet of words, blanks, comments and operators, of up to 5 over one for numbers,
and of up to 6 behind the opening of a string: long enough for two tokens with a comment between them, for going back
in a number, and for a row of quotes that an escape interrupts.
The alphabets contain one character of each kind that the code distinguishes in that context; which
letter or which operator is not distinguished further (the table `Operators` is written out, but only a
few of its rows occur in the texts). *Parser.* The files are chosen by what can go wrong: every pair of operators of different
levels, and of the two of one level, without parentheses and, for three of them, with (and with the comma that may stand before `)`); every pair of five kinds of statements (one-line,
open-ended, blocks, prefix and postfix operators) with nothing, a semicolon or a line end between; three `when` clauses of three kinds;
a module in a module with each combination of imports and submodules before, inside and behind; a gallery of
declarations, types, patterns and literals; and a file cut off and spoilt at each of its tokens. The alternatives of evaluation order
and of `ReadLiteral` are explored in each. Longer files repeat what these contain: but for the look-ahead for lambdas, the
parser decides on the next few tokens.
*Test cases.* Two files, one of them of an error test, because runs relate files only by the counters; three runs, because an error needs two
updates to come to rest and a third shows that it has. The texts have the section behind, before and in the middle of the program,
unfinished, commented out, and missing, and in three of them out of sight; the outputs include the footer and a partial match of it.

**Fairness.** `HashTable` has weak fairness of `Step`: a call that has begun runs on, because nothing
in the code waits. Nobody is obliged to call. `Lexer` has weak fairness of `Next`: it is one call. `TestCaseSpec`
(parser, then formatter) has weak fairness of its next-state relation for the same reason. There is no
strong fairness anywhere; the deque and the golden tests need none. The runs that do not check for deadlock are
those of the lexer and the parser, which end, and of the golden tests, which stop at `MaxRuns`.

**Assumptions.** On the constants: `HashTableAssumption`, `DequeAssumption`, `LexerAssumption`, `ReservedWordsAssumption` (no
keyword is called like a token type), and for the parser
`TextsAssumption` (a file has a last token), `EndAssumption` (`END_OF_FILE` is no other: `Lexer::lex()` emits it once, behind its loop), `GrammarAssumption` and `CodeAssumption` (methods refer to methods and fields that there are), `PointsAssumption`, `PlacesAssumption`, `StagesAssumption` and `StationsAssumption` (the finite
checks of the methods, section 5), and `PrintedAssumption` (what is printed of a node are the fields of its struct, in their order). TLC evaluates each of them. On the golden tests: a directory
has no name twice (`FileNamesAssumption`), files are made of `Characters` (`CharactersAssumption`, `ContentsAssumption`), and what a runner prints ends in a line
end if it is not empty (`CompilersAssumption`), as both runners do. On their surroundings, by the way they are modelled: nobody else writes the files during a run, every run
collects anew, as the test programs do, and no header stands inside a string of the program.

## 4. Findings

1. **A removed key can still be found** (`util/data/map.hpp:131`). `put_with_hash()` stops at the first
   tombstone without looking for the key behind it, so a key can be stored twice, and `remove()` takes
   one copy out. Tests use the map in phases only, where this does not happen (`map_client`).
2. **A growth can bring back an old value** (`map.hpp:104`): with a key stored twice, slot order and not age
   decides which copy survives.
3. **A failure without a location** (`lexer/data/lexer.cpp:1177` and the other operators, `1213`): look-ahead at the end of the file throws
   `RuntimeError`; the run shows it for the text `/`. The test-case runner catches `SourceLocationError` only.
4. **`08.5` is refused** (`lexer.cpp:966`) although two comments say that a point or an exponent
   revokes the octal reading; `07.5` is accepted.
5. **Quotes around an escape close a multiline string** (`lexer.cpp:509`): `quotes_in_a_row` is reset by plain characters only.

Some behaviours were met that no run refutes, because nothing in the repository says otherwise, or because they are outside the models:

- *Deque.* Move assignment leaks the chunks its target had (`deque.hpp:104`).
- *Lexer.* A quoted identifier with a blank in its name is never of its `_NO_W` type (`lexer.cpp:313`), an
  exception that `NoWMeansTouching` makes.
- *Parser.* A second `else` in a `when` silently replaces the first (`parser.cpp:2071`), the exception in `OnlyElseIsLost`. A second
  statement passes on the line where a longer one ends, because starts are compared (`parser.cpp:127`), which is what `StatementsApart`
  says. `operator` or `catch (` at the end of a file ends in a `RuntimeError`, not a `ParserError`. Clauses of a `when` that a comma
  separates are refused on one line. Behind `return` or `throw` without a value, `else`, `,` and `)` are refused on the same line.
- *Formatter.* A module in a module is printed as a declaration and again as a submodule, an import as a declaration and as an import.
- *Golden tests.* `find_after()` does not see an occurrence inside a partial match (`text_utils.cpp:193`). An output that contains the footer
  breaks the file it is written into, and so does a section out of sight; `ProgramKept` makes the exceptions. An expected error needs a second update when its line moves.
  Whether an error is expected is told from the file's name only. `execute_test_case()` with two arguments returns TRUE
  when the outputs *differ* (`compiler_test_cases.cpp:190`), and verbose output is on only for `AMELIA_TEST_VERBOSE=0` (178).
- *Rational* (not modelled). `r /= r` reads its operand after changing it (`rational.cpp:278`).

## 5. Proofs

**Hash table** (`HashTableProofs`). For any keys, any hash function into the naturals, any `InitialSize`
of at least 2 and any `MaxSize`, from `HashTableAssumption` alone:

| Theorem | Says |
|---|---|
| `TypeCorrect` | `TypeOK` is always true |
| `CountersExact` | the counters count exactly the live slots and the first uses left |
| `GrowthFindsRoom` | the puts of `grow()` never grow again |
| `ProbesMeetAnEnd` | an allocated table has a never-used slot |
| `PathsAreKept` | nothing that could end a search lies between a stored key and its ideal slot |
| `ProbesAreTrue` | a running loop is where its `probe_length` says, and has passed nothing that would end a search |
| `LookupsAreCorrect` | a lookup fails only for a key that is not stored, and returns a value stored with the key |
| `StoresAreKept` | what `set()` is given is stored when it returns, where a lookup finds it first |
| `KeysAreKept` | only `remove` and `clear` take a key out of the table |

The inductive invariant has three layers, each proved with the help of the one below.
`TypeInv` adds to `TypeOK` that no loop runs on a table without slots, and where `old` is (`LoopsInBounds`). `CountInv` adds to the
counters that a growth has used at most one new slot for each element it has moved and that all old
elements together do not fill the new table (`GrowthInProgress`): without it nothing says that the nested puts find
room. `PathInv` joins `ProbePaths` (about the table), `ProbeInProgress` (about the slots the running loop has
passed) and `SearchedInVain` (about the keys in them); the first is preserved by an insertion only
because of the second, and the lookup theorem follows from the first and the third. The arithmetic is in four lemmas: `DistanceAround` says what the
code's modulo expression computes, `ProbeSequence` that the distance grows by one with every slot.

`StoreInv` follows the pair that a running `put` was called with, be it by the client or by `grow()`: the loop has come to
where it is from the ideal slot of that key, over used slots, and either still carries the pair and has passed no copy of the key, or
has put it down in a slot that is behind it, nearer to the ideal one than any other copy (`PairOnItsWay`). `KeysAreKept` is
about steps and needs only the places in which a key can be: `StoredKeys` names them.

**The map** (`HashTableProofs`). For any keys and hash function, from `HashTableAssumption`: `TableImplementsMap`, which is
`ClientSpec => Map!Spec` under the refinement mapping of `MapClient`, and `SizeIsExact`. In general the table is not
a map (finding 1). The proof says why it is one when it is used in phases: a second copy of a key comes from a tombstone that a `put()`
reuses in front of the first, and while the table is filled there is none on the way to a stored key. So `ClientInv` says that no
key is in two slots (`NoneTwice`), that while filling there is no tombstone on the way to a stored key (`PathsFull`), that a `put()` happens only
while filling (`PutsFill`), a removal only while emptying (`RemovalsEmpty`), and that what the loop carries and what is left in
the old table are copies of nothing else (`CarriedOnce`, `OldOnce`, `OldApart`). The content of a key is then a function of
the state: the value in its slot, carried, still in the old table, or pending; a call takes effect in one of its steps, and the others stutter.

**Deque** (`DequeProofs`). From `DequeAssumption`, for any deques, values and bounds: `DequeTypeCorrect`, `ItemsAreInChunks`,
`NothingStaysBehind`, and `DequesAreSequences`, the refinement: the initial state
maps to empty sequences and every operation to the operation on sequences, or to a stutter. The key
lemma is that `SlotOf` is injective, from the disjointness of the chunks.

**Lexer** (`LexerProofs`). For every set of texts and of reserved words, from `LexerAssumption` alone (a text is a
sequence of characters, and what is behind its end is none of the characters that the lexer asks for):

| Theorem | Says |
|---|---|
| `LexerTypeCorrect` | `TypeOK`: no place is behind the end of the input |
| `PlacesAreTrue` | every line and column, in tokens and errors, is the true one of its position |
| `TokensComeInOrder` | tokens are not empty, do not overlap and come in the order of the input |
| `FlagIsRight` | the white-space flag says whether white space lies behind the last token |

None of these depends on what the read functions look for. The first part of the module therefore shows, action by
action, that every step is one of four kinds: it goes on (reads one character, skips over plain ones, stays or goes back to the
start), emits a token, finishes, or fails. The second part proves the invariant for the four kinds.
To the properties themselves `LexerInv` adds: a mode that may emit has read something since `start` (`Begun`, which for
numbers and strings has to know that digits or quotes were counted), a read function starts behind the last token
(`Since`), and an operator has no white space in it (`OperatorIsPlain`): without it, going back to the point of `.5` could leave
the flag set by something that is going to be read again.

**Numbers** (`LexerProofs`, as all that follows about the lexer). For every set of texts, from `LexerAssumption` and `ReservedWordsAssumption`: `NumbersAreTheirText`
(`NumberIsItsText`: the parts a number token carries, joined, are the text it stands for) and `UnderscoresSeparate`
(`UnderscoresSeparateDigits`: an underscore in a number is followed by a digit, and preceded by one or by the base prefix). `NumberInv` follows the text from the
start of a number to where `read_number()` has got to. The parts read so far, joined, are that text (`WrittenSoFar`), and the parts not
yet reached are empty (`PartsInOrder`). An assumed prefix is a zero (`ZeroFirst`), which is needed when a point or an exponent turns the prefix into
a digit after all. Every underscore stands where it may, or is the last character and the flag says so (`UnderscoresSoFar`); off a
boundary the last character is a digit, an underscore or the end of the prefix (`OffBoundary`). A step that is not
in the middle of a number emits none: this is where the names of keywords matter, because the type of a word is the word.

**Gaps, variants and strings**. For every set of texts, from the same two assumptions:

| Theorem | Says |
|---|---|
| `NothingIsDropped` | `GapsAreBlank`: between the tokens, and up to the end of a text that has been read, there are only white space and whole comments |
| `VariantsAreRight` | `NoWMeansTouching`: of two variants a token is the `_NO_W` one exactly if nothing white is before it |
| `StringsAreTheirText` | `StringIsItsText`: what is kept of a string without escapes is what stands between its quotes |

The first two have one inductive invariant, `GapInv`. What lies behind the last token is blank up to `here` between tokens, and up to `start` while
one is read (`BlankSoFar`). What has been read of a comment begins one and does not end it, and the mode knows whether the last
character was a star that a slash would make the end of it (`CommentSoFar`); this is what `/*/` is about. A blank text is one that can be cut into
white characters and comments, so a comment that ends, or a white character, adds one cut (`BlankMore`, `CommentIsRead`). The variants need
the flag at the moment a token is emitted, not at its start: a word must have nothing white in it (`WordSoFar`), and an
operator that must touch is not continued to behind white space (`TouchesSoFar`, which holds because `Continues` asks for it). Everything else about
the flag is `FlagIsWhiteSpace`, proved before.

`StringInv` relates the scratch buffer to the text. Of a string that has neither escape nor carriage return so far, the buffer, followed by
as many quotes as the row has that is being read, is the text from behind the opening quotes to `here` (`BodySoFar`). An escape or return
makes the text other than `Verbatim`, and then nothing is claimed; that it does so at its first character is `EscapeSoFar`. `QuotesSoFar` bounds the
counters: of fewer than three opening quotes only one opens a string, and a row of as many as opened it has closed it.

**Parser** (`ParserProofs`). For every file, *and for every set of methods made of the parser's steps*, from the three
assumptions of `Parser`:

| Theorem | Says |
|---|---|
| `Types` | `TypeOK`: the cursor is never behind the end; every child is in a field, every node is of a type |
| `TreeAlways` | `OneParent`: nodes and calls in progress form a forest, at every moment |
| `SpansAlways` | `SpansNested`: the tokens of a node contain those of its children, which come one after the other |

The methods do not matter because every step is one of three kinds: it *proceeds* (no node is made or moved; calls may begin), *hands on* a
child to a call below, or *makes* a node of the children of the innermost call and hands that on. The first part of the module shows this
action by action; the rest proves two inductive invariants for the three kinds. `Forest` adds to `OneParent` that what calls hold are
roots, and that the children of a call are older than those of the calls above it. `Spans` adds that a call
begins behind what the calls below it hold, and that what calls hold lies between their start and the cursor. What the grammar itself
gets right is the next layer.

**Syntax tree** (`SyntaxProofs`). For every file, from the same three assumptions and from `PointsAssumption`:

| Theorem | Says |
|---|---|
| `NodesAreWhole` | `WellFormedNodes`: a node has the children that its struct requires, each as often as it may be there, and of the kind its field is named for |
| `StatementsAreApart` | `StatementsApart`: neighbours in a list of statements start on different lines |

These are about the methods, so something has to be known of them, and `PointsAssumption` says what: it is a statement about the
constants `Opening` and `Switches` that mentions neither files nor nodes nor the machine. A *point* is what a call has still to do, the
field its result is for, and what is known of the children it has: the first and last field; of each
field whether there are one, two or more; and whether the members of its lists are apart, all but the last one are (which has not been compared yet), or
nothing is known (`rows`). `Successors` says to which points a step leads, both ways of a test or loop included.
`PointsAssumption` says that the points found within 100 steps of the first call are all there are, and that every one is `Right`: a node is
made only of children that fit its struct, a child that is renamed or overwritten is the only one of its field, a result is
handed on only for a field that asks for no kind. There are 3,400 points, for files of any length and nesting. TLC evaluates
the assumption in the run `parser`; the theorems say that this check is enough.

The inductive invariant is `TreeInv`. `PointInv` says that every call in progress is at such a point: its `todo` is the point's, and what
the point knows of the children is true of them, the one counted in that the call waits for (`Expected`). `KindInv` says that children are of
the kind their fields are named for; a point does not know the kinds, and a node is made of what the calls have handed over. `StatementsApart` needs
one thing more: lines are compared with the *last* child, so that a comparison is about the right pair only if the last child is in the same list
and all before it have been compared. This is what `rows` keeps track of: `late` becomes `apart` when a comparison is
passed, and `mixed` if another child comes first. That a node once made is never touched again, and that its children are nodes, is
taken from the proof of `OneParent` (`Forest`).

**Operators** (`SyntaxProofs`). For every file, from the same three assumptions and from `PlacesAssumption`: `OperatorsAreRight`
(`OperatorsBind`: an operand that is not in parentheses has no weaker operator than the node it belongs to, and a right operand a stronger
one). A dozen methods hand a node down the ladder of levels, most of them without doing anything to it, and any of them may meet parentheses,
lambdas or types on the way. `OperatorCheck` follows all of it. A *place* is what a call has still to do, how strong the operator of
the node it returns has to be (its `promise`), whether it has moved the start or end of that node, whether a parenthesis is next or has
just been read, and what is known of its children: how strong the first one is, where it begins and whether it ends at the cursor, and how strong the
others are. A node of no operator or in parentheses is `Closed`, stronger than all operators. `Demand` reads off what is still
to do how strong the next child has to be, and a place that enters a call makes it promise that. `PlacesAssumption` says that the 2,555
places within 120 steps are all there are, that operator nodes are made of children that are strong enough (`Binds`), and that what is returned is
as strong as was promised.

The inductive invariant is `PlaceInv`: every call in progress is at a place (`Sits`), what the place of the innermost call says of its
children and of the tokens at the cursor is true (`Acts`), and every other call waits for a child that is as strong as the call above it
promises (`Waits`). The places of two neighbouring calls belong together, so the invariant speaks of an assignment of places to all calls at once,
not of a place for each. That a node in parentheses is one is seen by the tokens before its start and at its end, and
these have to be known when the node is returned: this is why places follow where the first child begins and ends. A result that passes through several
calls in one step keeps each of their promises (`PassedDown`, over the lowest call that does not).

**Tokens** (`TreeProofs`). For every file, from the same three assumptions, `EndAssumption` and `StagesAssumption`: `NothingIsSkipped`
(`NothingSkipped`: in the tree of a file that is accepted every name and every literal has exactly one node of its kind, and no other node is of
these kinds). The methods consume tokens at more than a hundred places, with `next()`, `read_token_type()` or `++m_token_index`, often after a look ahead of
up to two tokens, and each has to know that the token is no name or that a node is made of it. `TokenCheck` follows what they know. A
*stage* is what a call has still to do, which types the next tokens may have by the tests that have been passed or failed (`ahead`), whether its node
starts at the cursor, and whether the token consumed last is a name or literal that waits for its node (`behind`). `parse_identifier()` alone
returns with a look ahead that its caller relies on (the `:` or `=` behind an optional name, which is then consumed untested): it promises that the token seen behind the name is
ahead again. `StagesAssumption` says that the 1,251 stages within 120 steps are all there are, and that what is done at each is right (`Reads`): a token
that may be a name or literal is followed at once by the node of its kind, which starts at it; no other token is followed by such a node; and
the tree is finished at `END_OF_FILE` only.

The inductive invariant is `StageInv`: the innermost call is at a stage, what the stage says of the tokens and of the start of the node is true
(`Tells`), the others wait at theirs (`Await`), and the names and literals up to the cursor, or up to the one that waits, have one node each
(`LeavesMade`). When the tree is finished the cursor is at `END_OF_FILE`, which is the last token, and `LeavesMade` is `NothingSkipped`.

**Else branches** (`TreeProofs`). For every file, from the same three assumptions and from `StationsAssumption`: `ElseOnlyLost`
(`OnlyElseIsLost`: in a file that is accepted every node but the root has a parent, or it starts behind `else =>` and nothing but parentheses, and lies in a
`when` that has a later else branch). Nodes are numbers that the methods pass on, drop into fields, or overwrite (`parser.cpp:2071`), so this is about every one of them.
`ElseCheck` follows what matters for the one field that is overwritten. A *station* is what a call has still to do, which types the
next token may have, how much of `else =>` has just been read, whether the result of the call has to start behind it (its `place`, and by which
of its children it does), and whether the call has moved the start or end of its node or has an else branch as its last child (`held`).
`StationsAssumption` says that the 2,436 stations within 120 steps are all there are, and that what is done at each is `Safe`: an else branch is
parsed behind `else =>` only and as a child of the call itself; what is overwritten is such a branch, with the new one as the last child; a
call that holds one does not hand it on, rename it, or move its start or end; and a result that has to start behind `else =>` does.

The inductive invariant is `ElseInv`. `StationInv` assigns stations to all calls, like places: each call is at its station (`Stands`), what the
innermost one's says of the tokens is true (`Goes`), and every other call waits for what the one above it promises (`Awaits`). `Accounted` says that every node
is held by a call or by a node, or was lost: by a call or node that contains it and has a later else branch (`Lies`, `Loses`). The hard step is
`Reassign`: what was lost to the branch that goes is lost to the one that stays, because a third `else` is behind the second. And `NodesRead` says that no
node has tokens that have not been read, so that of two branches the later one starts behind the end of the other. When the module is made no call
is left to hold a node, so that each but the root is in a node, or lost.

None of the four knows which modules have been opened; `ModulesListed` is therefore not proved.

**Formatter** (`FormatterProofs`). For every file, from the three assumptions of `Parser` and from `PrintedAssumption`: `PrintsInFull`
(`PrintedInFull`: when the formatter is through, the text is the tree laid out). `PrettyText` says what that is by recursion over the tree, each
node from the text of its children; `NodeFormatter` writes line by line, with two numbers that its calls save and restore. The proof has three parts.

The recursion in `PrettyText` is well-founded, because children are older than their node: `Forest` says so of the children, and a second
invariant of the parser, `Collected`, of the imports and submodules that a module takes, which are not among its children. `Collected` has to follow what
`parse_module()` puts aside while it collects the submodules of a module in a module. So there is a function that satisfies the recursion (`TreeExists`),
and the text of a node is a head, the blocks of its fields, and a bracket (`TreeText`).

Writing is compared with laying out by lemmas about pages, which are sequences of lines. Laying out moves a finished block two blanks to the
right and puts a comma behind all but the last; the formatter puts a comma behind what is there when the next line begins, at the depth it knows. Moving
is additive and passes through joining and writing (`MovedTwice`, `MovedJoined`, `MovedWrite`), a comma is the same late or early (`RowsOneMore`), and a
label in front of a child belongs to the line the child begins on (`PrefixIs`), with which the closing bracket fits (`Closed`).

The invariant of the formatter is `Formatted`. While calls are in progress there is for each of them a view, which is what the text has of it: the lines up to its
opening bracket, the blocks it has made, and all those it is to make (`Shows`). What a call has made are the blocks of the fields that are no longer in
its `names`, and one that waits for another lacks just the block that the other one is going to be (`Link`). `fields_printed` is the number of blocks made
in the innermost call, and `saved` that of the call around and one more: this is what `CloseForgets` breaks. `indent` is twice the depth. A number is the
exception, its value is written on the line of its bracket and is no field (`ValueToCome`). Each of the six actions then is a block more, a call
more, or a call less.

**Golden tests** (`TestCaseProofs`). For every directory, every text, every compiler and any number of runs, from the four assumptions of
`TestCases`:

| Theorem | Says |
|---|---|
| `RunInvariant` | `RunInv`, the inductive invariant of the runs |
| `OutcomeIsReported` | `OutcomeMatchesFiles`: what a run counts is what happened to the files |
| `ProgramIsKept` | `ProgramKept`: an update leaves the program of the test as it was, where the section is in sight and the output does not hold a footer |
| `UpdatingSettles` | `UpdatesSettle`: after one successful update, or two for the test of an error, a file expects what the compiler does |

The searches, the comments and the collection are recursive functions, and what they compute is proved by induction over the set of numbers at which it
holds: that such a function exists at all (`CHOOSE` picks one that satisfies the recursion only if there is one), and then what it
returns. The first part of the module says what `find_after()` finds, partial matches included, for the two texts it is asked for
(`HeaderIs`, `FooterIs`), and with that what an update makes of a file (`Rewritten`): head, header, output, footer, tail, position by position.

For `OutcomeIsReported`, `RunInv` says that the tests collected are of different files, that what they expect is what their texts say, that
a new text gets lost only by executing its test, and how the counters relate to the files that differ (`Counted`). That an update that is called
for changes the file is `UpdateDiffers`: if it did not, the section it reads back would be the one it was told to replace.

For `ProgramIsKept`, the positions that the lexer takes for program are followed through both texts. Before the header they are the same
ones, behind the footer they are shifted by the difference in length (`Moved`), and the lexer, wherever it has started, comes to the header outside any
comment and to the tail outside any comment (`HeadMoves`, `TailMoves`): a line comment before the header has ended because the header
begins a line, and a block comment that reaches over the header would end at a footer that the search had found first.

For `UpdatingSettles`, `SettledInv` says what a success has brought about: the file expects what the compiler does, or this was the first update of
the test of an error and its section is one line now. A rewritten file expects what it was rewritten with (`UpdatedExpects`); what is printed does not
depend on places (`PrintStays`); and if one line takes the place of another, the line ends before any place of the program are as many as before
(`LinesKept`, by a bijection), so that the same error names the same line (`ErrorStays`).

**Only model-checked.** `CallsReturn` and `RunEnds` (of the lexer and of the parser), which are liveness.
Of the parser, `ModulesListed`, which is about the methods and needs more than points, places, stages and stations know.

## 6. Not modelled

- Copying, moving, comparing and iterating whole hash tables; the sizes of allocations; `hash()` itself
  (any function is allowed).
- The leak in deque move assignment; memory is what the slots hold, not what is allocated.
- Characters outside the alphabets of the lexer, invalid UTF-8 in the *input* (a `Text` is checked when
  it is made), the wording of errors, the column widths of multi-byte characters (a column counts code
  points, and so does the model).
- The functions that lex the text of one literal again (`lexer.cpp:1330-1445`): for the parser they may fail, the model
  does not say for which literals.
- The values in a node next to its children, and the printing of their contents (numbers, escapes, quoted names).
- *Flex*: nothing in `src/` uses it, so no order of its operations is one that the program performs.
- *List, Slice*: their growth and aliasing; the lists of the components above are sequences.
- *Integer, Rational*, the conversions and the remaining searches of the text utilities, the token formatter, serialization: pure functions without
  state. A number is kept as its digits.
- Semantic analysis is only declared, `main.cpp` is empty, the builtin names are a table, the effects are input and output.

## 7. Plan

What remains worth doing, most important first:

1. *The rest of the grammar proved*, by points that know which modules and imports have been opened and moved (`ModulesListed`).
2. *Relexing*: which tokens the parser's `ReadLiteral` refuses, by running `TextLexer` and `NumberLexer` on the text of one token.
3. *Whole hash tables*: copying puts the slots in slot order, as `grow()` does; iterators keep pointers into the slots.
4. *List*: the buffer, growth and aliasing, as an implementation of sequences, provable like the deque.
5. *Algorithms* against reference definitions: sort, text search and split, `Integer` and `Rational` on
   small limbs, quoting of identifiers. These stay with TLC, because they compute by recursion.
