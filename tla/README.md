# pgenc in TLA+

pgenc is a parser generator written in C. A grammar file is read into a buffer,
parsed by a table-driven engine whose grammar is itself generated by pgenc,
turned into an AST by the captures that run during the parse, and printed as C
source. This directory holds TLA+ models of that code, TLC configurations that
check them on small instances, and proofs that TLAPS checks for every instance.

## The system

| part | code | state | operations |
|---|---|---|---|
| I/O buffer | `buffer.c` | `begin <= offset <= end`, counted from the start of the stream; the storage holds the bytes `begin .. end - 1` | seek, put, get, cmp, match, scan, fread, fwrite, callbacks, vprintf, encode, decode, lens |
| parser engine | `parser_nr.c`, `stack.c` | a stack of bytes that grows down, a frame for each active node | run a grammar on a buffer |
| recursive engine | `parser.c` | the C stack | the same; it is what `parser_nr.c` replaced |
| captures | `lang/parse.c` | a list of AST nodes, an allocator stack, the tag that was set last | read a character, string or number into the list; wrap a list into a node |
| AST, syntax nodes | `ast.c`, `syntax.c` | linked cells | rev, cat, at, len; constructors and accessors |
| table | `table.c` | chained buckets, size, capacity | insert (may resize), lookup, remove, iterate |
| character sets | `charset.c` | eight words of bits | set, unset, in, union, isect, diff |
| generator | `lang/gen.c` | output, names, a number for the next unnamed parser | print an AST as C |
| grammar | `lang/proto.c`, `grammar/self.g` | none | the AST of the grammar language |
| command line | `main.c` | files, the parsed file | read, parse, generate |
| errors | `error.c`, `dummy.c`, selC | message table | report, assert |

How they interact: the engine calls the buffer for every terminal, and user code
for HOOK nodes (buffer and user state) and CALL nodes (these also get the
engine's stack, and run the engine again on it). The captures are CALL and HOOK
functions: they run the engine inside the engine, seek the buffer back to read
what was matched, and append to the list. Whoever fills the buffer compacts it,
which moves `begin` past offsets that others may have saved. `main.c` reads a
whole file, parses, frees and generates.

There is one thread. What is hard is the order of calls: saved offsets that a
later call makes invalid, storage that moves under an address, results passed
from one frame to another through one variable, stacks and buffers that are
full in the middle of an operation, reads and captures that fail half-way.
What makes each part correct:

- buffer: it is a stream; where bytes are stored, and when they are moved, cannot
  be told from outside, whatever fails;
- engine: the stack is taken down exactly as it was put up, a nested run never
  touches its caller's frames, backtracking goes back to the right place or the
  parse fails, the result is the recursive engine's, and it returns;
- captures: the list is what the successful parse captured, in order;
- table: a multimap; lists, sets: sequences and sets; generator: every name is
  declared before it is used.

## Modules

| module | models | notes |
|---|---|---|
| `ByteStream` | what a buffer keeps to | no storage; `low`, `cursor`, `len`, the readable bytes, the last call and its reply |
| `Buffer` | `buffer.c` without its text calls | one action per call; `begin`, `offset`, `end` as in the code, `mem` the storage, `asked` and `reply` the last call, its code and the bytes it copied out |
| `BufferText` | `pgc_buf_vprintf`, `pgc_buf_encode` | adds `overrun`: something was stored behind the storage |
| `BufferLens` | `pgc_buf_lens` | adds `lens`, a second buffer over the storage of the first |
| `BufferProofs` | | theorems about the buffer with text calls and lenses, `BufferLens`'s `LensSpec` |
| `Codec`, `MCCodec` | the loops of `matchutf8`, `getutf8`, `encode`, `decode` | one action per byte or digit; the decoder's table, the dictionaries, the widths of all accumulators |
| `CodecProofs` | | theorems about `Codec` |
| `Terminals` | BYTE, SET, UTF8, CMP, HOOK nodes | shared by both engines |
| `Parser` | `parser_nr.c` on `stack.c` | one action per turn of the loop of `pgc_par_run_ex` |
| `PegReference` | `parser.c` | what each function makes of the results of its calls; the comparison of the two engines |
| `MCParser` | | the grammars and inputs, and `Results` and `Turns` as TLC computes them |
| `ParserProofs` | | theorems about `Parser` (the cursor and the saved offsets, the frames, agreement with `PegReference`) and `Captures` |
| `Captures` | `lang/parse.c` | extends `Parser` with the list, the allocator and `utag` |
| `CaptureTree` | | the trees a grammar stands for, as a recursive definition; for TLC only |
| `Proto` | the tree that `lang/proto.c` builds | unchanged: its sets, words, expressions and statements |
| `Language` | `grammar/self.g`, and what `Proto`'s tree compiles to | the two grammars of the grammar language as parser nodes |
| `MCCaptures` | | sources, expressions and readers to capture |
| `Multimap` | what `table.h` promises | no buckets |
| `Table` | `table.c` | linked nodes in a heap; the loops of resize and destroy are steps |
| `MCTable` | | three keys and their hashes |
| `TableProofs` | | theorems about `Table` |
| `Charset`, `MCCharset` | `charset.c` | words of bits at addresses; the loops over all characters are steps |
| `CharsetProofs` | | theorems about `Charset` |
| `Syntax`, `MCSyntax` | `syntax.c` and the lists of `ast.c` | nodes and cells in the memory of malloc; trees are built, searched, printed and freed |
| `SyntaxProofs` | | theorems about `Syntax` |
| `Generator` | `lang/gen.c`, the accessors of `syntax.c` | the recursive calls are a stack, the output a sequence of declarations |
| `Meaning` | | what a source says, and what the declarations printed for it say: three recursive notions, as constants with equations |
| `GeneratorProofs` | | theorems about `Generator` and `Meaning` |
| `Main` | `main.c` | every call of the C library may fail; what was acquired, freed and read afterwards |
| `Program`, `MCProgram` | the whole of it | `Main` with the steps of `Generator` where it calls it; sources, among them `Proto`'s, and the recursion that has the equations of `Meaning` |
| `MainProofs` | | theorems about `Main`; that `Program` is both `Main` and `Generator` |

**Buffer.** The byte at position `i` is `mem[i - begin]`, as the code computes
`addr + (i - begin)`. `Fits` and `Compacts` are the two tests of
`PGC_BUF_ENSURE`, `Backcopy` is the storage after its `memmove`. The outcomes of
`fread`, `fwrite` and the callbacks are nondeterministic: how many bytes they
take or deliver and whether they fail. `asked` and `reply` are a history of the last call: the refinement compares them, so a call that
refuses what it should accept, or finds what is not there, is no step of the stream.
The calls of `BufferText` and `BufferLens` are calls of the stream too. Where the
code does less than one would promise, `ByteStream` has it at that call and in no
other: the last byte of a text that takes the last room may be the NUL (`Printf`), the
digits of an encode that compacts may be any (`Encode`), and a scan ends behind the
match (`Find`).
`pgc_buf_encode` is given the digits; what they are is in `Codec`. Lengths and
positions are natural numbers: sums near 2^64 are left out. A lens is a record of
where its storage begins in that of the source, and of the bytes it was taken
for; it is used to read. A compaction of the source ends it: nothing tells the
lens, so whoever has one must take another.

**Codec.** A step is one turn of a loop: the next byte is any byte, so all words
over the chosen bytes are read until the code stops. `state` and `codep` are the
two variables of the table-driven decoder. Numbers are taken modulo `Modulus`, the
count of values of `uint8_t` to `uint64_t`: TLC counts with 8 and 16 bits, the
theorems are about all four. `CodecAssumption` says what a call is: a number that
fits its width, a base from 2 to 16, of which the hexadecimal dictionary has all
digits (the code divides by a base of 0 and goes on for ever with 1), one of the two
dictionaries, and any text.

**Parser.** `frames` is the stack of bytes cut into the frames that are on it.
`at` is the stack offset at which a frame starts, so that a push of too few
bytes or a loop that stops at the wrong offset shows. `FrameSize` is what
`pgc_par_push` takes; the runs use 8, 1 and 16 bytes for a pointer and the two frames, as on a 64-bit machine
(only their sums and the room left are compared). `bases` has the
`base` of each `pgc_par_run_ex` that is active: a CALL node runs another one
(`RunCall`), which returns to its caller in `Leave`. `res` is the variable of
that name. A hook is user code: it reads some symbols, returns a code, and may
refill the buffer, after which the window begins at the cursor (`discards`).
Inputs are sequences of symbols rather than bytes; `Invalid` ones do not decode.
`exhausted` and `lost` are history variables that record a push without room
and a way back that was gone.

`PegReference` has the other engine. What a function of `parser.c` returns is a
member of `Results` (of `Turns`, for a repetition that has begun its n-th turn);
`Runs` and `RunsTurn` are the bodies of the functions, in which a call is replaced by
the results of the call. A CALL node has none: `parser.c:195-197`, under the comment
`ERROR!!!`, gives NULL to its function for a stack, on which the run that the function
is there for cannot push; and the `pgc_par_run_ex` it calls is the other engine's.
So the engines are compared on grammars without CALL nodes (`Comparable`); what
nested runs do is in `StackDiscipline`, `CallerUntouched` and the captures.
`ReferenceAssumption` says that what a body returns is
a result. The two sets are constants: `MCParser` gives them the one outcome that
recursion finds (`Eval`), of which TLC checks the assumption for all its grammars,
inputs, nodes and offsets; the theorem is about whatever has the assumption, so about
the least such sets, which is what the C code returns (nothing, where it never returns,
or where it comes to a CALL node).

**Captures.** A CALL node carries the function in it (`fun`): a reader and a tag,
or the options of `pgc_lang_readexp`. `marks` has the locals of the functions that
are active. When the run of the engine that such a function started has returned
(`Finishing`), the function goes on before any node does: `FinishTerm` reads what
was consumed, `FinishExp` merges or wraps. `alloc` is what is left of the
allocator; each captured tree has the address (`at`) below which nothing may be
freed as long as it can be reached. Numbers wrap at `2^ByteBits` and
`2^WordBits`. The engine itself is `Parser`, unchanged: every engine step is a
step of it. `CaptureTree` has neither a list nor a tag that is shared: that
`lang/parse.c` agrees with it says that captures of abandoned alternatives and
tags set by them do no harm *for these grammars*, in which alternatives that capture
differ in their first character, sit inside a `readexp`, or cannot fail any more.
The run has both grammars of the language: `self.g`, and the one that proto.c's
tree compiles to (`Compiled` in `Language` gives each expression the nodes that
`lang/gen.c` prints for it). They differ in repetitions: `self.g` wraps one
(`pgc_lang_caprep $ range term`), `proto.c:222` sets a tag after `range term`, so in
`1_2a n` the range and the `a` stay in the list of the enclosing expression, an
AND of three of which the generator takes the first two. `SyntaxIsWellFormed`
leaves out trees with a range for that grammar, and only those.

**Table.** Nodes are records in `heap` by address, `table.nodes` and `next` are
addresses. `InsertResizing` starts a resize, `ResizeStep` is one turn of its loop
on the iterator `at`, `Resized` puts the new table in place and does the insert
that was `pending`. A call that changes the table ends the caller's iteration. The
refinement maps the heap to the entries of `Multimap`, handles to addresses.

**Charset.** A call is any operation with any sets, also with a destination that
is an argument. `before` has the members of all sets at the call, `Result` the set
that `charset.h` promises of them, and `Computes` compares: the destination where it is
`Apart` from the arguments, and all other sets always. Where it is one of the
arguments, the code does not do what `charset.h:70-105` says, which has no such
exception: it clears the destination first, and that argument with it. Nothing is
claimed of the destination then. No caller makes such a call: `gen.c:478` and `491` use
locals, and so do the tests.

**Syntax.** A program is a list of constructor calls on a stack of temporaries, like
the body of `pgc_lang_proto`; `Typed` is what the prototypes in `syntax.h` say of which
of them are trees and which are lists. `pgc_ast_rev` and `pgc_ast_cat` are loops. Then the
tree is searched, printed (each `fputs` may fail) and freed, call by call of
`pgc_syn_free` and `pgc_syn_freelst`. `pgc_ast_cat` returns the last cell of its first
list, where `ast.h:357` says that it returns the concatenated list. A program
either goes on with the list it had, or takes what was returned (`taken`), as
`tests/pgenc/ast.c:158` does with a first list of one cell, of which the last is the
first. `CatReturnsTheList` is what `ast.h` says, and violated; the other properties
are about programs that take the result where it is the list (`TakenIsWhole`):
any other loses the cells before it. Nothing in the program calls `pgc_ast_cat`.
What the code does not do is modelled as that: the printer stops the program at a CALL, prints a negative character
with eight digits, and prints literals and repetitions of repetitions, UTF ranges
and hooks as text that no rule of the language reads. `Readable` names these.

**Main.** `place` is the part of the code that is next. `held` is what was acquired
and not released, `stale` who used what was not there, `output` how much of the output
there is. The program does read freed memory once: `main.c:64` copies the rest of the
input into the report after `main.c:45` freed it. It leaks the input where it cannot be
read (`main.c:39`) and the file where it cannot be measured (`main.c:25`), truncates
the output before it opens the grammar, and does not look at `fclose`. Nor does it look
at the two `malloc`s of `main.c:102-104`: `missing` has what they refused. Without the
allocator, `pgc_stk_init` writes through NULL (`Initialize`); without the memory for it,
the first capture does (`ParseCrashes`), at an address below 0xFFFFF, and the program
crashes; a grammar file from which nothing is captured goes through as an empty
list, and `free(NULL)` is none too many. `UsesWhatIsHeld` says that these are the
places where something is used that is not there, and no other.

**Program.** While `Main` is at the call of `pgc_lang_gen`, the generator's steps run on
`source`; what main.c makes of it (`Generated`, any of several outcomes) has then to
be what the generator came to (`Returned`): its error, an assertion that stopped it, or
everything printed but for what is in `missed`. `source` is chosen in the beginning:
what `pgc_lang_proto` builds where there is no grammar file (`Built`), else what the
file says; an empty file, or a parse without memory for captures, has no statement
(`Captured`). `Stopped` is the end of the program, so that a state in which main.c
waits for an outcome it has no case for would be a deadlock.

**Generator.** `stack` has a frame for each active `pgc_lang_gen_*` function, with
what the calls it made have returned: identifiers, or sets. One `Descend` serves
the scan for user functions, the expressions and the set expressions, since all
three walk a tree in the same order. Each print may fail; `Torn` stands for the
text that was cut, and everything returns, but for prototypes: nobody looks whether
one could be printed (`missed`). `Nodes` are the nodes of the expressions, which
`GeneratorAssumption` says are trees of nodes, under statements that have one as
their second part. `NumbersInScope` is about what has a number for its name: it is
declared once, above everything that refers to it. `InScope` is about sources that name things
before they use them and use each function in one way; the code checks neither.
Statements like `let a = b;` are printed as `static const pgc_par P_a = b;`: that is
not C and has neither the `struct` nor the prefix. The two properties say that a
reference without prefix stands there and nowhere else. A call of something that
is no name, which the grammar allows, stops the program (`gen.c:101`), and
nothing else does.

`Meaning` says what a source means without the generator: `Within` has an
expression and all in it, `Described` is the parser it describes, as a tree, and
`Members` the characters of a set expression in a statement, where a name is the last
set statement above it or a predicate. The three are constants: `MeaningAssumption`
has the equation that each satisfies on a node and its parts, `MCProgram` gives them
the recursive definitions, and TLC checks the equations for all its sources. It also
says what trees stand in a set statement, those that `setexp` of `self.g` builds; for
others `gen.c:510` stops the program. `Unfolded` is the printed side: a declaration with what
is numbered put in where it is referred to. `MeansTheGrammar` compares the two. A name
that is defined twice would be compared with both of its statements, so sources of that
kind are left out (`Single`); the code prints them, and the C compiler refuses them.

## Runs

| run | question | result |
|---|---|---|
| `buffer` | is the buffer a stream, whatever the calls, and is a lens over it true? | holds; 8062 states |
| `codec` | does the table decide what UTF-8 is, and are numbers read and written at every width? | holds; 27957 states |
| `parser` | stack discipline, agreement with the recursive engine where there is no CALL, termination | holds; 273070 states |
| `captures` | do the captures build the trees of both grammars, in memory that stays? | holds; 510668 states |
| `table` | is the table a multimap, also in the middle of its loops? | holds; 21786 states |
| `charset` | does each operation compute its set, and leave all others alone? | holds; 326016 states |
| `syntax` | are trees built as asked, printed so that they read back, freed once? | holds; 185719 states |
| `program` | is everything released in order, is the exit status true, does the output mean what the source says? | holds; 72726 states |
| `buffer_encode` | does encode stay inside the storage? | no |
| `buffer_scan` | does a scan leave the offset at the beginning of the match? | no, behind it |
| `syntax_cat` | does `pgc_ast_cat` return the list? | no, its last cell but for the second list |
| `parser_exhausted` | is a reported success one? | no, when the stack was full |

*Bounds.* `buffer`: storage of 3 bytes, two byte values that are digits and the NUL,
calls of up to 4 bytes (one more than the storage), 5 bytes in all, so that
every compaction with 0 to 3 unread bytes happens, overlapping matches can be
scanned for, and requests that can never fit are made. The run uses a VIEW
without `asked` and `reply`: no call depends on them, and the properties that read
them are checked on every step. `codec`: of each class of bytes in the decoder's
table the first and the last; every number of eight bits and those at the edges
of sixteen, in four styles; texts of up to three symbols, and three of five
around 65535. `parser`: every grammar of three composite nodes
on top of each other out of a list that has each kind of node in each position,
and a grammar that calls itself, as a rule and through a CALL; seven inputs up to five symbols, four of them of
one symbol or none; a stack that is ample, and two that run out at some
depth. A frame is only compared with its neighbours and with one base, which
three levels of nodes and two nested runs already show.

`captures`: both grammars from the root and from an expression, and readers
that they do not use, with all 259 inputs of up to three symbols out of six
and 23 longer ones, from `let`, `def`, `set`, `ext` and `dec` statements to
expressions that break off inside a repetition, a call or a quote; two stacks
and three allocators, of which the small ones run out at every kind of
push. Keywords are one symbol. `table`: three keys, two of which share a
bucket until the capacity is four, and capacities that make the table grow in
the middle of a chain. `charset`: three interchangeable sets of two words of two
bits, enough for three different arguments, for any two of them to be one,
and for a character in each place of a word. `syntax`: sources of up to three
statements, expressions of up to three levels with every kind of node under
every other that matters to the printer, each list built from its end or
reversed, and cut and joined at every place, with the result of joining
taken after one cell (`syntax_cat`: after any number). `program`: expressions of up to
three levels with every kind of node in every position, set expressions over
sets that were defined, predicates, and names that are neither, and the whole of
`proto.c`'s syntax (some 800 steps deep), whose prototypes are printed in one
order (`OneOrder`); files of up to two bytes, so that a read can be short and the
parse can stop before, in and at the end.

*Deadlock.* The buffer can always be called, and so can the sets: their runs check
deadlock, and so does `program`, where only `Stopped` goes on for ever. The engine,
the codec, a tree that is freed and a table that is destroyed are not called again,
so the other runs do not.

*Fairness.* Only `parser` needs it: `WF_vars(Next)` says that the one thread
keeps running and hooks return. Nothing is assumed of which step is taken.

*What the violations show.*

1. `buffer_encode`: `addr` is computed before the loop. If `PGC_BUF_ENSURE`
   compacts in the loop, the digits are still written at the old place: behind
   the storage when the window was full, and not where `end` then says.
2. `parser_exhausted`: want of stack is `PGC_ERR_OOB`, which OR and REP take for a
   mismatch. A REP whose third turn finds no room ends well with two.
3. `buffer_scan`: `pgc_buf_match` moves the offset behind what it matched, and
   `pgc_buf_scan` leaves it there; `buffer.h:163-164` says "leaving the offset at the
   beginning of the match", `tests/pgenc/buffer.c:151-152` asserts what the code does.
4. `syntax_cat`: `pgc_ast_cat` advances its parameter `a` to the last cell of the first
   list, links the second list to it and returns it. Whoever goes on with the result
   has lost the cells before it, which nobody refers to any more.

*Differences that are modelled as the code has them, without a run.* A set operation
whose destination is one of its arguments loses that argument, against
`charset.h:70-105` (`Apart`). `vsnprintf` writes at most `nbytes - 1` characters, so
`result == nbytes` is a truncation that `result > nbytes` in `buffer.c:339` misses:
the last byte of the text is the NUL. `step` is 1 when `parser_nr.c:236` first
compares it with the maximum, so a maximum of zero is no maximum (`parser.c:131` takes
it for one): the engines are compared where every maximum is at least one (`Comparable`). A CALL node stops the
recursive engine (`parser.c:195-197`).

## Proofs

For every storage length, byte set and mix of calls, of the text calls and lenses
too (`BufferProofs`), of `LensSpec` and from `BufferAssumption` only:

- `TypeCorrect`: `begin <= offset <= end` and `end - begin <= Max`;
- `OnlyWrittenBytes`: no readable byte is one that was never stored;
- `NothingUnreadIsLost`: no call changes a byte that stays readable, or makes an
  unread one unreadable, although `encode` does write behind the storage;
- `BufferIsStream`: each call is a call of the stream with the same reply, so that
  compactions cannot be seen, but in the digits of an `encode` that makes one;
- `LensIsFaithful`: a lens shows what it was taken for until its source is compacted.

The inductive invariant is `TypeOK /\ WindowWritten`. `EnsureKeepsWindow` says
what `PGC_BUF_ENSURE` leaves, `FillKeepsWindow` adds the bytes that are stored;
then every call is one of two kinds, `Reading` (it moves the cursor inside the
window) or `Writing` (it appends a part of what it stored), and `Step` goes
through the calls. For the refinement `BytesAreSlice` translates places in the
storage to positions, `FillIsArrive` says that storing bytes is their arrival in
the stream, and one lemma for each call says which call of the stream it is. The
assumption has `MaxChunk # 0`: `getchar` is a call for one byte there.

For every grammar, input, stack length and frame size (`ParserProofs`), from
`ParserAssumption`:

- `TypeCorrect`: types, and the cursor stays in the window;
- `WaysBackAreOrdered`: the offsets that waiting choices and repetitions would
  go back to are ordered like their frames and never ahead of the cursor;
- `LostParsesFail`: once a way back has left the window the parse returns
  `PGC_ERR_OOB`; no alternative runs from the wrong place.

`LostStaysLost` is not inductive. It needs that the offsets are ordered (the
outer ways back are then gone too), that frames below the top wait (so that the
next node to run is one that looks at the result), and that everything that
waits was saved before `begin`: that conjunction, `Inv`, is the invariant.

On top of it (in the same module), under the same assumption:

- `StackIsDisciplined`: the frames tile the stack from its end down to the top,
  and each run's frames lie below its base;
- `CallersAreSafe`: a nested run changes and removes no frame of its caller.

`SInv` says that neighbours touch (`TiledIn`), that a frame further up lies at a
lower offset (`Descending`: this follows from the first by induction over the
frames, so it is made a part of the invariant), and that each base is where a
frame of the caller begins (`Based`).

And from `ReferenceAssumption`:

- `EnginesAgree`: `AgreesWithReference`, what the engine returns is what the rules of
  `parser.c` give for the grammar, the input and the root, the cursor included,
  unless the stack was too small or a way back had left the window, for grammars without
  CALL nodes and maxima of zero.

The invariant `Agreeing` is about the frames as a continuation. `Serves(fs, S)` says
that there is a set for every frame of `fs`, S for the top one, of what may be
returned to it, such that each frame makes of it something in the set of the frame
below (`Passes`: the rest of the body of its function), and the lowest a result of the
root. The engine's frames serve the results of the node on top if it has not
run, else the outcome that was just returned. So an induction over the recursion of
`parser.c` becomes one over the steps of the other engine.

For every grammar with captures, reader, option, allocator and width
(also in `ParserProofs`), from `CapturesAssumption` too:

- `CapturesAreTyped`: `marks` keeps in step with the runs of the engine, and no
  function began ahead of the cursor;
- `NothingIsFreed`: no tree that can be reached is in memory that was given back;
- `EngineUnderCaptures`: what is proved of the engine holds under captures.

The invariant `AllInv` puts these together, since they need each other: `readstr`
takes `offset - start + 1` bytes, so that a capture takes memory at all depends
on the engine's never going back to before the start of a function that waits
(`Parted`, with the ordered offsets); and the engine's invariant survives
`FinishTerm` only because the reader seeks back to where its own parser began and
returns to where it ended. `CallersWait`, `Depth` and `Marked` say which frames wait
for which function, and that the functions are in step with the runs of the engine
and ordered in the input and in memory.

For every number of sets, words and bits (`CharsetProofs`): `OperationsAreSets`, each
operation computes its set, turn by turn, into a destination that is not one of its
arguments, and leaves all others alone, and `TypeCorrect`. `PlaceIsUnique` is the
arithmetic of words and bits; `MembersWith` and `MembersWithout` lift it to sets of
characters.

For every source (`GeneratorProofs`), from `GeneratorAssumption` and, for the last two,
`MeaningAssumption`:

- `NoSetIsLeaked`: the sets that are allocated are those in the table and the one
  in hand, and none when `pgc_lang_gen` returns, wherever it failed. The
  invariant adds only that the table is a list; each action returns, enters the
  set in hand, allocates one, or leaves all of them alone.
- `CallsFollowTheTree`: `TypeOK`, which says that each active call is of a part of the
  expression of the call above it, and has the results of the parts before.
- `NumbersAreDeclaredOnce`: `NumbersInScope`. It needs that every number declared so
  far is below the counter, and that every number that a call has returned was
  declared: the frames carry them until the parent refers to them.
- `DeclarationsAreInScope`: `InScope`, what is printed refers to nothing that is not
  above it, and nothing is declared twice. The invariant follows everything that can
  be referred to from the place where it comes into being: `Placed`, the calls that are
  active lie within the expression of the statement that the loop is at; `Gathered`, every
  function that the expressions use was entered during the scan, under one type if the
  source is consistent; `Introduced`, what is printed and what the calls have collected
  can be reached (`Fits`) from the statements done, the functions declared or missed
  and the numbers.
- `DeclarationsMeanTheGrammar`: `MeansTheGrammar`. `Understood` says that what each
  call has collected, unfolded, stands for the parts it has done, so that a node is
  printed as described (`NodeSays`); a declaration more leaves what those above it say
  as it is (`UnfoldedMore`, since numbers are declared once). `Evaluated` is the same for
  sets: the table has the sets of the statements done and the calls those of the parts
  done. `Kept` carries it to the end: the definitions that were printed are those of
  the statements done and say what these do (`Faithful`). `Unfolded` is a recursive
  function in the model; that it exists goes by `Induct`, described below.

For files of every length (`MainProofs`), the properties of `Main`:
`UsesOnlyWhatIsHeld`, `ReleasesOnce`, `SucceedsWithTheWhole`, `StatusIsTrue`. The
invariant ties to each `place` what is held there, as far as `malloc` returned it, and
what is known of the output and the error. `ProgramIsMain` and `ProgramGenerates`:
`ProgramSpec` implies `MainSpec` and the generator's `Spec`, so all these theorems and
those of `GeneratorProofs` hold of the program as it is composed.

For every hash, finite set of addresses and capacities (`TableProofs`), from
`TableAssumption`:

- `TypesCorrect` and `StaysIntact`: no node is lost, shared or filed under the
  wrong bucket, also in the middle of a resize and of a destroy;
- `IsMultimap`: `Spec => ImplementsMultimap`: every call returns what it would of a
  table without buckets, and the turns of the loops show nothing.

A chain is the function that has its nodes by position (`InBucket`), and a `Layout`
has one for each bucket, without a node twice and with every node where its key
belongs; `LayoutPush` and `LayoutCut` are the insertion and the removal. `Rest` gives
the heads of what an iterator has still to visit, so that the iterator of a caller,
of `pgc_tbl_resize` and of `pgc_tbl_destroy` are all the same thing: a table with a
layout that loses its first node in each turn (`LeavesOne`). The invariant `Tidy`
says which nodes are in the table and which are ahead of the iterator. `Walk` is
recursive in the model; `WalkIs` turns it into the chain by induction in the form
"a set that has 0 and every successor has all numbers" (`Induct`, from the
well-founded order of the library), which needs no operator as a parameter.

For every set of bytes and calls (`CodecProofs`), from `CodecAssumption`:

- `CharactersAreDecoded`: what is accepted is a code point with its encoding, what is
  refused begins no character, what is cut off begins one, and four bytes always
  decide. `Partial` says what a state of the table stands for: how many bytes are
  missing, and that the code points that begin with the bytes so far are those
  from `(p * 64 + From) * Weight` up to `(p * 64 + To + 1) * Weight`, with `p` the bits
  there are. `Beginnings` is that of the first byte, `NextStates` and `NextBits`
  what another one does to state and range; overlong forms and surrogates are the
  states whose `From` and `To` are not 0 and 63. `Bytes` and `FirstOf` are the
  arithmetic of the encoding.
- `NumbersAreWritten`, `NumbersAreRead`: `EncodesNumber` and `DecodesNumber`, in all
  four widths. The invariant of encoding is that the digits written, read
  backwards, and the rest make up the number; that of decoding, that the
  accumulator is the number of the digits modulo the width. `Numeral` is a
  recursive function: what it does with one digit more, or with one in front, goes
  by `Induct` again.

For every program that C's types allow and that takes what `pgc_ast_cat` returns only
where it is the list (`SyntaxProofs`, of `Spec /\ []TakenIsWhole`), from
`SyntaxAssumption`: each call takes what its prototype says from the temporaries that
the calls before it left (`types`), and what is left in the end is one tree.

- `NodesAreTyped`: `TypeOK`, what is in memory is a node with a value, one with a list
  or a cell, also in the middle of `pgc_ast_rev` and `pgc_ast_cat`, which write
  through the addresses they hold (the invariant says more: which of them points where);
- `NodesAreOwnedOnce`: `OwnedOnce`, no node or cell has two owners and none is
  lost, whatever is built, reversed and joined;
- `TreeIsReleasedOnce`: `ReleasedOnce`, `pgc_syn_free` goes on with nothing that it has
  freed, so it frees nothing twice, and when it returns it has freed everything.

The invariant is that memory is a forest (`Forest`) whose roots are what the program
holds: no pointer is shared, what is no root has an owner, and there is no cycle,
said as "no set of objects has all its owners in itself", which needs no
induction. `Grow` is a constructor that takes roots under a new one, `Relink` is a
turn of the loops, which moves one pointer, `Uproot` is a root that is freed. That
`pgc_ast_cat` makes no cycle when it links the second list needs that the cell it
has reached is under its first list (`Above`). For `pgc_syn_free` the forest is
what is left when the list of each node whose call is active counts as given
away (`Bare`, `Left`): its roots are the tree and the cells that the calls have
reached (`Releasing`).

Only model-checked: `OutputIsOfTheSource`; `AgreesWithTree`, `SyntaxIsWellFormed`,
`PrintedReadsBack` and `TreeAsAsked` (what they compare with is recursive, and induction over it is beyond
the provers; that a list of captures is the tree of its grammar also holds for these
grammars only, as said above), and `Termination` (liveness).

## Not modelled

- The messages of `error.c` and the text the generator prints (layout); the codes
  are values in all models.
- selC, which is not in the repository, and the tests, which were read for the
  calls that are legal and what they are meant to return.
- The one-line constructors and accessors of `ast.c` for number types that nothing
  uses, and a failure of `malloc` in `table.c`, `ast.c` and `gen.c:596` (the set of a
  statement), at which the code does not look; those of `main.c` are modelled.
- Writing to a lens, which stores into the window of its source.
- Lengths near 2^64, and the alignment of
  what `lang/parse.c` pushes after a string of odd length: the allocator is a
  number of bytes, and the address of its memory is the caller's.
