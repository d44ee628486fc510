# Verification of libnmjson

TLA+ models of libnmjson, a C library that parses and writes JSON without
malloc, the TLC runs that check them and the theorems TLAPS proves about them.
Paths are relative to the directory of the repository (`src/...` is its source
tree: `src/src/parser/...` is the repository's own `src/parser/...`).

## The system

The library is single-threaded and calls the kernel only to read and to write.
What makes it hard is that everything is incremental and shares one buffer and
one pool: a document may arrive in any number of reads, and every one of them
may end in the middle of a lexeme.

| component | state | operations | relies on |
|---|---|---|---|
| parser `nmjson_parser_parse.c`, `nmjson_parser_.c` | two mode flags, dialect, free and active list, root, vessel, pending value, result, cursor | parse, reset, reset as superset, init, get root | scanners, lists, tokens |
| token pool and lists `linear_linker.h` | doubly linked lists of tokens | add, delete, pop, insert, insert in order, sort, n-th | |
| stream buffer `nmjson_buffer_.c` | bytes read, the parser, last result | init, read, read for command | parser, `read(2)`, the user's callback |
| lexeme scanners `private_funcs/*.h` | none (they write into the buffer they read) | number, true/false, null, string, bare name, comment | UTF-8 conversion |
| token access `json_token.h` | none | typed getters, n-th child, member by name | sorted members |
| token printer `nmjson_token_fout.c` | position in the tree | print a tree without recursion | token tree |
| writer `nmjson_writer_*.c` | depth, need_comma, last error | begin, end, put_* | `write(2)`, `fwrite`, a callback |
| UTF-8 conversion `utf8_.c` | none | decode, encode, surrogates | |
| builder | | a design note, no code | |

How they meet. The caller, or the buffer, gives `nmjson_parser_parse` a string
that ends in NUL. It reads lexemes, takes tokens from the pool, hangs them in
the tree and stops at the end of the document, at an error, or at the NUL with
"incomplete". The caller may then append bytes and call again: the parser goes
on at its cursor. `nmjson_buffer_read` does that over a descriptor: load, parse,
call back, dequeue, reset, and again until a turn leaves the length alone.
Tokens point into the buffer, so they live until the dequeue.

What makes each component correct:

- **parser**: accepts exactly JSON (with the extensions of the dialect); a cut
  leaves no trace; the pool is conserved; no pointer to a free token; the tree is
  a tree; closed objects are sorted; an error code says what happened.
- **lists**: every operation keeps `next`/`to_self` consistent; the sort is a
  stable permutation.
- **buffer**: how the stream is split into reads does not matter; one turn takes
  one document; no byte is lost or seen twice; the buffer never jams; the loop
  ends; the return value tells the last thing that failed.
- **scanners**: a proper prefix of a lexeme is "cut" and never "bad"; what is decided
  on a beginning does not change with the bytes that follow; decoding in
  place does not overtake itself; escapes and surrogates decode to what they say.
- **access**: the search finds a member if it is there.
- **printer, writer**: what is written is JSON, whatever the order of legal calls,
  and a failed write is reported; the descriptor gets every byte once.
- **UTF-8**: decode and encode are inverse on Unicode scalar values.

The hard behaviours are suspension and resumption at any byte, the pool running
out at any token, errors with a token in hand, resets at any time, several
documents in one read, and callbacks and reads that fail in between. There is no
thread and nothing persisted. PROJECT.json lists the hazards line by line.

## Modules

| module | what it is |
|---|---|
| `JsonText` | abstract: the beginning of a JSON document, and the lexemes it admits |
| `JsonGrammar` | abstract: the acceptor made of it |
| `Parser` | the parser, its pool and its tree; properties and mutants |
| `ParserText` | what the parser has read, as `JsonGrammar` sees it: the refinement mapping |
| `ParserMC` | values for TLC |
| `ParserProofs` | the theorems about `Parser`: types, pool, modes, links; order of members, no token wasted, cuts; it implements `JsonGrammar` |
| `Numbers` | a set of natural numbers has a least element; recursion and loops by rank |
| `Buffer` | the stream buffer, over a parser on a small alphabet; properties and mutants |
| `BufferProofs` | the theorems about `Buffer` |
| `Writer` | the writer over writes that fail, against `JsonText`; properties and mutants |
| `WriterProofs` | the theorems about `Writer` |
| `Links` | the list macros, as operators on cells and nodes |
| `TokenLists` | pool and members on these links, the sort turn by turn, the readers of an object; properties and mutants |
| `TokenStore` | abstract: two stacks, and members that are sorted once, stably |
| `TokenListsMC` | values for TLC; the refinement of `TokenStore` |
| `LinksProofs` | what the list macros do to lists, said of the sequences they are |
| `TokenListsProofs` | the theorems about `TokenLists`; it implements `TokenStore` |
| `Utf8` | the four conversions of `utf8_.c` |
| `Scanners` | the five lexeme scanners and the two decoders, byte by byte |
| `Getters` | a string read as an integer or a truth value |
| `StringWriter` | how the writer and the printer escape a string |
| `Channel` | a lexeme sent through the descriptor loop and scanned after every portion; properties |
| `ChannelMC` | what is sent, with the meaning it should have, for TLC; properties |
| `ChannelProofs` | the theorems about `Channel`, and with it about the scanners |
| `Printer` | the walk over a token tree without recursion; properties and mutants |
| `PrinterProofs` | the theorems about `Printer` |

`Parser` has the verdict of a scanner as an input and sets and sequences in the
place of lists; `Scanners` and `TokenLists` are what stands behind these. `Channel`
composes sender and reader: `StringWriter` writes, `Scanners` reads.

Operators marked "Mutant" are plausible bugs of the definition that follows
them; each property is broken by at least one of them.

### Parser

One action is one turn of the parse loop, that is one lexeme: `ReadOpen`,
`ReadClose`, `ReadString`, `ReadColon`, `ReadComma`, `ReadComment`, and `ReadWord`
for numbers, words and bare names; `ResetAsSuperset` may come at any moment. The
disjuncts of an action are the exits of its `case` in the source, in their order.

- *Scanners are inputs.* An action has a `scan`: "ok", "cut" (the buffer ends in
  it) or "bad". After a cut, the next call reads the same lexeme from its first
  byte, so `cut` remembers its class. The caller parses on only after
  "incomplete", as `json_const.h` has it.
- *The pool.* `free` and `active` are sets: the lists are LIFO, free tokens are
  alike, and leaving their order open allows more than the code does. `tok` is
  what a token holds; children are a sequence. In heap mode (`Static = {}`)
  new tokens come from `Heap`, until a reset has put some in the free list.
- *Names* are their rank in `token_compare_name_`; `SortedByName` is what the
  sort promises, a stable one.
- White space and the end of the buffer between lexemes change nothing that is
  modelled: stuttering. The cursor is the buffer layer's matter.
- In JSON5 a bare name may follow a name, as in the source; see the findings.

### Buffer

`Load`, `WouldBlock`, `Closed`, `SystemErr` are the answers of `read(2)`;
`Dispatch` and `ProcCmd` are one turn of the loop of the two entry points, with
the callback's answer as input. `Accumulate` is the return value, `EndTurn` the
comparison that ends the loop. The parser is a function of its state and the
bytes (`Run` is the parse loop, one `ReadChar` per lexeme): brackets nest, `1` is
a number whose end has to be seen, `,` and space are the rest. It has a cursor, its increments (a bad comma moves it by two) and
the pool as a count. `cause` is a history variable.

`Load` also has the branch for a full buffer, which judges by an errno that no call of
its own has set; `LoadableWhenIdle` says that it is never taken. Behind a refused comma
that is the last byte of a full `cmdbuf`, the test of the parse loop looks one byte
behind the array before it looks at `break_loop` (`nmjson_parser_parse.c:378`): no
state depends on that byte, so the model cannot show it.

### Writer

One action is one call: `Begin`, `End`, `Put` (null, bool, integers, strings),
`PutFloat`, and `Reinit` for a new text with the same structure. `depth`,
`needComma` and `err` are the fields of `nmjson_writer_t`; `text` is what has been
written, as a reader of JSON sees it (`JsonText`).

- *Failing writes.* A call writes a comma, a key, a colon and its token, each only
  where the code does; `place` is the write that fails, `torn` whether a part of
  its bytes went out. A `write(2)` loop, an `fwrite` and a callback can all do that.
  White space is not written: failing to write it is failing at the next lexeme.
- *The caller* nests as `nmjson_writer_with_object` and `_with_array` do: a block is
  entered when `begin` succeeds, and left by one `end`, also after an error inside;
  members of an object have keys. Nothing keeps it from going on after an error.
- `blocks` is the caller's nesting, `damaged` a history variable: some call failed
  in the middle.

### Links, TokenLists

A list of `linear_linker.h` has nodes with `next`, and with `to_self`, the address
of the `next` or of the head that points to the node. Such an address is a cell:
a node stands for its own `next`, the other cells are heads. `Links` has one
operator per macro. `TokenLists` uses them as the library does: `alloc` are the
links of the pool (heads "free" and "active"), `sib` those of the members of the
one object (head "o", and "dest" while it is sorted).

`FillPool` is init, `OpenObject` and `ReadName` take a token, `CutName` takes one and
gives it back, `ReadValue` hangs it behind the others, `CloseObject` calls the sort,
`Reset` and `ResetToken` empty the active list one by one. The sort is one action
per turn of each of its loops, so that every property is checked between any two
of them; `local` are its local variables. The block size, 16 in the code, is
`BlockSize`. `NthChild` and `ObjectToken` read the result. `order` is history: the
members as they were read.

A name is its length and its bytes' rank; that is all that is compared.

### Utf8, Scanners, Getters, StringWriter, Channel

A scanner is an operator: from the bytes that have arrived, beginning at its
lexeme, to the length of the lexeme (0: cut, -1: none), its type and its value.
The scans over bytes are recursive functions on the state of the loop in the
code (`ScanState`: position, hexadecimal digits due, escaped; `DecodeState`: both
cursors, the buffer, the waiting surrogate), and one operator is one turn of it
(`LiteralTurn`, `IdentTurn`, `DecodeByte`, `DecodeNameByte`). Decoding happens in the buffer it
reads: `Copy` writes into `buf`, and `ahead` records whether the write position ever
passed the read position.

`strtoll`, `strtoull`, `strtod` and `strtoul` are external, modelled by what they
accept; an integer is a signed word of -`IntMax` - 1 to `IntMax`, a float only its
type. Bytes are numbers; `Ord` has the codes of the characters that are named.

`Channel` is a sender whose `write_` calls go through the loop of `write_fd_` (`onset`),
which may be accepted in any portions or fail, and a reader that scans again after
each portion, as the parser does after "incomplete". `ChannelMC` builds what is sent
from parts; bytes and meaning of each part are written down there by hand, from
RFC 8259, RFC 3629 and the JSON5 specification, or are what the writer or the
printer was given. Some strings hold numbers or words, and say what the getters
of `Getters` should read in them.

### Printer

One action is one turn of the loop of `nmjson_token_fout3`: `Descend`, `Pass` (to the
sibling), `Return` (to the parent), `Finish`, and `Fail` for a write that fails in
it. `tree` is any tree, `self` any token of it. Instead of the text, the model keeps
what is still `due`: the lexemes that recursion over the tree would print
(`Text`), less those printed already.

## Runs

| run | instance | shows |
|---|---|---|
| `parser` | a pool of 3, two names, plain JSON and JSONC | type, pool, tree, sort, invisible cuts; implements `JsonGrammar`; refuses only what the grammar does not admit |
| `parser_heap` | no pool, 3 allocations, JSON5 and rough | no dangling pointer; the modes agree, in the dialects with the most lexemes |
| `parser_bare_name` | JSON5 | *violation*: a name is taken though no input is due |
| `buffer` | 5 bytes, 2 tokens, both entry points | splits do not show; a turn takes exactly the document; never jams; return value; the loop ends |
| `buffer_undispatched` | 5 bytes | *violation*: a call returns with a whole document in the buffer |
| `buffer_unclean` | 3 bytes | *violation*: a call that reports an error (-2 or -3) leaves bytes in the buffer |
| `writer` | 3 nested containers | the depth is right whatever fails; the text is JSON unless a failure was torn |
| `writer_silent` | 2 nested containers | *violation*: a failed write of a NaN goes unreported |
| `lists` | 8 tokens, 3 names, blocks of 2 | links mutual between any two turns of the sort; no token lost; sort stable (implements `TokenStore`); search and index right; sort and reset end |
| `scanners` | 7500 lexemes of all kinds, every split | verdict, meaning and value are those of the whole lexeme; what is decided on a beginning is final; decoding stays behind its reader; every byte arrives once; getters read the text of strings |
| `scanners_hexa` | JSON5 literals | *violation*: the character behind `\xHH` is read as an escape |
| `printer` | all trees of 5 tokens, all subtrees, any failure | prints what recursion would; the indent is the depth; the walk ends |

**Bounds.** Three tokens make a document with an object in an array, two members
of one object, the pool running out at each kind of token, and a token reused in
a later document with another role. Two names make equal and unequal neighbours.
Tokens are interchangeable, so symmetry is used (no liveness is checked there).
Five bytes hold two documents, one with a nested document, a document after
white space, a number cut at each place, a pool that is too small, an error with
a document behind it; every content of these bytes and every split of it into
reads is explored. Three levels hold an array in an object, an object in an array, and a third to come
back from. Up to seven members in blocks of two make up to four blocks, full and
not, two passes of merging, a section without a right one, sections that are
presorted and not in one pass; three names, of which two have one length, make
equal names within and across sections. A lexeme has up to three parts around
which it is cut at every byte: behind a part a scanner is in its main state, or
waits for a low surrogate or the second half of a line break, so that pairs of
parts show all it can carry over. A word of four bits has all the edges of one of
64. Five tokens make a container with children before, between and behind
siblings, and a return over two levels at once. `CmdbufLen`, `TokensNum`, `Static`,
`Heap`, `Names`, `MaxDepth`, `Nodes`, `BlockSize`, `IntMax`, `MaxTokens` and the
sources of `ChannelMC` are the only bounds; no counter is cut off.

**Fairness.** `Buffer` has weak fairness of `Turn`, the turns of the loop of a
call that is running: the code is sequential and does not wait in it (the
callback is taken to return). Nothing is assumed of arriving bytes. `LoopEnds`
needs it. So have the turns of the sort and of the reset in `TokenLists` and those
of the printer, for the same reason; that a caller ever calls again is assumed
nowhere. The parser, the writer and the channel have no fairness and no liveness.

**Deadlock** is checked, except in the runs of `ChannelMC` and in `printer`, where
the sending or the printing is over at some time.

## Findings

- `nmjson_parser_parse.c:532`: a bare JSON5 name does not require input mode, as
  the comment above it says; `{a b:1}` is accepted as `{b:1}`, and the token of
  `a` is in use, in no tree, until the reset.
- `nmjson_buffer_.c:237`: `prev_index` is the length before the read. `[1`, then
  `][]`: the first turn hands over `[1]` and leaves two bytes, as many as before
  the read, so the call returns and `[]` waits for the next one. In `read_for_cmd`
  the beginning of a broken document does as well: `[1`, then `[]`.
- `nmjson_buffer_.c:160`, `:261`: the header says the buffer is cleaned on -2 and on
  -3. On -2 it is left as it was. On -3 it is cleaned but for a syntax error in
  `read_for_cmd`, which goes on with the next byte; what is left when the call
  returns waits for the next one, its beginning already parsed (`1[` leaves `[`). The
  run stops at either.
- `nmjson_writer_put_.c:535`, `:550`: when the write of a NaN or an infinity fails,
  the call returns success and records no error.
- `token_input_literal_.h:231`: decoding `\xHH` does not leave escape mode, against
  the comment at `:222`; `"\x41b"` becomes `A` and a backspace.

Met while modelling, without a line of the repository that says otherwise (the
runs leave these inputs out, or except them by name):

- `token_parse_.h:181`: `1e` at the end of a read is cut, `1.5e` is refused
  (`CutInExponent`), so a float with both can fail by where it is split. That the end
  of the text may be the middle of a number is what the comments at `:169` and
  `:224` say of other places.
- `token_parse_comment_.h:10`: `/*/` is a whole comment, as the search for the end
  begins at the asterisk that opens it.
- `token_parse_.h:207`: an unsigned value without a signed one is stored negative
  (modelled; `NumberKeepsValue` counts it as kept modulo 2^64).
- `token_input_literal_.h:206`: a low surrogate alone is accepted; in a bare name
  a high one at the end is dropped without an error.
- `token_input_e5ident_.h`: a bare name ends for `determine_e5ident_` also before
  bytes that are not UTF-8, for the decoder only before a colon or white space.
- `json_token.h:133`: a string is converted from its start, so the prefixes `0o`
  and `0b` give the default, and white space without digits gives 0.
- `utf8_.c:194`: a sequence that the terminator cuts counts as far as it goes, so
  the printer writes `\u0003` where the writer writes `#C3`.
- `nmjson_token_fout.c:39`: a failed write of the last character of a string is not
  seen, `:134` nor one of the indent.

## Proofs

`ParserProofs` proves, for every pool, heap, set of names and set of dialects
allowed by the assumptions of `Parser` (the two kinds of token are apart, NULL is
neither, names are ranks):

1. `TypeCorrect`: `Spec => []TypeOK`; the parser never reports the buffer's code.
2. `Invariant`: `Spec => []IInv`, from which follow `PoolIsConserved`,
   `ModesAgree`, `TokensErrorsAreReal`, `NothingDangles` and `TreeIsLinked`.

`IInv` is the conjunction of those five with two facts they need. That the pending
token is a leaf without children (`PendingIsLeaf`) is what makes it safe to hang
it in the tree: it cannot hang there already, nor have children of its own. That
every parent is a container (`ParentsAreVessels`) lets `ReadClose` move to the
parent and find a container there. The five need each other: hanging a token keeps
the tree only if the token is not in it (modes), a token new_token_ returns is in
no tree only because nothing leads out of the active list (dangling), and a value
is written to an existing token only because the modes agree.

The proof has one lemma per way a lexeme can end (refused, held, cut, a value, a
name, opened, closed), each for every part of `IInv`, and one step per action that
picks the ways. Sorting enters by one fact: it permutes the children.

The second part of `ParserProofs` goes on from `IInv`:

3. `ObjectsAreSorted`, in every dialect; `NoTokenWasted`, `CompleteMeansWhole` and
   `CutsDoNotShow` for callers that never ask for JSON5, where a bare name may be
   dropped (see the findings).

What can be walked to (`Reachable`) and what is still open (`OpenPath`) are least
sets closed under children or parents, so that nothing has to be proved by
induction: to show that a token is not reached, name a closed set without it.
`TreeStep` says that a step leaves the tree alone (`Kept`), hangs a token (`Hung`),
plants the root (`Planted`), closes the vessel (`ClosedUp`) or drops the tree
(`Emptied`), and what it does to the accounts of the pool; for each of the five there
is a lemma about the two sets. `SortInv` adds that open containers are in the tree
and that members have names: only a vessel is open and gets children, so what is
closed stays as it was sorted.

The last part proves the refinement:

4. `ParserReadsJson`: `Spec => ImplementsGrammar`, in every dialect and with every
   pool; `RefusalsAreGrounded`: `RejectsOnlyUngrammatical`, without JSON5.

The mapping reads the stack of the grammar off the parent pointers. That these end
at the root, in an order, is an invariant of its own (`PathInv`: some sequence of
tokens without repetition is the way from the root to the vessel), and each of the
five kinds of step has a lemma on how that way changes: it stays, grows by one or
loses its last. `AdmittedText` is the heart: the two flags, the vessel and the pending
token decide exactly what the grammar decides by its stack and what is due.
`MemberRead` makes "next" of a comma. For refusals there must always be a token for
the root, else its bracket would be a syntax error (`SomeToken`).

`WriterProofs` proves, for every `MaxDepth`:

5. `TypeCorrect`, `DepthIsTheBlocks` and `WhatIsWrittenIsJson` of `Writer`.

Here the three invariants are inductive together: `depth` stays a natural number
because it is the number of blocks, and the comma is right because the text is
JSON. `PrefixText` is the heart of it: after the comma and the key, the text waits
for a value, in any kind of container. A failed call then either changed nothing,
or counts as damage.

`TokenListsProofs` proves, for every set of tokens, names and every block size:

6. `TypeCorrect`, `PoolLinkedAlways`, `PoolKeepsTokens` (after init every token is on a
   list of the pool, which runs in no circle, so that no macro follows a `to_self` that
   is NULL), `MembersLinkedAlways` (at every turn of the sort), `NoTokenIsLost`,
   `ChildrenCounted`, `LookupIsExact`; and `ListsImplementStore`:
   `Spec => ImplementsStore`. They hold for every finite set of tokens
   (`PoolAssumption`: it is an array).

Pointers are awkward to reason about and sequences are not. `Shape` therefore says
that the two lists of the pool, and `dest_list` and the object's list, *are* two pairs
of sequences in which no token comes twice (`TwoLists`), that every other token is
unlinked, and at which places of them the cursors of the sort stand. `LinksProofs` has
one lemma per macro: what was the sequence `s` is now `Inserted(s, k, x)` or
`Removed(s, k)`, or what one list had behind a place is now behind the other
(`InsertList`, `DeleteList`, `MoveFront`, `RejoinLists`, `TakeOver`), and one on what
walking finds (`ChainIs`, `SearchEnds`). From `Shape` follow the links, the counts and
the types.

That the sort sorts is `Sorted`, said of `Whole(d, s)`, the object's list and
`dest_list` as the one sequence they will be. At the labels of the insertion pass, blocks of
the width are in order, and the token in hand has its place among those of the block
that were inspected (`Inserting`, `Blocks`); at those of the merge passes, what lies
behind `base` is runs of the width, what lies before it runs of twice that, and of the
two runs being merged the smaller members are already in front (`Merging`, `Runs`,
`Parted`). `Less` is the order of the names and, among equals, the order the members
were read in: stability is part of it. At the end one run covers the object, so the
search, which gives up at the first greater name, finds the member that was read
first (`SearchedUpTo`).

For the refinement, the two stacks of `TokenStore` are the two sequences of the pool.
Its members (`Held`) are those read until the last pass has gone through, and the
chain after it: the turns of the sort stutter but the last, which is the step
`Sort` of `TokenStore`, as only one sequence is a stable ordering of another.

`BufferProofs` proves, for every size of `cmdbuf` of at least two bytes and every pool:

7. `TypeCorrect`, `NeverJams` and `ReturnIsRight` of `Buffer`, from `CallInv`: no call
   returns with a full buffer, because the length that ends the loop was compared
   with the room on the turn before (`RoomLeft`), and what is reported took a byte
   at least (`RunEnds`), so that a dequeue makes room.
8. `ChunksDoNotShow`: a suspended parser goes on to the result that one pass over
   all the bytes gives. A lexeme that was read whole is read in the same way when
   more bytes follow it (`SameLexeme`: the end of the number had been seen), and one
   that was cut left the state alone; so, along the loop, resuming where it
   was suspended is going through all (`Resumes`). Between two calls the parser
   either was reset or waits for bytes (`Resumable`).
9. `TurnsTakeDocuments`: a turn reports a document when, and only when, one is at the
   head of `cmdbuf` and the pool has the tokens for it, and removes exactly that one.
   `IsDocument` is said of a text as a whole (brackets that close at the end, which
   characters may be adjacent), the parser goes byte by byte: `Known` ties them. It
   says that the bytes read so far may begin a document, that `depth` counts the
   brackets still open, `used` the tokens begun, and that `due` is told by the last
   character that is not white space. `TakesWhatFits` is the heart: the parser takes the
   next character exactly when it may be adjacent to that one. So a refusal means that
   no document begins with these bytes (`Refused`), a full pool that the document needs
   more tokens (`TooMany`), the last bracket that they are a document
   (`ClosedDocument`). The parser of the turn may have been suspended: 8 says that its
   result is the one of a parser that starts afresh.

The parse loop is a recursive function. That it is defined at all (`LoopDefined`: the
trace of the loop from each state) and that what holds where it stops holds
everywhere (`LoopInduction`) are proved from the fact that a set of natural numbers
has a least element, as the distance of the cursor from the end of `cmdbuf` falls
with every lexeme (`ReadCharSteps`).

`PrinterProofs` proves, for every `MaxTokens`, so for every tree and every token of it:

10. `TypeCorrect`, `WalkPrintsTheTree` and `IndentIsAlwaysDepth` of `Printer`: what has
   been printed and what is due are together the text that recursion defines.

In a tree a parent has a smaller number than its children and a sibling a larger
one than the one before: on that rest the recursive functions of the model
(`ListedIs`, `DepthIs`). `WalkInv` says that what is due is the rest of the current
token, then of every token above it (`RestIs`); `TurnIsDue` is the heart: each of the
four turns prints exactly the first lexeme of that and leaves the invariant true.

`ChannelProofs` proves, for everything that may be sent (any number of calls, any
bytes, any dialect) and every width of word:

11. `EachByteArrivesOnce`: what has arrived is what the calls before this one sent
    and, of this one, the part that has been accepted (`WireInv`).
12. `TypeCorrect`: no scanner finds the end of a lexeme behind what has arrived, and
    every value is a word or a string of bytes.
13. `DecodersStayBehind`: no decoder writes over what it has still to read.
14. `VerdictsAreFinal`: however the text is split, what a scanner decides on its
    beginning is what it decides on the whole: where a literal, a name or a comment
    ends, which keyword or number it is, what a literal without `\xHH` is decoded to.

For 12 and 13, every scan is a loop whose position rises in the text (`ScanTyped`),
so that it ends, and ends in it, for every text. A decoder keeps `Behind`: its write
position is not past its read position, and strictly before it inside an escape.
Each step has a lemma saying that it moves both so that this stays true (`Advances`).
The step that could break it is `\uXXXX`, which goes on four bytes even where fewer
digits are left: `HexIs` and `EncodeIs` say that what m digits are worth is written in
at most max(m, 1) bytes, so that the write position stays in the text that was there.

For 14, two texts are compared of which one begins with the other (`Begins`). Two
loops that go on alike wherever the first is not cut end alike (`ScansAgree`); what
is left per scanner is that a turn reads no byte behind the one it stops at
(`LiteralTurnStays`, `IdentTurnStays`, `LoadStays`, `StrtodStays`). That the decoded
text agrees needs more, as the decoder reads without asking: `Tracks` says that it
only comes where the scan has been before it, so that all it reads is in the lexeme
(`ByteGoes`), and `Alike` that the two buffers stay equal there (`DecodersAgree`).
`SeenInv` says that the last scan was one of the bytes that had arrived then. Three
hypotheses are the code's: no zero byte in the text, which is the terminator to
every scanner; not the exponent behind a fraction, which the code refuses (see above
among what was met); and for `\xHH` and bare names only the end is final, because a
decoder that stays in its escape, or goes on behind the name, may read what has not
arrived yet.

`Numbers` has what these proofs share. That a recursive function is defined at all
is proved from a rank that falls with every call (`RecursionDefined` for results made
of other results, `IterationDefined` for loops), and so is what it returns
(`RecursionTyped`, `IterationTyped`).

Only model-checked: what the scanners read (`DecidesForTheWhole`, `MeansWhatWasSent`,
`NumberKeepsValue`, `GettersReadTheText`), whose meaning `ChannelMC` writes down part
by part for the lexemes it sends; and liveness (`LoopEnds`, `LoopsEnd`, `WalkEnds`:
out of the prover's reach, as is ENABLED).

## Not modelled

Left out because they keep no state and change none: of `json_token.h` the getters
of floats and strings and those by name, which compose what is modelled; the debug
printer, `nmjson_str.h`, the Unicode category table (used
only with `NMJSON_TRY_TO_BE_RIGID`, which the source does not set), build stamp and
umbrella headers. The builder is a note without code. White space and the spelling
of numbers in what is written (`%g`, `PRId64`) are abstracted, as is the precision
of floats. malloc is taken to succeed: heap mode tests it too late, and is
announced as planned. A hexadecimal number out of range is converted again by
`strtod`, which reads on over `.` and `p`; the runs send none with these behind it.
`strtoul`, which reads the digits of an escape, also takes a sign, white space or
`0x`: they can only stand there when the escape before was a `\xHH`, which the decoder
does not leave (see the findings).

What would come next: a composition of `Buffer` with the whole of `Parser`, and that
of a literal the decoded text is the one its sender wrote, proved for every text.
