# A TLA+ model of ffbase

ffbase is a header-only C library (`src/ffbase/`): containers, lock-free
queues, text readers and writers, and string and number helpers. It has no
process of its own. What can go wrong in it is what several threads do to one
queue, what a long sequence of legal calls does to one container, and what the
place where a caller cuts its input does to a reader.

## 1. Inventory

| component | state | operations | what is hard | what makes it correct |
|---|---|---|---|---|
| **ffringqueue** `ringqueue.h` | 4 free-running 32-bit counters, slots | add, add_sw, fetch, fetch_sr | any number of producers and consumers, no lock; stale reads; wrap-around | bounded FIFO; a slot has one owner; claims complete |
| **ffring** `ring.h` | 4 free-running counters, bytes, flags | write begin/finish, write_all, read begin/finish in 4 modes, discard, reset | regions of different sizes, split at the end of the buffer, finished out of order; a loop that adjusts its own request | regions never overlap, readers see the stream, nothing is refused without reason |
| **fflock**, waits `lock.h` | a word | lock, trylock, unlock | several threads | mutual exclusion; the word is not left set |
| **fflist**, **ffchain** `list.h`, `chain.h` | links, sentinel, length | add, addfront, rm, movefront, moveback | half-linked states between assignments; first, last and only item | links are the sequence of the operations |
| **ffmap** `map.h` | table, length | alloc, grow, add, rm by key or value, find | backward shifts across the end of the table, the load limit, failing allocation | a bag found by key; no holes in a probe; a free slot |
| **ffrbtree** `rbtree.h` | nodes, sentinel | insert, rm, find, iteration | fixups and rotations that run on the sentinel | ordered, balanced, nothing lost |
| **fntree** `fntree.h` | blocks of packed entries, cursors | create, add, attach, iterate | a block that moves while it grows; 64 levels | all entries are visited and freed once |
| **ffstream** `stream.h` | view or buffer, offsets | view, realloc, gather, consume | pending data while the mode changes | bytes are delivered once and in order |
| **ffvec**, **ffslice** `vector.h`, `slice.h` | pointer, length, capacity | grow, append, copy, steal, free; slice edits, searches | static against allocated data | never writes or frees what it does not own |
| **sort** `sort*` | none | stable sort | merge boundaries | a stable permutation |
| **JSON parser** `json.h` | parser state, contexts, partial token | parse, finish | input cut anywhere, comments, escapes, surrogates | elements and errors do not depend on the cuts |
| **JSON writer** `json-writer.h` | contexts, comma, output buffer | add | room made before unchecked writes; a close that fails | fits its buffer, the parser reads back what was written |
| **JSON schemes** `json-scheme.h` | contexts, the current entry | process an element, parse into an object | contexts opened by handlers and closed by elements, `null` for anything | each element goes to the entry its path names, once |
| **ffconf** `conf.h` | reader state, partial token | parse | the same | the same |
| **ffargs** `args.h` | scheme, key, entries used | merge of schemes, process argv or a line | duplicates, partial matches, changes of scheme | every argument is assigned once or refused |
| **strings** `string.h`, `stringz.h` | none | compare, find, match, split, replace, case | empty and one-character texts, backtracking | agree with a reference definition |
| **conversions** `str-convert.h` | none | numbers to and from text, hex | overflow, sign, width, rounding | what is written reads back |
| **dates** `time.h` | none | split, join, add, compare, read, write | leap years, carries | agree with the counted calendar |
| **unicode** `unicode.h` | none | UTF-8, UTF-16, code pages | truncated and invalid sequences, capacity | what is written reads back, nothing is written past the capacity |
| **formatting** `str-format.*`, `mem-print.h` | none | format, match, format into a new or growing buffer | the room ends inside a directive; false starts of a delimiter | the whole text, or a size that is enough for it |
| **hashes** | none | pure functions | none | bits are mixed as published |
| **platform** `base.h`, `atomic.h`, `cpuid.h` | none | allocation, atomics | allocation fails | external to the models |

Interactions: the components are libraries to each other. `ring.h` and
`ringqueue.h` share the waits of `lock.h` and the atomics of `atomic.h`;
`list.h` is built on `chain.h` and is protected by its callers, with an
`fflock` where threads share it; `map.h` calls a key-comparison callback; the
readers and writers call a scheme's callbacks and keep text in `ffvec`s. The
JSON writer and the parser meet in the text; `args.h` compares with `stringz.h`
and converts with `str-convert.h`; `fntree.h` and `stream.h` own the blocks they
grow.

Everything that is hard to test is listed with its line under `hazards` in
`PROJECT.json`.

## 2. The modules

| module | models | status |
|---|---|---|
| `RingQueue` | `ringqueue.h`, one step per access to shared memory | checked and proved |
| `BoundedFifo` | what a queue promises: claim, publish, take, release | refined by `RingQueue` |
| `RingQueueProofs` | types and exclusion in `RingQueue`, and that it implements `BoundedFifo` | proved |
| `Ring` | `ring.h`, one step per access to a counter or a region | checked and proved |
| `RingProofs` | all the safety properties of `Ring` | proved |
| `SpinLock` | `fflock` | checked and proved |
| `LockedList` | `fflist`/`ffchain` under an `fflock`, one step per pair of links | checked and proved |
| `LockedListProofs` | the lock, what it gives to `LockedList`, and that its links are the sequence | proved |
| `Map` | `map.h`, one step per call, and per turn of the shift loop | checked and proved |
| `MapProofs` | the counting and probing invariants of `Map`, and that it implements `KeyedBag` | proved |
| `KeyedBag` | what a hash table promises | refined by `Map` |
| `RBTree` | `rbtree.h`, one step per call, and per turn of the fixup loops | checked and proved |
| `RBTreeProofs` | all the properties of `RBTree`, and that it implements `OrderedList` | proved |
| `OrderedList` | what a red-black tree promises | refined by `RBTree` |
| `Conf` | `conf.h`, one step per turn of the reader's loop | checked |
| `Json` | `json.h`, one step per turn of the parser's loop | checked |
| `JsonWriter` | `json-writer.h`, one step per element; extends `Json` with a writer whose text is read back | checked |
| `JsonScheme` | `json-scheme.h`, one step per element, composed with `Json` | checked |
| `NameTree` | `fntree.h`, one step per call | checked |
| `Stream` | `stream.h`, one step per call | checked and proved |
| `StreamProofs` | what `Stream` shows is the stream | proved |
| `Vec` | `vector.h` and the edits of `slice.h`, one step per call | checked and proved |
| `VecProofs` | the contents and the memory of `Vec` | proved |
| `Sort` | `sort*`, the searches of `slice.h` | checked |
| `Strings` | `string.h`, `stringz.h`; extends `Sort` for its searches | checked |
| `Args` | `args.h`, one step per argument; extends `Strings` | checked |
| `Convert`, `Unicode` | `str-convert.h`, `unicode.h` | checked |
| `Calendar` | `time.h` | checked and proved |
| `CalendarProofs` | days, dates and times agree with the counted calendar | proved |
| `Format` | `str-format.*`; extends `Convert` | checked |
| `MC...` | instances for TLC; `MCSingle` holds all parts one thread uses on its own data | |

Definitions named `Wrong...` are plausible slips placed next to the definition
they distort. No specification uses them; each property is kept honest by one
that must violate it (`mutants` in `PROJECT.json`).

### RingQueue

The state is the four counters, the slots and, for each thread, its program
counter `pc`, the position it works on (`pos`, the local `wh` or `rh`), its item
and whether it runs a single-writer or single-reader variant (`solo`). The labels follow
`_ffrq_add` and `_ffrq_fetch`: `head` (read own head), `check` (read the other
side's tail and compare), `claim` (compare-and-swap, or plain store when solo),
`access` (the slot), `wait` (`ffint_wait_until_equal`), `commit` (store the
tail), `report` (read for `*used`). A failed swap goes back to `head`.

Arithmetic is modulo `M`, the number of counter values. `RingQueueAssumption`
asks that the size divides `M`, which `ffint_align_power2` ensures for 2^32.

### Ring

The same shape, with a size. `call` is the operation and mode, `n` the size
that the loop carries from one try to the next (the code adjusts its own
parameter), `old` and `nu` the `ffring_head`. `hold` is the time between begin and
finish, when the caller fills or reads the region; a thread may stay there as long as it
likes. The byte stored for stream position `i` is `i` itself, so "the reader
sees the stream" is a comparison. A call touches nothing shared before its first read of the
head, so `Begin` includes that read; `ReadHead` is the one of a later try. `ffring_reset`
starts a new stream, of which no byte has been written. `Requests` holds the calls that are made.
`FinishEmpty` says whether callers finish an empty reservation when several threads
share their role.

### SpinLock, LockedList

A failed swap of the lock word changes nothing, so spinning, pausing and
yielding are all the state `lock`. A list operation is a series of steps: unlink,
clear, join, close, count. `seq` is a history variable: what the operations
started so far make of the list. A thread that ignored the lock would meet the
links between two steps.

### Map

A slot holds a value or is free; an item's hash is the hash of its value's key.
`Probe(k)` is the run of occupied slots that a search visits. A removal finds its
element and starts `_ffmap_normalize`, whose turns are steps of their own
(`NormalizeSkip`, `NormalizeMove`, `NormalizeEnd`) because its end is a property.
Every allocation may fail.

### RBTree

`tree` holds the root and the fields of every node, the sentinel's included: its
color is set, its links are NULL until the code writes its `parent`, and a step that
followed them would stop TLC with an error. Code that is written twice for left and right is one
definition with a side. `Insert` and `TakeOut` are the search-tree operations; the
loops that restore the colors are `InsertRecolor`, `InsertRotate`,
`RemoveRaise`, `RemoveRecolor`, `RemoveRotate`, and their ends. `cursor` is the node of
a caller's walk, which other insertions and removals may come between. `seq` is a
history variable with the order the calls ask for; `WalkIsInOrder` compares it
with the nodes that `ffrbt_node_successor` visits, at every turn. The loops end because each turn that
does not end them moves up or leads to one that ends; no liveness property is stated,
a turn that could not be taken would be a deadlock.

### Conf, Json

A pointer of the reader is a position in the whole text, and the piece the caller has
given ends at `end`. At the end of a piece the call returns and the caller (`More`) gives
the next piece, of any length in `ConfPieces` or `JsonPieces`: every way to cut the text into such
pieces is a behavior. A character stands for its class. What the reader holds of a
token is either a range of the current piece or a copy; a range whose piece has gone reads as
"stale", so a reader that forgot to copy hands out something no document contains.
Each state of the loops is an action, with the `continue`s and fall-throughs of the code kept as steps
that stay in the loop. The text is made of words (`ConfWords`) or listed documents (`MCDocs`) that carry
the tokens they stand for and the answer they deserve, written down independently of the
reader.

### JsonWriter

`Add` is `ffjsonw_add` for each type of element, with commas, white space, escapes
and the room it reserves; `cap` grows as `ffvec_grow` makes it. When the client is done, `Publish`
hands the text to the parser, and from there `Json`'s actions read it: the pair
is right when the elements come back.

### JsonScheme

`SchemeNext` is the loop of `ffjson_parse_object`: the parser's steps until it has an element,
then `SchemeProcess`, which is `ffjson_scheme_process` with the parser's own `ret`, `val`,
`intval`, `fltval`, and contexts. So a value the parser forgot to reset, or text that is gone when a
field takes it, is seen here. An entry of a scheme is its name, its type and, for a handler, the types it
refuses and the scheme of the context it adds; an object is the number of the element that opened it.
`calls` is a history variable with what was set and called, in which object. `SchemeFillsTheObject` works out
the same from the document alone, by the path to each element.

### NameTree, Stream, Vec

`NameTree`: blocks are numbered, an entry is a name and the number of the
block attached; a cursor is a record with its block, place and stack. `walk` is
the walk under way, its `out` what it has returned, `freed` what it has released.

`Stream`: a byte is its position in the stream, so any byte shown twice, skipped or
overwritten differs from `next`. `ptr # 0` is the view mode. Counters are modulo
`UIntMax + 1` as in the code.

`Vec`: `mem` maps blocks to their cells and every allocation may fail, leaving
what the code leaves. `stored` is a history variable: the sequence of elements the
contracts of the calls so far make. A buffer freed twice or lost changes `DOMAIN mem`.
`ffslice` calls run on the same state with the capacity kept by the caller.

### Sort, Strings, Convert, Format, Unicode, Calendar, Args

All but the last have no state between calls: an action asks a question, with inputs from
bounded sets, and records what the code's algorithm answers. The invariants compare the
answer with a reference definition that is written differently (a set of places, a counted
calendar, the value of a sequence of digits), or with the inverse function. Elements to sort carry the
place they had before, so stability can be seen.

`Format` works on directives that have been parsed from the format and carry their argument. Its questions
ask for every capacity, and for the three callers that format again when the text did not fit;
`FormatsFit` compares with the text written with all the room there is. `ffstr_matchfmt` is compared with
the set of all ways to read a text, of which it must find the one with the shortest chunks.

`Args` processes the same words twice, as `ffargs_process_argv` and as `ffargs_process_line`, one word
per step, and compares each with `Meant`, the entry a name means. `ffargs` schemes point
to each other by number.

## 3. The runs

| run | instance | shows |
|---|---|---|
| `ringqueue_fifo` | 2 producers, 2 consumers, 2 slots, counters modulo 6 | the ring implements `BoundedFifo`; its regions fit; a slot has one owner |
| `ringqueue_progress` | the same, modulo 4, one item | a claimed call completes; an unfinished call is starved only by successful claims of others |
| `ringqueue_used` | 1 + 1 threads, modulo 8 | *violation*: `used` wraps below zero |
| `ring` | 3 threads, 2 bytes, modulo 6, every combination of flags | regions fit and exclude each other; readers see the stream; empty regions are justified; tails never move back |
| `ring_min_read` | the same | *violation*: a minimum read is refused although its bytes are there |
| `ring_finish_empty` | the same, empty reservations are finished | *violation*: a tail moves back |
| `locked_list` | 3 threads, 3 items | links are the sequence; the lock excludes and is never lost |
| `map` | 3 keys, 5 values, tables of 2 to 16 slots | the table implements `KeyedBag`; no holes; a free slot; removals end |
| `rbtree` | 8 nodes, two with the same key | red-black between calls, in order at every turn; the tree implements `OrderedList` |
| `single_thread` | the fourteen parts of `MCSingle`, side by side | readers do not depend on the cuts and tell the place; the writer fits its buffer and is read back; objects are filled by their scheme; formatted text is whole or the size told is enough; arguments go where they mean; containers keep what was stored; algorithms agree with their references |
| `conf_cut` | quoted text with a line break may be cut | *violation*: text before the line break is lost |
| `wildcard` | texts of 3 characters, patterns of 3 | *violation*: a string that matches is refused |

A behavior of `single_thread` chooses one part at the start and stays in it (the JSON writer
and the parser are one part), so its states are the sum of the parts' and not their
product: the parts share no memory.

**Why these bounds are enough.** The smallest queue has two slots, and full,
empty, one claimed while one is still being read, and a wrap of the slot index all happen in
it. Four threads give a race on each side with interference from the other. A counter
of 6 values (3 times the size) wraps after six calls. A claimed thread has at most `cap`
predecessors, so three threads of `Ring` can hold every pair of regions and
let the third overtake. The hashes of `MCMap` put keys in the first, a middle and the last slot, so
chunks wrap the end of the table, and 5 values with a limit of 75% make tables of
2 and 4 slots grow to 8; 16 is the size of the first allocation. Eight nodes are the
fewest with which a tree of seven black nodes can be reached, and so the removal loop
goes up twice.

Named bounds:

- `MaxLag` (`NoLap`): a thread between its read of a head and its
  compare-and-swap is overtaken by fewer than `M - cap` moves. For 2^32 (2^64)
  counter values this excludes a thread that sleeps there for four billion calls of
  others; past it the swap could not tell the counter from its old value.
- `MaxCap`: a table that would have to grow beyond it is not added to.
- `AllocSizes`, `Requests`: the arguments callers use.
- `ConfMaxWords` = 2 words and the gap between them, pieces of 1, 2 and 5 characters: a
  word is cut at each of its characters and not at all, and the second word starts from
  whatever the first one left. `ConfCutsLines` is off in `single_thread`: the
  caller there does not cut quoted text with a line break in it, because of finding 4;
  `conf_cut` is that case. The words have no backslash straight after a line
  break in quotes, where the same fault shows without a cut.
- `FFS_FLTCAP` = 4 and `FFS_INTCAP` = 3 (65 and 32 in the code): a number can be one too
  long. `JsonMaxItems` = 3 elements: a list or an object with something in it, at every
  layout.
- `JsonSchemes`: five schemes, with fields and handlers of each type, lists in lists, objects in lists, an
  "any" entry, a missing `*`, a handler that adds no context; all documents up to three levels with at most
  two elements in each.
- `FmtMaxLen` = 3 directives, `FmtIntCap` = 5 and `FmtFltCap` = 8 (32 and 65 in the code), `FmtFirst` = 8 for the 80
  bytes `ffsz_allocfmt` starts with: the room ends before, inside and behind each directive. Texts to match have up
  to 4 characters.
- `StackSize` = 2 for 64 levels, `MaxEntries` = 4: a tree as deep as the stack and one
  deeper.
- `LastDay`, `LastYear`: the days and years up to which the 32-bit numbers of the calendar do not wrap;
- `UIntMax` = 7 for 2^32 - 1, `StreamLen` = 10, `StreamCaps` = 1 and 3: the stream counters wrap, and buffers of
  2 and 4 bytes, the second half of the counters' range, grow with bytes pending.
- `VecMaxLen`, `VecMaxCap` = 3: static, allocated, grown and full vectors.
- `SortSmall` = 2 for 64 bytes, `SortMaxLen` = 6: insertion, one merge and merges of merges of
  uneven halves.
- `WideBits` = 8 and `NarrowBits` = 4 for 64 and 8, 16, 32: every overflow is among the
  texts.
- `TextMaxLen` = 4, `WordMaxLen` = 2, `NameWidth` = 2: all texts over four
  letters, with a blank and both cases; backtracking needs a pattern and a text of 2.
- `ArgUsedBits` = 4 for the 64 entries watched for repetition, `ArgMaxWords` = 3.
- `UniMaxLen` = 4 bytes: the longest UTF-8 form of a Unicode character, truncated anywhere.
  `CalDays` are the days around the turns of years of each kind.

**Fairness.** A thread inside a call of `ffringqueue` is scheduled again: the
waits spin, pause and yield (`lock.h:33-57`) and nothing blocks, so each thread's
steps are weakly fair; calls themselves are not. The lock holder's `GetOut` is
strongly fair, because it may always start another operation: a thread that comes back
to a state where it can unlock again and again does unlock in the end. The lock
itself promises no fairness, so only `StarvedOnlyByOthers` holds. The loop of
`_ffmap_normalize` runs in one thread and is weakly fair.

**Assumptions.** Memory is sequentially consistent: each access is one step and
fences do nothing. Callers keep the documented contracts: one thread at a time in the
single-writer and single-reader variants and flags, the lock held around an
operation on a shared list, `ffring_reset` only when nobody is inside, an item in one list
at a time, a value added to a table once. In `single_thread`: a piece given to `ffstream` stays in
place until the next gather, a block of `fntree` is filled before it is attached, schemes of
arguments are sorted and do not redirect in a circle.

## 4. Findings

1. `ringqueue.h:91` (and `ring.h:174`): `*used` is computed from a tail read
   after the element was published. A consumer that takes it in between makes
   the result 2^32 - 1, where the comment (`ringqueue.h:136`) promises the number of
   used elements before the operation.
2. `ring.h:231`: the minimum mode raises `n` to what it saw and keeps it when its
   swap fails. The next turn compares the raised `n` with what the other reader left
   and returns an empty region, although the minimum asked for is there.
3. `ring.h:325`, `ring.h:169`: finishing an empty reservation ("allow
   ffring_write_finish()", `ring.h:113`) waits for the tail to reach the old head and then stores that
   same value. Between the two the thread that owns the region at that
   position may finish it, and the store moves the tail back over it.
4. `conf.h:195`: in quoted text the reader passes over a line break without giving
   out the text before it, as if it still had it all; when the piece ends before the closing
   quote, the chunk returned begins behind the line break and the rest is lost.
5. `string.h:707`: when the pattern ends before the string, `ffs_wildcard` answers "no
   match" instead of going back to the last asterisk: `*a` does not match `aa`.

Seen while modelling, kept in the models as the code has it or kept out of the
inputs as named, and not claimed as findings:

- strings: `ffs_rfindstr` with a one-character word that is not there
  (`string.h:497`) goes on in front of the string, because the index is compared as unsigned; replacing all of an empty word does not end;
  `ffcharr_ifind_sorted_padding` (`stringz.h:261`) reads past a name of full width.
- `conf.h`: a word cut exactly before a quote continues as a quoted word; after a
  comment that was cut, the column of the next word counts from an older line.
- `json.h`: `/* **/` does not end a comment; with `FDONTUNESCAPE` an escaped quote
  ends a string; a comma may precede `}` but not `]`; the pushes of
  line 358 do not check allocation; a top-level number needs something behind it. In the
  writer, a close that fails has already written its white space.
- `fntree.h`: below 64 levels a cursor ends early and `ffntree_free_all` does not reach the
  blocks; a block is doubled once for an entry that needs more.
- `vector.h:289-309`: the copying additions compute `cap - len` for static data, too.
- conversions: a signed value is not checked against 2^63; with a sign flag the
  padding is one short.
- `json-scheme.h:191`: the top-level element is told by the parser having one context, and `null` opens none. So a
  `null` directly inside the top-level object or array, for an entry that is an object or a list, is taken for the
  top itself: no handler is called and the top context is closed. `TopNull` keeps it out of the documents.
  A `null` for an "any" entry is an error.
- `str-format.c`: a width for `%c` (line 193) and a length for `%s` (line 124) are taken as they are, so the
  directives have `%c` without a width and `%Ns` no longer than its text; a number that does not fit is counted
  without its width (line 245), so widths are at most `FmtIntCap`; separators with a signed number are
  not written but counted. `ffstr_matchfmt` looks at the character behind the text (line 430), a zero in the model.
- `unicode.h`: decoding accepts overlong and 5- and 6-byte forms; sizing for UTF-16 over invalid
  input (no destination) does not advance, and counts characters above U+FFFF with room to spare;
  `ffutf16_findchar` compares units as signed numbers; `ffutf_bom` reads the first byte of an empty text.
- `time.h:120-123`: nanoseconds of a second and more are carried with quotient and remainder
  exchanged; texts with the month or the day
  first (`time.h:316-330`) are read as if the year came first.
- `args.h`: repetition is noticed for the first 64 entries only; a numeric suffix multiplies
  unchecked; merging puts one-letter names as if they ended in `\1`.

## 5. What is proved

Every theorem holds for all values of the constants that the named assumptions
allow: any number of threads, items, values and keys, any size, any counter width that
the size divides, any hash function, any length of a stream, any elements of a vector, any day.

| module | theorems | state |
|---|---|---|
| `RingQueueProofs` | `TypeCorrect`, `RegionsAlwaysFit`, `SlotsAreExclusive`, `QueueIsAFifo` | `TypeOK`, `RegionsFit`, `SlotsExclusive`, `ImplementsFifo` |
| `RingProofs` | `TypeCorrect`, `RegionsAlwaysFit`, `BytesAreExclusive`, `TailsOnlyAdvance`, `EmptyAnswersAreJustified`, `StreamIsDelivered` | `TypeOK`, `RegionsFit`, `RegionsExclusive`, `TailsNeverMoveBack`, `EmptyIsJustified`, `ReadersSeeTheStream` |
| `LockedListProofs` | `LockExcludes`, `ListUsesLock`, `ListExcludes`, `ListIsNeverShared`, `ListStaysTheSequence` | `MutualExclusion`, that at most one thread is inside an operation, `ListIsTheSequence` |
| `MapProofs` | `LengthCounts`, `ProbesAlwaysEnd`, `NoHolesAppear`, `TableIsABag` | `LenCounts`, `ProbesEnd`, `NoHoles`, `ImplementsBag` |
| `RBTreeProofs` | `LinksAlwaysAgree`, `TreeStaysRedBlack`, `WalkStaysInOrder`, `TreeIsAnOrderedList` | `LinksAgree`, `RedBlack`, `WalkIsInOrder`, `ImplementsOrderedList` |
| `StreamProofs` | `StreamGathers` | `GatherShowsTheStream` |
| `VecProofs` | `VecHolds` | `VecMemory` |
| `CalendarProofs` | `DatesAgree` | `DatesInvert` of days, dates and times |

**RingQueue.** `RegionsFit` and `SlotsExclusive` are not inductive. The invariant
`IInv` adds:

- `LagIsBounded`: a trying thread's position is at most `MaxLag` behind its
  head, so an equal head means an unmoved head;
- `ClaimIsSafe`: a thread about to swap, whose head is where it read it, still has the
  room it found, because the other side's tail only gives room;
- `SoloIsAlone`: a solo thread has its side to itself, so its plain store is as good
  as a swap and its missing wait has nobody to wait for;
- `OwnerInRange`, `OwnersDiffer`: owners of one side have different positions between tail
  and head;
- `Covered`: each position between tail and head has an owner, so a tail moves
  only by its own owner's commit.

Slots then differ because owned positions are less than a queue size apart and the
size divides `M` (`SlotsDiffer`). The proof rests on `RingQueueAssumption` and on the
bound `NoLap`. The lemmas about counters (`DistCases`, `DistToNext`, `FreeSpace`, ...)
replace remainders by case distinctions once, so that no later step needs
division.

The refinement mapping chooses the owner of each position between a tail and a head; `IInv`
says there is exactly one, so a claim appends one owner, a commit takes off the first one, and
every other step leaves the abstract queue alone. `DataInv` adds the data: an owner that has
stored its item has it in its slot, a published slot keeps its item until its consumer has it,
and a consumer that has loaded holds what the slot held. A refusal is the one step that needs
an argument about time: the tail the thread compares with is read in the same step, and by
`LagIsBounded` the head it compares is not older than the counters can tell.

**Ring.** The same invariant with regions of any size in place of slots: `OwnersApart` keeps the regions
of one side apart, `Covered` says that they fill the distance between tail and head without gaps, so a
waiting `finish` is released only by the region in front of its own. `StreamIsDelivered` adds that
the bytes of a finished write stay as they were written until they are read (`Published`), and of an open
one up to where the caller has come (`Filled`). All theorems but `TypeCorrect` have the hypothesis
`~FinishEmpty`: with `FinishEmpty` they are false, which is finding 3, and TLC shows `RegionsFit`
violated as well. The hypothesis is a constant of the model, false in the run that checks
these properties, and says that callers do not finish an empty reservation while others share their role.

**Locking.** Mutual exclusion is inductive once tied to the lock word: a word of
0 means nobody is inside. The steps of `LockedList` are steps of `SpinLock` or leave it
alone (`ListUsesLock`), so its exclusion carries over; with "a thread between two
assignments holds the lock" it gives `ListIsNeverShared`.

**Links.** Between two assignments of an operation the links are not those of any sequence.
The invariant `ListInv` says for each program counter what they are: the circle
of the sentinel and the items, with an item still hanging from it, or with two ends not yet closed.
Each operation is then a walk through these states. It uses `ListIsNeverShared`, and that
the set of items is finite (`LockedListAssumption`), for the sequence to be one.

**Map.** Positions are counted from the end of the chunk in which a removal works (`FromEnd`), which turns
the circle into a line. `IInv` says, between calls, that every element is reached from its home
without meeting a free slot; during a removal, that this holds with the hole in its place still
filled, that what the loop has passed since its last move is at home behind the hole, and that the element
in the hole is a copy of another or the one that goes. When the loop comes to the hole, nothing is at home in
front of it and behind it at once, so it may be emptied (`EndStep`). A resize places the elements
again, by induction over the slots (`RehashedFacts`). `AlignPower2` has a value, and one above what was asked
(`AlignPower2Type`); the load limit leaves a free slot (`ThresholdLeavesRoom`). In the refinement the
members are what the slots hold and, during a removal, the value that goes: a move changes
neither, and the end takes out exactly that value.

**Red-black tree.** `Inv` says of the tree, at every turn:

- `Shape`: every node has the set of the nodes below it, apart from those of its sibling and on the
  right side of it in the order of the places `pos`, and hangs from its parent;
- `Ordered`: the places are those of the nodes in the sequence, whose keys rise;
- `Balanced`: there are black heights that add up, one black node missing on the side of the node at which
  a removal's loop is (`Hole`), no red node has a red child but where the running loop is (`Exempt`), and
  no red root but there.

What each assignment and each rotation makes of a tree is stated once (`LinkFacts`, `RelinkFacts`, `RotateFacts`, `HungFacts`,
`SplicedFacts`, `HopFacts`), what that does to the shape (`RotateShape`, `HungShape`, `SplicedShape`, `ReplacedShape`) and to the
colors separately (`PaintedRotate`, `SwapHeights`, `FillHeights`, and the `...Turn` lemmas, one per turn). A removal of a node with two children is
read as splicing out its successor and then putting that in the place of the node. Trees are searched and walked
by recursive functions; `WayDown` and `WayUp` show by induction along a tree (`Lowest`, `Highest`: a
set of nodes has one without a child, or without a parent, in the set) that these functions exist and where they end, so
`Minimum` is the first node below (`LeftmostIsFirst`), `Successor` the next in the order (`NextFacts`), `Leaf`
a free side at which the new node is on the right side of all above it, and a search ends at the key or next to it
(`SearchEnds`). The induction needs finitely many nodes (`RBTreeAssumption`: the nodes are in memory).

**Stream buffer.** `StreamInv` says that the bytes given and not consumed are in the buffer from the place of
the read counter on, without a turn at its end, and the write counter is that many further (`Holds`); or that they are in the
caller's piece at the offset that `r` says (`Looks`). `GatherShowsTheStream` says what is seen; the offset, and that the bytes do not
turn, is what the next call needs. The counters wrap at 2^32 and their remainder is taken modulo the capacity,
so the argument needs that the capacity divides the range at least twice: it is a power of two (`AlignFacts`, about
`ffint_align_power2`, by induction over the exponent) of at most half of it, which
`StreamAssumption` asks of the capacities. `ToFrontHolds` and `AppendHolds` are the two changes of the buffer. A piece
is at most 2^32 - 1 bytes long, the most its length can say.

**Vectors.** A call is a function of the vector and the memory. `Sound` says of both: the vector owns a block of its capacity, or refers
to a part of the static data, or has nothing; the blocks in use are the static data, the vector's and the
one its caller took over, and these differ (`Memory`). Each function has a lemma that it keeps `Sound` and what it makes of the contents:
`FreeFacts`, `ReallocFacts`, `GrowFacts` (a failure leaves the contents), `RenewedFacts` (a new block, begun with a copy),
`StoreFacts` (a `memmove` in the buffer, with the source read before). `ChangeInv` turns an edit
into an equation between positions (`Overlaid`), in which the cases of an insertion, a removal, a removal
that moves the tail into the hole, and a move are arithmetic. That a fresh block is at hand follows from there being two
owners and three blocks in the model.

**Dates.** `DatesAgree` is about three of the five questions of `Calendar`: for every day, `DatesInvert` says that
`fftime_split1` gives a date that is valid, agrees with the calendar counted leap year by leap year, and is joined to the day
again; for every date, months above 12 and hours above 23 included, that `fftime_join1` gives its counted day, and that it is valid exactly when it comes back; for
all times, that sum, difference, comparison and milliseconds agree. Years and months start in March, as in the code.
The argument is about two guesses. The year is guessed from its mean length, 146097 / 400 days: 400 times the days before
year y stay within 600 below and 297 above 146097 y (`MeanYear`, by the remainders of y), so the guess is right or one too
many (`YearIsFound`). The month is guessed by a division that is right for each of the 366 days (`MonthIsFound`). A day
is in one year and one month only (`OneYear`, `OneMonth`), so what was split and what was joined are the same. The numbers of
the model do not wrap: `CalendarAssumption` bounds the days by `LastDay`, the last one for which `days * 400` fits the 32 bits of the
code, in the year 29398, and the seconds of times are taken to fit their 64 bits. The two questions on texts (`AskFormat`, `AskText`)
stay with the run.

**Induction.** The library's induction rules take an operator and cannot be used by the provers at
hand. `MapProofs`, `StreamProofs` and `CalendarProofs` have one that takes a set (`Inductive`, `NatSetInduction`: a set of numbers that holds 0 and with
each number the next is all of them), from the least element of a set of
numbers; recursive functions such as `TwoTo` and the table of a resize are unfolded with it, and powers of two are compared.

**Only model-checked:** all liveness properties (`ClaimsComplete`, `LockFree`, `StarvedOnlyByOthers`,
`RemovalsEnd`): they rest on fairness, which these provers do not reason about; and in
`single_thread` the readers and writers of text, the searches, the sort and the tree of names, which are written with recursive operators or
whose references are, the conversions and the texts of dates, whose inputs are short texts taken one by one.

## 6. What is not modelled

Weak memory (fences are no-ops here; the hazards list names the places where it
matters); the `*free` and `*used` outputs of `ffring` except the one
`ffring_read_discard` acts on; `ffmem_print` and the printing of lists and tables: layout of text; the parsing
of a directive in `ffs_formatv`, its `%E` (a system message) and the errors of a bad format;
`ffjson_unescape`; the SSE 4.2 variants of string searches, the
aligned and formatted variants of vector additions, which do the same with other instructions or
layouts; the Windows wrappers, which call the system; `fntree_from_dirscan`; hashes, which
mix bits; `cpuid.h`. Fixed-width digits of dates are read as whole numbers. Reading
floating-point numbers stops before the last multiplication, which rounds.

## 7. What is left

1. **Proofs**: the tree of names, and the conversions of integers for every number.
2. **Parsing of formats** and `ffjson_unescape`: the second reader of each syntax.
3. **Weak memory**: the places the hazards list names, with stores that are seen late.
