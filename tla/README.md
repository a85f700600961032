# A verification project for karbonit

karbonit is a C library for two document formats: *carbon* documents, which are
edited in place in a resizable memory block, and *archives*, read-only column
files whose strings are replaced by identifiers.  This directory holds TLA+
models of its parts, the TLC configurations that check them on small instances
and theorems that the TLA+ proof system checks for every instance.  Paths below
are relative to `src/src/karbonit/` unless they start with `src/`.

## 1. Inventory

| part | state it keeps | operations | interacts with | hard because |
|---|---|---|---|---|
| spin lock `std/spinlock.c` | flag, owner | init, acquire, release | dictionaries, slice lists | owner is written outside the flag's protection; re-entrant without a count |
| priority queue `utils/priority_queue.c` | cells, length, capacity | push, pop | thread pool | a hand-made heap whose levels are computed from the size |
| thread pool `std/thread_pool.c` | queue, group counters and generations, one status per slot, size | enqueue, three waits, resize, free | callers' tasks | workers, owner and waiters share counters and statuses without locks |
| string dictionary `archive/encode_sync.c` over `std/str_hash/mem.c`, `stdx/slicelist.c` | entries, free positions, index | insert, remove, locate, extract, get_contents, num_distinct | archive builder, carriers | identifiers are positions and are recycled; not every operation takes the lock |
| carrier dictionary `archive/encode_async.c` | carriers with a dictionary and a thread handle each, spin lock | the same | archive builder | operations nest locks and hand work to threads |
| string cache `archive/cache.c` | per bucket a list of entries, linked both ways | create, get | queries | pointers are patched in place, entries overwritten, one pointer left stale |
| parallel loops `std/async.c` | - | for, map, gather, scatter, filter | dictionaries | chunks and the merge of partial results |
| memory blocks and files `mem/` | bytes, used length, position, stack of positions | read, write, skip, move, ensure space, save and restore | everything in `carbon/` | bytes move under positions that were remembered |
| carbon containers `carbon/arr-it.c`, `col-it.c`, `obj-it.c`, `insert.c`, `field.c`, `internal.c` | bytes in a memory file | iterate, insert, remove, update | revisions, find, update | lengths, markers and reserved space must agree after every edit |
| records and revisions `rec.c`, `carbon/revise.c`, `carbon/commit.c` | original and revised block | begin, end, abort | containers | what a revision leaves out or keeps |
| paths `carbon/dot.c`, `dot-eval.c`, `find.c`, `update.c`, `pindex.c` | tokens, a position | evaluate, find, update, index | containers | stops at containers of many kinds |
| JSON `json.c`, `json/json-parser.c`, `utils/numbers.c` | tokens, open brackets, a syntax tree, fields of a record | check a token, parse, insert, print | documents, archives | two readers of one token stream that rely on each other; numbers narrowed to the type of their column |
| archives `archive.c`, `archive/doc.c`, `column_doc.c`, `it.c`, `query.c`, `strid_it.c` | objects taken apart by types and columns; a file of marks and offsets; an index of strings | import, write, bake, open, iterate, query, visit | dictionaries, cache, compression, JSON | offsets written before what they point to, counted from two origins; nulls that are numbers |
| compression `archive/pack*.c`, `archive/huffman.c` | prefix codes | build, encode, decode | archives | pure algorithm |
| hash tables `std/hash/` | buckets, vectors of keys and values | insert or update, get, remove, rehash | index of strings, encoded documents | pairs displace each other in chains; a rehash inserts and may start another |
| identifiers `stdx/unique_id.c` | counters | create | documents | packed fields, counters per thread |

Left aside: vendored code, the command line tool, tests, benchmarks and books.

### What has to hold of each part

- **spin lock**: one thread inside at a time; `owner` never names a thread that
  is gone, so that nobody takes the re-entrant path by mistake; somebody gets in.
- **priority queue**: no task lost, doubled or read from a cell nobody wrote;
  pops in order of priority.
- **thread pool**: the counter of a group is exact while its tasks are pushed
  and counted down; no wait returns early, although groups are reused; `free`
  returns and leaves no thread; a resize leaves no slot unserved.
- **dictionaries**: an identifier stays with its string; strings and identifiers
  are one to one over all carriers; a call sees what returned before it; calls
  that share carriers join their own threads; calls return.
- **memory files**: a write destroys nothing that stands behind it.
- **containers and records**: an edit changes the field it is meant for and no
  other, although bytes move and counters change their length; readers and the
  used length agree; packing keeps every value.
- **string cache, hash tables, slice lists**: what was put is found, once.
- **JSON**: the parser that reads a checked stream builds the tree of the grammar,
  turns no JSON text down and never runs past the end; what is printed of the
  record is what the text said.
- **archives**: what a visit finds in the file is what the text said.
- **paths, compression**: what is written is what is read.

## 2. Modules

| module | models | used by |
|---|---|---|
| `Mutex` | what a lock promises: only a free lock is taken, and only its holder frees it | `SpinLock` (refinement) |
| `SpinLock` | the spin lock, one action per store to shared memory | `AsyncDict` |
| `SpinLockProofs` | the theorems about it | |
| `TaskBag` | what a queue of tasks promises: a bag | `PriorityQueue` (refinement); `ThreadPool` takes the queue to be one |
| `PriorityQueue` | the heap, push and pop, round by round | |
| `PriorityQueueProofs` | the theorems about it | |
| `ThreadPool` | workers, owner and waiters of a pool | |
| `ThreadPoolProofs` | the theorems about it | |
| `StringDict` | what a dictionary promises: new strings get unused identifiers, and keep them | `SyncDict` (refinement) |
| `SyncDict` | entries, free positions and index of the synchronised dictionary | `AsyncDict` takes a carrier's dictionary to be what it implements |
| `SyncDictProofs` | the theorems about it | |
| `AsyncDict` | carriers, their thread handles and the calls over them, composed with `SpinLock` | |
| `AsyncDictProofs` | the theorems about it | |
| `Memfile` | a memory file as operators on its used cells; no state | `Fields` |
| `Fields` | the layout of carbon fields: walking, reading, packing; no state | `RecordEdit` |
| `Document` | what editing promises, on fields and without a byte | `RecordEdit` (refinement) |
| `RecordEdit` | editing a record through iterators and inserters | |
| `RecordEditProofs` | the theorems about `Memfile`, `Fields` and `RecordEdit` | |
| `Numbers` | integers of four widths as C converts them; no state | `JsonRecord`, `ColumnDoc` |
| `JsonParser` | the automaton that checks tokens, the parser behind it, and an automaton for JSON itself | `JsonGrammar` |
| `JsonGrammar` | the grammar of JSON and the trees it derives; no state of its own | `Json` |
| `FormatProofs` | the theorems about `JsonParser`, `JsonGrammar` and `StringCache` | |
| `JsonRecord` | the fields that a syntax tree becomes, and what is printed of them; no state | `Json` |
| `Json` | a text from its tokens to a record and back | |
| `ColumnDoc` | how objects are taken apart by types and columns; no state | `Archive` |
| `StringTable` | the chain of strings in a file, the index and both ways to find a string; no state | `Archive` |
| `LruCache` | what a cache promises: the right string, and the ids asked for last are kept; a call for identifier 0 may fail | `StringCache` (refinement) |
| `StringCache` | the lists of the cache, step by step along their pointers | `Archive` |
| `KeyMap` | what a hash table promises: a function | `HashTable` (refinement) |
| `HashTable` | the buckets, pair by pair as they are placed, displaced and filled again | |
| `HashTableProofs` | the theorems about it | |
| `Archive` | the archive file, written, opened, visited and queried through the cache | |

Modules named `MC...` give constants their values for TLC.  An operator whose
name has a suffix after an underscore (`Join_skips`) is a deliberate mistake in
the operator of that name: it documents which slip the properties notice, and no
specification uses it.

## 3. How state and actions correspond to the code

**SpinLock.**  `flag` and `owner` are the two fields of `struct spinlock`; `depth`
counts the acquires of a thread that have returned and `pc` says where in a call
it is.  `Reenter` is the test of `owner` that skips the loop, `Contend` and
`TestAndSet` are the loop, `Remember` the store of `owner`; `ReleaseClear` and
`ReleaseForget` are the two stores of release.  The owner is read as one value
although the code compares it with `memcmp`; a torn read is not modelled.

**PriorityQueue.**  `data` is the array of cells, `num` its length.  Push and pop run
under the mutex of the queue from begin to end; a round of the loops in `up_heap`
and `down_heap` is a step (`Up`, `Down`), and `loop`, `cur` and `level` are the
locals of these loops, with the level at which the code starts and the element
count it passes.  `Ceiling` stands for 0xffffffff, the value the search for the
minimum starts from.

**ThreadPool.**  Each `pc` of a thread is a point of `__thread_main` between two
accesses to shared memory: take a task, run it, count its group down, write the
statistics, check the status, store FINISHED.  The owner's `opc` does the same for
`enqueue_tasks`, `enqueue_tasks_wait`, the waits, `resize` and `free`.  Waiting
spins in the code, so it is a guard here.  `handles`, `returned` and `runs` are
history.  After `free` has released the memory the model stops.

**SyncDict.**  `contents` is the vector of entries, `freelist` the stack of free
positions, `cap` and `freecap` what is allocated, `index` the map from strings to
identifiers, `lock` the spin lock.  An insert is its bulk lookup (`InsertBegin`),
then string by string `Known` or `Claim` (take a position, the entry is in use)
and `Store` (the text and the index), then `InsertEnd`.  When no position is free both
vectors grow first: `Grow` is `vec_grow`, whose `realloc` may give the block of the entries
back; until `StoreBase` the vector's base pointer still names that block; each `Extend`
pushes one position and one entry.  A listing holds no lock, so each of its accesses
is a step: `ListEntry` compares the position with the length and takes the address of
the entry from the base pointer, `Skip` and `InUse` read `in_use`, `Show` reads `str` and
pushes.  Between any two of them an insert may claim, store or grow and a removal may
empty the entry.  `dangling` says that the address lies in a block given back; what is
read there is anything, and `fooled` records that it was read.  Lookups hold the lock
from start to end, change nothing, and appear in the properties as `Found` and
`Extracted`.  The removal from the index is not implemented in the code
(`stdx/slicelist.c:239`): the entry is emptied and its key stays, and whether
such a stale key compares equal depends on memory that was freed, so both
outcomes are possible.  Two different strings with equal hash are left out.

**AsyncDict.**  `thread` is the handle stored in each carrier, `worker` and `out` the
threads of a call and what they have written, `dict` the dictionary of each
carrier, `Script` the order in which an operation locks, works and unlocks.
The lock is `SpinLock`, step by step.  An identifier is a word with two fields:
`CarrierIds` (2^10) and `LocalIds` (2^54) are what they tell apart.  `MakeGlobal` is the
shift, off whose upper end bits may fall, and `GetOwner` and `GetLocal` take the word
apart.  For local identifier 0 a carrier gives the text of NULL (`NullText`), whichever
string has it.  Left out: `remove`, the counters, `num_not_found`.

**Memfile.**  A block is the sequence of its cells up to `last_byte`; the bytes behind
it are zero in the code and not written down, and the allocated length, which
only decides when memory is enlarged, does not appear.  A variable length
integer has at most two blocks of `Radix` values (128 in the code).

**Fields.**  Markers have their values in the code.  A property name is one cell, the
length that starts it: only that cell takes part in control flow.  In the code an
iterator opens another one for each container it meets; here all of them are one
`Reader`, with the kinds of the containers it is in.  A `Step` of it is a call of
`arr_it_next` or `obj_it_next`, including where the code opens a nested iterator at
the offset where the search started and not where the marker was found (`Passed`),
or the way out of a container at its end.  `FieldEnd` and `ContainerEndAt` are
skipping, which reads on (`ReadOn`); `...Tokens` is what a reader meets, `Pack...` is
packing.  The reader makes as many steps as there are cells, which is enough
because each moves it.

**RecordEdit.**  `mem` is the memory file of the record, `it` an iterator with the fields
`last_off`, `field_offset`, `eof` of `arr_it`, `ins` the inserters that are open,
each with the position of its own memory file.  `tokens` follows from `mem`, and
`skipped` only serves the guards below.  `InsertBegin` is
`internal_insert_create_for_array`; `InsertField`, `ContainerBegin`, `ColumnBegin`,
`Push` and `ContainerEnd` are the `insert_...` functions, with the property name in
front when the container is an object; `Remove`, `UpdateNumber`, `UpdateConstant`,
`ColumnRemove`, `Pack` are the functions of those names.  The rules a caller has to
keep: an iterator is dropped after an insertion or an update through it, and after
a removal it moves on before it is asked for an element.  Two more are constants,
because the code asks for them nowhere: `MayLeaveGap` and `MayRemoveFull`.

**Json.**  `stream` holds the tokens, `brackets` the brackets that are open, `last` the
token before.  `ReadToken` is `process_token` in the loop of `json_parse`; `Follows` is its
automaton, `Bracketed` its brackets, among which a bracket that closes nothing stays for
good.  A refused token ends the text, an open bracket at the end too (`EndOfInput`).
Then the parser reads the stream again.  It is a recursive descent; here its calls that
have not returned are a stack (`calls`, and `parts` for what each has parsed), and a step
is what one round of a loop does: `ParseMember` is the key and the colon in `parse_members`,
`ParseMemberValue` its switch, `ParseElement` a round of `parse_elements` with
`parse_element`, `ParseDelimiter` the token after a value, with the return from the function
and the token that is skipped then.  `ReadValue` enters `parse_object` and `parse_array`.
`crashed` is a token read behind the last one.  `Insert` chooses a literal for each place of one
and makes the fields: `ListType` widens the type of an array element by element,
`ColumnValue` casts, `InsertUnsigned` picks the width of a single number.  `Printed`
is the way back.  What JSON is, is said twice: `IsJson` by an automaton that has a stack of
containers, which the code has not, and `Derived` by the grammar, with the trees: token by
token all values that end there are collected, and all containers begun with what was read
of them up to there, whatever stands around them.
`TreeIsDerived` compares the two as well.  `Said` is what a text says.

**Archive.**  `text` is the JSON text, `model` the column document, `file` the stream: a
sequence of cells, and an offset is the number of cells in front.  It holds the header
of the file, the string table, the header of the record, the record and perhaps the
index.  Each operator `Write...` writes blanks and patches them where the code seeks
back; offsets in the record count from its first object (`Relative`), those of strings
from the beginning of the file.  `Read...` are the iterators, which go by offsets only.
`Import`, `Write`, `Bake` and `Open` are `doc_entries_columndoc`, the two parts of
`archive_from_model`, and `archive_open` with a visit.  `QueryRun` makes index and cache
unless there are any, `Fetch` is `query_fetch_string_by_id`.  The order in which an
operator like `WriteParts` writes is that of the code; it takes the writer of a part as
a parameter and has therefore no line in the map, which lists plain operators.

**StringCache.**  `lists` holds of each bucket both ends and the `prev`, `next`, `id` and
`string` of each entry; pointer 0 is NULL.  `GetBegin`, `GetNext`, `GetHit` and `GetMiss`
are the call, a round of the loop and two ways out; the third is `GetUnused`: an entry
that was never used has identifier 0, so a call for identifier 0 takes it for a hit, and
`strdup` of its string, which is NULL, ends the process.  `MakeMostRecent` patches the
pointers in the order of the code and leaves `prev` of the entry it moves, as the code
does.  A bucket's rank in `LruCache` follows from the pointers by `Places`.

**HashTable.**  `table` holds the buckets with the key and the value that the code keeps in
two vectors, `size` counts the pairs of those vectors.  `Place` is one round of
`_hash_table_insert_or_update`: the first bucket the search stops at is updated, filled,
or taken from a pair that is displaced less; the recursive call for that pair is the
next `Place`, with it in `hand`.  `Rehash` copies and clears the table, `Refill` takes the
next bucket of the copy and inserts it, and `copies` is the stack of rehashes that an
insertion in the middle of another one makes.  `Found` is the loop of get and remove.
`displacement` is reckoned as in the code, with one sign for a pair that takes a bucket
from another and the opposite sign for a pair that finds a free one.

## 4. What the runs check

Sizes are distinct states.  Every bound below is a constant of the model or a guard
named in it.

| run | states | what it shows | bounds, and why they suffice |
|---|---|---|---|
| `SpinLock` | 149 | one thread inside; `owner` names nobody who is gone; somebody who spins gets in; refinement of `Mutex` | three threads: one that wipes `owner` late, the next holder whose `owner` is wiped, and a third that waits meanwhile. Up to the first nested acquire (`NotNested`), with room for it (`MaxDepth = 2`) |
| `PriorityQueue` | 15,870 | cells sound after every round, refinement of a bag, ascending pushes popped in order | six tasks of five priorities, two of them equal, fill three levels, and the vector grows; `Ceiling` lies above all priorities, as 0xffffffff does in practice |
| `PriorityQueueOrder` | violation | a pop need not return the lowest priority | the same |
| `ThreadPool` | 109,808 | a group's counter equals the tasks of it that are pending; no wait returns early; `free` returns and leaves no thread | two workers race for a task and its counter; two groups that are taken again after use, so that a waiter may hold an old generation; a waiter besides the owner; monitoring on |
| `ThreadPoolResize` | 38,338 | slots below `size` have a thread, queued tasks run | sizes 0 to 3 with room for 2, so that shrinking, reviving, creating and a request beyond the room all occur; one task |
| `SyncDict` | 394,728 | free positions exact; identifiers stable, found and extracted; a listing shows what is found and leaves nothing out; refinement of `StringDict` | two clients, one with one call and one with two, batches of up to two of four strings or NULL; two strings are removable and recycle their positions, one by one or together; `InitCap = 1` makes the vectors grow and move. One client lists: a listing changes nothing that others see, so a second one adds no behaviour |
| `AsyncDict` | 385,833 | a call merges its own results; packed identifiers one to one over carriers; a call sees earlier ones; calls return | two clients with two calls each about `{a, b}` or `{c}`; two carriers, of which one has two strings and the other one; `CarrierIds = LocalIds = 2`, so that both fields are used up to their largest value and one more carrier or string would not fit; `locate_fast` and `get_contents` run only alone |
| `AsyncDictFast` | violation | `locate_fast` releases a lock that another call has taken | three calls |
| `RecordEdit` | 658,042 | each edit does to the fields what was asked (refinement of `Document`); a record ends with its memory; an iterator's `last_off` is at a marker; packing leaves nothing reserved | five tokens nested up to three deep, enough for a container next to a column inside a container; values 0 and 93, the marker that ends an array, so that data that is read as a marker shows; `Radix = 2`, so that a counter gains and loses a block at two elements; capacities 0 and 2, so that a column has reserved cells or must grow |
| `Json` | 1,169,517 | no JSON text is turned down; what the parser has read to the end is JSON; its tree is the only one the grammar derives; no token behind the last is asked for; what is printed is what was said | nine tokens: two members, or arrays three deep, with every mistake between them; widths of 2 to 5 bits with literals on both sides of the largest, the smallest and the null value of each |
| `Archive` | 78,730 | a visit of the file finds what the text said, under the right keys, in the right objects; the cache implements `LruCache` while queries run | every type beside every other in an object and in an array; objects below arrays below objects, three arrays deep; with and without an index. Queries on two texts: five strings in one bucket of three entries, so that entries are replaced, and eight strings in two buckets; identifier 0 is among them, and is asked for before and after its bucket is full; `Batch = 2`, so that the iterator of strings is asked again |
| `HashTable` | 83,163 | refinement of a map, call by call; from ten buckets on a bucket is found; calls return | capacities 1, 2, 3 and 6, which are filled again as 3, 5, 6, 11 and 20; six keys that have buckets of their own in a table of six, and of which one displaces four others up to the end of a table of eleven and around it, so that the table that is being filled again is loaded and rehashed within the first rehash.  No calls on tables that have grown beyond six (`MaxCap`) |

`SyncDict` declares the strings that are never removed interchangeable, and those that are
(they occur in no constant but their own sets, and the run checks no liveness).  The others use no symmetry.

Deadlock is checked except in `ThreadPool`, which stops after `free`, in
`SyncDict`, `AsyncDict` and `AsyncDictFast`, where everybody may be at the bound of
calls, in `Json`, where a text ends, in `Archive`, where a text on which no query runs
ends with its visit, and in `HashTable`, where a call may end in an assertion and a
table that has grown takes no more calls.

The passing runs leave out uses of which the code is known to go wrong.  Each of them
has a name:

- what follows a nested acquire (the constraint `NotNested` of `SpinLock`): one release ends
  all acquires of a thread, and a thread whose `owner` was wiped late waits for itself.
  That `owner` names nobody who is outside is proved for any depth;
- `locate_fast` and `get_contents` beside other calls (`Alone` of `AsyncDict`), the first
  with the run `AsyncDictFast`;
- a removal from a full column and an append behind free cells (`MayRemoveFull`,
  `MayLeaveGap` of `RecordEdit`), an array that begins with a float and holds an integer
  (`MayMixFloats` of `Json`), and the losses named in `Losses` of `Archive`; inserting a
  key again that another bucket than its own holds (`MayUpdateDisplaced` of `HashTable`).
  They are described in section 7.

## 5. Fairness

Fairness is weak and per thread, never for the whole system and never for one
branch of a choice: a thread that can take its next step takes it, because the
operating system keeps running every thread.

- `SpinLock`: a thread finishes the acquire, the section and the release it is in.
  Nobody has to start another acquire.  Two threads that spin compete through
  test-and-set, and weak fairness of each says nothing of who wins; therefore
  `SomebodyEnters` is deadlock freedom and not freedom from starvation, which the
  code does not offer.
- `ThreadPool`: workers, a waiter within its wait, and the owner within a call take
  their steps.  Tasks end: the code cannot help a task that does not.
- `AsyncDict`: a client proceeds within a call, and its threads work.  `CallsReturn`
  holds although the spin lock may starve, because calls are bounded.
- `HashTable`: a call goes on; it is one thread.
- The others state safety only.

## 6. What is proved

The proofs hold for every value of the constants.

**SpinLockProofs** assumes that `None` is not a thread and that `MaxDepth` is a positive
number (`NoneAssumption`, `DepthAssumption`).

- `TypeCorrect`: `Spec => []TypeOK`.  The type invariant is not inductive: the bound
  of nesting is tested on the way into the loop and the depth grows on the way out.
  `RoomOnTheWayIn` closes the gap.
- `OwnerNeverStale`: `OwnerNotStale` at any depth.  It is inductive with the types.
- `MutualExclusionHolds`: `Spec /\ []NotNested => []MutualExclusion`, of every behaviour in
  which no thread nests acquires, whatever depth `MaxDepth` leaves room for.  Mutual
  exclusion says nothing about a thread that has won the test-and-set and has not
  returned, nor about the flag, nor about the thread whose `ReleaseForget` is pending.
  `LockInv` does: a thread is *busy* from its test-and-set to the store that clears the
  flag, whoever is busy keeps the flag set and is alone, and `owner`, if anybody, is a
  thread between its `Remember` and its `ReleaseForget`.  Where nobody nests the last part
  makes `Reenter` impossible, which is why a late wipe of `owner` does no harm.
- `SpinLockImplementsMutex` follows from `LockInv`: the holder of the abstract lock is
  the busy thread, the test-and-set enters, the store that clears the flag leaves, and
  every other step stutters.  It too is about the behaviours in which nobody nests.

**FormatProofs** assumes nothing for the parser.

- `NoJsonIsRefused`, `NothingElseIsConsumed`, `TokensSuffice`: `JsonIsAccepted`,
  `ConsumedIsJson` and `NoReadPastEnd` of `ParserSpec`, for texts of any length and depth.
  (A step of `Json` is one of `ParserNext` or leaves the parser's variables alone; `Json`
  itself has RECURSIVE operators, of which nothing can be proved.)  The three notions
  that the code keeps apart are tied together by two histories which are not state and
  follow from the stream: the *trail* of brackets before each token, and the run of the
  automaton for JSON (`RunIs`: the run exists and is unique, by the least position at
  which two would differ).  While tokens are checked, `Checked` says that as
  long as the run has not gone wrong its containers are the trail and what it expects is
  among what `Follows` allows; a wrong token may be let through, and from then on
  nothing is known but the trail.  While the parser reads, it is
  in one of two conditions at each token.  `Aligned`: its calls are the open containers of
  the run, and what it expects next is what the run does.  Or `Behind`: it has returned
  from a call at a wrong token and is less deep than the trail, so that at least one more
  bracket is still to come.  It can neither leave that condition with a text read to its
  end nor want a token behind the last.
- `TreeIsTheGrammars`: `TreeIsDerived` of `ParserSpec`.  The first half is about the grammar
  alone.  A value or a part of a container, derived from a place where the run is ready
  for one, takes the run to a state that its brackets determine, and all states between
  are deeper (`ValueOf`, `PartOf`; by the least token at which that fails).  So a text
  with a tree is JSON; and a value joins one part only (`NoLaterPart`: the longer of
  two would end within the value, which is deeper, or between its key and its colon,
  where nothing ends), so it has no second tree.  The second half says, of a text that
  is JSON, that the calls that have not returned are such parts (`Growing`): there are
  tokens `b[1]`, `b[2]` and so on at which they begin, up to `e[1]`, `e[2]` and so on
  what was parsed of each is a part, each goes on where the next begins and has the key for it
  (`Nested`), and the innermost one goes on where the parser stands (`Stands`).  Each
  value that is handed on makes a longer part (`ValueHanded`), and the last one is a tree
  of the whole text.

For the string cache the module assumes that identifiers are numbers, 0 or not, that each
has a string and that lists have more than one entry (`CacheAssumption`).  Hash, buckets and
length are any.

- `MovesToFront`: `make_most_recent` makes of a list that is linked both ways one that is
  linked both ways, with the entry in front and the order of the others kept, although
  one pointer is left stale.  The places of entries are unique (`PlacesAgree`: of two
  placings, look at the first entry at which they differ).
- `ListsStayLinked`, `CacheImplementsLru`: beside the links, no entry of a list has the
  identifier of one that is in use, those in use have their strings and the others have
  identifier 0 (`GoodList`).  The part of the list that a call has walked does not hold
  the identifier it seeks (`NotSeen`); without that a miss could enter an identifier
  twice.  Hence a call for identifier 0 is a hit if the bucket keeps 0, a miss if all of
  its entries are in use for others, and ends the process otherwise, which is what
  `LruCache` says of it (`Fail`).

**RecordEditProofs** assumes that `Radix` is a number above 1, and that values, capacities and
lengths of names are numbers, the last below `Radix` (`RadixAssumption`, `EditAssumption`).

- `MoveRightMoves`, `MoveLeftMoves`: what opening and closing a hole does to each cell.
- `EnsuredSpaceIsFree`: after `ensure_space` the cells asked for are zero, and the
  memory is the old one with a hole of at most that size.  The argument is about the
  first used cell in the range (`LeastNatural`): the zeros in front of it together
  with the hole are what was asked for.
- `WriteOverwrites`: a write changes the cells it covers and no other.
- `CounterUpdated`: a counter that is updated in place is read back, nothing in front
  of it changes and everything behind it follows right behind it, whether its length
  grows, shrinks or stays.  This is the fact on which all edits of columns rest.
- `ReadsUpToTheEnd`: `Spec => []EndsWithMemory`, and `ElementStaysMarked`:
  `Spec => []MarkerAtLastOff`, whatever is edited, for any values, names, capacities and
  depth.  Two hypotheses are the uses left out of the run (`Careful`: no field behind free
  cells, no removal from a full column); the third is that no name is empty or 125 long
  (`Nameable`).  Without each of them the code goes wrong, as section 7 says.

  Both invariants look at one offset and follow from nothing that is stable by itself.  The
  inductive invariant (`Good`) is about the offsets a reader comes to, its *places*: there
  is a set of readers that begins at the first cell of the record's array, that holds with
  each of its readers the one after a `Step`, whose readers all move forward and never
  pass each other, and in which whoever has left the outermost array is at the end of
  the memory (`Places`).  The iterator and the innermost inserter stand at a place; an inserter around
  others stays where the contents of the next begin.  That there is such a set needs no
  induction over nested data: it is a set, not a function computed along them.

  An edit is a change of cells between two places (`Replaced`): what is in front stays, what
  is behind has moved as a whole, and the part between is new.  `StepMoved` says that a
  step of a reader is the same where all cells that it looks at moved alike; so the
  places in front and behind are kept, and what is left to show of each edit is that a
  reader gets through the new part.  A column is the hard case, as its counters may take
  a block more or less, which moves its elements while an offset is kept in front of them
  (`Pushed`, `Cut`).  The functions of the model (`ReadOn`, `ArrayTokens`, `SlotsEnd`,
  `PackArray`) are followed step by step for as many steps as there are cells; a bound on
  the steps of a reader that moves forward is all that is used of it.
- `PackingReservesNothing`: `Spec => NothingReserved`, under the same three hypotheses.  The
  loop of packing has an invariant of its own (`PackedTo`).  In front of the place it has
  come to, no cell is free and every column is full (`Snug`).  Behind it there may be free
  cells, but only where a container ends that is still to be entered (`Enclosed`): each
  container that packing is in had its free cells closed when it was entered, before those
  within it.  That `SlotsEnd`, which skips whole fields, finds the first free cell of the
  container and not one of a container within (`Filled`), and that closing a gap behind a
  place takes nothing from what is known in front of it, are the two halves of a step; for
  the second the places before and after the move are matched one by one
  (`PlacesFollow`, `PlacesStay`), as a column may lose a block of its counter on the way.
  At the last place there is nothing behind, all places are snug, and the tokens a reader
  meets from there on are consecutive (`Run`, `TokensRun`).

**PriorityQueueProofs** assumes a finite set of tasks and priorities that are numbers,
above `Ceiling` or not (`QueueAssumption`), except where it says so.

- `TypesHold`, `CellsAreSound`, `QueueImplementsBag`: no cell is read that was not written,
  no task is lost or doubled.  `CellsSound` counts and is not inductive; `Sound` says that
  the cells in use are distinct tasks.  While an element sinks, `down_heap` looks one
  cell behind the queue.  `LoopInv` says why that is harmless: this cell holds a copy of
  the element that sinks, only something smaller changes places with it, so the copy
  never enters the queue.
- `AscendingPopsAreLowest`: `AscendingPopsLowest`, if all priorities are below `Ceiling`.  The
  invariant is the order of whole levels (`InOrder`): no cell is larger than one in a
  level behind its own, where `Levels` are the cells 1, 3, 7, ... at which a level begins.
  Of two levels nothing is known that begin elsewhere, and the search of `up_heap` begins at
  2 where the level does at 1 or 3; an ascending push passes because it is the largest
  element and does not rise.  While an element sinks only that element is out of order
  (`OrderInv`), it is in the level in front of the one looked at, and the round ends with the
  last level because no level begins within it (`LevelsApart`).  At the ceiling the
  search finds nothing and the theorem is false.

**ThreadPoolProofs** assumes that `None` is neither a task nor a number
(`PoolAssumption`).  Tasks, groups, waiters and threads are any number.

- `CountsExact`: `CountMatches` is inductive with the places of the tasks (`Places`: a task
  is with its caller, in the queue or in the hands of one thread) and with what the
  owner's call keeps between its steps (`Calls`).
- `WaitsAreSound`: a wait compares a generation and a count that it read in two steps.
  `HandlesGood` carries it: the tasks of a handle are in its group, and once the group
  has a later generation, they were run once (`RunsOnce`).
- `WaitAllIsSound`: a counter that was found at zero stays there while the owner adds
  up the others (`ScanInv`), as only the owner starts groups.
- `SlotsAreServed`, `TypesHold`: a slot that is told to terminate has a thread that can
  still see it (`SlotsKept`), because the first thread that does changes the status.  That
  is why a grow may revive a thread that has not seen its mark, and has to start another
  for any other status.
- `FreeJoinsAll`: `Spec /\ []NoShrink => []NoThreadOutlivesPool`: `free` leaves no thread of a
  pool that was never shrunk, however often it grew.  `Joinable` says why: each thread is
  the one a join of its slot waits for, as a grow starts threads only for slots
  that nobody had, and nobody is told to terminate before `free`.  Section 7 says what
  happens otherwise.

**SyncDictProofs** assumes that the marks of entries differ, that `Null` is no client
and that the strings are distinct from both (`DictAssumption`).  Clients, strings,
batches and capacities are any number.

- `StackIsExact`, `InsertedIsFound`, `FoundIsExtracted`, `TypesHold`: the
  invariant joins the free list and the entries (`Exact`: the stack holds the unused
  positions, each once) with the index (`IndexKept`) and with what is known in the
  middle of calls (`Held`, `PairsKept`): a position that was claimed stays claimed until its
  string is stored, and a string a client is about to store is nowhere in the index.
- `ListedIsFound`, `ListedIsComplete`: access by access, until the listing has read memory
  given back.  What it is going to show is read off an entry that may have changed
  twice since it took the address; `IndexKept` says that an entry with a kept string
  is one the index knows, so that it does not matter when `str` is read.  `Walks` says that
  what an insert had returned before the listing began is still where it was and, if
  the listing is past it, has been shown: an entry of a kept string is in use for good,
  and so `in_use` cannot be read as false.
- `Implements`: the entries of strings that are never removed implement `StringDict`.

**AsyncDictProofs** assumes that `None` is no client, string or operation, that the
strings are finite and those of a carrier no more than the lower field tells apart
(`AsyncAssumption`), and
that the operations that nest the lock run alone (`NestedAlone`); the run `AsyncDictFast`
shows what happens otherwise.  Clients, strings, carriers and the widths of the two fields
of an identifier are any number.  Except for `OwnThreadsAreJoined` the carriers are no more
than the upper field tells apart (`CarriersFit`); the code does not see to that, and without
it the theorems are false.

- `OwnThreadsAreJoined`: the spin lock nests here, so `MutualExclusionHolds` does not apply
  and exclusion is proved in the composition.  `Stations` reads the depth and the place
  in the lock off the place in the script of the operation; `Exclusion` has a client that
  nests alone, and the others told apart by the flag; `Workers` says that the handles of
  the carriers up to the cursor name the client at work, so that a join waits for the
  client's own thread.
- `IdsAreOneToOne`, `EarlierCallsAreSeen`, `TypesHold`: on top of that, dictionaries only
  grow (`Stable`), so a pair that was returned stays known (`Histories`), and what a
  finished thread has written agrees with its carrier until it is merged (`Results`),
  because nobody else is at work.  `Shifted` says that the shift drops no bit of a carrier
  that fits, and `KnownPair` that what was packed is taken apart again.  Of a string that
  got local identifier 0, `EarlierCallsAreSeen` says that extract gives the text of NULL
  (`Names`).

**HashTableProofs** assumes that hashes are numbers, capacities are above 0 and `None` is
neither a pair nor a bucket (`TableAssumption`).  Keys, values, hashes and capacities are
any, and tables grow without bound.

- `TypesHold`, `BucketsAreFound`: `Room` says that the buckets in use are no more than the
  pairs that were entered, and that a table in which a pair is still to be placed has
  fewer than nine tenths of its buckets in use: the load is looked at only when a chain
  has ended, but a chain takes one more bucket only with its last pair.  The search
  leaves out one bucket at most, so that from ten buckets on one is found.
- `TableImplementsMap`: `ImplementsMap`, when no key is inserted again that another bucket
  than its own holds.  What the table stands for is read off three places, and `Unique`
  says that a key is in one of them once: in a bucket, in hand, or in the part of one
  copy that still waits.  A bucket with the key in hand can then only be the one where
  the search begins, which is why a pair that is entered is never there already.
  Each step moves a pair from one place to another (`Keeps`), and `SameContents` turns this
  into the map.

**Only model-checked.**  Liveness (`SomebodyEnters`, `FreeReturns`,
`QueuedTasksRun`, `CallsReturn`): fairness and ENABLED are beyond the prover.
`Json.PrintsWhatWasSaid` and `Archive.FileHoldsDocument` walk nested data by
RECURSIVE operators, of which nothing can be proved.  `EditsWhatIsAsked`, the refinement of
`Document` by `RecordEdit`, is proved of no action: it says of all tokens at once where an
edit leaves them, brackets and the fields between them included.

## 7. Simplifications, and deviations that no run shows

What the models simplify is said in section 3.  While reading the code for them the
following was met; it is kept out of the models by the guards or constants named,
or it concerns parts that are not modelled.

- A shrink followed by `free`: `free` joins the slots below `size` only
  (`std/thread_pool.c:88`), a thread of a slot given up may still run and read the
  pool.  A thread stores FINISHED after it gave up its slot (`:320`); the store may
  overwrite the mark of its successor, and then a second shrink or `free` waits for
  ever.  `ThreadPool` therefore never resizes before `free`.
- With monitoring a worker writes times into the task after the counter that
  releases the owner of the task has reached zero (`:291`).  The search for a free
  group (`:169`) visits every eighth slot and does not end while those are taken.
  The statistics are plain counters that all workers increment.
- Identifier 0 is both the encoding of NULL and a position that an insert may hand
  out (`archive/encode_sync.c:398`); `LocatedIsExtracted` excepts it, and
  `SeesEarlierCalls` says what a client of the carriers gets then: the text of NULL for the
  first string of each carrier.
  `num_distinct` counts allocated entries.  A removed string may still be found;
  the properties of `SyncDict` speak of strings that are never removed.
- The listing of the synchronised dictionary takes no lock (`archive/encode_sync.c:437`).
  Beside an insert it may show an entry that is in use and has no text yet, and it may
  read memory that the growth of the vector has given back.  The model contains both:
  the invariant `\A c \in Clients : ~fooled[c]` fails after eight states, in which the listing
  takes the address of an entry, the insert grows the vector, the block moves, and
  `in_use` is read in the old one.  `ListsWhatIsFound` and `ListsWhatWasThere` say what
  a listing is worth as long as that has not happened.  `string_dict.h` says nothing of
  `get_contents` beside other calls, although it calls the dictionary's memory thread-safe
  (line 42), and the library itself lists while nobody inserts (`archive/doc.c:74`);
  therefore this is told here and not as a run that fails.
- More than 1024 carriers: nobody keeps `encode_async_create` from making them, only a
  comment names the limit (`archive/encode_async.c:461`).  Then the shift drops a bit, and
  two strings get one identifier: with `CarrierIds = 1` the run `AsyncDict` violates
  `IdsOneToOne`.
- `num_not_found` of the carrier dictionary adds values of carriers that were
  never asked (`archive/encode_async.c:663`).  `get_contents` releases the lock in the
  middle (`:835`).  `locate_fast` takes the lock again in a nested call and relies on
  `owner`, which a previous holder may wipe late: it then waits for itself.
- `col_it_remove` (`carbon/col-it.c:404`) opens the cell that it gives back one element too
  far when the column was full: the field behind it changes (`MayRemoveFull`).
  `arr_it_next` takes for `last_off` a free cell in front of an element that was
  appended behind free cells (`carbon/arr-it.c:511`, `MayLeaveGap`).
- A property whose name is empty has a zero byte in front, which the object
  iterator takes for a free slot.  `Keys = {0}` makes `RecordEdit` show it.  A name of 125
  characters begins with the byte that ends an object (`is_slot_occupied`,
  `carbon/internal.c:1146`), and everything from it on is lost to readers.  No run has
  such a name; the proof asks for the hypothesis `Nameable`.
- `obj_it_next` leaves `eof` unset when free cells follow the last property, and an
  inserter made then goes in front of that property.
- JSON: `parse_array` skips the token behind its elements whatever it is
  (`json/json-parser.c:527`), so `["a":2]` is parsed as an array of one, and the tokens
  that are left are not looked at.  An array that begins with a float and
  holds an integer reads the bits of the integer as a float.  Signed arrays of the three
  wider types below the root abort the program, as they are handed to inserters of
  unsigned columns.  Unsigned numbers above the largest signed one are truncated by
  `insert_unsigned`; the literals of the run stay below.  The tokenizer is not modelled.
- Archives: the type that is found for an array of numbers may be too narrow (the branch
  of UINT16 in `archive/doc.c:404` takes UINT8 for `[300, 1]`), and the largest number of a
  type is read as null.  Arrays of bytes are written with the stride of the widest type
  (`archive.c:622`), so that a second one in an object is misread.  Objects without members
  at the end of an array are lost, an array of nothing else with its key.  A string with identifier 0 is read as null in an array and in a column
  (`archive/encoded_doc.c:725`).  `Losses` names these four.  Left out: mixed and nested arrays, null in an array of strings
  (which reaches `strlen`), equal keys in an object, sorting for reads.  The number of
  nulls in a column goes through a vector of half its width and is modelled as unknown.
- The converter back to JSON and the visitor are not modelled: of objects within
  objects of arrays the converter loses some, and arrays of one element lose their
  brackets, as `Normal` says for the file already.  Compressed string tables are left
  out: the Huffman decoder aborts (`archive/huffman.c:128`, `:160`).
- String cache: an unused entry has identifier 0 and no string.  A query for identifier 0,
  which the dictionary hands out, matches it and copies a string that is NULL
  (`archive/cache.c:119`), which ends the process, as long as the bucket has room.  The
  model and the theorems contain it (`GetUnused`).  Strings that are
  replaced are never freed.  Queries of the model ask for strings the archive has.  The
  hash table of the index is taken to be a function, which `HashTable` shows it to be
  where no assertion fails.

- Hash tables: the pair that is displaced is entered in the vectors again and leaves its
  old cell there.  A chain of them may outgrow the vectors while the table stays: the
  pointers to the key and the value in hand (`std/hash/table.c:191`) then point into freed
  memory, and the next call finds different capacities (`:244`).  The model stops there
  (`Outgrow`).  With fewer than ten buckets the search may find none and the assertion at
  `:217` fails, or, from the first bucket, the loop at `:202` runs beyond the table
  (`NoFit`); the index of strings of a small archive has such a table.  A key that is
  displaced and inserted again may get a second bucket, after the removal of a
  neighbour or in a long enough chain, since displacements are reckoned from where a
  pair lost its bucket and with either sign; a rehash may then bring the old value back.
  The callers in the library insert the keys they have once (`archive/query.c:118`) and
  remove none.  Several pairs in one call would be read with the stride of keys (`:171`);
  no caller passes several.  `table.h` calls the structure thread-safe, but its lock is only
  initialised, and nothing in the library shares a table.

## 8. Plan

Not modelled: path index, compression, parallel loops, slice lists, identifiers,
sorting, the hash set.  The reasons are in `PROJECT.json`.  In this order:

1. `AsyncFilter` (`std/async.c`): chunks that cover an array exactly, and the merge of
   the partial results of the threads.
2. `Revision`: begin, end and abort on an original and a revised block, with the
   kinds of record keys, the commit hash and object iterators as handles.
3. `SliceList`: slices and their fill level below the index of `SyncDict`.
4. Pure algorithms over bounded inputs: the Huffman tree, quicksort, the tokens and
   the evaluation of dot expressions.
5. `UniqueId`: packed fields and the counters that threads reserve.

Most lines of the repository are not its own: `src/libs/duktape` alone has more than
100,000 of 145,000.  The share of all lines that these models cover is small for that
reason.

To stay out: the command line tool, wording and printing, statistics, the
bloom filter (it only saves lookups), and wider types of fields, which repeat layouts
that are modelled.
