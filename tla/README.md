# Speect in TLA+

Speect is a multilingual text-to-speech engine: a C library (`engine/src`) that
loads plug-ins, keeps voices and their data, and lets the plug-ins of a voice
build an utterance, a graph of linguistic items, from text. This directory holds
models of the parts of the engine where objects are shared, counted, cached,
linked and destroyed, by one thread or by several, of its start and stop, and of
the way from a text to the segments of an utterance, with the TLC runs that check
them and the TLAPS proofs about them. Paths below are relative to the repository.

    tlc -config hrg_graph.cfg MCHRG.tla      # a run: the module and cfg are in PROJECT.json
    tlapm HRGProofs.tla                      # the proofs of a module

`PROJECT.json` lists the components, the runs, the lines of code each definition
stands for, the hazards, the findings and the theorems. Every property of a
passing run has a *mutant*: a definition marked "Variant" beside the one it
replaces, with a plausible bug, under which the property fails.

## 1. The system

### Components

| component | state | operations | hard part | what makes it correct |
|---|---|---|---|---|
| objects (`base/objsystem/object.c`, `object_macros.h`) | a reference count and a mutex per object | create, `SObjectIncRef`/`DecRef`, `S_DELETE`, `S_FORCE_DELETE` | a count of 0 is both "owned by one" and "owned by none"; `S_DELETE` tests the count after it let the mutex go | an object lives as long as it is referenced and no longer |
| class registry (`class.c`) | a hash table of classes and their hierarchy, `class_mutex` | register (add, then init), find, free | registration is two critical sections; what is found under the mutex is used after it | an object is built and taken apart at every level of a class that is there |
| errors, log (`base/errdbg`, `base/log`) | the logger, `errdbg_mutex` | the `S_*_ERR` macros, set logger, quit | the macro locks in one call and unlocks in the next | every lock has its unlock |
| hash table, maps, lists, iterators (`base/containers`, `containers`) | buckets, size, the position `apos`; values with references; an iterator's current and next element | find, set, delete, unlink, resize, walk, destroy | a table that changes under a walk; a position every reader writes; one object under several keys | found where it was put, walked once, freed when unreferenced |
| plug-in manager (`pluginmanager`) | `libraryCache`, each `SLibrary` with its state and count, each plug-in's own static pointers, `pm_mutex` | `s_pm_load_plugin`, `S_DELETE` of a plug-in, init, quit | a library is cached before it is loaded; register functions load, exit functions delete; deletion takes no lock | a library is loaded once, handed out ready, freed once and after its last user |
| voice manager and voices (`voicemanager`) | the cache of data by path and by identity with counts, each voice's map of data, `vm_mutex`, `voice_mutex` | load and delete a voice, get, set and delete its data, synthesise | an operation on a voice takes `vm_mutex` several times and decides on what it read before | counts are exact; nothing a voice holds is freed, nothing else lives |
| HRG (`hrg`) | utterance, relations, items, shared contents: pointers in all directions | append, prepend, add daughter, share a content, delete item, relation, utterance, traverse | four pointers per item and two per relation, patched by each operation; recursive deletion | pointers are each other's inverse and reach every item; contents and items name each other |
| item paths and processors (`hrg/item_path.c`, `hrg/processors`) | none | walk by name; call of plug-in code | | |
| serialization, data sources, JSON | the table of formats | load, save | failures | |
| tokens (`utils`) | a stream with the character it looks at, and one token when it has been peeked | get, peek, end | the end of the stream is known before the last token is taken; bytes and characters | every token once, at its bytes |
| utterance breaks (`plugins/.../uttbreak`) | the stream, and the `eof` of its loop | next utterance | a token is peeked to see whether it is the next utterance's | no token twice, none skipped |
| text processors (`plugins/.../nlp`: tokenizer, normalizer, phrasify, lexlookup, pauses) | the relations of an utterance, the error code | `Run` of each | each reads what those before it left, also when they failed; a clean-up clears the error | each relation agrees with the text and those before it |
| synthesis loop (`voice.c`, `SynthUtt`) | the processor that runs, the error code | synthesise an utterance | stops on the error code only | a failure is reported |
| engine (`main`) | `initialized_count`, the modules started | `speect_init`, `speect_quit` | a start that fails half way leaves parts behind for the next | a start that succeeds is complete; undone in reverse order |
| plug-ins (`plugins`) | static pointers to the plug-ins they require | register, exit, process | nested loading | |
| strings, utilities, threads, buffers, hash functions | none, or one word | | | |

### How they interact

`speect_init` starts the modules and then the managers. `s_vm_load_voice` reads a
configuration, loads the plug-ins it names through the plug-in manager and the
data files it names through the voice manager's cache. `SVoiceSynthUtt` makes an
utterance and calls the voice's processors, plug-in code, on it; they ask the
voice for data (`SVoiceGetData`) and build relations. All of them keep objects in
maps and lists, which count references: `SMapSetObject` adds one,
`SMapObjectUnlink` and `SMapObjectDelete` drop one, `S_DELETE` drops one and
destroys at zero. Mutexes are not recursive. `engine/tests/synth_threads_test.c`
runs all this from many threads that share plug-ins.

### What is hard

The complete list, with lines, is under `hazards` in `PROJECT.json`. The main ones:
a cached library that is not loaded yet; deletion that reads a count and acts on it
without the manager's mutex; nested loads and the failure of one of them; an answer
of the voice manager used after `vm_mutex` was released; an object under two keys;
an address used again by a new object; the pointers of an item patched in ten
different situations; a content that goes with the last of its items; a relation
that takes a name in use; a table or list rebuilt or cut under a walk; two mutexes taken
in the order of the arguments; a class that is known before it is complete; a start
after one that failed; an error that the clean-up after it clears; a token that is
looked at before it is known whose it is.

## 2. The modules

| module | models | composed with |
|---|---|---|
| `PluginManager` | `pluginmanager/manager.c`, `library.c`, `plugin_object.c`, `S_DELETE` | implements `PluginService` |
| `PluginService` | what the manager promises its users | |
| `HRG` | `hrg/item.c`, `item_content.c`, `relation.c`, `utterance.c`: one step per operation | |
| `HRGPointers` | the recursions and loops of the same files, run pointer by pointer on every state of `HRG` | extends `HRG`, implements `HRGForest` |
| `HRGForest` | named ordered forests with shared contents | |
| `VoiceData` | `voicemanager/manager.c` and the data operations of `voice.c` | |
| `MapHashTable` | `hash_table.c`, `map_hash_table.c` and its iterator | implements `MapService` |
| `MapService` | what a map of objects promises | |
| `Engine` | `main/{main,modules,managers}.c`, `class.c`, the counted starts of `base/errdbg` and `base/utils` | |
| `List` | `base/containers/list/list.c`, `containers/list` and its iterator | implements `ListService` |
| `ListService` | what a list promises: a sequence | |
| `TokenStream` | `utils/tokenstream.c`, `tokenstream_string.c` | used by the next two |
| `UttBreak` | `uttbreak_proc.c` | extends `TokenStream` |
| `Synthesis` | `SynthUtt` of `voice.c` with `tokenizer`, `normalizer`, `phrasify`, `lexlookup` and `pauses` | extends `TokenStream` |
| `PluginManagerProofs`, `HRGProofs`, `VoiceDataProofs`, `MapProofs`, `EngineProofs`, `ListProofs`, `SynthesisProofs` | the theorems about the module they extend; `SynthesisProofs` also those about `UttBreak`, which reads the same stream | |
| `Counts` | lemmas about counts, sums over finite sets, sets, numbers and sequences that these share | |
| `MC...` | the instances for TLC | |

### Plug-in manager

`library[l]`, `ref[l]`, `cache[p]` are the `SLibrary` objects, their reference
counts and `libraryCache`; `statics[p]` are the static `SPlugin` pointers in the
plug-in's own code (as in the lexlookup plug-in, which loads two others when it
registers); `held[t][l]` the `SPlugin` objects the code of a thread owns. A thread
has a stack of calls, because a register function calls `s_pm_load_plugin` and an
exit function does `S_DELETE`. A call is at a program point, a place where another
thread can run: one action per program point, named after what the code does there
(`LockManager`, `LookupHit`, `ShareLibrary`, `SpinEnds`, `CreateLibrary`,
`LoadLibrary`, ..., `PublishLibrary`, `SetReady`, and the steps of `S_DELETE` on a
library). Faults can hit the resolution of a path, the opening of a library or the
registration of its classes; which plug-in fails where is the constant `Fault`.

The manager does not order its callers. The constant `Discipline` says what the
application does about it. With "serial" calls do not overlap. With "kept" they do,
but a thread deletes only plug-ins that one thread, the keeper, holds too, and the
keeper gives up its last one when the others are done (an application that keeps
its plug-ins loaded while threads use them). With "none" anything goes.

### HRG

The variables are the fields of the C structures. Every operation holds the
relation's or the utterance's mutex throughout and is one step. `Create` is the
six ways to make an item; with a second argument it shares that item's content
instead of making one. `DestroyItem` and `DestroyRelations` do in one step what the
code does by recursion; `HRGPointers` has the recursion itself, as recursive
operators on a heap, and checks in every reachable state that it ends with exactly
the result of the one-step action (`DeletionsAgree`, which is `DestroysSubtree` and
`DestroysTree`). `ShareOnce`
says that callers do not put a content twice into relations of one name, and
`FreshNames` that they make a relation only under a free name. `HRGForest` is the
abstract specification: inserting a node in an ordered forest, cutting a subtree.

### Voice data

`dataTypes`, `entryRef` and `dataIdentity` are the two maps of the voice manager's
cache and the count of an entry; `data[v]` is the map of data of a voice, `lock[v]`
its `voice_mutex`, `objectRef` the object's own count. The functions of `manager.c`
run entirely under `vm_mutex` and are one step each; those of `voice.c` hold
`voice_mutex` and take `vm_mutex` several times, so they are several steps:
`Unlink`, `Query` (`_s_vm_data_loaded`), `Unload` or `Dispose`, `Count`
(`_s_vm_data_loaded_inc_ref`), `Put`. An address can be used again as soon as its
object is freed. Any thread synthesises with any voice. The thread that loaded a
voice deletes it, when no call is using it: `SVoice` gives no means to wait for that.
`Uses` says what else the application does with `SVoiceSetData`: with "borrow" it
also sets objects that its voices hold already; "share_plain" lets it do so with
objects that did not come from a file.

### Hash map

A table is a chain of keys per bucket; an element is named by its key, and a
pointer to an element that was removed is `Freed`. `Rehashed` is the loop of
`_s_hash_table_resize`, in the code's order. A call on the map is a step, since it
holds the container's mutex. A call on the iterator is not: `SIteratorNext` does not
take the mutex, and `s_hash_element_next` keeps its place in the table's `apos`
field, so it is `IteratorNext`, `Scan` and `Read`. `Calm` and `Removable` say what
the application may do during a walk: set and remove, but not the element that comes
next, and without making the table grow. `seen` and `due` are history variables.
Two calls are left out because the code
destroys its own state: setting the object a key already has, with no other reference
(the old value is deleted before the new one is counted), and
`SMapHashTableResize(map, -1)` on an empty map (the number of buckets is `1 << -1`).

### Engine

`stage` is the program point of the one thread that is in `speect_init` or
`speect_quit` (neither is thread safe, so the other threads do nothing then: `Resting`). A
`Start...` action is a stage with its two outcomes; a failing one does exactly what the
error path of that stage undoes, which differs from stage to stage (`QuitErrdbg`,
`UndoModules`, `QuitManagers`, or less). `maps[m]` is how many levels of its class the
map of a manager was initialised with: a manager that is started while the classes
have no hierarchy yet would get 0. Between start and stop, threads load plug-ins, which
register a class in two steps (`ClassAdd`, `ClassInit`) and make and delete objects level
by level (`New`, `RunInit`, `NewReturns`, `Drop`, `Delete`, `RunDestroy`,
`DeleteReturns`), so that another thread can come between any two. Deleting a plug-in is
the chain of steps that `PluginManager` has in more detail, since no mutex is held over
it: `Unload` lowers the count, `UnloadCheck` is the look of `_s_pm_unload_library` at it,
`UnloadTest` that of `S_DELETE`, `Uncache` takes the library from the cache, `ClassFree`
and `Release` are the exit function, and `Release` deletes the plug-in of the parent class,
with the same steps. `Orderly` says that the application neither loads nor deletes a
plug-in while another thread deletes one; without it the class goes under a thread that
has just loaded it (section 3). Two guarantees are guards: a
plug-in is given out when its register function is through (`HandedOutReady` of
`PluginManager`), and the application keeps the plug-ins of the classes of its objects
(`Unneeded`, `Usable`).

### Lists

`next`, `prev`, `data`, `home` are the fields of the elements, `first`, `last`, `size`
those of the lists. A call on one list holds its mutex and is a step; `SListMerge` and
`SListCopy` take a second mutex (`Merge`, `MergeLock`) and add one object at a time
(`MergeAdd`), and stop half way when there is no memory (`MergeFails`); destroying a list
takes no mutex and is several steps. `S_DELETE` lowers the count of an object under the
object's mutex and looks at it after the mutex is released: `Delete` is the first half,
in the step of the call that deletes, `deleting[t]` is the object in between, and `Test` the
second half, which frees it if the count is 0 by then. `Orderly` says that the
application takes no object out of a list while another thread is in between with that
object. The iterator has looked up its next element one
call ahead, so an element that is appended while there was no next one is not visited:
it is due all the same, and in `late`, until the iterator is gone (`NothingMissed`, which says that this cannot be, fails; section 3).
`threads` says whether the build has threads. `SListNth` calls `SListSize`,
which takes the mutex it holds, so the run calls it only in builds without
(`NthThreaded`); after `SIteratorUnlink` an iterator has no place to insert at, where
`SListInsertBefore` and `SListInsertAfter` insert nothing but count a reference all the
same, so the application does not ask for it. An iterator's list is changed by the
thread that walks it only, and not popped or turned round.

### Token stream and utterance breaks

`text` is a sequence of characters that have a width in bytes; `White`, `Pre`, `Post` and
`Single` are the symbols of the stream. Reading a token is one operator (`ReadToken`):
each of its four parts is the longest run of its characters, which is what the loops of
`tokenstream.c` read character by character. `UttBreak` is one action per peek, get and
test of `GetNextUtt`, with `place` as its program counter and the variable `eof` of its loop as
`done`; the names of its specification begin with `Break`, so that one module can extend it
and `Synthesis`.

### Synthesis

A processor's `Run` is a few actions: `...Starts` (the relations it requires and makes),
`...Next` (the loop's body for one item), `...Fails` (some call in the body failed, and
what the error path removes) and `...Ends`. A relation is a sequence of records, since
these processors only append, and items that share a content name it by its place;
that the pointers behind it are right is the matter of `HRG`. `error` is the error code
when a processor returns, `failed` a history variable. Failures are not faults of the
input: any call may fail at any time. An item of Token gets its name, its two byte offsets
and `IsPunctuation` one call after another, and the tokenizer keeps the item of the call that
fails: `HalfMade` is what such an item can have. A voice is a record of what it has: a lexicon, a
g2p, a syllabification, a processor that expands a token to several words (`WordNames`
makes a word of each letter, which stands for any expansion to none, one or more
words). A word's phones are numbered; which phones they are is left out.

## 3. The runs

| run | question | bounds |
|---|---|---|
| `pm_serial` | Do nested, failing and unregistering loads leave nothing behind, if calls do not overlap? `TypeOK`, `NothingLeft`, implements `PluginService` | 2 threads with 2 loads each; 6 plug-ins: one plain, one requiring it, one whose second requirement fails, and one for each kind of fault; 3 libraries live at a time |
| `pm_kept` | Are counts exact if calls overlap, and one thread keeps what others delete? `RefExact`, `HandedOutReady`, `LockReleased`, and every call returns | 2 threads with 3 loads each, a plug-in and one that requires it |
| `pm_race` | *violated*: `NoDangling` if threads load and delete freely | 2 threads with 2 loads each |
| `hrg_graph` | Are pointers, ends, contents and ids right after any sequence of operations, do recursion and traversals do what they should, is it a forest? `Linked`, `Ends`, `Reached`, `ContentAgrees`, `IdKept`, `DeletionsAgree`, `WalksAgree`, implements `HRGForest` | 5 items, 3 contents, 2 relations and names, 4 ids |
| `vd_shared` | Does nothing dangle when threads load, change, use and delete voices that share a file, any thread changing any voice? `NoDangling`; does each voice's mutex get released? `LockReleased` | 2 threads, 2 voices, 2 keys, one shared file, 2 addresses |
| `vd_borrow` | Are the cache and its counts right when a voice names a file under two keys and its owner also sets cached objects under more keys and voices? `RefExact`, `CacheAgrees`, `NoLeak`, `AnswerStands` | 2 threads, 2 voices, 2 keys, 2 files, 3 addresses |
| `map_walks` | Are elements found after any growth, shrinking and removal, does a walk meet each once while the map changes, do objects live as long as referenced? `RefExact`, `WalkExact`, implements `MapService` | 4 keys, of which three share a bucket of a table of 2 and two one of 4; tables of 1 (on the way down) to 8 buckets; 2 objects |
| `engine` | Is a start complete whatever starts before it failed, and undone by its stop? Are objects built and taken apart at every level of a class that is there? `Started`, `Stopped`, `WholeObjects`, `InfoLives` | 3 starts, nested 2 deep; 2 threads, 2 objects; a class of the engine and two of plug-ins, one derived from the other; `Orderly` |
| `lists` | Do objects live as long as a list has them, does a walk come to all that follows its place but what was appended when it had no next, is a merge whole, does no call wait for ever? `RefExact`, `WalkExact`, `MergeWhole`, `NobodyStuck`, implements `ListService` | 2 threads, 2 lists, 5 elements, 2 objects, builds with and without threads, merges in one direction; `Orderly` |
| `breaks` | Do the tokens of all utterances follow on one another byte by byte? `InOrder` | every text of up to 5 of 7 characters, one of each kind |
| `breaks_lost` | *violated*: `NothingLost`, a caller that asks until it gets NULL has every word | texts of up to 3 characters |
| `synth` | Does each relation agree with the text and the relations before it, is a failure reported, does the synthesis end? `Tiled`, `SpellsText`, `PhrasesPartition`, `SilenceBetween`, `Reported`, `Finishes` | every text of up to 4 of 6 characters; three voices: one with a syllabified lexicon in which a word has no phones, one that expands and syllabifies, one without a g2p |

Why the bounds are enough. In the plug-in manager a race needs two threads, a nested
load two plug-ins, and a second life of a path a third library; three loads per
thread let one thread load, delete and load again around the other. An operation
on items touches an item, two neighbours, a parent and a first daughter: five items
have all these situations, and two relations have an item shared between them.
A count in the voice data needs two keys of one voice and a second voice; an address
that is used again needs one more object than are held. A chain of three elements
has a first, a middle and a last, and four keys make a table of two buckets grow.
Two failed starts, each at any stage, can precede one that succeeds, so one can find what
another left. Five elements are a list of three, with an element to insert and one to
merge. The break between two utterances is decided by two tokens and what is between
them, each of at least one character, and the end of the text after them: five characters
have every pair of a token and its successor that the tests of `GetNextUtt` tell apart,
four have a phrase of two words, or two phrases, each with a token after or before it.

`CHECK_DEADLOCK FALSE` is set where the system may really stop: in the plug-in
manager's runs and `engine`, whose bounds on calls and starts run out, and in `breaks`,
`breaks_lost` and `synth`, which end with their text. In the other models the application
can always ask for something, so a deadlock would be an error and is looked for;
`NobodyStuck` of the lists says more, since one thread may be stuck while another goes on.

Fairness. `FairSpec` of `PluginManager` and `VoiceData` is weak fairness of the
steps a thread takes by itself inside a call: the operating system runs every thread
that can run, and a mutex that stays free is taken. Nothing is assumed about which
calls a thread decides to make. `CallsReturn` (every load and delete returns) and
`LockReleased` of `VoiceData` (whoever holds a voice lets it go) rest on it; the
second is not implied by the threads merely not stopping, since `DestroyVoice` and
`SVoiceSetData` loop and branch while they hold the mutex. `FairSpec` of `Synthesis` is weak
fairness of its next step: the one thread that synthesises goes on.

### What the violated runs show

Each contradicts a sentence of the repository, quoted under `findings`.

* `pm_race`: `manager.h` calls `s_pm_load_plugin` thread safe and deletion by
  `S_DELETE` normal. `_s_pm_unload_library` tests the count without `pm_mutex`;
  a load that found the library in the cache meanwhile is left with a freed one.
* `breaks_lost`: `uttbreak_proc.h` says that the next utterance is NULL if there are no
  more. `GetNextUtt` also gives NULL, and for good, at a token without a string
  (punctuation by itself), and when the first token of an utterance is the last of the
  text: peeking it has set `eof`, which the next call takes to mean that all is read.

### What the code does not promise

The passing runs keep the application away from these. Each is violated when a copy of
the named cfg with the named settings checks the named definition.

| what goes wrong | settings | definition |
|---|---|---|
| a thread that found a library in the cache spins for ever when its loader fails | `pm_kept.cfg` with `Fault <- BaseFails`, `Discipline = "load_only"`, `MaxCalls = 2` | `WaitersHaveLoader` |
| two plug-ins that require each other make one thread wait for itself | `pm_kept.cfg` with `Requires <- Cycle`, `Discipline = "load_only"`, one thread | `CallsReturn` |
| a relation made under a name in use leaves the old one alive, out of its utterance | `hrg_graph.cfg` with `FreshNames = FALSE`, one item, two relations, one name | `SameNameDeleted` |
| an object that is not from a file and is held under two keys goes with the first: `unload_data_entry` drops two references | `vd_shared.cfg` with `Uses = {"borrow", "share_plain"}`, one thread | `HeldAlive` |
| a look-up by another thread while an iterator searches moves its place | `map_walks.cfg` with `Overlap = TRUE` | `WalkExact` |
| a thread that finds the library in the cache, after another looked at its count and before it uncaches it, makes an object on a class that is then freed (the race of `pm_race`, seen from the class registry) | `engine.cfg` with `Orderly = FALSE` | `InfoLives` |
| `S_DELETE` lowers a count to 1, another thread's lowers it to 0, and each sees 0 and destroys; or the other gives the object to its caller, and the first destroys it | `lists.cfg` with `Orderly = FALSE` | `RefExact` |
| what is appended while an iterator is at the last element is not visited, since the iterator looked its next element up before (`containers/iterator.h` says of `SIteratorNext` that it gives NULL if there are no more objects in the container) | `lists.cfg` | `NothingMissed` |
| `SListNth` in a build with threads waits for the mutex it holds | `lists.cfg` with `NthThreaded = TRUE`, `Builds = {TRUE}` | `NobodyStuck` |
| a pair of lists merged into each other by two threads, or a list with itself, waits for ever | `lists.cfg` with both directions, or `<<l1, l1>>`, in `Merges` | `NobodyStuck` |
| a processor that fails and removes its relation clears the error code; if no later one requires the relation the synthesis reports success. Types that end with phrasify or lexlookup are in `tests/configurations/it-sample/voice.json` and `swig/python/examples/ibibio_frontend/voice.hts.json` | `synth.cfg` with `UttType <- UpToLexLookup` | `Reported` |
| lexlookup stays for ever at a word for which it finds no phones (`continue` does not move on), as the voice of `ibibio_frontend`, with a lexicon and an addendum and no g2p, can | `synth.cfg` with `Finishes` without its condition | `Finishes` |
| `_s_base_utils_quit` starts the environment variables module again instead of quitting it | `engine.cfg` | `UtilitiesQuit` |

## 4. The proofs

All theorems hold for every value of the constants that satisfies the named
assumptions of the modules: `Null` is not an identity, bounds are natural numbers,
and, where things are counted, the threads, the places in the voices, the cells
of the lists and the paths and libraries of the plug-ins are finitely many, and no
thread is a path, since both are users of plug-ins. Some have a hypothesis about what
the application does; it is in the table, and section 3 shows what goes wrong without it.

| module | theorem | statement |
|---|---|---|
| `PluginManagerProofs` | `TypeCorrect`, `NeverHandedOutEarly` | `Spec => []TypeOK`, `[]HandedOutReady` |
| | `MutexReleased` | `Spec => []LockReleased`, if no path fails to resolve (on that error path the code returns with the mutex held) |
| | `CountsExact`, `NothingIsLeft`, `NothingDangles` | `Spec => []RefExact`, `[]NothingLeft`, `[]NoDangling`, if `Orderly`: calls do not overlap, or no load fails and, until the end, nothing is deleted but what the keeper holds too |
| | `PluginsServed` | `Spec => ServiceSpec` (implements `PluginService`), if `Orderly` |
| `HRGProofs` | `HRGTypeCorrect`, `PointersConsistent`, `EndsCorrect`, `NothingLost` | `Spec => []TypeOK`, `[]Linked`, `[]Ends`, `[]Reached` |
| | `ContentsAgree` | `Spec => []ContentAgrees`, if `ShareOnce` |
| | `IdsStayUnique` | `Spec => IdKept`, if `ShareOnce` and `FreshNames` |
| `VoiceDataProofs` | `CountsCorrect`, `CacheCorrect`, `PointersCorrect`, `LeaksCorrect`, `AnswersCorrect`, `TypeCorrect` | `Spec => []RefExact`, `[]CacheAgrees`, `[]NoDangling`, `[]NoLeak`, `[]AnswerStands`, `[]TypeOK`, if `Careful`: what the application sets again came from a file |
| `MapProofs` | `ReferencesCorrect`, `WalkCorrect`, `ElementsPlaced`, `TypeCorrect` | `Spec => []RefExact`, `[]WalkExact`, `[]Placed`, `[]TypeOK`, if `Undisturbed`: nobody looks a key up while the iterator searches |
| | `TablesAreMaps` | `Spec => MapSpec` (implements `MapService`), if `Undisturbed` |
| `EngineProofs` | `StartedCorrect`, `StoppedCorrect`, `TypeCorrect`, `ObjectsCorrect`, `InfoCorrect` | `Spec => []Started`, `[]Stopped`, `[]TypeOK`; `[]WholeObjects`, `[]InfoLives`, if `Orderly`: nobody loads or deletes a plug-in while another thread deletes one |
| `ListProofs` | `WalkCorrect`, `ListsLinked`, `TypeCorrect` | `Spec => []WalkExact`, `[]Linked`, `[]TypeOK` |
| | `ReferencesCorrect` | `Spec => []RefExact`, if `Orderly`: no object is taken out of a list while another thread has lowered its count and not looked at it yet |
| | `MergesCorrect` | `Spec => []MergeWhole`, if `Apart`: no list is merged with itself |
| | `NobodyWaitsForEver` | `Spec => []NobodyStuck`, if `Ranked`: merges go down an order of the lists, and `NthAlone`: `SListNth` is not called in a build with threads |
| | `ListsAreSequences` | `Spec => ListSpec` (implements `ListService`) |
| `SynthesisProofs` | `TokensInOrder` | `BreakSpec => []InOrder` (of `UttBreak`) |
| | `FailuresReported`, `WordsSpellText`, `PhrasesPartitionWords` | `Spec => []Reported`, `[]SpellsText`, `[]PhrasesPartition`, if `Complete`: the type runs all five processors, as in the run `synth` |
| | `TokensTile` | `Spec => []Tiled`, if `Complete` and `NarrowWhite`: white space takes one byte a character, which is how the tokenizer counts it |
| | `PausesBetweenPhrases` | `Spec => []SilenceBetween`, if `Complete` and `LexiconsEnd`: an entry of a lexicon that has syllables has phones in the last of them or has none at all, and one without syllables is one list of phones |

*HRG.* None of `Linked`, `Ends` and `Reached` is inductive. Deleting an item is
harmless to the pointers left only if the subtree that goes is closed under
pointers from outside but for those the code patches: that needs `Linked`, to know
where the pointers into the subtree come from, and `Reached`, to know that an item
left is not below one that went. So the invariant is `Structure`, the conjunction of
`TypeOK`, `Clean` (an item that does not exist has only null pointers, so that a new
one starts from nothing), `Linked`, `Ends` and `Reached`. Reachability is defined
without recursion, as membership in every set closed under the links, which is what
lets the provers reason about it: lemmas about `Reach` (it is closed, it is the
least, it grows with one link) come first; then, per operation, that the closure
after the step has the items it should. `ContentsAgree` is proved on top of it. For the
ids the difficulty is that the counter starts again with each utterance: `InMap` says
that every relation is in the map of the utterance, so without an utterance there is no
item and, by `ContentAgrees`, no content whose id could be given again; `IdInv` says
that the ids of existing contents differ and are at most the counter.

*Plug-in manager.* `IInv` is the types, what each program point knows (`StackOK`: a
call past the look-up has a library, and every frame below the top of a stack is a
register or exit function in the middle of a call), and `HandlesUsable`: whoever
holds a plug-in, thread or static pointer, has one that is ready, or was freed (a
race of deletions can free it, see `pm_race`, but it was never handed out early).
Nested calls are why it speaks of every frame of every stack. `MutexReleased` rests
on `LockInv`: a thread is at a point of the critical section exactly if it is the
owner, and a manager that is not initialised has no thread in a call.

For the counts the invariant is `OInv`, which adds to `IInv` what every call, also
one that waits below nested ones, knows of its library (`Good`: that it lives and has
the frame's path, whether it is cached, what is loaded of it, and which static pointers
of the plug-in are set) and how calls relate. Above a loop that deletes are only
deletions (`Shape`); one call at a time loads or frees a path (`Distinct`); a deletion
that may free has all threads to itself, and any other deletes what the keeper holds
(`Alone`); a library that is not ready or not cached is in the hands of a call, and one
that is has a user, or a call that is about to see that it has none (`LibraryGood`).
`RefExact` is then a count per kind of reference: cache, handles (a sum over the
threads), static pointers, and calls that own one. Each action changes one of them by
one, or moves one to another kind. `Orderly` is needed in the deletion: `_s_pm_unload_library`
tests the count without the mutex and only `Alone` says that it still stands
(`pm_race` shows the rest), and in the failure of a load, whose discarded library
another thread may be spinning on. `NothingLeft` needs one thing more, that plug-ins
do not require each other in circles. The manager does not check this: it holds
because a plug-in's pointers are set by loads that end before it is ready, and is the
invariant `Acyclic` (of any libraries there is one that none of them requires). When the
application holds nothing and no call runs, every library left has a reference from another one
left, so by `Acyclic` there is none. In the refinement a path's uses are the shares of
its one live library; a step that hands a plug-in over is `Acquire`, the start of a
deletion is `Release`, uncaching a library is `Close`, and all other steps stutter.

*Voice data.* `RefExact` alone is not inductive: between two critical sections of
`vm_mutex` a call counts for an object it has not put yet, or no longer for one it
has unlinked. `IInv` says, per thread, at which points a call has which pointers
(`PointAt`), that it has the voice's mutex there (`LockAt`) and so the place it works
on stays as it is (`SlotAt`), and that the answer of the cache it acts on stands
(`AnswerAt`). `CountInv` has the counts as cardinalities of holders and claimers. An
answer "not the cache's" stands because such an object is in one place only
(`PlainInv`), an answer "the cache's" because the asker is still counted. That an
object set a second time is not freed before it is counted is `LentAt`: another place
of the same thread's voices has it meanwhile. Steps change the holders of one object
by one, which is the lemma `DifferInOne` of `Counts`.

*Hash map.* `TableInv` is the chained table: each element is in the bucket of its
hash value, once. The long part is that the rehash keeps it (`RehashedChains`): the
elements come to it in `Order`, each once (`FlatSingle`, by induction on the
buckets), and after `i` of them the new table has exactly the first `i` (`Moving`).
`ObjectInv` ties counts to elements, and each object to the application or to an
element. `WalkExact` needs the order of the walk: `Follows` orders elements by bucket
and place, and `WalkInv` says that the next element is there and has not been visited,
that everything due is that element or follows it, and that nothing that follows it has
been visited. While the iterator searches, the same is said of the bucket it has
come to, which is the table's own `apos`: there `Undisturbed` is needed. A removal
keeps the order of the elements left, and a key that is added goes to the front of
its chain, so that it follows the next element only from a later bucket, where the
walk has not been. The walk that destroys a map is the same walk: at its end no
element is left. `Room`, on top of it, is that a table has no more elements than
buckets.

*Start and stop.* `WInv` says for every stage of `speect_init` and `speect_quit` what
is up (`StageInv`), which classes are registered how far (`TableInv`), and, if no
start failed, that what is not started yet is down; it needs no hypothesis. `OInv` adds
what an orderly application has: while a plug-in is deleted no other
call on plug-ins is under way, so that what its thread saw at one step is so at the next
(`UnloadInv`); a class is known while its library is in the cache or its exit function is
about to free it (`LoadedInv`); a plug-in that is in use is loaded, with its class
(`PluginInv`); and a thread in the middle of making an object has done as many levels as
it has not left, and has a use of the plug-in of its class (`ObjectInv`), which is why
the class is there when it is read.

*Lists.* A list is a chain if there is a sequence of its cells, each once, along
which the pointers agree in both directions (`IsChain`); `ChainInv` says so of every
list, and one lemma per way to change a chain gives the sequence after it. The
iterator is at a place of that sequence, what is due is what follows it, and what is late,
if anything, is all of that (`WalkInv`); a merge is at a place of the
second list, and what is still to come together with what was appended is what
there was (`MergeInv`). `RefInv` says that the count of a living object is the number
of elements that have it, and that an object between the two halves of `S_DELETE` is in no
application's hand: by `Orderly` no other reference goes meanwhile, and a new one can only be made by
who has one, so the count that `Test` looks at is 0 only if no list has the object. `NobodyStuck` follows from `LockInv` and from the order:
of the calls that wait, one waits for a list so low that its holder waits for none.

*Token stream.* What the stream promises is the lemma `ReadsToken`: from a stream
whose byte count agrees with its place in the text (`Counted`), a read gives the four parts of
a piece of the text, one after another (`Parts`), with the bytes where it starts and ends, and
leaves the stream counted at its end. Bytes are a sum along the text, so `Offsets`
first proves that the offset of a place grows by the width of its character and that
the bytes of a piece are the difference of two offsets. `InOrder` is then `InOrderInv`: at
every point of `GetNextUtt` the last token of all utterances ends where the next one, peeked
or still to be read, begins. The difficult point is the token peeked in the loop: it
is either the next one, or what is read at the end of the text, which has no string and
is dropped.

*Text processors.* `Reported` rests on what is missing: a processor that fails takes its
relation away and clears the error, so `ControlInv` says that after a failure the
control is before a processor which requires a relation that is not there (`Missing`);
with a type that ends after lexlookup the last of these does not exist.

`Tiled`, `SpellsText` and `PhrasesPartition` follow the text through the processors. What a relation amounts to is a
sum over its items, each of which stands for a sequence that a table gives: itself
if it has its bytes (`PlaceTable`), the string it says if it is no punctuation (`SaidTable`),
the spelling of a word (`SpelledTable`), the letters of a character (`LetterTable`).
`Total` is such a sum, and `TotalCat`, that the sum of two sequences end to end is the two
sums end to end, is what all of it rests on. For `Tiled`, `TiledInv` says that the items with bytes so
far are pieces of the text that leave only white space before the place the stream is at
(`Tiles`): each part of a token extends that by itself (`WhiteTiles`, `ItemTiles`), and the items a
failing call has made are a beginning of the token's, with the last one perhaps half made: it
counts as a piece if it has its bytes, and else as nothing (`SomeItemsPieces`). There
`NarrowWhite` is needed: `tokenizer_proc.c` adds the length of the white space, in characters, to
an offset in bytes. For `SpellsText`, `SpellInv` says that the items say the
letters read so far, and that at each turn of the normalizer's loop the words spell in lower
case what the items before it say, whether the voice expands them or not; a failure
takes the Word relation away. For `PhrasesPartition`, `TextInv` adds that
the words come in the order of their
tokens (`WordsInv`), and that at every turn of phrasify's loop the phrases made so far have
the words up to the one it is at (`Partition`), of which one lemma for an open phrase and
one for a new phrase gives the next.

For `SilenceBetween`, `SilenceInv` says that at each turn of lexlookup the segments are
those of the words before (`Segmented`), and at each turn of pauses that the segments
are a silence, then those of the phrases before with a silence after each that has
segments, then those of the phrases from here on without (`PausedTo`). That the
words of a phrase are consecutive is what the proof of `PhrasesPartition` gives, so the two
invariants are taken together. The step is the search backwards: among the words of
a phrase the last segment of the last one that has any is the end of the phrase's
segments (`PhraseEnd`, by induction on the words), no segment elsewhere is the
last of one of these words (`Placed`), so the silence goes exactly behind the phrase,
wherever the silences before have moved it. `LexiconsEnd` is needed because
`pauses_proc.c` takes the last daughter of the last daughter of a word: a word whose last
syllable is empty would count as one without segments, although it has some. The
lexicons of the run `synth` satisfy it, among them one with a word without phones.

The provers cannot be given an induction principle that takes a predicate. Where
these proofs use induction on numbers (flattened chains, the rehash, the order of
merges) they take the set of numbers of which the fact holds: `NatSetInduction` and
`LeastNatural` in `Counts` are proved from the well-foundedness of the naturals, and from
them `SeqSetInduction`, the same for sequences that grow by one element.

`TypeOK` of the modules other than `PluginManager`, `Placed` and `Linked` are not among
the properties of the runs, since others that are checked there say more. They hold under
the same cfgs. So do the inductive invariants, which were checked with TLC on the
instances of the runs before they were proved.

Only model-checked: liveness; the refinement of `HRGForest`; `DeletionsAgree` and
`WalksAgree`, which are about the recursive operators of `HRGPointers`, out of reach of
the provers.

## 5. What is left out

* Failed allocations (but for `MergeFails` and the failures of processors), and the error returns that only follow from a null argument.
* The bytes: names, paths, hash values, configurations and files are atoms, and a
  file or library that cannot be loaded is a choice (`LoadFails`, `Fault`).
* Quitting the engine while plug-ins are in use, which the code does not guard against.
* In the text processors: stress, phonetic features, the addendum (a second lexicon),
  reading their settings, and what a feature processor answers. In the token stream:
  seeking and the quote mode, which is not implemented; streams of files.
* `SVoiceReSynthUtt`, which runs the loop of `SynthUtt` for another type.
* The processors after these: the labels for HTS, durations, pitch, unit selection and
  waveforms compute numbers and strings from a finished graph, one item at a time, and
  most of the plug-ins' lines are those, many in several nearly equal copies. They
  are called by the loop of `SynthUtt` like the ones modelled.
* In the HRG: features but for `_id`, item paths, contents shared between
  utterances, and concurrent use of one utterance, which belongs to one thread.
* Deleting a voice that another thread is using: nothing in `SVoice` could prevent it.
* Copying maps, list maps, searching a list for a value, several iterators on a map, adding enough to a map during a
  walk to rebuild its table.
* The components with status `not_modelled` in `PROJECT.json`, each with its reason.

## 6. Plan

In this order, most consequential first; of the last step only what is named there as left
is not done.

1. `PluginManager`, against `PluginService`; proofs of types, readiness, mutex.
2. `HRG`, `HRGPointers`, against `HRGForest`; proofs of the structure.
3. `VoiceData`.
4. `MapHashTable`, against `MapService`.
5. `Engine`: start and stop, with the class registry and the objects made on it.
6. `List`, against `ListService`.
7. `TokenStream` and `UttBreak`.
8. `Synthesis`: the text processors on the token stream.
9. Proofs about `VoiceData`, `MapHashTable`, `Engine` and `List`, with the refinements of
   `MapService` and `ListService`, and about `Synthesis`.
10. Proofs: `RefExact` and `NothingLeft` of `PluginManager` and its refinement of
   `PluginService`, with the counting lemmas of `Counts`; `InOrder` of `UttBreak`; `Tiled`,
   `SpellsText` and `SilenceBetween` of `Synthesis`. Left: that each step of `HRG` is a step
   of the forest.
