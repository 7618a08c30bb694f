# A TLA+ specification of morfeusz-rs

morfeusz-rs is a morphological analyser and generator for Polish: a Rust core
library that reads binary dictionaries, the builder that writes them, and command
line tools, a JSON service, a C library with a C++ class and a Python module around
it.  This directory holds TLA+ modules of the parts of it in which state, sharing,
order or an encoding matters, configurations that model-check them with TLC, and
theorems about them that TLAPS checks.

Source locations below are relative to the repository.  `PROJECT.json` maps
every definition to the lines it models and lists the runs, the hazards and the
theorems.

## 1. Inventory of the system

| component | state | operations | hard behaviour | status |
|---|---|---|---|---|
| Word analysis on a shared lexicon (`adapters/binary/analyzer.rs` `process_one_word`, `cache.rs`) | word template cache and decode cache, each behind a mutex; a local decode list per call | analyse a word; get, insert, get_or_decode | threads between two locked sections; hash collisions; limits; i32 node numbers; a poisoned mutex | modelled, proved |
| Search for the paths of a word (`analyzer.rs` `word_paths`, `segmentation.rs`, `case.rs`, `interps.rs`) | the chunks on the way, the recursion's activations | search, split at separators, case filters | a recursion whose loops resume with shared state; splitting that must lose nothing and end | modelled, proved |
| Inflexion graph of a word (`adapters/binary/graph.rs`, end of `analyzer.rs`) | nodes, edges, only-weak flag | add paths, merge nodes, renumber | order of merges; weak and strong readings; termination | modelled, proved |
| Segmentation options (`adapters/binary/segmentation.rs`, `config.rs`) | none (functions of metadata and preset) | select, validate, cache key | two tests of option maps by counting; a key that must tell automata apart | modelled, proved |
| Handle, session, repository (`morfeusz.rs`, `engine.rs`, `repository.rs`, `lexicon.rs`) | engine, session (a copy of the engine and the next node), usage | 16 public operations | copies of configuration; clones that share caches; dictionary switches; failures in the middle of a text | partly modelled, proved |
| Tokenisation and whitespace (`engine.rs`) | the place in the text, the next node | both ways to analyse a text, in each whitespace mode | three competing rules that join what hyphens cut; spaces glued to the edges of a graph | modelled |
| Dictionaries in memory (`dictionary.rs`, `adapters/tsv.rs`) and identifiers (`id_resolver.rs`) | entries, lookup tables; texts and identifiers | load a tagset and lines; derive entries from hints; insert or overwrite an identifier | two tables that tell one story; blocks that hide lines; a second dictionary built from the first | modelled |
| Dictionary builder: automaton (`builder/src/simple_fsa.rs`) and its reader (`fsa.rs`) | states, register, previous word | add an entry, close, lay out, write, read | minimisation while words are added; states shared and never changed again; offsets that must fit | modelled |
| Dictionary builder: rules (`builder/src/segment_rules/`) and their reader | none between calls | expand, check, rewrite for a generator, determinise, lay out | a deterministic automaton for each combination of options; shifted segments; types numbered twice | partly modelled |
| Dictionary builder: lines (`builder/src/dictionary.rs`, `serialization.rs`) and interpretation groups (`interps.rs`, `generator.rs`) | none between calls | encode, group, deduplicate, pack; decode, look up | differences of forms that must be undone; fields that a byte computed of the group announces | partly modelled |
| JSON service (`service/src/main.rs`) | a runtime of one of two kinds | `build_runtime`; `handle_request`, one request per line | options applied one by one; a request that fails halfway; usage that narrows | modelled, proved |
| Command line (`cli/src/lib.rs`) | batch, pool, channel, writer | `process_stdin`, `process_stdin_parallel` | parallel work in input order; errors of lines, of input and of output; bounded channel | modelled, proved |
| Python module (`python/src/lib.rs`) | two layers of objects, borrowed at run time; the search path | analyse, analyse_many, setters, copies | analysis detached from the interpreter; workers; an interpreter without a lock | modelled |
| C library and C++ class (`capi/`) | the process's path and message, instances, the class's caches | the C ABI and the methods over it | messages read after the call that left them; a path filled in several locked steps; cached texts | modelled, proved |
| Character sets, case tables, value types | tables | conversions | two lower cases that differ | constants of `DictionaryForms` |
| Arguments and output formats | none | parse, print | | not modelled |

How they interact: the tools, the service and the bindings own `Morfeusz`
handles (or an `Engine` and its `Session`).  A handle's engine and its session's
engine share one lexicon through an `Arc`, and clones of a handle share it too;
the binary lexicon holds the two caches, which are the only mutable state that
several threads reach through the core.  `fork` makes a lexicon with caches of its
own.  The bindings add sharing of their own: Python threads may call one object at
a time or together, and C++ handles share the process's search path and message.
The builder and the readers meet in the bytes of a dictionary.

What makes each component correct (the properties are in its module):

* word analysis: an answer is a function of the word, the options and the first
  node, whatever the caches hold and other threads do; every call returns;
* paths and graph: the readings are exactly the segmentations the rules accept,
  parts of an unknown word lose no character, the graph has exactly the readings
  it was given, is minimal, and is built in finite time;
* options: accepted options always select an automaton, equal cache keys mean
  equal automata;
* handles: answers obey the options last set, handles that share a cache never
  answer for each other, a handle refuses only what it does not serve, and
  continuous numbering has no gap;
* texts: every path through an answer spells the text; with spaces skipped or kept,
  what stands between spaces and is known as a whole is found as a whole unless it is
  a number, and with spaces attached the same is said of single segments only, since
  segments are then never joined: a known word with a hyphen is not looked up there;
* dictionaries in memory: identifiers and texts agree, every reading comes from
  lines of the file, and every line outside a block is found;
* service: no failing request leaves options that were not asked for or that
  cannot be served;
* command line: the pipeline does what the single thread does as long as no line
  fails; output is in input order, a failure ends in an error status, memory is
  bounded, and the program exits;
* builder: the automaton recognises exactly the entries, is minimal, and the file
  says the same; rules compile to automata that read what they mean; a form is read
  back as it was entered, and generated as it was entered;
* Python: calls of threads that share a handle take effect one at a time, and
  return;
* C and C++: a cached text is the one of the handle's dictionary and character set,
  and a failure is thrown with its own message.

## 2. Modules

```
WordSearch            what a call asks and the answer it deserves (constants)
 |- WordAnalysis        abstract: an answer depends on the call alone
 |- WordTemplateCache   process_one_word with both caches, per locked section
     |- WordTemplateCacheProofs
WordPaths             from a word to its paths, part by part
 |- WordPathsProofs
InflexionGraph        the answer to one word from its paths
 |- MinimalityProofs    (with SimpleFsa)
SegmentationOptions   which automaton, which cache key
 |- MorfeuszHandles     handles, sessions, dictionaries, options, numbering
     |- MorfeuszHandlesProofs
 |- JsonService         runtimes, requests and what a failing one leaves
IdResolver            the tables of identifiers
 |- TsvDictionary       a dictionary in memory, loaded line by line
     |- TextAnalysis      how the engine cuts a text and numbers its answer
         |- TextAnalysisProofs
SimpleFsa             the minimal automaton, written and read back
 |- MinimalityProofs    (with InflexionGraph)
SegmentRules          rules to automata and back
DictionaryForms       lines to differences and back
 |- MorfeuszHandlesProofs (with MorfeuszHandles)
 |- DictionaryBuilder   the three composed: from sources to answers
StdinSerial           the single-threaded loop
 |- StdinParallel       batches, pool, channel, writer; implements StdinSerial
     |- FrontEndProofs    (with JsonService)
SharedHandle          abstract: calls on shared handles take effect at once
 |- PyBinding           borrows, attachment, workers; implements SharedHandle
     |- PyBindingProofs
CppHandles            the C API and the C++ class over it
 |- CppHandlesProofs
MC*                   instances for TLC
```

**WordSearch, WordAnalysis, WordTemplateCache.**  A call is a word, a
configuration and a first node.  The dictionary is the constant `Shape`: for a
word and configuration, the interpretation groups that the search visits, the
edges of the answer (between nodes relative to the first one) and the number of
nodes.  `WordTemplateCache` follows `process_one_word`: `get` (a locked section:
`GetMiss`, `GetHit`, `GetPoisoned`), then the visits of the search, each through
`get_or_decode` (local list, `VisitShared`, or `VisitMiss` followed by
`DecodeAndStore`, two locked sections with the decoding between them), then
`insert_if_admitted` (`Insert`).  A locked section is one action because no
other thread can see its middle.  Node numbers are i32 of `MaxNode`: they wrap
in a release build and panic in a build with overflow checks (`checks`), and a
panic inside `get` poisons the mutex.  Abstractions: the local list keeps
payloads as they were when visited (as the code keeps `Arc`s); parts of a word
split at separators are visits marked `fresh`, which start a new local list; a
forked lexicon has its own caches and is a separate instance of the module.

**WordPaths** models `word_paths`, `collect_segmented_analyzer_paths`,
`handle_ign_chunk` and what `process_one_word` does between them, for any
dictionary (a map from lowercased words to interpretation groups), separators
and rules automata.  A frame is one activation of the recursive search with the
place of its two loops, so the program's stack is a sequence of frames; the
shared `current_path`, pushed before and popped after each call, is the chunks
of the frame that is on top.  Case patterns are sets of places that want an
uppercase character.  Strict case handling is the set `kept` of the paths that
survive it.  The loop of `handle_ign_chunk` keeps its variables: `index`,
`run_start` and `pending` (`pending_non_sep`, with `None`), slices that end before
their second position as in the code, and `back`, the place where the call of
`process_one_word` for a slice returns to: `ExtendRun` is the loop's `else`,
`TakeRun` the taking of a pending run at a separator, `Separator` what follows it,
`LastRun` and `AllSplit` what comes after the loop.  What counts as a part
(`IsPart`) is a definition of the properties and of no action.  Positions are
characters where the code has bytes of UTF-8: `index + ch.len_utf8()` is the
position behind the character (`CharEnd`).  Left out: the caches and node numbers (`WordTemplateCache`), the
graph (`InflexionGraph`), and the decoding of lemmas.

**InflexionGraph** models `paths_to_morph_interpretations`: the strict-case
filter, the two shortcuts for one path and for one-edge paths, `add_path` with
weak and strong paths, minimisation merge by merge, renumbering and the final
loop.  Paths are constants, of which no path of one edge is listed twice:
`collect_segmented_analyzer_paths` finds none twice (`AnswersAsDeserved` of
`WordPaths`).  An edge's identity ignores its prefixes, as `edge_in` does; the chunks
of its arena group are kept with it.  Left out: the text of interpretations.

**SegmentationOptions** models selection of an automaton
(`variant_matches_preset`, the three-step search of `segmentation_fsa`),
`validate_segmentation_options` and `word_template_cache_key` for any metadata.

**MorfeuszHandles** models `Morfeusz`, `Session` and
`BinaryDictionaryRepository`: constructors, `set_*`, dictionary switches by name,
by path and to a dictionary in memory, clone, fork and drop, analysis word by
word, and synthesis.  Reading a word is one action (`WordTemplateCache` is its
detail): it may be answered from the lexicon's cache, where any subset of
earlier answers is kept.  Runs of spaces are one `Space`; charset and debug are
left out; the cache of a lexicon no open handle has is emptied, since it is gone.
`DefaultVariantAssumption` says a dictionary has a variant for its own default
options: the builder takes the first variant's options as the defaults
(`builder/src/segment_rules/config.rs:142`).

**JsonService** models `build_runtime` and every mode of `handle_request`.  A
runtime is an engine with its session or a `Morfeusz` handle; an engine has no
usage and is recorded as serving both.  A request runs to its end before the next
line is read, so it is one action with all it changes: the dictionary it names,
then its options in the order of `apply_options`, then the data it asks for
(`set_dictionary` asks for none, and the other modes name no dictionary).  What
differs between the two kinds is what a failure leaves: an engine takes its
options together or not at all and keeps its session when they change nothing, a
handle takes them one by one (`Taken` counts those before the first refused one)
and starts its numbering anew with each.  A text takes any number of nodes or
fails, and failure is always possible; `MorfeuszHandles` has the detail.  A line
that is no JSON request is a text to analyse, without options.  Left out: JSON
itself, the alternative spellings of option values and the fields of answers.

**IdResolver, TsvDictionary, TextAnalysis.**  `IdResolver` has the tables that
`set_tag` and `get_or_insert_*` change: texts by identifier, identifiers by text.
`TsvDictionary` follows the loader line by line (`TagsetLine`, `CopyrightLine`,
`MetadataLine`, `EntryLine`, `ShortLine` for a line that lacks fields) and then, if
the rules give hints that ask for it, builds the second dictionary: standalone and
prefixed entries relabelled, combinations, aliases under another case, each
inserted by one action in the code's order.  `TextAnalysis` is a session over such a
dictionary or over a binary one (`NativeWord` is its answer to a word): the
tokenizer, then one action per way to go on from a segment: a known join, an
unknown span around a hyphen, one segment (in-word graphs of agglutinates, Roman
and other numbers included), spaces skipped, kept or attached.

**SimpleFsa, SegmentRules, DictionaryForms, DictionaryBuilder.**  `SimpleFsa` models
`SortedSimpleFsaBuilder`, the layout and `serialize_simple_state`, and `SimpleFsa` of
the analyzer's `fsa.rs` that reads the result.  `add_entry` is `AddEntry`, then
`Follow` along the states the word shares with the previous one, `Diverge`, the
recursion `replace_or_register` as a stack (`Descend` to the end of the previous
word, `Register` on the way back), `Extend` and `Store`.  `Close` registers the last
word.  `Visit` and `Leave` are the depth-first visit whose reverse is the layout, and
`Write` makes the image, a sequence of bytes, each tagged with the field it belongs
to, so that a reader which comes to a wrong place finds the wrong field.
`SegmentRules` has rules as trees, their expansion and checks, the generator's
variant, the numbering of types that occur with and without `>`, the automata by
positions of a nondeterministic one and their subsets, the layout with its limit,
and the reader; `Meaning` says, independently of automata, which rows of segments a
rule allows.  `DictionaryForms` encodes a line for either target and decodes it:
prefix, ending and case pattern of a lemma or a form, the kinds of a group's fields,
homonyms, the analyzer's test of the word's case.  `DictionaryBuilder` composes them:
`ParseRules`, `ConvertLine` by line, `Group`, then `TakeEntry` and the automaton's
steps; `Analyses` and `Synthesise` read the finished dictionary.

**StdinSerial, StdinParallel** model `process_stdin` and
`process_stdin_parallel`.  The pool's threads take the lines of a batch in any
order and, once one line has failed, begin no other; the ordered collect puts
blocks in the place of their lines; the channel is bounded; the writer may fail
at any write.  `ImplementsSerial` is `StdinSerial` with the pipeline's output.  It
speaks of inputs whose lines all succeed: after a line that fails, the serial loop
has written all lines before it, while the parallel one loses those of its batch
(`collect::<Result<_>>`, `cli/src/lib.rs:545`) and ends with a newline all the same.
`OutputInOrder` says what holds then.

**SharedHandle, PyBinding.**  `SharedHandle` promises that a call of a thread reads or
changes a handle at one moment.  `PyBinding` has the steps between which other
threads run: `Enter` borrows the outer object, `ReadNumbering`, `Detach`, `Run` (the
analysis, without the lock), `Attach` again, `Number`, `Resolve`, `Build`; the shared
engine, the workers (`Work`) and the join of `analyse_many`; `Take` and `Apply` of a
setter; copies and the search path.  A borrow that another excludes ends the call
with an error.  In the free-threaded build every thread is attached and steps
interleave freely; `SharedHandle` allows calls that met there (`met`) to lose their
answer or have it numbered or tagged by what another call left.

**CppHandles** has C++ handles with the resolver's cache over C instances, each with
its message.  Getting a text, a request, a character set, a clone and the plain C
functions are one action each: they touch what one thread owns or what one lock
guards.  A method that loads a dictionary takes the steps of `prepare` one by one
(`Clear`, `Push` for each directory, `Load`), then makes the instance or fails and
reads the message (`Throw`); two threads may be between them.  `overlapped` records
which calls loaded while another did.

## 3. Runs

| run | question | bounds and why they are enough |
|---|---|---|
| `word_cache` | do two caches between threads and dictionary ever show? | 2 threads, words that collide in hash, a short and a decoding-failure case, `MaxNode = 3` so that numbers wrap, cache limits of 1 and 2 so that both are reached |
| `word_paths` | are a word's readings exactly the segmentations the rules accept, and does the loop over an unknown word lose, repeat or glue nothing? | all words of 1 to 4 characters over a letter, another, a capital and a separator, so that three chunks, two separators in a row and a separator inside an entry occur; three automata (chains, alternatives with a repeated transition, none); three case modes; a pattern that reaches past its text |
| `inflexion_graph` | is the answer the minimal graph of the readings? | all sequences of up to 3 paths out of twelve that share prefixes and suffixes, weak and strong, in every order |
| `shared_options` | may handles that share a cache answer for each other? | 2 handles, 2 caches, 2 dictionaries with different defaults; symmetry over handles and caches (only safety properties, and no handle or cache is named) |
| `one_handle` | do options, usage and numbering stay true through any sequence of calls? | 1 handle, 4 files of which one is unreadable, every operation, two-word texts, numbering up to `NodeLimit` |
| `memory_text` | does a dictionary in memory say what its files say, and does an answer spell its text and hold what the dictionary knows as a whole? | a dictionary of plain lines, one with a tagset that repeats identifiers and with compounds, one with every hint, and malformed ones; every text of up to 4 characters over four, and up to 3 over six, with those numbers, agglutinates and nested hyphens need; two texts in a row so that numbering continues; every whitespace mode, and a binary dictionary that divides words |
| `builder` | do rules, forms and automaton come back as they went in? | entries given directly: all words of up to 3 letters over two labels and one over a third, in every sequence of up to 4 and unsorted ones, so that prefixes, suffixes and subtrees are shared; `TransitionsLimit` 3 and `OffsetLimit` 200, so that refusals and successes occur.  Rules: 19 sets with every quantity, shift, ifdef and each reason for refusal, 3 segment types, rows of up to `WordBound` 4 segments, `RulesLimit` 60 so that one set is too large.  Lines: every pair of 21, over 8 letters with capitals and one whose lower case is two letters; homonyms, prefixes, empty lemmas, unknown tags |
| `json_service` | do options stay those asked for and servable, and does numbering go on, through requests that fail in the middle? | 5 files of which one is unreadable, with variants that differ in defaults and in which pairs exist; a pair that loads and one that does not; options refused at the first, a middle and the last place; numbering up to `NodeLimit` |
| `service_named_pair` | violation: see the finding | the same instance |
| `parallel` | does the pipeline do what the single thread does, and what holds when lines fail? | up to nine good lines (batches of two, a full channel, a batch held back, a short last one) and all inputs of up to five good, refused and unreadable lines; 2 workers; writes that may fail at any point |
| `python` | do calls of two threads take effect one at a time? | 2 threads, one shared object, two dictionaries of which one cannot analyse one text, both interpreters, every method |
| `cpp_handles` | are cached texts and messages those they should be? | a thread that does everything with one handle and one that creates and destroys another, two dictionaries of one name in two directories, a name of none |

The finding: once a service has been given a dictionary file by path, its usage is
that file's alone, and `set_dictionary` by name then loads the pair with that narrowed
usage (`morfeusz-rs/src/morfeusz.rs:273` through `service/src/main.rs:271`).  The
request answers ok, yet analysis or synthesis, whichever the file did not serve, is
refused from then on and no request brings it back, while the test of this request
(`service/src/main.rs:743`) has both succeed.  `service_named_pair` is the
counterexample.

Modelling the builder showed places where it and the readers differ.  No run states
them; the properties of `builder` say exactly what holds beside them:

* when a form begins with a prefix that its lemma lacks, the case pattern of the
  lemma counts from the lemma's root and the decoder applies it from the beginning
  of the form (`builder/src/dictionary.rs:718`, `case.rs:336`), so the lemma may come
  back in another case (`SameLemma`);
* keys are in the standard library's lower case, which may lengthen a word; the
  reader lowers character by character (`case.rs:78`), so such a form is not found
  (`Plain`);
* two forms of a lexeme that differ only in what stands before the stem are one
  entry to the generator's deduplication (`Shadowed`);
* a lemma that begins or ends with a colon cannot be asked for by its own name, and
  the generator looks up a segment type with the homonym split off, the analyzer with
  it (`TypeOf`, `SegmentType`);
* for `x> (y z)` the rules added for the generator accept `x> z`, which the analyzer
  never reads, and not `z` alone (`ReadsWhatCanBeMade`);
* the check of rules lets through some whose words end in a shifted segment, as
  `c a> b?` (`RefusedForReason`);
* a value that two options share belongs to the later one (`config.rs:328`), so the
  earlier one may count as missing.

**Fairness.**  `WordTemplateCache` has weak fairness on each thread's steps:
its locks are held for one finite section, so no thread waits forever, and a
step once possible stays possible or is replaced by another of the same thread.
Nothing makes a thread call.  `StdinParallel` has weak fairness on the computing
thread, the writer and each worker: operating system threads are scheduled.  A
failing write has no fairness.  In `PyBinding` a call in progress goes on (weak
fairness), and a thread that waits for the interpreter's lock gets it in the end
although others take it in turn (strong fairness of `Attach`): the interpreter makes
its holder give way to those that wait.  `InflexionGraph` and `WordPaths` are
sequential and have weak fairness on their next step.  The other modules state safety
only, and have no fairness: nothing obliges a caller to call.

## 4. Theorems

Proved by TLAPS for all values of the constants that satisfy the named assumptions of
`WordSearch`, `WordTemplateCache`, `SegmentationOptions`, `MorfeuszHandles`,
`JsonService`, `WordPaths`, `StdinParallel`, `CppHandles`, `SimpleFsa` (labels are
numbers, and payloads take at least a byte: those of a dictionary begin with a type and
a length), `InflexionGraph` (a path covers the word chunk by chunk, none of one edge is
listed twice, and `GRAPH_END` is beyond every node), `PyBinding` (marks are not the
values they stand in for), `IdResolver` (labels of one set have one order) and
`TsvDictionary` (tags of a tagset are not blank, since its lines are cut at spaces, and
its identifiers are not negative; a word lowercased twice is the word lowercased once):

* `TypeCorrect`, `CoherentTemplates`, `CachesWithinLimits`, `CachesInvisible`
  (`WordTemplateCacheProofs`).  The inductive invariant is `IInv`.  `TypeOK` and
  the coherence of templates are not inductive alone: a template is only as good
  as the answer it was made from, which is as good as what the visits supplied,
  which came from the decode cache or from a local list.  So `SuppliedInv` says
  that everything in the decode cache, in local lists and among what visits
  supplied is the decoding of its group; `CallsInv` ties program counters to
  requests and answers; and `TemplatesStem` says that each template is
  `TemplateOf` the answer of a call that could be stored.  From `TemplatesStem`,
  a lemma on wrapped sums gives coherence: subtracting the first node a template
  was stored from and adding another one equals the search from the latter.
  `CachesWithinLimits` adds `CountInv`, that the entry counter is the number of
  stored templates over all buckets (a thread looks again under the lock before
  it stores, so a word two threads missed together is stored once), and
  `GroupsInv`, that the decode cache is finite and never above `MaxGroups`.
  `CachesInvisible` maps each step to a step of `WordAnalysis` or a stutter.
* `KeysTellVariants`, `ValidOptionsSelect` (`MorfeuszHandlesProofs`): the
  cache key tells automata apart for every dictionary, which is what
  `WordTemplateCacheAssumption` asks of keys, and options accepted by a setter
  always have an automaton.
* `HandlesTypeCorrect`, `OptionsObeyed`, `SharedTemplatesTrue`,
  `AlwaysSelectable`, `UsageAlwaysServed`, `ReportedObeyed`
  (`MorfeuszHandlesProofs`), from the inductive invariant `IInv`.  None of these
  is inductive alone: an answer may come from a template another handle stored,
  so the invariant says that a session's engine is its handle's
  (`HandlesSound`), that handles with one cache read the same analyzer
  (`CachesShared`), and that each template was made under some choice of options
  that has its key (`TemplatesStem`); `KeysTellVariants` then turns an equal key
  into an equal automaton.  `AlwaysSelectable` also rests on `HandlesSound`: a
  dictionary switch resets aggl and praet, and a default selects by
  `DefaultVariantAssumption`.
* `NumberingFollowsOn`, from `NumberedInv`: where a call stands between the last
  word read and the next one (`Numbered`), for which the runs of white space in a
  text must be maximal (`SingleSpaces`), and that the session's next node is the
  one the property's history variable `expected` computes.

* `ServiceTypeCorrect`, `OptionsServed`, `OptionsTakenAsAsked`, `NumberingKept`
  (`FrontEndProofs`).  The inductive invariant `ServiceInv` adds to the properties
  `Followed`, which ties the node a client expects to the session's next node.
  `OptionsServed` is about requests that stop anywhere: each option is validated
  together with those before it, and as the last of aggl and praet to be taken was
  valid with the other one as it then stood, any number of options taken leaves
  a selectable pair; a switch of dictionaries falls back to defaults, which
  `DefaultVariantAssumption` says are selectable.

* `PathsTypeCorrect`, `OnlySegmentations`, `AllSegmentations`,
  `OnlyUnknownGivenUp`, `NothingLost`, `SplitsAtSeparators`, `AnswersAsDeserved`
  (`WordPathsProofs`).
  Soundness rests on `SearchInv`: every activation, not only the top one, has
  come to its state by a run of the rules along its chunks.  Completeness rests
  on `CompleteInv`: a segmentation is among the paths found or still ahead of
  some activation, which shares its first chunks and its run and whose loops
  have not passed its next chunk; when no activation is left, only the paths
  remain.  That of the transitions of one type only the last is followed
  (`find_transition` reads them backwards) is what makes the run of an
  activation the segmentation's own.  That nothing is lost rests on `PartsInv`, which
  ties the parts answered to the loop of `handle_ign_chunk`: `LoopInv` says that
  `run_start` is behind a separator, that there is none from it to `index`, and that
  just this run is pending unless it is empty or was taken; `SliceInv` says of each
  place a slice's answer returns to which slice it is, and that it begins where the
  parts answered end.  What `IsPart` asks of a part, a single separator or a run as
  long as can be, is concluded from these.
  `AnswersAsDeserved` is about the list of paths and not its set alone: the paths
  come in the order of the search and none comes twice, because what an activation
  still has ahead lies behind every path found so far.

* `PipelineTypeCorrect`, `MemoryStaysBounded`, `OutputAlwaysInOrder`,
  `ShowsOnlySerialSteps` (`FrontEndProofs`), for any input, pool, length of a
  batch and capacity.  The last one is the safety of `ImplementsSerial`.  The
  invariant follows the lines through the pipeline: what is written, what the
  writer has taken, each batch of the channel and the batch at work are rows of
  line numbers, each of which begins where the one before it ends (`WriterInv`,
  `ChannelInv`, `BatchInv`).  A batch is such a row only when its collect is over,
  which `PoolInv` says of batches without a failed line: each of its lines is to be
  taken, is at a worker, or has its block in its place.  `EndInv` ties the exit
  status to what failed, so that a success means that nothing was left behind.

* `CppTypeCorrect`, `CachedTextsAlwaysTrue`, `OutcomesAlwaysDeserved`
  (`CppHandlesProofs`), for any number of threads and handles.  `OwnerInv` says that
  a handle has one call at a time and that the handle whose dictionary is being set
  stays open.  `LoadInv` says of a call that met no other that it is the only one
  loading and that the path pushed and the directories to come make up the C++ list
  (`AloneInv`), from which its dictionary is the one the list promises, and its
  message, left in the process by one step and read by another, its own.  A text
  served from the cache is the one deserved because cached texts are true.

* `Invariant`, `SharesAsPromised` (`PyBindingProofs`), for any number of threads and
  handles. The second is the safety of `ImplementsSharedHandle`: each step of a thread
  is a step of `SharedHandle` or a stutter. `IInv` adds to the type that a handle is
  borrowed exclusively by one call or shared by several and never both (`BorrowsInv`),
  that a lock lets one thread be attached at a time and that without the lock two calls
  on one handle know that they have met (`TogetherInv`), what a call holds at each
  place of its method, and that what a call has read of its handle is what the handle
  still is unless it has met another (`Sound`): this is why its effect can be said to
  take place at one moment between its beginning and its return.

* `Invariant`, `IdentifiersSound`, `ReadingsHaveLines`, `LinesAreFound`
  (`TextAnalysisProofs`), for every tagset, every sequence of lines and every text.
  The identifiers of a dictionary are kept in two halves, from text to identifier and
  back, and each identifier set or made must keep them inverse to each other; with a
  tagset this holds only as long as the blank text has no identifier of its own
  before the loader gives it one.  `ReadingsInv` says of every entry, whether it can be
  looked up already or waits until all lines are read (`Wanted`), that it comes from a
  line which no hint hides, and that relabelling its names keeps their sets of labels.
  `LinesInv` says that each line behind the loader is found (`LineFound`), which holds
  on since the tables only grow (`Grows`).

* `SessionInvariant`, `TextsSpelled`, `RunsAreFound` (`TextAnalysisProofs`), for every
  text in every mode.  `TextSpelled` is about whole paths, of which no step knows.  The
  invariant (`SInv`) says of the answer so far that its nodes can be put at places of
  the text the loops have gone past (`Covered`), the first node at its beginning and
  the last at its end, so that each edge leads forward and says what is between the
  places of its nodes (`SpelledBy`).  Two such answers that meet at a node are one,
  for one text after the other; so it remains to be shown what each step adds: one
  edge for a token, the graph of the known slices of a token (a slice leads from the
  place it begins at to that where it ends), and the answer of a binary dictionary,
  moved and with spaces on its first and last edges.  `PathsSpell` then follows the
  paths from the last node back.  That there is a path is kept as the fact that
  whatever set has the first node and is closed under edges has the last
  (`Reaching`); the graph of known slices may have gaps, which is why `TextSpelled`
  excepts agglutinates.  What is covered depends on the mode, and attached spaces go
  with the word before them: `AtWords` says that the loop then comes to words only.
  `KnownRunsFound` (numbers excepted, which are read as such) compares, where spaces
  are skipped or kept, two ways to cut a text.  Tokens are cut wherever runs are
  (`TextsCut`), so each run of a text is the segments from one that starts a run to
  its end (`RunIsJoin`); of a run that is known as a whole the longest known join is
  the whole, and neither a hyphenated span nor a single segment gets there first.
  Where spaces are attached nothing is joined, and only single segments are spoken of:
  each is read on its own or with the spaces around it, which `Unspaced` takes off.
  Assumed are that no character of words is a space (`TextsAssumption`) and that a
  binary dictionary's answer for a word spells it and has a path
  (`NativeWordAssumption`), as the inflexion graph of a word does; what the latter
  contains is the subject of `WordPaths` and `InflexionGraph`.

* `Invariant`, `AlwaysRecognises`, `NeverMissing`, `AlwaysMinimal`, `AlwaysReadsBack`
  (`MinimalityProofs`), for any labels, words and payloads and any number of entries.
  The words the automaton recognises are those that have a path to their value (`Finds`,
  which `ValuesFound` says is what the recursion of `Values` computes). The invariant
  has the previous word's states on a path from the initial state, the `Spine`: they are
  distinct, none is in the register, and every transition that is not the spine's leads
  to a registered state (`EdgesInv`). So no word but the spine's leads to its end, and
  data stored there add one word; redirecting a transition to a registered state with
  the same record changes no path's end. What leaves the spine has lower labels
  (`OrderInv`), because words come in order; hence a word that leaves the previous one
  does so above it, and a state that gets data has none yet. Each of these facts is
  about a path before and after a step, which are mapped to each other place by place:
  no induction on words is needed. The specification `FsaSpec` lets any words come with
  any payloads of a byte or more; each step of `DictionaryBuilder`, of which TLC checks
  the same properties, is one of its steps (`ParseRules`, `ConvertLine` and `Group` are
  `Prepare`) or leaves `fsa` unchanged. `AlwaysMinimal` adds `MinimalInv`. A state is
  registered after the states it leads to, so registered states have ranks that fall
  along transitions (`RegisterInv`). From each of them some word is found, because it
  has data or leads on: the previous word is found behind what is being registered. No
  two of them have one record; so of two from which the same words were found, with the
  first of the least rank, the labels and the data would be the same, and some label
  would lead to two such states of which the first has a lower rank (`Distinguished`).
  What is laid out is registered, stands in the order once, and some word leads there
  (`LayoutInv`), so a word found from it is the end of an entry, as `Minimal` says.
  `AlwaysReadsBack` adds `WrittenInv`: entries and labels are finite, and every
  transition of a state in the order leads into the order or onto the stack of the visit
  (`ClosingInv`), so that at its end the order is closed and the initial state is its
  last. Sizes and offsets are sums that run along the order (`OffsetsAre`,
  `FlattenPlaced`): each state's bytes stand at its offset. The labels of a state are
  laid out by rank, which is a bijection because `ComesBefore` is a total order
  (`RankOnto`, `SortedIs`), so each transition is written once. `Described` says of the
  image what a reader needs: the header at each state's offset, the value after it, and
  behind them each label with its target's offset, which `Fits` keeps below
  `OffsetLimit`. Then the offsets the reader reaches along a word are those of the
  states the word leads to in the automaton (`ReadAsBuilt`), and of these
  `AlwaysRecognises` says what is found.

* `AnswerAlwaysMinimal`, `ReadingsAlwaysKept` (`MinimalityProofs`), for words of any
  length with any number of paths. The invariant `GraphInv` says what the graph is at
  each stage. While paths are added it is a graph of the spans of the paths kept among
  them (`Built`, `IsGraphOf`): each edge leads from a node that starts where its text
  does to one that starts where its text ends, the edges of a node differ, and each span
  kept has an edge. `do_merge_nodes` keeps this although it searches only the nodes
  before the one that goes: edges lead forward but to nodes before the first that can
  still be merged (`Settled`), since merges are tried from the first node on.
  `possible_paths` is always empty (`NothingPossible`), so any two nodes of one position
  can be merged, and at the end no two nodes share one (`StartsDiffer`). The number
  `sort_nodes_topologically` gives to a node is then the number of positions before its
  own (`NumbersAre`), which depends on the spans alone. `ReadingsAlwaysKept` is about
  whole readings: a merge carries each edge to one of the same span between the nodes
  that are left (`Carries`), so it carries readings (`ReadingsCarried`, by a node of the
  last position at which one would be lost); that there are readings of a graph at all,
  `Readings` being recursive, follows from the least function closed under its equation.

* `LemmasRead`, `FormsMade`, `AnalyzerLinesRead`, `GeneratorLinesMade` (at the end of
  `MorfeuszHandlesProofs`), for all words and any number of lines of one key, which is
  what `WordsReadBack` and `FormsGenerated` rest on below the automata. A form is what
  it shares with its lemma letter by letter (`Encodes`), whatever length of prefix the
  builder kept: that `KeptLength` is one of those tried goes by a least counterexample,
  and nothing else of it is used. The analyzer's own table is undone for letters of
  which the two lower cases are the same (`Plain`), and its positions of upper case,
  which it counts from the start of the form, are right if no prefix is cut or no kept
  letter is in upper case; `SaysLine` says no more. Up to three fields of an
  interpretation are optional, and the reader finds the others between and behind them
  (`AnalyzerItemIs`) by the byte that the builder wrote; a value left out is the one
  value all have (`CaseReadBack`, `PrefixReadBack`). `Dedup` keeps the first of each
  sort key (`DedupKeeps`): an analyzer's key tells all but labels apart; a generator's
  leaves the prefix out too, so of two forms of one lexeme that differ only in front one
  is made. Assumed is that the upper case of a letter, where it is one letter, is its
  own upper case (`DictionaryFormsAssumption`), as in the tables of Unicode; that fields
  fit in their bytes is not part of the model (see 5).

Only model-checked: liveness (`CallsReturn`, `Answered`, `Exits`, `Returns`; tlapm has
no proof rules for fairness here), and of the builder the rules' automata
(`RulesObeyed`) and whole dictionaries read back and generated from (`WordsReadBack`,
`FormsGenerated`), of which the entries and the automaton are proved apart.
These use folds over sets and sequences and recursion over trees, about which the
library's theorems take operators as parameters (what is proved of recursive functions
here goes by a least counterexample).

## 5. Not modelled

* Arguments and output formats of the tools, JSON syntax, the expansion of tags:
  conversions of text without state that outlives a line.
* The text of segmentation rules, of `#define` and of tag patterns, the fields of
  lines, dictionary metadata, the tables of tags and names in a file: parsing.  Rules,
  patterns and lines enter as trees and records.
* Automata of variable length (only the original tool writes them), transition data,
  the prologue of a file, the errors of damaged files.
* UTF-8: a letter is one label of the automaton, which in the file is one to four
  bytes.  Cuts, tags, names and groups beyond 255 or 65535.
* The order of labels in the layout of rules, the separators list, the list of
  patterns of a form's case that the reader skips when none is asked for.
* `ResultsIterator`, the lookup of a tag by identifier in `generate_by_tag_id`,
  `debug` and the character set of a handle (`CppHandles` has the latter where it
  changes an answer).
* Names and labels in `TextAnalysis`; the aliases of entries that the hints drop and
  the metadata that a second dictionary loses; negative identifiers in a tagset.
* The lifetime of C strings and getters without effect.

## 6. Plan

* Transitions of variable length, should a builder for them appear.
* `RulesObeyed` for rules of any depth, should the provers take induction on trees.
