# A TLA+ verification of the XTAG head-corner parser

This directory holds a formal model of the lexicalised tree-adjoining-grammar
parser under `src/src` (XTAG "lem" 0.14.0): TLA+ modules translated from its
source, TLC configurations that check them on small instances, and proofs for
TLAPS that hold for every grammar, sentence, matrix, array and heap.

- [Inventory](#inventory): the system's parts, their state and hard behaviours
- [Modules](#modules): which module models what, and how it corresponds to the code
- [Runs](#runs): what TLC checks, the bounds, the fairness
- [Disagreements](#disagreements-between-code-and-documentation)
- [Proofs](#proofs): what is proved, from what, and how
- [Not modelled](#not-modelled) and [Plan](#plan)

`tlc -config X.cfg M` and `tlapm M.tla` reproduce everything; the table of runs
gives the pairs.

## Inventory

The program turns a sentence into a forest of derivations. A **sentence** is
read and tokenised (`sent.c`), its words are looked up (`syn_*.c`) and the
grammar is lexicalised (`lex*.c`): each word brings the trees it anchors. The
**chart parser** (`hparse*.c`) closes a chart of states under its handlers.
The **forest** is printed from the back pointers of the chart and read by a
feature checker, by Perl scripts and, through a Java **server**, by a browser.

| Component | State | Operations | Hard behaviours |
|---|---|---|---|
| Chart parser: `hparse.c`, `hparse_add.c`, `hparse_state.c`, `hparse_backptr.c`, `hparse_utils.c` | all states allocated; the chart, a sparse matrix of heaps by span; two lists | `hparse` and its handlers `hparse_init_head`, `hparse_move_up`, `hparse_completer`; `hparse_add` | order of discovery; goals looked for before or after the items that satisfy them; states changed in place while in heaps and lists; subsumption between different goals; termination |
| Grammar tables and headcorners: `hparse_hand.c`, `gram_treeinfo.c`, `gram_trees.c`, `lex_active.c` | node and tree tables, `ht_hc_tbl`, lists of roots by label | computing headcorners; the life of a `hand_t` from sentence to sentence | which leaf becomes the headcorner decides whether a tree is ever started |
| Sparse matrix: `spar.c` | columns' starts, rows, values | `spar_put`, `spar_get`, `spar_expand` | puts in any order shift later entries; growth in the middle of a put |
| Heap and arrays of the chart: `heap.c`, `ia.c` | linked blocs and an index; a heap in such an array | insert, extract; put, append, exchange, shrink, reset | growth by one bloc where an index may need several; entries left behind a reset; a key changed while its element is in the heap |
| Hash tables, associations and lists: `hash.c`, `nl-stringassoc.h`, `nl-list.h` | buckets; a sorted table of pointers; circles of objects | enter, look up, add, copy | names that share a bucket; the place where a binary search ends; an object in two circles |
| Binarisation: `bin.c` | the binary table, filled while it is read | `bin_newnodes`, `bin_binarize` | nodes moved before or after the loop has passed them; powers and logarithms truncated to integers |
| Lexicalisation: `lex.c`, `lex_active.c`, `sent.c`, `postag.c` | word × tree table, trees without words | `lex_new`, lookup, merging of entries, multiple anchors | trees with several anchors; unsigned counts; a static cursor in `sent_index` |
| Lexical pruning: `lex_prune.c` | the same table | passes that prune leaves and trees | pruning one tree removes what others depended on |
| Sentence loop: `parser.c`, `main.c`, `hand_next_sent` | the handle of the parser | next sentence, parse, print, free | a sentence that fails, empty lines, the end of the input |
| Derivation forest: `hparse_deriv.c`, `hparse_word.c` | marks on states | choice of the start states, printing, N best | a circular or dangling back pointer |
| Syntactic lexicon: `syn_*.c` | Berkeley DB or hash table | lookup, pruning of entries, `syn_get` | words without entries; empty elements |
| Grammar files: `gram*.c`, `grammar/` | tables loaded once | ten readers, each on the tables of those before it; `gram_delete` | files that disagree; a table freed twice or never |
| Preferences: `pref.c` | a record | reading | none |
| Statistics: `prob*.c` (only with `USE_PROB`) | counts | scores | floating point |
| Memory, errors, environment, corpus | – | wrappers of the C library | – |
| Server: `server/*.java` | vector of connections, per connection a preferences file and a pipeline of processes | accept, configure, parse, reconfigure | threads that write to one stream; processes left behind; a reader that waits for ever; file names that collide |
| Browser client: `browser/Client.java`, `InputReaderThread.java` | a socket | open, send and receive, close | replies that come late, twice or with error output in them |
| Tree browser: other `browser/*.java` | – | display | – |
| Feature checker: `featchecker/*.cpp` | feature structures | unification over a derivation | order of unification, shared structures |
| Derivation tools: `derivations/*.pl` | the printed forest | counting, selecting, pruning | shared and circular parts of the forest |
| Batch drivers, dictionary, treebank, grammar builders, Python scripts | – | one pass over text | – |

What makes each of them correct:

- *Chart parser*: it finds exactly the analyses that the grammar's deduction
  system derives, records every step of every one of them, stops, and keeps the
  facts on which the code silently relies – the subsumption test of
  `hpstate_add_eq` compares the spans of two goals and not the goals, the
  completer trusts the back pointer of a prediction to name a head beside it,
  the printing trusts all pointers to lead to finished items.
- *Sparse matrix, arrays, heap, tables, lists*: they behave as a matrix, an array, a
  priority queue, a map and a sequence, whatever the order of the calls.
- *Headcorners*: every subtree has one, shared along one path only.
- *Binarisation*: the binary tree has the same leaves in the same order, and as
  many nodes as were numbered.
- *Grammar files*: what the tables say is what the files say, and everything is
  freed once.
- *Lexicalisation and pruning*: no entry is lost or invented; what is pruned is in
  no analysis.
- *Feature checker*: unification with marks and shared nodes computes what the
  logic of features defines, and exactly the derivations that unify are written.
- *Sentence loop*: every sentence of the input gets one output.
- *Server and client*: each request gets its own reply and nothing else; a
  connection ends when its client does.

`PROJECT.json` lists the hazards behind these at their lines, with the
properties that would notice.

## Modules

| Module | What it is |
|---|---|
| *Chart parser* | |
| `Grammar` | `Hand(g)`: the tables of `hand_t`, headcorners among them, from the trees of a small grammar |
| `HParse` | the chart parser: one action per handler |
| `TagDeduction` | abstract specification: a deductive system for tree-adjoining grammars |
| `HParseProps` | the invariants of `HParse`, and `HParse` as an implementation of `TagDeduction` |
| `HParseComplete` | the least fixed point of `TagDeduction`, and completeness against it (recursive, for TLC only) |
| `MCHParse` | the grammars that TLC parses with |
| `HParse_proofs`, `Chart_proofs`, `Deduction_proofs`, `Closure_proofs` | proofs about `HParseProps`: nodes, spans and goals; the lists and the chart; the back pointers and the refinement; the closure of the chart |
| *Containers* | |
| `Null` | the null pointer |
| `Spar`, `Matrix` | the sparse matrix; abstract specification: a matrix |
| `Ia`, `Array` | the infinite arrays; abstract specification: an array |
| `Heap`, `PriorityQueue` | the binary heap; abstract specification: a priority queue |
| `Hash` | hash tables of the parser and sorted tables of the feature checker |
| `CircList` | the circular lists of the feature checker |
| `MCContainers` | small instances, one container in each behaviour |
| `Spar_proofs`, `Storage_proofs` | proofs about the matrix, and about the arrays and the heap |
| *Grammar* | |
| `TreeTables` | `grammar_t`: what is asked of its tables and computed from them |
| `GrammarFiles` | the readers of the grammar's files, and `gram_delete` |
| `BinTables` | binarisation, and the tables that `hand_new` computes |
| `GrammarTrees` | reference definition: trees as mathematical objects, and the `Grammar` they stand for |
| `MCGrammar` | trees in every numbering, faulty files |
| *Sentence* | |
| `LexPrune` | the first pass over the lexicalised trees |
| `Lexicon` | from a sentence to its active trees; composes `LexPrune` |
| `Sentences` | the loop over the input; composes `Lexicon` |
| `MCLexPrune`, `MCLexicon` | tables to prune; grammars, entries and inputs; the readings that are asked for |
| `LexPrune_proofs` | proofs about `LexPrune` |
| *Feature checker* | |
| `FeatureNode` | the graphs and every algorithm on them |
| `FeatureLogic` | reference definition: feature structures without pointers |
| `FeatStruct` | structures read, combined, compared and printed |
| `FeatForest` | the forest is read, expanded by features and written |
| `MCFeatures` | equations, and the forests of small sentences |
| *Server* | |
| `ParserServer` | the server's connections, their processes, and the clients |
| `MCParserServer` | the loads that TLC checks the server with |
| `ParserServer_proofs` | proofs about `ParserServer` |

The modules of one group share a run. They meet where the programs do: `BinTables`
ends with the tables that `HParse` begins with, and `GrammarTrees` computes the
`Grammar` whose `Hand` they are compared to; `Sentences` hands a lexicalised
sentence to a parser that is one action there and `HParse` in its own run;
`FeatForest` reads the forest that the parser prints; the server's processes are
these programs.

### The chart parser

`HParse` has a constant `Hands`, the set of the lexicalised grammars it may be
run on; `HandsAssumption` says that the tables are those of binary branching
trees with headcorners, and `EpsilonAssumption` (in `HParseProps`) that an empty leaf
is the headcorner only of a subtree whose leaves are all empty, which is the last
preference of `cmp_headcorner`; `ChildrenAssumption` says that a node has one child, or a
left and a right one. `MCHParse` gives it values computed by `Grammar!Hand`,
and TLC checks the assumptions on them. `Grammar` models `hand_new`'s tables
(`hparse_hand.c`, `gram_treeinfo.c`): in particular the preference order of the
kinds of leaves (`cmp`, `hparse_hand.c:523-530`, whose comment on the sign of
the result is the wrong way round; the code is followed).

| Variable | Code |
|---|---|
| `hand` | `hand_t`: tables and preferences |
| `states` | every `hpstate_t`; its number stands for the pointer, 0 for the null pointer |
| `chart` | `hand->chart`, a heap of states for each span. `Spar` shows that the matrix behaves as the function used here |
| `plist`, `idx`, `nlist` | the two lists of `hparse()` and the place in the first |
| `stage` | which of the three handlers comes next; `done`; `abort` for `err_abort` |
| `todo` | the calls of `hparse_add` that the running handler still makes, each with its place in the handler's loops |

A handler computes its calls from the chart as it finds it and `Add` performs
them in the order of the handler's loops. This is faithful since no handler
looks in the chart for a state that it has added itself in the same call: what
it adds has another node, another position or another type than what it looks
for. Where the order matters (which of two equal states is kept, which back
pointer comes first) it is kept.

State changes in place are part of the actions: a prediction becomes a goal in
`InitHead`, a substitution node its own goal (`s->g = s`, `hparse.c:411-412`),
a merge appends back pointers. A heap is a sequence; `HeapInsert` is the sift-up
of `heap_insert` on the types the states have at that moment: the new state goes to
the place on `HeapPath` (from the last place to the first, by halves) where the rise
stops, and what it passes moves down along the path.

`TagDeduction` has no goals, no agenda, no headcorners and no heaps: the facts
that follow from the grammar, one at a time and in any order. The refinement
mapping takes the items of the chart, without their goals and pointers, as the
facts (`HParseProps!Proven`).

Things in the code that are easily missed and that the model keeps:

- Without `allow_eps_adjoin`, nothing is adjoined within a subtree whose
  headcorner is empty (`pref_defn.h:125-127`).
- `hparse.c:354-355` says that only a span's own start and end are predicted;
  the loops that follow (`hparse.c:359`) do as the model does.
- A sibling whose headcorner is empty is asked for up to one place beyond the
  last word (`hparse.c:713-714`), which works because `invalid_indices` of
  `spar.c` compares with `>`. It would let column `c` through as well, which no
  caller asks for.
- An unlexicalised anchor hides a word that anchors the same node in the same
  prediction (`hparse_init_head` tries the empty anchor first).
- A predicted substitution node no longer equals a later prediction of the same
  node once it is its own goal, and the later one is stored again; this is the
  exception in `NothingSubsumed`.

### The containers

`Spar` keeps `col`, `row` and `value` as the code does. `spar_put` is the
disjunction of its three branches: the cell is there (`Replace`), the place after
the column is free (`PutAtEnd`), or it belongs to a later column (`PutAmong`,
with the shift). `spar_expand` is part of the last two, as in the code, where
it is called in the middle of a put. The variant with `memmove`
(`USE_MEMCPY`) is not compiled by default.

`Ia` has the linked blocs as a sequence of functions. `ia_put` makes all blocs
that are missing and `ia_append` makes one at most: that one is enough is part of
`IaIsArray`. `ia_get` beyond the blocs warns, and directly behind the last of
them it does not notice; the model calls it where an entry exists.

`Heap` makes each round of the two loops of `heap.c` a step, so that its invariant
says what holds in the middle of a sift. Callers ask `heap_isempty` before
`heap_extract`, whose abort is therefore left out.

`Hash` has hash values as they come, of which a table uses the lowest bits: `hash_new`
refuses sizes that are no power of two. The test of `StringAssoc` for a full
table lets one more name in than there is room for (`nl-stringassoc.h:105`); what
happens then is undefined, and the model stops (`overrun`). `CircList` has the
circles with their `plotNext` pointers; `Push` and `Pop` have no callers.

### The grammar

A table of C is a function from 0 and a list a sequence; the grammar `g` is a record
that grows by the tables of one reader after another, as `grammar_t` does.
`files` are the lines in the formats of `README.data`, as parsed records. Each
reader takes the number of lines that the project file gives and aborts when
there are fewer, or when it meets a name that no earlier file has. `live` has the
blocks allocated, which `FreedByAll` gives back.

`Binarize` is one round of the loop of `bin_binarize`: the node's right sibling, if it
has siblings of its own, is put below a new node with all that follows. The
rounds go through the numbers of the nodes, and nodes may be numbered in any
order, so a node is moved before or after its own round. `bin_binarynodes` is a
logarithm and a power truncated to an integer: `BIN_LOG_2` is a little less than
the logarithm of two, which keeps the truncation from losing one; the model
states the result, n − 1.

### From a line to lexicalised trees

`Sentences` is `parser_main`'s loop. `fgets` stops at the line's end or when its
buffer is full: what is left of a long line becomes the next sentence, and a last
line without its line end is dropped with the end of the input.

`Lexicon` has one action for each step of `lex_new`: the lookup of a word
(`syn_entry_new`, with the defaults for unknown words and the pruning of entries
that ask for other words), one entry and tree at a time (`lex_get_terminals`),
the empty elements, the first pass tree by tree through the actions of `LexPrune`,
and `lex_active`. The other way in is the n-best tagger: `syn_get` prints a line
for each word and tree and `lex_nbest` reads them back. `sent_index` keeps its
cursor between calls (`Indexes`), and `lex_update_multiple_anchor` has its start
and limit. The texts of the lexicon are functions from words to lists of
entries.

### Lexical pruning

`LexPrune` has the row of one tree in the table `lex_mtx`: for each word of the
sentence the list of the tree's leaves it may stand at. `lex_prune` compares the
entries of different words two by two; where they stand in the other order than
their leaves, `lex_prune_check` (`Checked`) prunes each of them that has no other
word for the leaf of the other. One action is one round of the innermost loop,
and the order of the rounds is that of the loops. Which entries `lex_prune_tree`
has pruned before, while the sentence was looked up, is left open (`given`); in
`Lexicon` it is what the lookup has left.

### The feature checker

`FeatureNode` has the heap of all nodes with their labels, arcs and `pfnMark`, and
each algorithm as an operator from heaps to heaps that follows the code's
recursion, since what a recursive call does to the marks is what the loops around
it read next. Nodes unified with each other are linked by their marks in a loop;
to join two loops two marks are exchanged (`Twist`). `CopyUnionDFS` turns each
loop into a chain that ends at its copy, and `UnmarkDFS` takes the marks away.

`FeatureLogic` knows none of this: a structure maps its paths to atoms and to the
paths that lead to the same place, and unification is the least congruence with
the paths and identities of both. `FeatStruct` keeps for every object what the
logic makes of the calls (`sem`) beside what the graph says.

`FeatForest` is an and-or graph of items. `GetChecked` splits each item by the
structures its derivations have. It uses the structures of `FeatureLogic`, since
every checked item has a graph of its own, and `FeatStruct` shows that the graphs
behave like them.

### Server and client

A `Connection` is a thread for each client that works for as long as the client
does. The model has for each of them the thread (`thread`, `stage`, `text`,
`out`), the options of its `Parser` (`opts`, `filter` for `deleteFilterOpt`), the
processes in the fields of the `Parser`, the two directions of the socket (`up`,
`down`), the client's own state and the reply it collects. `file` is what
`/tmp` holds under each time stamp, which two connections can share.

- Streams are sequences. The client's are half lines, because
  `DataOutputStream.writeBytes` writes byte by byte and the error threads write
  to the same stream: two halves are what it takes for a line to be torn. Several
  error threads are one queue.
- `Pass`, `Feed` and `Join` are `parse` and `pipeToProcess`: the text goes from
  process to process, is `null` after an exception, and empty when the process
  has ended. The processes themselves are not part of the server; they start,
  read the preferences file (and end when it is missing, `read_prefs`), answer
  with one text or end. The partial output of a process that ends in the middle
  of a sentence is left out.
- `setOptions` never sets `deleteFilterOpt` back, `killAll` passes over the
  n-best parser, and a configuration that cannot write its file leaves the
  fields as they are: `SetOptions`, `Killed` and `NotWritten` do the same.
- Dead code: nothing calls `stopServer` or `sendTerminationWarning`, and
  `ServerWindow`'s method for stopping is empty. There is no shutdown to model.

## Runs

| Run | Module, configuration | Expected | What it shows |
|---|---|---|---|
| `hparse` | `MCHParse`, `HParse.cfg` | pass | the chart parser on the grammars `CoreHands` |
| `hparse_headless` | `MCHParse`, `HParseHeadless.cfg` | `FindsAllParses` violated | lost derivations of a substituted noun phrase |
| `hparse_empty_adverb` | `MCHParse`, `HParseEmptyAdverb.cfg` | `NoAbort` violated | the abort on a state that is its own child |
| `hparse_bare` | `MCHParse`, `HParseBare.cfg` | `Recognises` violated | an unlexicalised initial tree over words is not started |
| `hparse_wrapping` | `MCHParse`, `HParseWrapping.cfg` | `NoWrapping` violated | the wrapping preferences do not reach the completer |
| `containers` | `MCContainers`, `Containers.cfg` | pass | matrix, array, heap, tables and lists under every order of calls |
| `grammar` | `MCGrammar`, `Grammar.cfg` | pass | grammars read, binarised, turned into the parser's tables and freed |
| `lexicon` | `MCLexicon`, `Lexicon.cfg` | pass | sentences read, looked up, lexicalised and pruned |
| `lexicon_idiom` | `MCLexicon`, `LexiconIdiom.cfg` | `ReadingsKept` violated | the idiom `as soon as` gets no word for `soon` |
| `features` | `MCFeatures`, `Features.cfg` | pass | unification on graphs, and the checking of forests |
| `server` | `MCParserServer`, `ParserServer.cfg` | pass | two connections, processes that end, torn lines |
| `server_no_reply` | `MCParserServer`, `ParserServerReply.cfg` | `AlwaysReplies` violated | a client that waits for ever |

### `hparse`

Safety: `TypeOK`; `ChartIndexesStates`
(every state is in the heap of its own span exactly once and heaps stay ordered
although types change in them); `AgendaComplete` (every stored state is on the
lists exactly once and none is passed over, nor left at the end); `GoalsAreSpines` (what the
subsumption test relies on); `NothingSubsumed`; `BackpointersJustify` (each
pointer is a step of `TagDeduction` from finished items); `AskersAdjoin`;
`NoAbort`. At the end: `ChartClosed` (each rule of `TagDeduction` has been applied to
all that a goal asks for: leaves and trees at predictions, one-daughter steps, siblings
and adjunctions at items, whichever premise was found first, and the conclusion works for
that goal or for one that leaves it more room); `Recognises` (the analyses of the sentence are exactly
those of the least fixed point) and `FindsAllParses` (each step of each
derivation is recorded). `Implements` is the refinement of `TagDeduction`, and
`Terminates` the one liveness property.

*Bounds.* There is no bound in the guards: for one grammar and one sentence the
parser is finite. The grammars are
- `BasicHands`: intransitive clauses with modifiers on both sides, every
  assignment of four sets of categories to three words;
- `VerbHands`: transitive verbs and verbs with a particle (two anchors in one
  tree), modifiers of noun phrases and sentences, three and four words;
- `MultipleHands`, `AmbiguousHands`: several adjunctions at one node, with
  items that have several derivations;
- `EpsilonHands`: unlexicalised trees, a relative clause with a trace.

Three or four words are enough for each handler to meet each other one in both
orders: an item before and after its goal, both sides of a head, a foot with
material on either side, an ambiguous word. What is absent: five and more words,
grammars with more than five trees, and the grammars of the violated runs, on
which the promise does not hold.

*Fairness.* `WF_vars(Next)`: `hparse()` is a sequential loop that never waits;
it takes its next step whenever there is one. Termination is therefore not
assumed: it fails if the handlers can feed one another for ever. Deadlock is not
checked because the parser stops when it is done.

### `containers`

`SparInv` (arrays of `rr` places, columns within them, the sentence of `spar.h` on
where column *i* is, no row twice in a column), `HeapInv` (the order of a heap,
but about the place a loop is at), `TablesFind` (a name is found with the value
entered last, whatever shares its bucket; a name added to a sorted table has an
object of its own), `ListsKeep` (a list is what was added to it, a copy is a list
of its own, no object is lost or in two circles); and three refinements,
`Implements` of `Matrix`, `ArrayImplements` of `Array` and `HeapImplements` of
`PriorityQueue`.

*Bounds.* The variable `part` says which container a behaviour is about; the
others rest. Matrix: three columns give a column before, at and after a shift, and
from one place with growth by two every put can hit the end of the arrays. Array:
blocs of two entries and indices to 4, so that a put can need two new blocs and an
append one. Heap: up to seven elements, three full levels, of three ranks, where
equal ranks meet. Tables: four names with shared buckets in tables of one and
four (and three, refused), three entries so that a name is entered again; sorted
tables with room for three, and the name that overruns them. Lists: two, with five
objects. The bounds on lengths, entries and objects (`MaxIndex`, `Capacity`,
`MaxEntries`, `MaxListed`) are the only ones in guards. Nothing has to be called,
so there is no liveness.

### `grammar`

`BinaryTrees`: after every round of the loop the table is that of a tree with the
same leaves in the same order below each node of the grammar, in the end none has
more than two children, and the new nodes are as many as were counted.
`TablesGiveHand`: parents, siblings, kinds, headcorners, feet, adjunction
constraints, roots by label, terminals and the order of leaves are those of the
`Grammar` that `HParse` starts from. `AllFreed`: `gram_delete` and `hand_delete`
free each block once.

*Bounds.* One tree of five nodes with a node of three children or more, in all 120
numberings; a root with five children in the 240 numberings that give it the
first or the last number; two trees, the first with four nodes and leaves of every
kind in the builder's numbering under the four preferences on adjunction, and with
the nodes of both trees mixed; and files that lack a line or name what is not there.
Three children are what it takes to add a node, four to add a node below an added
one. The truncated logarithm was computed outside the model for up to 100000
children.

### `lexicon`

`ReadingsOffered`: each way to put words of the sentence at the anchors and terminals
of a tree that an entry asks for is in the matrix in the end. `NothingElse`:
everything in the matrix, and every active tree, comes from an entry that the
sentence asks for. `NoneSkipped`: the loop reads each word of the input once, stops
at the end or at a blank line only, and leaves nothing allocated. Of `LexPrune` on
its own, on every small table (phase `alone`): `ReadingsSurvive` (an entry of a
way to put a word at each leaf in the order of the sentence is never pruned,
`pref_defn.h:77-79`) and `OnePassEnough` (with two leaves the pass reaches its fixed
point, although every pruning can take away what kept another entry; with three
it does not, which costs time and no analysis).

`ReadingsOffered` is stated for what the code handles (`Handled`); where it does
not, the run `lexicon_idiom` or this list says why:
- some anchors have the same key and others do not (disagreement 6);
- an anchor of the entry is an empty element: `lex_prune_check` looks for a word for
  it (`lex_prune.c:128`);
- another entry of the same tree lacks words for its anchors: `lex.c:640` prunes the
  whole tree, so a pair of dashes is lost beside a single comma (`TooFew`);
- the tree has terminals and is looked up through `syn_get`, which prints anchors
  only.

*Bounds.* Trees with one, two and three anchors, with a terminal, with an anchor
that may be empty; sentences of three to five words over two to four words,
where every word comes as often as it likes; the preferences on lookup, first pass
and empty elements in both states; both ways in; inputs of up to eight words and
line ends against a buffer of six, which has long lines, blank lines and a last line
without its end. `syn_get` fails on a blank line and is only given others. Two
leaves need four or more words for a chain of prunings; the tables of `MCLexPrune`
have five. A third anchor of one key whose limit would fall below zero stops the
model (`overrun`, `lex.c:632`: unsigned, it runs past the words).

### `features`

`Agrees`: unifying, copying, substituting and adjoining make of every object what the
logic says, and change no other. `Tidy`: between operations all marks are null, no
node is in two structures, none is lost. `Compares`: `operator<=` is subsumption,
with shared nodes. `PrintedInFull`: what is printed, read again, gives the
structure. `ExactlyTheUnifying`: the derivations written for a start are exactly those
read for it whose features unify each on its own – packing by equal features loses
none and adds none. `AgreeInNumber`: on the sentences of the run these are the
ones whose words agree, a check of the reference itself.

*Bounds.* Either structures or forests (`part`). Structures: two equations are read
into one object, one into another, then two operations go into a third
(`MaxReads`, `MaxSteps`), over four equations with atoms and three identities,
which give shared nodes, cycles in the marks, failure and features below a
failure. Forests: 96 of them, a sentence with or without one of two adverbs, or
with two trees of the verb that share the subject, words with one number, both as
a disjunction or both as two entries, and start items that ask for the singular or
for nothing. An operation on a failed structure that adds features to it (which
leaves a failure, labelled and with arcs) is compared as the failure it is.
`nl-feattable.cpp:397` does not end on a table without its final mark; the run's
tables are well formed.

### `server`

`Lockstep`: nothing of an answer is under way to a client that does not wait for
one. `OwnPrefs`: what a process prints was computed with the preferences sent
last, if no other connection was made in the same millisecond. `OwnReplies`: a
reply has the text of its own sentence, whole and once, or none because a
process has ended. `RepliesCome`: it comes, as long as the processes live and no
line is torn. `ConnectionsEnd`: preferences are always answered and the thread
ends after its client.

*Bounds.* `load` bounds the sentences, preferences and lines of error output of
each client: two sentences (an answer and the next question), two preferences
(processes of two generations), one line of error output (one line is enough to
come before, within or after any other), and a second client that is configured
while the first one is at work, with two time stamps, equal or not. The two
pipelines have three processes each; the one of a single process is a part of
them.

*Fairness.* Weak fairness of each client's reader, of each connection's thread,
of its processes and of its error threads: they are threads and processes of
their own, which the Java virtual machine and the operating system run when they
can. Users need not type anything and processes need not complain. A process
that has a sentence finishes with it or ends; that the chart parser does is the
property `Terminates` of `hparse`.
Deadlock is not checked since everything rests when the users do.

## Disagreements between code and documentation

1. *Derivations of substituted phrases are lost* (`hparse.c:369`,
   `hparse_headless`). `hparse_init_subst` takes the first item that matches and
   leaves no goal when there is one, so other analyses of the same phrase are
   never attached, while `pref_defn.h:154` promises "all parses" with the
   default limit of zero.
2. *The completer adjoins without adding a word* (`hparse.c:939`,
   `hparse_empty_adverb`). `hparse_adjoin` excludes the item's own span and
   COMPL_AUX does not; with unlexicalised trees and the right order of
   discovery the item is merged with itself and `hparse_add.c:111` aborts.
3. *Unlexicalised initial trees over words are not started* (`hparse.c:310`,
   `hparse_bare`), although `allow_eps_trees` is to let them take part. The same line
   keeps `allow_eps_adjoin` (set in `lib/xtag.prefs`, `lib/treebank.prefs` and
   `lib/server.prefs`) from its effect when a word is adjoined to a trace: a trace is placed
   in an empty span only, and such a tree has none. `pref_defn.h:125` says "permit
   adjunction on any node in a subtree whose headcorner is epsilon".
4. *Wrapping preferences* (`hparse.c:939`, `hparse_wrapping`). They are looked
   at when adjunction is predicted and not when it is completed.
5. *A client that waits for ever* (`Parser.java:348`, `Connection.java:100`,
   `server_no_reply`). After a process of the pipeline has ended, the server
   waits for the next one, to which it has written nothing; with a pipeline of
   one process it sends `null>>end<<`, which is not the mark `>>end<<`. The
   client's `sendAndReceive` "reads the output which is returned".
6. *Idioms with a word twice* (`lex.c:644`, `lexicon_idiom`). The words of the i-th
   anchor are taken from the i-th occurrence of its key on, as if all anchors had
   that key. In `as soon as` the second anchor skips the only `soon`. It is called
   to "add the lexical items anchoring the trees" (`lex.c:277`).

Each is the counterexample of a run of one property.

## Proofs

All theorems are about every value of the constants that satisfies the
assumptions, and rest on no unproved statement.

### Chart parser (`HParse_proofs`, `Chart_proofs`, `Deduction_proofs`, `Closure_proofs`)

| Theorem | Says |
|---|---|
| `TypeCorrect` | `Spec => []TypeOK` |
| `InductiveHolds` | `Spec => []Inductive` |
| `GoalsOnSpines` | `Spec => []GoalsAreSpines` |
| `AskersBeside` | `Spec => []AskersAdjoin` |
| `EveryStateExpanded` | `Spec => []AgendaComplete` |
| `ChartIndexes` | `Spec => []ChartIndexesStates` |
| `NothingIsSubsumed` | `Spec => []NothingSubsumed` |
| `PointersJustify` | `AuxLexical /\ Spec => []BackpointersJustify` |
| `NeverAborts` | `AuxLexical /\ Spec => []NoAbort` |
| `ParserDeduces` | `AuxLexical /\ Spec => Implements`: the refinement of `TagDeduction` |
| `ClosureReached` | `AuxLexical /\ Spec => []ChartClosed` |
| `NoSentenceMissed` | `AuxLexical /\ Spec => []Complete`: no sentence with an analysis is rejected |

The assumptions are `HandsAssumption` (the tables are well typed, trees are binary, a
headcorner is a leaf shared by one path of nodes, the lists of roots hold roots of
their label) and, for the last five, `EpsilonAssumption`; `NoSentenceMissed` needs
`ChildrenAssumption` too. The last five have a hypothesis as well, `AuxLexical`: every auxiliary tree has a leaf that stands for a
word (an anchor or word of its own, or a substitution node where trees may not be
empty). Without it an
empty tree is adjoined to a node, gives the item it began with, and the code aborts:
that is the run `hparse_empty_adverb`. The grammars of `hparse`, traces and empty
anchors among them, satisfy it (`MCHParse!CoreLexical`, which TLC evaluates).

**Nodes, spans and goals (`HParse_proofs`).**
`GoalsAreSpines` is not inductive. A state can only inherit its goal from a
state that is right itself, and many of the states a handler creates are not in
the chart yet when the handler looks at them: the invariant has to cover the
calls in `todo`. `Inductive` therefore says of every stored state *and* of every
pending call that it is `Sound`: `Bounded` (nodes, spans and pointers in range,
and the foot too where the foot is the headcorner), `Pursues` (the state's node
is on the path of its goal's headcorner, and a prediction starts such a path)
and `Asks` (the pointers of a prediction name a finished head beside it). Of
stored states it says that they lie `Within` the goal's span, which is the check
`hparse_add` makes, and of the chart that the states of a cell have the cell's
span. The reason for `j <= last + 1` and for the clause on empty headcorners in
`Pursues` is the sibling asked for beyond the last word.

The argument: lemmas `...OK` show for each handler, case by case, that the
states it hands to `hparse_add` are sound; `RetypedOK` that turning a prediction
into a goal, or into its own goal, keeps every other state sound (goals and
askers are compared by type); `MergedOK` that the pointers of two states that
`hpstate_add_eq` calls equal may be united; `StoreInv` and `MergeInv` that an
addition keeps the invariant; `NextInv` puts the five actions together.

**Lists and chart (`Chart_proofs`).** `AgendaInv` adds `OnLists`, `AgendaComplete` said
of the two lists apart, and `InPlace` (the handlers after `hparse_init_head` run on a
state of the list). The lists hold consecutive numbers, so the place in `plist` says
which states have been expanded, and a list that has been passed can be dropped.

`ChartInv` is `Inv` with `ChartIndexesStates` in a form without cardinalities (`Indexed`,
`Heaped`), `Goals` and `NothingSubsumed`. `heap_insert` moves the states of one path
down and puts the new one in the gap, so what was in the heap stays in it once
(`HeapInsertPermutes`), and items stay above the rest (`HeapInsertOrders`). The
types of states in a heap change, but only of those that are no items
(`InitHeadChart`). `NothingSubsumed` is not inductive: when a prediction becomes a goal,
or its own goal, it could begin to subsume its neighbours. It does not because of
`Goals`: what is asked for on behalf of a goal is at another node than the goal, so
the retyped state, whose goal is now itself, is never compared with a state that has the
same goal at the same node. `Goals` holds of the pending calls too. `Started` and
`Aimless` say of each handler's calls what `Goals` asks of them.

**Back pointers and refinement (`Deduction_proofs`).** `BackpointersJustify` says that
every pointer is a step of `TagDeduction`. The side conditions of the rules are not
looked at again when a step is made; they hold since the parser asked for the right
thing some steps before. `DeductionInv` says so of stored states and of pending calls:
- `Fits`: `Covers` (the span holds the gap of the foot, and is wider than the gap at a
  node that is never empty), `Whole` (a subtree that is all trace has had its
  adjunction), `Confined` (a subtree headed by a trace, where nothing may be adjoined,
  serves a goal of no width) and `Awaits` (a prediction waits at a place its node
  can have);
- `Justified`: an item's pointers are steps, and an item without any is an axiom. A
  call may fail this only where `hparse_add` drops it for being `OutOfGoal`. The
  completer's calls need this exception: it tries an adjunction whose span does not
  fit the goal.

The lemmas `...Good` show handler by handler and rule by rule that the calls are
like this. `hparse_add` is where it can go wrong: it merges the pointers of a new
state into an equal one, and aborts when the state is its own child. `OneIsNew`,
`BinaryIsNew` and `AdjunctionIsNew` show that no rule gives back one of its premises:
the node or its position changes, except in an adjunction, whose auxiliary tree adds a
word (`AuxLexical`, through `NeverEmpty`, the inductive form of *has such a leaf*, and
`Covers`). Hence no state is its own child (`NoChild`) and there is no abort. Equal
states stand for one fact, so pointers may be united (`MergedGood`). With each item
justified, a step of the parser adds to `Proven` at most the one fact of the call,
derivable from those before (`StepDerives`), or nothing: the step of the refinement.

**Closure of the chart (`Closure_proofs`).** `ParserDeduces` says that the parser derives
nothing else; `ChartClosed` says that it leaves nothing out. Two items that make a third
are found in either order. If the head comes last, `hparse_move_up` finds its sibling, or
the auxiliary tree, in the chart; if it comes first, it asks, and the answer has to come
back through `hparse_completer`, by the back pointer of the prediction for siblings and by
a search of the heap for adjunctions and substitutions. The prediction may have been
merged with another's, dropped for an item that was there, or turned into a goal in the
meantime. `ClosingInv` therefore says, of each state that has been through a handler:
- `Arrives`: what the handler concludes or asks for is in the chart, or is a call in
  `todo` that is not out of its goal;
- `Served`: for a finished subtree that is wanted, moreover, that its conclusion has
  arrived once the subtree has been through the completer;
- `Asking`: a sibling that is not found yet is asked for by a prediction with a pointer to
  the head, and no item for it is older than that prediction, so it meets the pointer
  when it goes through the completer.

These are kept because no step loses anything (`Grows`): states are not removed, and a
state that is dropped in a merge leaves one that stands for it and takes its back pointers
(`MergeTakes`). Which states have been through which handler follows from the place in
the lists (`Moved`, `Finished`), by `AgendaInv`. At each handler `...Calls` says that its
loop visits the tree and the span, `...Called` and `...Completed` that the conclusion is not dropped
for its goal's span, and `...ArrivesKept` that later steps keep the promise. Three more
parts are needed: `FeetFound` (below an item with a gap there is the foot over that gap,
for `hp_adj_state_exists` looks for it before an adjunction), `Shaped` (what is asked for is a
finished subtree, with a gap only above a foot) and `GoalsAim` (goals enter the chart
with a goal to serve). At the end the lists are empty, every state has been through
all handlers (`AllIsDone`), and `ClosingInv` is `ChartClosed`.

Words are left out of it: the state that stands for another may have other anchors, and
then the derivations that need those are missing. That is the run `hparse_headless`.

`ChartClosed` looks at what is in the chart, so it names the goal: the conclusion is held by
an item whose goal leaves it at least as much room as the goal of the premise does
(`FoundFor`). With any item at all it would not lead further, since an item made for a
narrow goal does not ask for what lies beyond it.

**Completeness of recognition (`Closure_proofs`).** `NoSentenceMissed` ends the chain: if
some sequence of facts, each derived from those before it by the rules of `TagDeduction`,
ends in a fact that accepts the sentence, then the finished chart has an item that
`hparse_valid_start` accepts, at the root of the same tree. With `ParserDeduces` the parser
recognises what the rules derive and nothing else. `Derivation` says what the sequence is
and `Listed` that its trees are in the tables: a derivation is data of the theorem, not a
computed set. It may have any length `m`; instead of an induction over `m`, the proof takes the
first fact that would not be found (`LeastOne`).

What is shown of each fact is `Known`: it is found wherever it is wanted. It is wanted by
each prediction of a subtree with the same headcorner and foot whose span holds that of
the fact (`WantedBy`). Rule by rule, what wants a conclusion wants its premises, or the
handler of the premise on the way from the headcorner asks for the other one: the
corresponding part of `ChartClosed` then gives the conclusion (`StepWanted`). The whole sentence is wanted from the start
(`AcceptingSought`). Derived facts are `Regular`: their spans, the gaps of their feet and what
follows from an empty headcorner. `hparse_valid_start` wants an anchor as well, and the item
found may have other anchors than the fact. But it has some, since that depends on the node
alone when no anchor may be empty: the nodes at which the derivation has facts with anchors
are anchors, words of the tree, or above such a node (`Worded`, `DerivationWords`), and at
nodes like these no item is without (`WordsKept`, an invariant of its own).

No anchor may be empty in the theorem (`Plain`): with `allow_eps_trees` there are sentences
that the parser misses (disagreement 3). It is off by default, and in every file of
preferences in the repository except `lib/xtag_eps.prefs`. Two kinds of derivations are
left out, neither of which exists with the defaults:
- with `allow_eps_adjoin`, those in which a word is adjoined over an empty one
  (`Untraced`), which the parser misses for the same reason;
- with a wrapping preference, those with an adjunction that it bars (`Unbarred`), as is its
  purpose: a left auxiliary tree onto a right one, or one that adds words on its other
  side; or the reverse.

`hparse_headless` is no exception to the theorem: that run loses an analysis of a sentence
that has another one.

### Sparse matrix (`Spar_proofs`)

| Theorem | Says |
|---|---|
| `SparHolds` | `Spec => []SparInv`, that is `TypeOK`, `ColumnsInOrder` and `RowsOnce` |
| `SparIsMatrix` | `Spec => Implements`: the refinement of `Matrix` |

`SparInv` is inductive as it stands. The two ways to make room, at the end of
the places and among them, with and without growth, are shown to be one
relation `Inserted`: an entry appears at the end of its column and what follows
moves up by one. The rest is proved of `Inserted` alone: columns before the
new entry keep their places, those behind keep their entries one place higher,
so `spar_get` changes for one cell. Assumed are natural numbers for the sizes,
a positive increment, and that the null pointer is not stored.

### Infinite arrays (`Storage_proofs`)

| Theorem | Says |
|---|---|
| `IaIsArray` | `IaSpec => ArrayImplements`: the refinement of `Array` |

For blocs of every positive size. `IaInv` says that the last index lies in a bloc
there is, which with `PlaceOfNext` (the next index is in the same bloc or the next)
is why one new bloc is enough for `ia_append`. The rest is that different indices have
different places (`PlaceIsOne`), by division with remainder; `WrittenAt` and
`Grown` say what a write and new blocs do to each entry, and `PutStep` combines
them. Assumed: the size is positive and null is not stored.

### Heap (`Storage_proofs`)

| Theorem | Says |
|---|---|
| `InOrder` | `HeapSpec => []HeapInv` |
| `Serves` | `HeapSpec => ServesBest`: each `heap_extract` gives an element that none in the heap ranks above |
| `HeapIsQueue` | `HeapSpec => HeapImplements`: the refinement of `PriorityQueue` |

For heaps of every length and elements of every rank. `HeapInv` is inductive because
it says what holds in the middle of a loop: the place `i` is out of order with its
children or its parent, never with both, and its children rank no higher than its
parent. `Serves` needs that the first place ranks highest, which goes along the parents
of a place; an induction theorem would need an operator as its parameter, so the
proof takes the smallest place that ranks above the first and its parent.

`PriorityQueue` counts how often it holds each element. In the middle of a loop
the element on its way (`key`) is counted at the place that is open for it. With
that, a step of a loop only exchanges the elements of two places, as `heap_extract`
does with the first and the last before it drops the last: no number changes
(`Exchange`). `OneMore` says what a new last place adds. That what is dropped ranks
highest is `TopIsHighest`, the lemma of `Serves`.

### Lexical pruning (`LexPrune_proofs`)

| Theorem | Says |
|---|---|
| `PruningIsSafe` | `Spec => []ReadingsSurvive` |
| `PassIsEnough` | `Spec => []OnePassEnough` |

For any number of words, leaves and entries. A reading supplies the word that
`lex_prune_check` looks for, on the right side of the pair (`ReadingNotChecked`).
The second theorem needs the invariant `Kept`: with two leaves, each pair that
has been compared is `Settled` and stays so, however much is pruned afterwards
(`StaysSettled`): an entry that is pruned was not the word that another entry
needs, since that entry would have been the word it lacked itself. The order of
the loops plays no part in either proof.

### Parser server (`ParserServer_proofs`)

| Theorem | Says |
|---|---|
| `ServerTypes` | `Spec => []TypeOK` |
| `InLockstep` | `Spec => []Lockstep` |
| `PrefsAreOwn` | `Spec => []OwnPrefs` |
| `RepliesAreOwn` | `Spec => OwnReplies` |

For any number of connections, sentences, preferences and lines of error output,
torn ones included. `Lockstep` is not inductive: that a client has read the last of a
reply must follow from the mark alone. `TakesTurns` says so of one connection: a
sentence on its way is the last message and the client waits for it; while it goes
through the pipeline nothing is to be written; and nothing but error output and
`ready` comes after the mark of a reply (`MarkLast`), whichever of the two streams the
mark is in. `Begun` (the first message is preferences, and there are no processes
before it has been read) and `AtStage` are what the types need. Each operation
concerns one connection (`OthersKeep`); the lemmas about streams (`LineRest`,
`RestKeeps`, `AppendKeeps`) say what reading a line and adding half a line leave.
The only assumption is `ServerAssumption`, which gives the types of the constants.

`OwnPrefs` looks at processes, the file of preferences lies between the client and
them, and another connection may write it when its file name is the same. `PrefsInv`
says where a connection can be that has read a configuration:
- it shares its name with another (`Shared`), and nothing is promised;
- its file and what the processes of its pipeline have read are of the last
  configuration (`Own`);
- the configuration failed, no process has been started, and no sentence gets as far
  as a process (`Unfed`).

That a sentence is then computed with the right preferences takes two more: only the
process that the thread waits for has a sentence (`OneWorks`), and none answers before it
has read its file (`HasRead`). Once a connection has been accepted its name stays, so
the names of others can only come to be shared, never the reverse (`OthersPrefs`).

`OwnReplies` compares the reply a client has read with the sentence it sent, several
messages apart. `ReplyInv` follows the sentence: it waits to be read, and none of the
streams on the way back holds text; or it is in the pipeline, as the thread's text or
as the sentence of a process, the same one always, or has been lost to a process that
ended (`Carried`); or it has been answered, and its text is in what is read, sent or to
be written, whole and once (`TextOf`), or there is none and a process has ended
(`Broken`). Since the mark is read after all text (`MarkIsRead`, from
`MarkLast`), the client has by then read all of it. Error output comes anywhere, also
between the halves of a line, and adds no text.

### Only model-checked

`Recognises` and `FindsAllParses` compare with a least fixed point that is computed
recursively, and `Terminates` is liveness: both are beyond what TLAPS can prove here. What
is proved instead of the first two is that each step of each derivation that a goal asks
for has been made (`ChartClosed`), and that the root of every derivation of the sentence
has been found (`NoSentenceMissed`). `Recognises` says more than that of its instances: it
compares the anchors of the trees too, and some of its grammars have empty anchors.

The properties of the runs `grammar`, `lexicon` and `features` and `TablesFind` and
`ListsKeep` of `containers` are about walks over trees, lists and graphs, which
are recursive operators, and are left to TLC, but for `ReadingsSurvive` and
`OnePassEnough`. Of the server, all safety properties are proved; its liveness is left
to TLC.

## Not modelled

`PROJECT.json` has one entry for each component with what is left out and why. In
short:
- *Chart parser*: probabilities and beams (compiled with `USE_PROB`), timeout and
  the limit on start states (`USE_PARSER_HEURISTICS`), debugging output. The
  makefile defines neither.
- *Statistics*: compiled with `USE_PROB` only; floating-point scores.
- *Printing of the forest* (`hparse_deriv.c`) and the *derivation tools* that count
  and select in it: walks without later state over finished pointers, whose
  correctness rests on `BackpointersJustify`.
- *Texts*: the grammars of the lexicon (`syn.y`), of tables of features and of
  preferences, and the databases behind the lookup. The models begin with what has
  been read.
- *Tree browser*: layout. *Batch drivers*, *dictionary, treebank and grammar builders*,
  *Python evaluation scripts*: one pass over text.
- *Server and browser*: `stopServer` and `sendTerminationWarning`, which nothing
  calls; sockets that cannot be opened.

Some lines are known to misbehave and are outside of the models, because what they
do is undefined or needs input that the programs never give one another: an exception leaves
`Connection.java:119` without closing its streams, and a client that vanishes while
it is configured sends null to `Connection.java:34`; the buffer for a label at
`gram_slurp.c:712` is not bounded; `lex.c:297` reads a key that was not set when an
entry lacks a part of speech for an anchor; `spar.c:39` trusts its caller on rows
and columns.

## Plan

In the order of what matters most for the answers the program gives.

| Step | Modules | State |
|---|---|---|
| 1. The chart parser against `TagDeduction` | `Grammar`, `HParse`, `HParseProps`, `HParseComplete` | modelled and checked; every safety property on the way to the end of the parse is proved, the refinement, that the chart is closed in the end, and that no sentence with a derivation is rejected. The comparison with the computed fixed point (`Recognises`, `FindsAllParses`) and `Terminates` are out of the prover's reach |
| 2. Its data structures | `Spar`, `Ia`, `Heap`, `Hash`, `CircList` and their specifications | modelled and checked; the matrix, the array and the heap are proved to implement their specifications |
| 3. Lexicalisation and the sentence loop | `LexPrune`, `Lexicon`, `Sentences` | modelled, checked; pruning is proved |
| 4. Grammar and trees | `TreeTables`, `GrammarFiles`, `BinTables`, `GrammarTrees` | modelled and checked |
| 5. Server and client | `ParserServer` | modelled and checked; the safety properties are proved, liveness is out of the prover's reach |
| 6. Readers of the forest | `FeatureNode`, `FeatStruct`, `FeatForest` | the feature checker is modelled and checked. Open: printing (`hparse_deriv.c`), counting and selecting derivations (`derivations/`) |
