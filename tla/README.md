# A TLA+ model of PDFG-IL

PDFG-IL (the C++ headers under `src/src/pdfg`) is an embedded language and a
source-to-source compiler. A client writes loop computations with overloaded
operators; the library records them in a dataflow graph of computation nodes
and data nodes; the client (or an automatic transformation) fuses and tiles the
graph; passes over the graph schedule the loops, contract temporaries and share
storage; the last pass prints a C function.

The compiler is one sequential program: no threads, no messages, nothing
persistent. Nothing here is about interleaving of processes or crashes. What is
hard is that a **long sequence of legal calls** mutates shared tables (labels,
symbol table, edges, recorded producers, storage table) that refer to each
other by name, and that the result is only visible in the generated program.
A wrong step does not crash; it produces C code that computes something else.

## 1. Inventory

| Part | Source | State | Operations | Interacts with |
|---|---|---|---|---|
| Graph maker | `pdfg/GraphIL.hpp` 3300-4000 | singleton: tables of iterators, constants, spaces, relations, accesses; named graphs and the current one; flags of passes already run; checkpoints | `newGraph`, `addComp`, `mergeComps`, `fuse`, `tile`, `checkpoint`/`restore`, `reschedule`, `data_reduce`, `mem_alloc`, `parallelize`, `transform`, `codegen` | writes the dataflow graph, starts the passes |
| Dataflow graph | `pdfg/FlowGraph.hpp` | `_nodes`, `_symtable`, `_edges`/`_edgemap`, `_outputs`, `_child_prods`; in each node a label, children, an iteration graph | `add`, `remove`, `get`, `in_edges`/`out_edges`, `isSource`/`isSink`/`isTemp`, `fuse`, `tile`, `copy` | read and annotated by every pass |
| Iteration graph | `FlowGraph::updateIterGraph`, `pdfg/Digraph.hpp` | a tree of loops with statement leaves per fused node; shifts | `insert`, `insertLeaf`, `insertSchedule`, shifts | built by `fuse`, read by `ScheduleVisitor` |
| Scheduling | `ScheduleVisitor` (`pdfg/Visitor.hpp` 1193-1337) | schedule tuples of the nodes | one walk | tree to tuples, tiling, shifts |
| Data reduction | `DataReduceVisitor` (1339-1488) | sizes and access maps of data nodes; replaces spaces in the maker's table | one walk | looks at labels at the ends of edges and at offsets of accesses, at no schedule |
| Storage allocation | `MemAllocVisitor` (1587-1763) | table of entries, space map, recorded producers, visited nodes | one reverse walk: `enter`, `process`/`find`, `exit`, `finish` | annotates data nodes; read by the code generator |
| Traversals | `DFGVisitor`, `ReverseVisitor`; `DFSVisitor`, `GroupVisitor` | visited marks, groups | walks | base classes of the passes; the last two are dead code (the only call, `Visitor.hpp` 1861, is commented out) |
| Automatic transformation | `TransformVisitor` (1812-1964) | best graph and its estimate | fuses a copy, runs every pass on it, exchanges it for the current graph | `copy`, the passes, `PerfModelVisitor` |
| Code generation | `CodeGenVisitor` and subclasses (202-950) | text | one walk | emits a node's statement, then its children's |
| Performance model | `PerfModelVisitor` (953-1191) | sums | one walk | report |
| Size expressions | `Space::size`, `Strings::fixParens`, `util/Parser.hpp` | none (pure) | print, strip, `eval` | sizes for storage allocation, as text |
| Intermediate language | rest of `pdfg/GraphIL.hpp` | value classes | overloaded operators | call the graph maker |
| Polyhedral back ends | `poly`, `isl`, `omega`, `iegenlib`, `solve` | none | format a set, call a library, parse its output | loops for scheduling and code generation |
| Inspector generator, file readers, benchmark driver | `pdfg/InspGen.hpp`, `util`, `common`, `main.cpp` | none to speak of | I/O | |

What has to be true of the parts:

* **Storage allocation** - two spaces kept in one buffer are never in use at the
  same time; a buffer fits all its spaces; buffers are given back.
* **Dataflow graph** - whatever is fused with whatever, every statement is
  generated exactly once; edges, symbol table and recorded producers keep
  describing the same program; parameters of the function stay parameters; a
  client that fuses only what may be moved keeps the order of conflicting
  statements.
* **Iteration graph, scheduling** - a fused schedule runs every write before the
  reads that depend on it.
* **Data reduction** - a contracted space still has every value when it is read.
* **Graph maker** - the code that is generated comes from a living graph with all
  its statements, scheduled and allocated as it is emitted, and its buffers have
  the shapes it indexes them by, whatever other graphs, passes, checkpoints and
  transformations came before.
* **Size expressions** - the number read from the text is the number of points.

`PROJECT.json` lists every part with its status and every hazard at its line.

## 2. Modules

| Module | What it is |
|---|---|
| `MemAlloc` | storage allocation: the reverse walk |
| `SharedStorage` | abstract: cells held by at most one space at a time |
| `MCMemAlloc` | small programs and sizes for TLC |
| `MemAllocProofs` | theorems about `MemAlloc` |
| `FlowGraph` | construction, lookup and fusion in the dataflow graph |
| `CodeMotion` | abstract: a program is written, then statements move to the front past what they do not conflict with |
| `MCFlowGraph` | small graphs for TLC |
| `FlowGraphProofs` | theorems about `FlowGraph` |
| `Fusion` | placement of fused statements in the loop tree, shifts, schedules |
| `FusionLemmas` | lemmas about paths and trees |
| `FusionProofs` | theorems about `Fusion`: the tree, the places, the loops |
| `FlowProofs` | theorems about `Fusion`: the shifts and the flow of values |
| `DataReduce` | `Fusion` and then the contraction of a temporary |
| `DataReduceProofs` | theorems about `DataReduce` |
| `MCFusion` | small programs for TLC: loop forests, stencils |
| `Sizes` | pure operators: the text of a size, the parser, and a reference |
| `SizedAlloc` | `MemAlloc` with sizes computed by `Sizes` from loop bounds |
| `SizedAllocProofs` | theorems about `Sizes` and `SizedAlloc` |
| `MCSizedAlloc` | loop bounds for TLC |
| `Pipeline` | the graph maker: graphs, passes, shared tables, `transform` |
| `MCPipeline` | three computations for TLC |
| `PipelineProofs` | theorems about `Pipeline` |

### MemAlloc

One behaviour is one run of `MemAllocVisitor` on one graph. `prog` (who reads
and writes which data node, which are declared outputs) and `size` are chosen
initially and never change. `producers`, `visited`, `entry`, `entries` are the
fields `_producers`, `_visited`, `_space_map` (0: absent) and `_entries` of the
visitor, with `_entries` indexed from 1; `attrs` stands for the attributes
`finish()` writes on data nodes; `cur`, `phase`, `outs`, `ins` say where the
walk is. Each node is visited in the steps `Enter` (the loop that records
producers), `ProcessOutput`/`ProcessInput` (one call of `process()` each, the
outputs first), and `Exit`. `Find` has one disjunct per way of `find()`: an
exact free entry, the first larger free one, the nearest smaller one resized
unless it is a scalar, a new one.

Abstractions: the order of the edges of one node, which depends on the order in
which a statement mentions its operands, is nondeterministic. Producers are a
set (the code keeps a list with duplicates and asks for the existence of an
element). A size is a number, which `SizedAlloc` computes from loop bounds.
`prev_size`, `resized` (printed only) and the datatype are left out.

### Sizes and SizedAlloc

`process()` asks a space for its size as a text, strips parentheses that occur
twice in a row, and has the text evaluated. `Sizes` follows the text: a sequence
of tokens, numbers or characters, where a named constant is the token of its
value. `SizeText` is `Space::size` with the printing rules of `Math` (`+0` and `-0`
are not printed, `- -2` becomes `+2`, the left operand of a product gets
parentheses if there is a sum anywhere in it), `FixParens` is
`Strings::fixParens`, `Tokens`, `InfixToPostfix` and `Compute` are the three steps
of `Parser::eval`: the stack and the output of the second are the fields of the
record it folds over, and `Operand`, `Open`, `Close`, `Operator` are the branches
of its loop. All of them are folds of one step over a sequence: `AddFactor` over
the loops, `Copy` over characters, `Shunt` and `Reckon` over tokens. `Extent` is the
reference: the product of the trip counts. `LoopBounds` are the bounds of all
sizes: constants are natural numbers, as the texts have no sign for a number, and
divisors are not zero. `SizedAlloc` assumes them (`BoundsAssumption`).
`SizedAlloc` composes this with `MemAlloc`: sizes are what `SizeOf` makes of the
bounds, and the walk is `MemAlloc`'s.

Names that are not constants (`rowptr(i+1)`), which the parser takes for
operators, are left out: the sizes of such spaces are not known to the compiler.
Numbers are those of mathematics; the parser has `int`, so that what is shown
holds of spaces whose products stay below 2^31.

### FlowGraph

One behaviour is the life of one `FlowGraph`: the client first defines
computations (`AddComp`, with every access set of the bounds; a second
definition of the same computation extends it), then fuses pairs by name
(`Fuse`). A node is identified with the symbol-table key it was created under.
`label` is the list of names a label is composed of ("a+b" is `<< a, b >>`);
"the label is a key" then means that it has one element and that element is in
`keys`, and "contains a name" is membership, which is what substring search
comes to when no name is part of another (this is assumed). `edges` holds
pairs; `_edges` and `_edgemap` change together in the code. `childProds` is
`_child_prods`. `reads` and `writes` are the statements' own accesses, known to
the generated code and not looked at by `fuse()`; they are what the edges are
compared with. `Emits(n)` is what `CodeGenVisitor::enter(CompNode)` prints for a
node: its statement, then those of its direct children.

Three specifications with the same actions differ in what the client does:

* `Spec` - fuses anything with anything (other than a node with its own group,
  on which the code's later walks would not terminate).
* `FlatSpec` - what is named second has not been fused into before.
* `OrderedSpec` - moreover, no node in between conflicts with it (`Movable`).
  The code does not check this; it is the obligation of the caller.

`CodeMotion` says what that client gets, without a graph: statements in a line,
and moves of one statement to the front that leave the others in their order and
pass over none that conflicts with it. `ImplementsMotion` maps `code` to the
defined computations, `before` to the pairs that are emitted one before the other
(`RunsBefore`) and `moving` to `fused`. Every definition is then a `Write`, every
fusion a `Move`.

Left out: `updateIterGraph` (what happens to the loops, see `Fusion`), `tile`,
`copy` (see `Pipeline`), and `ignoreCycles(false)`, which nothing in the repository's compiler sets. The data
nodes' place in `_nodes` is left out, too: `comp_nodes()` skips them.

### Fusion

One behaviour is a chain of fusions `fuse(1, 2)`, `fuse(1, 3)`, ... of a
sequence of computations, that is, the calls of `updateIterGraph` it makes. `prog` has the
loop nest, lower bounds, written dimensions and accesses of each. `tree` maps a
node of the `Digraph` to its label; a node is identified with the positions on
the way to it, which are the labels of the edges in the code. `named` tells
which node is *called* like an iterator (`Digraph::node` makes names unique, so
only the first one is); `leaf` and `shift` are the leaves and `_shifts` of the
statements. One call is `Start` (steps 1 to 7 of the function: the shift and
the skip list), then for each loop of the schedule `Seek` (`find`), `Check` of
each producer in any order (an `unordered_map`) with `SkipLoop` as often as the
`while` goes round, `Checked` (the rule for siblings with another shift), then
`UseLoop` or `NewLoop`, and at last `InsertLeaf` (steps 9 and 10). `cur`,
`level`, `inode`, `inext`, `path`, `skips`, `delta` are the local variables
`curr`, `j + 1`, `inode`, `inext`, `path`, `skips`, `shifts`.

`Time(s, u)` is the tuple `ScheduleVisitor` gives to statement `s` at point `u`
of its iteration space: positions alternating with shifted iterators. The
generated code runs points in the lexicographic order of these tuples (this is
what the polyhedral library is trusted with). `FlowKept` compares them for every
pair of a write and a read of one element. `AfterProducers` and `Synchronized`
are what it comes from: the code of a reader comes after that of its producer,
and in the loops they share the shifts make up for the distance of the read.
These two look at the tree and the shifts alone, not at the points, so that they
do not depend on the sizes of the iteration spaces.

`Left` is what is left to do, seven numbers of which the first counts most:
computations, whether one is being placed, its loops, whether the next is to be
looked for, producers to check, whether one is being checked, nodes not passed
over. `Advances` says that every step leaves less. The last section of the module
names kinds of programs, which the theorems are about: `OneDepth` (an iterator is
at the same depth in all nests that name it), `FullyIndexed` (a space is indexed by
all loops it is written in), `PointByPoint`, `ReadsBack` with `Reaching`, `Windowed`;
`Regular` is `FullyIndexed` and one of the last three.

Abstractions: every computation writes one space, its own. Iterators are model
values; `nodeBounds` finds an iterator in an index expression by substring
search, taken here as an exact match. Lower bounds are integers. Reading
`shifts[j - 1]` beyond the end of a short tuple is a choice of both outcomes.
Left out: `alignIterators` (off by default), tiling, nests of more than three
loops (`FusionAssumption`).

### DataReduce

When all statements are placed, `Reduce(s)` contracts the space `s` writes, as
`DataReduceVisitor::enter(DataNode)` does for a temporary whose producers and
consumers have the same label. `AbsMax` is `absmax`: the offset of largest
magnitude, with its sign, and either of two opposite ones, since the last in the
order of a map stays. `Contracted` is the three-way decision: no sum, a
scalar; only the first distance, a line; else nothing. The decision about one space does not look
at another, so that a behaviour contracts one of them (the client has declared
the others outputs); which one is nondeterministic. `ContractionSafe` compares
the times of all points: no other write to the same element comes between a
write and a read of it. `InStepContractionSafe` says so of readers that run in
the writer's own loops. Left out: the two space names the code excludes by hand.

### Pipeline

One behaviour is the life of the `GraphMaker` singleton. `heap` has the
`FlowGraph` objects in the order they were made; `flow` is `_flowGraph`, `graphs`
is `_graphs` (both by position in `heap`), `flags` are the five pass flags,
`spaces` is `_spaces` with the shape of each space, `checkpoints` is
`_checkpoints` reduced to that table; `sealed` is a history variable for the
client's rules, `stage` says where inside `transform()` the maker is, `code` is
what the last `codegen()` walked. A graph has its `nodes` (a node is the set of
its statements) and, for every pass, what the pass left on it *and for which
nodes*: `sched`, `mem`, `size`, `omp`. `added` is what the client put in; `alive`
becomes false when `transform()` deletes the object. `writers` and `readers` are,
for every space, the nodes at the edges into and out of its data node, in the order
of the edges: `addComp` appends to them (`MoreEnds`); a fusion takes the second
node's edge out and appends one for the first, unless that has one (`MovedEnd`);
the fused copy of a graph is one node that has the edges of all (`FusedCopy`). The
order matters, for `DataReduceVisitor` compares the i-th producer's label with the
i-th consumer's (`Reducible`): those of one node that writes and reads the space agree,
and those of several nodes if each of them does both, in the same order. The
accesses of the first producer decide then (`Shrunk`).

`NewGraph`, `AddComp`, `Fuse`, `Reschedule`, `Reduce`, `Allocate`, `Parallelize`,
`Codegen` are the calls of the client, with everything they do. `Transform`,
`ProcessVariant`, `KeepBest`, `FinishTransform` are the four parts of
`transform()` between which tables change hands: checkpoint and copy; the passes
on the copy; checkpoint of the variant and restore of the original; restore of
the best one and exchange of the graphs. They are steps of their own because
their order is the question; the program runs them without a pause.

A client keeps the `Rules` the constant lists; each theorem names those it needs:

| Rule | Meaning | Without it TLC breaks |
|---|---|---|
| `complete` | no graph is changed after a pass was called, until the next `newGraph` | `CodeScheduled`, `ContractedInPlace`, `MemoryOfCode` |
| `current` | passes and `codegen` are for the current graph | `CodeScheduled`, `CodeComplete`, `CodeMapped`, `ContractedInPlace` |
| `own` | no graph uses a space of another | `ContractedInPlace` |
| `unfused` | only unfused graphs are transformed (the copy drops children) | `CodeComplete`, `ContractedInPlace` |

`ContractedInPlace` says what the comparison of labels makes sure of in the code that
is generated: of the nodes that use a scalar, none only fills it, and none only
reads it. `ContractedPrivately`, that one node uses it, is what contraction relies on
and does not check (first observation of section 3); it is proved where spaces have one writer.

Abstractions: which spaces a computation accesses at distances that keep them from
being contracted is a constant (`Distant`; an output, which is never contracted, is in
it for all that access it); "contracted" stands for a scalar and for a line, which
`DataReduce` tells apart; where a fusion puts statements and what the allocator assigns are
in the other modules. Left out: `tile`, which changes the loops of one graph but
nothing the maker shares; `mergeComps`, which nothing calls; `checkpoint` and `restore`
as calls of a client, which none in `src/` makes; tables other than `_spaces`;
variants beyond the one `TransformVisitor` tries.

## 3. Runs

| Run | Specification and bounds | Checks | Result |
|---|---|---|---|
| `memalloc` | `SequentialSpec`, 4 computations, 3 spaces, up to 2 reads and 1 write each, sizes 1-3, symmetric spaces | `TypeOK`, `NoInterference`, `NoLeak`, `Economical`, refinement of `SharedStorage` | holds, about 1 million states |
| `memalloc_any` | `SizedSpec`, 3 computations, 3 spaces, at most 1 read and 1 write, outputs declared or not, spaces of up to 3 dimensions given by loop bounds | `TightEntries`, `Annotated`, `SizesExact`, `BuffersFit` | holds |
| `memalloc_live` | `Spec`, 3 computations, every space written before it is read | `OnlyNonLiveTaken` | violated, finding 1 |
| `flowgraph` | `FlatSpec`, 3 computations, 2 spaces, any access sets, computations extended any number of times | `TypeOK`, `StatementsOnce`, `EdgesMatchStatements`, `LookupFindsHome`, `ProducersExact`, `SignatureKept` | holds |
| `flowgraph_order` | `OrderedSpec`, 3 computations, 2 spaces, defined with at most 1 read and 1 write and extended to any access sets | `OrderKept`, refinement of `CodeMotion` | holds, about 58,000 states |
| `flowgraph_nested` | `Spec`, 3 computations, at most 1 read and 1 write | `FusedNodesRemoved` | violated, finding 2 |
| `flowgraph_writers` | `FlatSpec`, 4 computations, at most 1 read and 1 write | `ProducersAreChildren` | violated, finding 3 |
| `fusion` | `ReduceSpec`; 4 statements over the nests (), (i), (i, j), (k), none of which stands alone, and 3 also over (j), pointwise reads of any earlier ones; 4 statements over (i), offsets 0 or -1..1; 3 over (i, j, k), offsets 0 or -1..1 along i, j or both; 2 over (i) or (i, j), offsets 0 or -1..0; 3 over (i) or (i, j, k), the first over (i), offsets 0 or -1..1 along i | `TypeOK`, `OwnLoops`, `AfterProducers`, `Synchronized`, `FlowKept`, `Shared`, `InStepContractionSafe`, `Advances`, `AllPlaced` | holds, about 340,000 states |
| `fusion_forward` | 4 statements over (i), offsets 0 or 0..1 | `FlowKept` | violated, finding 4 |
| `fusion_names` | 4 statements over (), (i), (i, j), (j), pointwise | `OwnLoops` | violated, finding 5 |
| `contraction` | `ReduceSpec`, 3 statements over (), (i), pointwise | `ContractionSafe` | violated, finding 6 |
| `pipeline` | `Spec`, 3 statements, 2 spaces, 2 names, at most 3 graphs, all four rules | `TypeOK`, `CodeScheduled`, `CodeComplete`, `CodeMapped`, `ContractedInPlace`, `MemoryOfCode`, `TransformReturns` | holds, about 480,000 states |

Bounds. In `memalloc`, four computations are enough for a space to be released
while another is live and reused by a third, three sizes for every way of
`find()` (exact, larger, resized, a scalar that must not be resized, new);
two reads let one computation hold two spaces while it writes the third. With
one write per computation and one to several producers per space all cases of
the release in `exit()` occur. In `flowgraph`, three computations allow two
fusions into one node, a fusion by the name of a node fused away, and a fusion
in either direction; two spaces are enough for a chain and for a diamond. TLC
shows these instances; the theorems of section 4 hold for every number of
computations, spaces and sizes.

In `fusion`, four statements are the least for two loops of one iterator at the
root (the second made because a producer lies in between) and a statement that
has to choose between them by two producers; (j) is among the nests of three
statements only, because with four finding 5 arises. Programs of four with a
statement that neither reads nor is read are left out (`Linked`): what such a
statement does, adding loops to the tree, it does among the programs of three, too. The stencil programs
iterate up to 5 or 3, beyond the largest lower bound a chain of the stencils can
have, so that every statement has points with all neighbours. Their lower bounds
are tight (a statement starts at the first point whose neighbours were all
written) and their stencils symmetric; with that the shifts work out, and
`fusion_forward` shows that symmetry is needed. Tight bounds are needed, too: the
first shift is the difference of the lower bounds (`FlowGraph.hpp` 1144), so that
b(i) = a(i) with b from 1 and a from 0 is shifted by -1. Backward stencils
come with two statements only: the shift of a statement can be 0 although its lower
bound is not the first one's, a shift of 0 is not recorded, and the third
statement of a chain then takes its producer for unshifted. TLC evaluates
`FusionProgramsAreRegular`: these programs are `Regular`, the kind section 4
proves `Synchronized` for. The last family is not (`MixedPrograms`): a first statement over
(i) makes all shifts one number long, so that `shifts[j - 1]` is read past the end
at the third loop, with another statement of another shift in that loop or not
(`OuterShifted`, `SiblingClash`); TLC tries both outcomes. In none of the programs
has a shift components of both signs, or a read opposite distances along two
iterators: these break the code (observations below).

In `memalloc_any` the bounds are of the kinds the repository's tests write: lower
bounds 0, 1 or negative; upper bounds a constant, or a constant plus, minus or
divided by another; inclusive or not. The one-dimensional spaces have them all; two and
three dimensions are there for the parentheses around factors. Sizes of up to
64 points; the sizings are the small ones in every combination and the others
in turn.

In `pipeline`, three graphs are enough for an old graph, the current one and the
variant of `transform()`; three statements for a node of two and one outside,
which still uses the space; two names for a pass by the name of another graph.
x is written by s1, added to by s2 and read by s3; z is added to by s2 and by s3, by s3 at
a distance. So both spaces have as many writers as readers, x with different nodes at
the ends, z with the same ones: x becomes a scalar only after fusions, z when s2 is
added before s3, since then the accesses of s2 decide, and not otherwise.

`CHECK_DEADLOCK FALSE` in the `FlowGraph` configurations: a client may stop at
any time, and does when one node is left. `MemAlloc` and `Fusion` have explicit
last steps (`Returned`, `Fused`), and in `Pipeline` code can always be generated
again: deadlock is checked there.

Fairness. The program is one thread and every call runs to its end. So
`ReduceSpec` has weak fairness of its whole next-state relation, which only
excludes that `updateIterGraph` stops half-way; `AllPlaced` says that its `while`
over skipped loops ends and every statement gets a leaf. `Advances` is what the
code contributes to that without fairness. `Pipeline` has weak
fairness of the three steps inside `transform()` and of nothing the client does;
`TransformReturns` says that control comes back with a scheduled graph. The other
specifications have safety properties only and assume no fairness.

### Findings

1. **A space written after its last read loses its buffer early**
   (`Visitor.hpp` 1706-1727). The walk goes backwards and learns the producers
   of a space when it enters one of its readers. A write after the last read is
   left before any reader was entered: no producer is known, so the entry counts
   as unused although earlier computations still need it, and `find()`, whose
   comment promises a non-live entry, gives it to another space. The trace: c1
   writes a; c2 reads a and b, writes b; c3 writes a.
2. **Fusing a node that was fused into before leaves it in the graph**
   (`FlowGraph.hpp` 1078, 824-836). `remove()` looks for the label "b+c" among
   the keys, where the node is called "b". Its statement is then generated
   twice, and its children's statements once, in its own node and not in the one
   it was fused into, because the code generator descends one level only.
3. **The recorded producer may be in another node** (`FlowGraph.hpp` 1279). The
   comment speaks of a child node; `_child_prods` keeps, for the whole graph,
   the last fused writer of each space. With two writers of a space the loops of
   a consumer may be shifted against a statement of an unrelated node.
4. **Forward differences are not shifted past their producer**
   (`FlowGraph.hpp` 1173). The largest offset is added only if some producer's
   shift is larger than the statement's own. With b(i) = a(i) + a(i+1) and
   c(i) = b(i) + b(i+1), all from 0, both shifts are 1 and c(i) reads b(i+1) an
   iteration too early.
5. **Loops of a repeated iterator are not skipped** (`FlowGraph.hpp` 1185-1187).
   The skip list is made of labels and compared with names; the second loop over
   i is named "i0". The trace: a over (i), a scalar s, b over (i, j) reading s
   (hence in a second i loop), then c over (j), which is put inside it.
6. **A temporary is contracted across two loops** (`Visitor.hpp` 1420). The
   comment promises cases "where reduction can be safely applied"; the code looks
   at the label of the fused node and at offsets, and a node may have several
   loops over one iterator. The trace: a(i) over (i), alpha without loops, and
   b(i) reading a(i) and alpha, which gets a second loop over i. a becomes a
   scalar, and all of the second loop reads the last value of the first.

Observations. No run checks the following: the model leaves the cause out, the client's
rules or the programs of the runs exclude it, or no client in `src/` gets there.
For the first four, TLC finds the behaviour when the `.cfg` that is named is changed as said.

* **Two accumulations pass for one** (`Visitor.hpp` 1350-1361). The i-th producer is
  compared with the i-th consumer, and no pair with another. With s2 and s3 both
  adding to z, not fused, the edges are from and to s2, from and to s3: z is
  contracted by the accesses of s2 alone, and the loops of s3 find the last
  value s2 left. This is under all four rules (`MCPipeline.cfg` with `INVARIANT
  ContractedPrivately`).
* **Shifts that cancel are dropped** (`FlowGraph.hpp` 1244). "Apply shifts if
  necessary" asks for the sum of the shift. With b(i,j) = a(i,j) + a(i+1,j), where
  a begins at 0 and b at 0 along i and at 1 along j, the shift is (1,-1): b(i,j) runs
  where a(i,j) is computed, an iteration of i before a(i+1,j) (`MCFusionForward.cfg` with
  `Programs <- LatePrograms`).
* **Distances that cancel make a scalar** (`Visitor.hpp` 1421). The comment says
  "maxTuple is all zeros", the code adds its elements up. With b(i,j) = a(i-1,j+1)
  the sum is zero, and b, which rightly runs in one loop body with a, reads a's latest
  value instead of the one of the row before (`MCFusionContraction.cfg` with
  `Programs <- DiagonalPrograms`). `NoCancelling` leaves these out of
  `InStepContractionSafe`.
* **Code generated again has old schedules** (`GraphIL.hpp` 3837). "Run scheduling
  pass if needed" goes by a flag that a fusion does not reset. `eDSLTest.cpp`
  507-526 generates code, adds a computation, fuses, and generates again: the second
  code has the fused nodes with the schedules they had on their own. The rule
  `complete` excludes this (`MCPipeline.cfg` without it, `INVARIANT CodeScheduled`).
* `fixParens` strips by neighbours: `M*((N+1)*2+1)`, from an upper bound that has
  parentheses of its own, is evaluated as `M*(N+1)*2+1`. `Space::size` subtracts
  the lower bound as text (`GraphIL.hpp` 1885): from `M-1` to `N` the size is
  `N-M-1`. `tokenize` drops a number at the end; `PerfModelVisitor` (`Visitor.hpp`
  1136) evaluates the size "1" of a scalar to 0 this way.
* `transform()` deletes the current graph and leaves it in `_graphs`
  (`GraphIL.hpp` 3972): a pass by that name is on freed memory. The rule `current`
  excludes this.
* `copy()` of a fused node drops its children (`FlowGraph.hpp` 631, with a comment that
  assumes un-fused graphs): `transform()` of a fused graph loses statements. The rule
  `unfused` excludes this.
* `get(name)` searches labels for a substring (`FlowGraph.hpp` 760): of two names one of
  which contains the other it may return the wrong node. Names are atoms in `FlowGraph`.

## 4. Proofs

All theorems are for arbitrary constants: any `N`, `Data`, `Programs`,
`Sizings`; any `NComps`, `Data`, `Accesses`; any `Names`, `Stmts`, `Spaces`, `Reads`,
`Writes`, `Distant`, `MaxGraphs`; in `Fusion` any `Iters` and any `Programs`:
sequences of any length; in `SizedAlloc` any bounds of any number of loops. The assumptions are those declared in the modules:
numbers are natural, programs and access sets range over the spaces, no space
has the name of a computation, no iterator is a number, a nest names an iterator
once, a statement has finitely many accesses, all of earlier statements, and the
bounds of a space are in `LoopBounds`.
What a theorem assumes beyond that is a named condition in its statement.

**MemAllocProofs.** `TypeCorrect` is by induction with the strengthening that
the walk is at a computation while it is inside one. `EntriesAreTight` is
inductive with it. `AllAnnotated` (for every program, sequential or not) needs
`AnnotInv`: the map holds exactly the temporaries the walk has met, and no
attribute is set before the end; at `Finish` every temporary was met, since it
has a reader and a writer, and the size annotated is that of its entry, no
smaller than its own by `TightEntries`. The others are for `SequentialSpec` and rest on `IInv`:

* `WalkInv` - what is visited is everything behind `cur`; only temporaries are
  in the map, and all that were met are; a space's producers are complete once
  one of its readers has been entered. The last part is why the program must
  read after it writes: then a reader is met before any writer is left.
* `HoldInv` - a live space's entry is active and is its own.
* `NoInterference` - needed to be carried along, because it speaks of spaces
  that are dead by now: when an entry is reused, every computation touching its
  old space lies behind the walk, and every one touching the new space is at or
  before the current one. For that an old space must be dead also with respect
  to the current computation, hence `HoldInv` in terms of `Live`.

From `IInv`: `SharingIsSafe`, `Refinement` (each step is a step of
`SharedStorage` or a stutter), `NonLiveTaken` (the property whose violation is
finding 1 does hold on sequential programs), `NothingLeaks`. `SharingIsEconomical`
(for a finite `Data`) puts them together: when all sizes are equal, a new entry is
opened only if every entry is active (`TightEntries`: a free one would fit); each
active one is held by a live space (`NothingLeaks`); live spaces were met at or
behind the walk (`MetInv`), so that all of them and the new one cross the current
computation; and a pigeonhole argument counts them.

**SizedAllocProofs.** `SizesAreExact`: for any number of loops and all of
`LoopBounds`, the parser reads from what `fixParens` leaves of a text the number of
points that was meant (`ReadRight`). Induction over data is out of the provers'
reach as a rule, so it is taken apart into two pieces they can do. First, of any fold
from the left whatsoever: the recursion it stands for has a solution, on the sets
of positions (`FoldExists`); it takes the elements in turn, and one element more is
one step more (`RunLaws`, for a step given as a function, since an operator cannot be
a parameter). Each of the five folds then has its two laws (`SizeTextLaws`,
`CopiedLaws`, `ShuntedLaws`, `ReckonedLaws`, `ExtentLaws`). Second, what holds of every
sequence is shown by a least counterexample in its length.

The invariant of reading is `Pending(s, Q, c, v)`: after a part of a text that
is worth v, there is on top of what was there before (the stack Q, the operands c)
either the number v, or an operator that waits with its two operands and will
leave v. It says why a sum is read from the left (`AfterOper` takes the waiting operator
off, which is where `<=` in line 82 matters), and why a closing parenthesis leaves
its stack as it was found (`AfterClose`). `Product` is the invariant over the loops:
what is copied so far is pending with at most a `*` on the stack, so that a next
factor waits for nothing weaker; it starts with one "(" and ends with one ")", which
is why `fixParens` drops both of the parentheses put round it and nothing else
(`CopyParen`), and why `tokenize` loses no number.

A behaviour of `SizedSpec` is one of `MemAlloc`'s `Spec`, so that what is proved
there holds of sizes read from texts, too. Hence `BuffersAreLargeEnough`: every buffer
has room for all the points of all the spaces kept in it, for any number of spaces
and whatever way they were shared and resized.

**FlowGraphProofs.** `FlatInvariant` proves `FlatSpec => []FlatInv`, where
`FlatInv` says that the label of a node lists what it emits (`LabelInv`), that
every defined computation occurs in exactly one place (`Distinct`, `Covered`),
that edges are the accesses of the emitted statements (`EdgeInv`), that a
recorded producer is a child that writes the space and an unrecorded space has
no writing child (`ChildProdInv`), and that ranks number the computations
(`RankInv`). `StatementsOnce` alone is not inductive: a fusion finds nodes by
name and edges by label, so labels have to be tied to what is emitted first.
`EveryStatementOnce`, `EdgesComplete`, `Lookup`, `ProducersFound`,
`SignatureStays` follow. `ProgramOrder` shows for `OrderedSpec` that `OrderKept`
is preserved: the only statement that changes place is the fused one, and it
passes statements it does not conflict with. `MotionRefinement` shows that
`OrderedSpec` implements `CodeMotion`. Every defined computation is at one place, its
node and its position in what the node emits; of two, the places tell which runs first
(`PlacesDecide`), so that the emitted program is a line (`AllInLine`). A definition
appends a place or leaves all as they are (`AddRefines`). A fusion gives a new place
to the fused statement only; the others keep their order (`Afterwards`), and what it passes
does not conflict with it by `Movable` (`FuseRefines`).

**PipelineProofs.** `TypeCorrect` says, beyond types, that the nodes of a graph are
disjoint sets of statements added to it and that `transform()` works on a graph
other than the current one. Each theorem about the code adds one invariant and
assumes only the client's rules it needs:

* `CodeIsScheduled` (`complete`, `current`) - `SchedInv`: while the flag is set the
  graph is sealed and its fused nodes are scheduled. The flag alone says nothing
  about a graph; that it is the current one, and no longer changed, ties them.
* `CodeIsComplete` (`current`, `unfused`) - `CompleteInv`: the current graph and the
  variant are alive and have every statement.
* `MemoryIsOfCode` (`complete`) - `MemoryInv`: in every graph memory is assigned for
  the nodes it has, or not at all, except in the variant before its passes.
* `CodeIsMapped` (`current`) - `MappedInv`: the data nodes of the current graph agree
  with the table; inside `transform()` those of the variant agree with the table
  that will be restored in the end, which is the live table or a checkpoint by
  stage.
* `ContractionIsInPlace` (all four rules) - the code compares labels at the ends of
  edges, so that edges have to be tied to accesses first: `EdgesInv` says that in the
  current graph and in the variant a node is at an end of an edge of a space exactly once
  if one of its statements writes, or reads, it, and else never (`Edged`), through the
  edges that fusions take out and append; all that is kept of the copy of a fused graph is
  that it is one node (`Copied`). `FitInv` then says that a contracted space of either
  graph, and of the code, fits (`InPlace`, and `Private` for the next theorem), and that
  what the table has contracted was contracted for some graph made so far that uses it,
  so that a new one cannot inherit it. `CodeFits` is its proof.
* `ContractionIsPrivate` (`complete`, `current`, `own`, and `SingleWriter`: no two
  computations write one space) - by the same invariants: a node that writes is the one
  node that does. Without `SingleWriter` this is false (observations of section 3).

**FusionProofs** (over **FusionLemmas**). Nodes are paths, so what is proved first
is about paths: `Before` is a total order, a finite set of nodes has a first one
(`FirstPath`, by a least counterexample in the size of the set), hence `Find`
returns the first hit (`FindResult`), and a tree whose children are numbered
without gaps stays one when `NewKid` is appended (`TreeGrows`). `BaseInv` is the inductive
form of `TypeOK`: it adds that each statement that is placed is exactly one leaf, that the
names are those of loops, and that what was found has the iterator looked for.

`IInv` adds `PlaceInv`, where `updateIterGraph` is, and `DoneInv`, what it leaves
behind. All of its parts but `LastInv` speak of a statement whose loops are nested
one in another without others in between (`InLine`): finding 5 is that `find` may
descend through loops the statement does not have. For these, every loop that is
skipped is in front of a producer (`SkipsInv`), what was found is the first that
is not skipped (`FoundInv`; the rule for siblings gives it up at the third loop
only), producers are in the same loops or behind (`AheadInv`), those checked are
not in front of what was found (`CheckedInv`), and no loop was passed over
without need (`SharedInv`). `AheadInv` is what `AfterProducers` comes to when the leaf
is inserted, `SharedInv` becomes `Shared`. Hence `LoopsAreShared` and
`CodeAfterProducers`, under `OwnLoops`. `OwnLoops` itself is false in general
(finding 5), and `OwnLoopsKept` proves it where every iterator has one depth in
all nests that name it (`OneDepth`): then no loop is found below its level. `SharedKept` puts the
two together. In the run this covers all programs but those with (j) and (i, j);
that these keep to their loops with three statements is TLC's result.

`FusionAdvances` proves `Advances` for every program, and that what is left are
natural numbers (`LeftIsNat`). The step that needs an invariant is `SkipLoop`: it
leaves less only if the loop found is not among the skipped ones already
(`FreshInv`), so that the `while` goes round at most once for each node of the tree.
What `AllPlaced` says beyond that is fairness and that no step is missing.

**FlowProofs.** `FlowFromShifts`: for programs of any length and iteration
spaces of any size, `OwnLoops` and `Synchronized` imply `FlowKept`. The leaves of a
reader and its producer part at some position, where the reader is ahead
(`DoneInv`); up to there they share loops, and `Synchronized` compares the
iterators, so that the first difference of the two times, wherever it is, has
the producer first. So the high bounds in the run are no bound on this result:
TLC finds `Synchronized`, which does not look at them. Where `Synchronized` itself
is proved:

* `PointReads` - reads are point by point and loops of one depth begin at one
  value (`PointByPoint`): all shifts are zero (`StillInv`).
* `BackwardReads` - nests are equally deep, reads are where the value was
  written or before (`ReadsBack`), and a statement begins no later than the
  first one, or by no more than one of its reads reaches back (`Reaching`): no
  shift is negative and none is less than a producer's (`GrowInv`). `Reaching` is needed:
  a chain of reads by -1 with lower bounds 0, 1, 2 gets a negative own shift at
  its end, and the producer's shift of zero, which is not recorded, is no bound
  for it. This is the rule of finding 4 seen from the other side.
* `WindowedReads` - one nest, reads at a point or at offsets from -w to w (any offsets
  in between, one w for each loop), and bounds as tight as the windows allow
  (`Windowed`). `WindowInv` says that a shift is no less than the statement begins
  later than the first one, is zero if it begins with the first one, and is enough
  for its own reads (`Fits`). A statement begins with the first one or at least w
  later (`RiseIsFar`), which is why a producer whose shift is zero, and not
  recorded, needs no bound; and forward and backward offsets are equally far, which is
  why the largest one, added to the largest shift of the producers, makes up for the reads.

`ShiftsAreEnough` puts the three together: `Synchronized` for every `Regular`
program, under `OwnLoops`; `RegularFlow` is `FlowKept` for those with `OneDepth`. TLC
checks that the programs of the run are `Regular`, but for the family with short shifts.
Finding 4 has a program that is not: forward offsets without backward ones.

All rest on facts about the folds and maxima of the code: `MaxTuple` bounds the
tuples it is made of, and a tuple of naturals whose sum is zero is zero
(`SumIsZero`), which is why a shift that is dropped for its sum was none; for the
tuples with both signs (hazard at `FlowGraph.hpp` 1244) this fails. `SumOf` is a fold over a set:
`SumsExist` shows that the recursion it stands for has a solution, by a least
counterexample.

**DataReduceProofs.** `ReduceAfterFusion`: a behaviour of `ReduceSpec`, which the
runs use, is one of `Spec`; all of the above holds of it. `ContractionInStep`, for
spaces indexed by all loops they are written in (`FullyIndexed`; otherwise the loop that is
left out overwrites the space by itself, contracted or not): the tuple that
decided (`ReduceInv`) bounds the distances of all reads, so that those along
dropped iterators are zero (`DroppedAreStill`); the dropped loops are the outer
ones (`DroppedOuter`, from `InStep`); so the time of a write and the time of its read
agree up to the loop in which another write could come later, and nothing
fits between (`NothingBetween`). `ContractionIsSafe` is that with `OneDepth`.

Not proved, only model-checked:

* `OwnLoops` for programs in which an iterator has two depths (those of the run
  with (j) and (i, j)), and what is proved under it for these;
* `Synchronized` and `FlowKept` where nests of one and of three loops are mixed;
* the liveness properties `AllPlaced` and `TransformReturns`: liveness under fairness is out
  of the prover's reach (`FusionAdvances` proves the safety half of the first);
* that the mutated forms violate the properties.

## 5. Not modelled

* **Inside modelled parts.** `tile` (it rewrites schedules of one graph, by text);
  `mergeComps`, which has no caller; `alignIterators` and `makeHierarchical`, which
  are off and which no client turns on; checkpoints taken by a client; nests
  deeper than three loops; reductions over a dimension, where the code leaves it
  to the client which statements may share the loop; names in sizes that are no
  constants.
* **Traversals.** The forward walk has no state of its own, the reverse walk is in
  `MemAlloc`; `DFSVisitor` and `GroupVisitor`, whose recursion does not end on a
  cycle, are not called.
* **Code generation.** The text of C, macros, OpenMP and CUDA pragmas is
  formatting. Which statements are emitted, from which nodes and in which order,
  is in `FlowGraph` and `Pipeline`.
* **Performance model.** Read-only sums for a report; the comparison in
  `TransformVisitor` has one candidate.
* **Polyhedral back ends** (`PolyLib`, `IntSetLib`, `OmegaLib`, `IEGenLib`, `Z3Lib`).
  They format a set, call a library and parse its answer. `Fusion` trusts them to
  run points in the order of the schedules.
* **Inspector generator, readers of matrix and tensor files, string helpers,
  benchmark driver.** Parsing, printing and timers.
* **`lib/`** holds the vendored isl, chill, omega, gmp, gtest and others, which is most of
  the repository's lines; `artifact/` and `mlir/` are not this compiler.
