------------------------------ MODULE MemAlloc ------------------------------
(***************************************************************************)
(* The storage allocator of the dataflow compiler (MemAllocVisitor in      *)
(* src/src/pdfg/Visitor.hpp).                                              *)
(*                                                                         *)
(* The pass walks the computation nodes of one FlowGraph from the last to  *)
(* the first and assigns every temporary data space to an entry of a       *)
(* table.  Several spaces may share an entry, one after the other.  An     *)
(* entry is taken when the walk meets the last computation that touches a  *)
(* space and is given back when the walk leaves a computation that writes  *)
(* it, provided no other known producer is still ahead.                    *)
(*                                                                         *)
(* Computations are numbered 1..N in the order in which FlowGraph::nodes() *)
(* lists them, which is also the order in which the generated code runs    *)
(* them.  The order of the edges of one node is the order in which the     *)
(* accesses of a statement were written; it is left nondeterministic.      *)
(***************************************************************************)
EXTENDS Naturals, Sequences, FiniteSets

CONSTANTS
  N,          (* number of computation nodes                               *)
  Data,       (* data nodes                                                *)
  Programs,   (* the dataflow graphs the pass may be run on                *)
  Sizings     (* the sizes of the data spaces under the constants given to *)
              (* mem_alloc                                                 *)

Comps == 1..N

ProgramSpace ==
  [ reads   : [Comps -> SUBSET Data],
    writes  : [Comps -> SUBSET Data],
    outputs : SUBSET Data ]

ASSUME NAssumption == N \in Nat
ASSUME ProgramsAssumption == Programs \subseteq ProgramSpace
ASSUME SizingsAssumption == Sizings \subseteq [Data -> Nat]

VARIABLES
  prog,       (* the graph: who reads, who writes, the declared outputs    *)
  size,       (* size expressions, evaluated                               *)
  cur,        (* the computation the walk visits, N down to 0              *)
  phase,      (* "enter", "visit" (between enter and exit) or "done"       *)
  outs, ins,  (* accesses of cur that process() has not been called on yet *)
  producers,  (* _producers: the recorded producers of a data node         *)
  visited,    (* _visited: the computations the walk has left              *)
  entry,      (* _space_map: entry index of a space, 0 = not in the map    *)
  entries,    (* _entries: the table                                       *)
  attrs       (* mem_table_entry and mem_table_size of the data nodes      *)

graph == << prog, size >>

vars == << graph, cur, phase, outs, ins, producers, visited, entry, entries, attrs >>

Entry == [size : Nat, active : BOOLEAN]

NoAttr == [kind |-> "none", entry |-> 0, size |-> 0]

-----------------------------------------------------------------------------
(* The graph.                                                              *)

Writers(d) == {c \in Comps : d \in prog.writes[c]}
Readers(d) == {c \in Comps : d \in prog.reads[c]}
Touch(d)   == Writers(d) \union Readers(d)

(* FlowGraph::isTemp: has in and out edges and is not an output.           *)
IsTemp(d) == d \notin prog.outputs /\ Writers(d) # {} /\ Readers(d) # {}

Temps == {d \in Data : IsTemp(d)}

-----------------------------------------------------------------------------
(* find(size): an exact free entry, else the first larger free one, else   *)
(* the nearest smaller one (resized, unless it is a scalar), else a new    *)
(* entry.                                                                  *)

(* Mutant: the entries in use count as free.                               *)
Free_Any == DOMAIN entries

(* Mutant: scalar entries are never reused.                                *)
Exact_NoScalars(s) == {i \in DOMAIN entries : ~entries[i].active /\ entries[i].size = s /\ s > 1}

Free     == {i \in DOMAIN entries : ~entries[i].active}
Exact(s)  == {i \in Free : entries[i].size = s}
Larger(s) == {i \in Free : entries[i].size > s}

IsFirst(i, S) == i \in S /\ \A j \in S : i <= j

IsNearest(i) ==
  /\ i \in Free
  /\ \A j \in Free : \/ entries[j].size < entries[i].size
                     \/ entries[j].size = entries[i].size /\ i <= j

Resizable(i) == IsNearest(i) /\ entries[i].size > 1

Take(i, s) == entries' = [entries EXCEPT ![i] = [size |-> s, active |-> TRUE]]

FindExact(i, s) == IsFirst(i, Exact(s)) /\ Take(i, s)

FindLarger(i, s) ==
  /\ Exact(s) = {}
  /\ IsFirst(i, Larger(s))
  /\ Take(i, entries[i].size)

(* Mutant: the entry is taken but keeps its old size.                      *)
FindResized_KeepsSize(i, s) ==
  /\ Exact(s) = {} /\ Larger(s) = {}
  /\ Resizable(i)
  /\ Take(i, entries[i].size)

FindResized(i, s) ==
  /\ Exact(s) = {} /\ Larger(s) = {}
  /\ Resizable(i)
  /\ Take(i, s)

FindNew(i, s) ==
  /\ Exact(s) = {} /\ Larger(s) = {}
  /\ \A j \in Free : ~Resizable(j)
  /\ i = Len(entries) + 1
  /\ entries' = Append(entries, [size |-> s, active |-> TRUE])

Find(i, s) ==
  \/ FindExact(i, s)
  \/ FindLarger(i, s)
  \/ FindResized(i, s)
  \/ FindNew(i, s)

(* Mutant: the index is read after the new entry was pushed.               *)
Process_IndexAfterPush(d) ==
  IF IsTemp(d) /\ entry[d] = 0
    THEN \E i \in 1..(Len(entries) + 1) :
           /\ Find(i, size[d])
           /\ entry' = [entry EXCEPT ![d] = IF i > Len(entries) THEN i + 1 ELSE i]
    ELSE UNCHANGED << entry, entries >>

(* Mutant: outputs and inputs of the program get entries, too.             *)
Process_AnyNode(d) ==
  IF entry[d] = 0
    THEN \E i \in 1..(Len(entries) + 1) :
           /\ Find(i, size[d])
           /\ entry' = [entry EXCEPT ![d] = i]
    ELSE UNCHANGED << entry, entries >>

(* process(node): only temporaries not in the space map get an entry.      *)
Process(d) ==
  IF IsTemp(d) /\ entry[d] = 0
    THEN \E i \in 1..(Len(entries) + 1) :
           /\ Find(i, size[d])
           /\ entry' = [entry EXCEPT ![d] = i]
    ELSE UNCHANGED << entry, entries >>

-----------------------------------------------------------------------------
(* The walk.                                                               *)

Init ==
  /\ prog \in Programs
  /\ size \in Sizings
  /\ cur = N
  /\ phase = "enter"
  /\ outs = {} /\ ins = {}
  /\ producers = [d \in Data |-> {}]
  /\ visited = {}
  /\ entry = [d \in Data |-> 0]
  /\ entries = << >>
  /\ attrs = [d \in Data |-> NoAttr]

(* enter(CompNode), first loop: record the producers of every input.       *)
Enter ==
  /\ phase = "enter" /\ cur > 0
  /\ phase' = "visit"
  /\ producers' = [d \in Data |-> IF d \in prog.reads[cur]
                                    THEN producers[d] \union Writers(d)
                                    ELSE producers[d]]
  /\ outs' = prog.writes[cur]
  /\ ins'  = prog.reads[cur]
  /\ UNCHANGED << graph, cur, visited, entry, entries, attrs >>

(* enter(CompNode), second loop: process() on one output.                  *)
ProcessOutput(d) ==
  /\ phase = "visit" /\ d \in outs
  /\ outs' = outs \ {d}
  /\ Process(d)
  /\ UNCHANGED << graph, cur, phase, ins, producers, visited, attrs >>

(* enter(CompNode), third loop: process() on one input, after the outputs. *)
ProcessInput(d) ==
  /\ phase = "visit" /\ outs = {} /\ d \in ins
  /\ ins' = ins \ {d}
  /\ Process(d)
  /\ UNCHANGED << graph, cur, phase, outs, producers, visited, attrs >>

(* Mutant: the first exited producer gives the entry back.                 *)
GivesBack_FirstProducer(d) == d \in prog.writes[cur] /\ entry[d] # 0

(* Mutant: the producer being left counts as one that is still ahead.      *)
GivesBack_NotSelf(d) ==
  /\ d \in prog.writes[cur]
  /\ entry[d] # 0
  /\ producers[d] \subseteq visited

(* An output whose recorded producers, the current one aside, have all     *)
(* been visited gives its entry back.                                      *)
GivesBack(d) ==
  /\ d \in prog.writes[cur]
  /\ entry[d] # 0
  /\ producers[d] \ {cur} \subseteq visited

(* exit(CompNode).                                                         *)
Exit ==
  /\ phase = "visit" /\ outs = {} /\ ins = {}
  /\ entries' = [i \in DOMAIN entries |->
                   IF \E d \in Data : GivesBack(d) /\ entry[d] = i
                     THEN [entries[i] EXCEPT !.active = FALSE]
                     ELSE entries[i]]
  /\ visited' = visited \union {cur}
  /\ cur' = cur - 1
  /\ phase' = "enter"
  /\ UNCHANGED << graph, outs, ins, producers, entry, attrs >>

(* finish(): the table is copied to the attributes of the data nodes.      *)
Finish ==
  /\ phase = "enter" /\ cur = 0
  /\ attrs' = [d \in Data |->
                 IF entry[d] = 0
                   THEN attrs[d]
                   ELSE LET s == entries[entry[d]].size
                        IN  [kind  |-> IF s > 1 THEN "array" ELSE "scalar",
                             entry |-> entry[d],
                             size  |-> s]]
  /\ phase' = "done"
  /\ UNCHANGED << graph, cur, outs, ins, producers, visited, entry, entries >>

(* The pass has returned.                                                  *)
Returned == phase = "done" /\ UNCHANGED vars

Next ==
  \/ Enter
  \/ \E d \in Data : ProcessOutput(d)
  \/ \E d \in Data : ProcessInput(d)
  \/ Exit
  \/ Finish
  \/ Returned

Spec == Init /\ [][Next]_vars

-----------------------------------------------------------------------------
(* What the pass promises.                                                 *)

(* The graphs the promise is made for: every read of a temporary follows a *)
(* write of it, and every write of it is followed by a read.               *)
DefinedBeforeUse ==
  \A d \in Temps : \A r \in Readers(d) : \E w \in Writers(d) : w <= r

UsedAfterDefinition ==
  \A d \in Temps : \A w \in Writers(d) : \E r \in Readers(d) : w <= r

Sequential == DefinedBeforeUse /\ UsedAfterDefinition

SequentialInit == Init /\ Sequential

SequentialSpec == SequentialInit /\ [][Next]_vars

(* A space is live while it has an entry and the backward walk still has   *)
(* one of its producers or consumers ahead.                                *)
Unvisited(d) == Touch(d) \ visited
Live(d) == entry[d] # 0 /\ Unvisited(d) # {}

TypeOK ==
  /\ prog \in ProgramSpace
  /\ size \in [Data -> Nat]
  /\ cur \in 0..N
  /\ phase \in {"enter", "visit", "done"}
  /\ outs \subseteq Data /\ ins \subseteq Data
  /\ producers \in [Data -> SUBSET Comps]
  /\ visited \subseteq Comps
  /\ entries \in Seq(Entry)
  /\ entry \in [Data -> 0..Len(entries)]
  /\ attrs \in [Data -> [kind  : {"none", "array", "scalar"},
                         entry : Nat,
                         size  : Nat]]

(* Storage sharing is invisible to the generated code: two spaces kept in  *)
(* one entry are never in use over overlapping stretches of the program,   *)
(* not even in one computation that reads the one and writes the other.    *)
(* It is decided by find() and by the hand-back in exit(CompNode).         *)
NoInterference ==
  \A d, e \in Data :
    d # e /\ entry[d] # 0 /\ entry[d] = entry[e] =>
      \/ \A m \in Touch(d), n \in Touch(e) : m < n
      \/ \A m \in Touch(d), n \in Touch(e) : n < m

(* No entry is lost: an entry marked active is held by a space the walk    *)
(* still needs, so exit(CompNode) gave back everything it could.           *)
NoLeak ==
  \A i \in DOMAIN entries :
    entries[i].active => \E d \in Data : entry[d] = i /\ Live(d)

(* An entry is as large as the largest space ever kept in it and no        *)
(* larger, through every reuse and resize of find(); so sharing never      *)
(* needs more storage than one buffer for each space.                      *)
TightEntries ==
  \A i \in DOMAIN entries :
    /\ \A d \in Data : entry[d] = i => size[d] <= entries[i].size
    /\ \E d \in Data : entry[d] = i /\ size[d] = entries[i].size

(* When all temporaries have one size the walk uses no more entries than   *)
(* there are temporaries in use at the same computation.                   *)
Crossing(n) == {d \in Temps : /\ \E m \in Touch(d) : m <= n
                             /\ \E m \in Touch(d) : n <= m}

UniformSizes == \A d, e \in Temps : size[d] = size[e]

Economical ==
  UniformSizes =>
    \/ entries = << >>
    \/ \E n \in Comps : Len(entries) <= Cardinality(Crossing(n))

(* finish() leaves on every temporary, and on no other data node, the      *)
(* entry that holds it and a buffer size that its space fits in; data      *)
(* nodes of one entry agree on the declaration they will be given.         *)
Annotated ==
  phase = "done" =>
    /\ \A d \in Data : attrs[d].kind # "none" <=> IsTemp(d)
    /\ \A d \in Temps : size[d] <= attrs[d].size
    /\ \A d, e \in Temps : attrs[d].entry = attrs[e].entry => attrs[d] = attrs[e]

(* "search for a (non-live) entry", as find() says it does: the entry of a *)
(* live space is not handed out to another space (no assumption on the     *)
(* order of reads and writes).                                             *)
OnlyNonLiveTaken ==
  [][\A d \in Data :
       entry[d] = 0 /\ entry'[d] # 0 =>
         \A e \in Data : Live(e) => entry[e] # entry'[d]]_vars

(* The abstract promise: storage cells held by at most one space at a      *)
(* time.  A space holds its cell from the moment it gets an entry until    *)
(* the walk has left every computation that touches it.                    *)
Stage == [d \in Data |-> IF entry[d] = 0 THEN "unborn"
                        ELSE IF Live(d) THEN "held" ELSE "done"]

Storage == INSTANCE SharedStorage WITH
             Spaces <- Data, Cells <- Nat \ {0}, stage <- Stage, cell <- entry

ImplementsStorage == Storage!Spec
=============================================================================
