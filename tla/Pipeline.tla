------------------------------ MODULE Pipeline -------------------------------
(***************************************************************************)
(* The graph maker (GraphMaker in src/src/pdfg/GraphIL.hpp): the graphs a  *)
(* client builds by name, the passes it runs on them, the tables that all  *)
(* graphs share, and the code that is generated in the end.                *)
(*                                                                         *)
(* Which passes have run is kept in flags of the maker, not of a graph,    *)
(* and so are the shapes of the data spaces; what a pass leaves on a graph *)
(* is kept here together with the nodes it was computed for.  A node is    *)
(* the set of the statements fused into it.                                *)
(***************************************************************************)
EXTENDS Naturals, Sequences, Functions, SequencesExt

CONSTANTS
  Names,      (* names of graphs                                           *)
  Stmts,      (* computations                                              *)
  Spaces,     (* data spaces                                               *)
  Reads,      (* what a computation reads, and                             *)
  Writes,     (* writes                                                    *)
  Distant,    (* spaces it accesses at a distance (outputs: all that do)   *)
  MaxGraphs,  (* bound on the graphs ever made                             *)
  Rules       (* the rules the client keeps, see below                     *)

ASSUME AccessesAssumption ==
  /\ Reads \in [Stmts -> SUBSET Spaces] /\ Writes \in [Stmts -> SUBSET Spaces]
  /\ Distant \in [Stmts -> SUBSET Spaces]

VARIABLES
  heap,       (* the FlowGraph objects                                     *)
  flow,       (* _flowGraph, 0: none yet                                   *)
  graphs,     (* _graphs, 0: no entry                                      *)
  flags,      (* the passes that count as done                             *)
  spaces,     (* _spaces: the shapes of the data spaces                    *)
  checkpoints,(* _checkpoints, as far as _spaces                           *)
  sealed,     (* a pass was called since the last newGraph                 *)
  stage,      (* where the maker is: with the client or in transform()     *)
  code        (* what the last codegen() worked on                         *)

vars == << heap, flow, graphs, flags, spaces, checkpoints, sealed, stage, code >>

Passes == {"scheduled", "reduced", "allocated", "parallelized", "transformed"}

Shapes == [Spaces -> {"none", "whole", "contracted"}]

Undeclared == [x \in Spaces |-> "none"]

(* The nodes at the edges into, or out of, the data node of a space, in    *)
(* the order of the edges.                                                 *)
Ends == [Spaces -> Seq(SUBSET Stmts)]

(* nodes: computation nodes.  writers, readers: the ends of the edges.      *)
(* added: the statements the client added.                                 *)
(* sched: fused nodes whose schedules were replaced.  mem: the nodes entries *)
(* were assigned for.  size: shapes of the data nodes.  omp: "parallelized". *)
Graph ==
  [ name : Names, nodes : SUBSET SUBSET Stmts, writers : Ends, readers : Ends,
    added : SUBSET Stmts, sched : SUBSET SUBSET Stmts, mem : SUBSET SUBSET Stmts, size : Shapes,
    omp : BOOLEAN, alive : BOOLEAN ]

Code ==
  [ live : BOOLEAN, added : SUBSET Stmts, nodes : SUBSET SUBSET Stmts,
    sched : SUBSET SUBSET Stmts, mem : SUBSET SUBSET Stmts, size : Shapes,
    table : Shapes ]

NoCode ==
  [ live |-> TRUE, added |-> {}, nodes |-> {}, sched |-> {}, mem |-> {},
    size |-> Undeclared, table |-> Undeclared ]

(* The original graph and its fused variant have checkpoints of their own.  *)
Slots == Names \X {"", "_fuse"}

-----------------------------------------------------------------------------
Touches(s) == Reads[s] \union Writes[s]

Used(S) == UNION {Touches(s) : s \in S}

Fused(N) == {n \in N : \A s \in Stmts : n # {s}}

(* Mutant: the labels of the two ends are not compared.                   *)
Reducible_Counts(g, x) ==
  g.writers[x] # << >> /\ Len(g.writers[x]) = Len(g.readers[x])

(* As many edges out as in, and the i-th of either are at one node: that    *)
(* is, one node that writes and reads the space, or several that all do.   *)
Reducible(g, x) == g.writers[x] # << >> /\ g.writers[x] = g.readers[x]

(* DataReduceVisitor: the space is replaced in the table, and the data node *)
(* gets its size, by the accesses of the first producer.                   *)
Shrunk(g) ==
  {x \in Spaces : Reducible(g, x) /\ \A s \in Head(g.writers[x]) : x \notin Distant[s]}

Contract(shapes, S) == [x \in Spaces |-> IF x \in S THEN "contracted" ELSE shapes[x]]

(* ScheduleVisitor: fused nodes take their schedules from their iteration  *)
(* graphs; those of other nodes do not change.                             *)
Scheduled(g) == [g EXCEPT !.sched = Fused(g.nodes)]

Reduced(g) == [g EXCEPT !.size = Contract(g.size, Shrunk(g))]

Allocated(g) == [g EXCEPT !.mem = g.nodes]

Parallelized(g) == [g EXCEPT !.omp = TRUE]

-----------------------------------------------------------------------------
(* What the client sees to.                                                *)
(*   complete: no graph is changed after a pass was called.                *)
(*   current:  only the current graph is passed on, by name or not.        *)
(*   own:      no graph uses a space of another one.                       *)
(*   unfused:  only graphs that are not fused yet are transformed.         *)

MayChange == "complete" \in Rules => ~ sealed

Targets ==
  IF "current" \in Rules THEN {flow} \ {0}
  ELSE ({flow} \union {graphs[n] : n \in Names}) \ {0}

OwnSpaces(s) ==
  "own" \in Rules =>
    \A g \in DOMAIN heap : g # flow => Touches(s) \cap Used(heap[g].added) = {}

MayTransform(g) == "unfused" \in Rules => Fused(heap[g].nodes) = {}

-----------------------------------------------------------------------------
Init ==
  /\ heap = << >>
  /\ flow = 0
  /\ graphs = [n \in Names |-> 0]
  /\ flags = {}
  /\ spaces = Undeclared
  /\ checkpoints = [c \in Slots |-> Undeclared]
  /\ sealed = FALSE
  /\ stage = "client"
  /\ code = NoCode

Client == stage = "client"

NoEnds == [x \in Spaces |-> << >>]

Empty(n) ==
  [ name |-> n, nodes |-> {}, writers |-> NoEnds, readers |-> NoEnds, added |-> {}, sched |-> {}, mem |-> {},
    size |-> Undeclared, omp |-> FALSE, alive |-> TRUE ]

(* Mutant: the flags stay as they are.                                    *)
NewGraph_KeepsFlags(n) ==
  /\ Client /\ Len(heap) < MaxGraphs
  /\ heap' = Append(heap, Empty(n))
  /\ flow' = Len(heap) + 1
  /\ graphs' = [graphs EXCEPT ![n] = Len(heap) + 1]
  /\ sealed' = FALSE
  /\ UNCHANGED << flags, spaces, checkpoints, stage, code >>

(* newGraph(name): the passes of the last graph are forgotten, the tables  *)
(* are not.                                                                *)
NewGraph(n) ==
  /\ Client /\ Len(heap) < MaxGraphs
  /\ heap' = Append(heap, Empty(n))
  /\ flow' = Len(heap) + 1
  /\ graphs' = [graphs EXCEPT ![n] = Len(heap) + 1]
  /\ flags' = {}
  /\ sealed' = FALSE
  /\ UNCHANGED << spaces, checkpoints, stage, code >>

(* One more end for the spaces in X.                                       *)
MoreEnds(ends, X, n) == [x \in Spaces |-> IF x \in X THEN Append(ends[x], n) ELSE ends[x]]

(* The node of s, its edges, and sizes for the data nodes of its spaces.    *)
Extended(g, s, table) ==
  [g EXCEPT !.nodes = @ \union {{s}}, !.added = @ \union {s},
            !.writers = MoreEnds(@, Writes[s], {s}), !.readers = MoreEnds(@, Reads[s], {s}),
            !.size = [x \in Spaces |-> IF x \in Touches(s) THEN table[x] ELSE @[x]]]

(* A space is declared when it is first mentioned (addSpace), and addComp  *)
(* gives the data nodes the sizes of the table (getSize).                  *)
AddComp(s) ==
  /\ Client /\ flow # 0 /\ MayChange
  /\ s \notin heap[flow].added /\ OwnSpaces(s)
  /\ spaces' = [x \in Spaces |-> IF x \in Touches(s) /\ spaces[x] = "none"
                                   THEN "whole" ELSE spaces[x]]
  /\ heap' = [heap EXCEPT ![flow] = Extended(@, s, spaces')]
  /\ UNCHANGED << flow, graphs, flags, checkpoints, sealed, stage, code >>

(* FlowGraph::fuse: an edge of the second node is taken out, and added at   *)
(* the end for the first unless it has one to that space; then the first   *)
(* is called n + s.                                                        *)
MovedEnd(e, n, s) ==
  IF ~ Contains(e, {s}) THEN e
  ELSE IF Contains(e, n) THEN RemoveFirst(e, {s})
  ELSE Append(RemoveFirst(e, {s}), n)

JoinedEnds(ends, n, s) ==
  [x \in Spaces |-> ReplaceAll(MovedEnd(ends[x], n, s), n, n \union {s})]

Joined(g, n, s) ==
  [g EXCEPT !.nodes = (@ \ {n, {s}}) \union {n \union {s}},
            !.writers = JoinedEnds(@, n, s), !.readers = JoinedEnds(@, n, s)]

(* Mutant: the node is removed, but does not become a child.              *)
Fuse_LosesNode(n, s) ==
  /\ Client /\ flow # 0 /\ MayChange
  /\ n \in heap[flow].nodes /\ {s} \in heap[flow].nodes /\ s \notin n
  /\ heap' = [heap EXCEPT ![flow].nodes = @ \ {{s}}]
  /\ UNCHANGED << flow, graphs, flags, spaces, checkpoints, sealed, stage, code >>

(* Mutant: the node stays, too.                                           *)
Fuse_KeepsNode(n, s) ==
  /\ Client /\ flow # 0 /\ MayChange
  /\ n \in heap[flow].nodes /\ {s} \in heap[flow].nodes /\ s \notin n
  /\ heap' = [heap EXCEPT ![flow].nodes = (@ \ {n}) \union {n \union {s}}]
  /\ UNCHANGED << flow, graphs, flags, spaces, checkpoints, sealed, stage, code >>

(* fuse(...): a node of one statement becomes part of another node.        *)
Fuse(n, s) ==
  /\ Client /\ flow # 0 /\ MayChange
  /\ n \in heap[flow].nodes /\ {s} \in heap[flow].nodes /\ s \notin n
  /\ heap' = [heap EXCEPT ![flow] = Joined(@, n, s)]
  /\ UNCHANGED << flow, graphs, flags, spaces, checkpoints, sealed, stage, code >>

-----------------------------------------------------------------------------
(* Passes: nothing happens if the flag is set.                             *)

Reschedule(g) ==
  /\ Client /\ "scheduled" \notin flags
  /\ heap' = [heap EXCEPT ![g] = Scheduled(@)]
  /\ flags' = flags \union {"scheduled"}
  /\ sealed' = TRUE
  /\ UNCHANGED << flow, graphs, spaces, checkpoints, stage, code >>

Reduce(g) ==
  /\ Client /\ "reduced" \notin flags
  /\ heap' = [heap EXCEPT ![g] = Reduced(@)]
  /\ spaces' = Contract(spaces, Shrunk(heap[g]))
  /\ flags' = flags \union {"reduced"}
  /\ sealed' = TRUE
  /\ UNCHANGED << flow, graphs, checkpoints, stage, code >>

Allocate(g) ==
  /\ Client /\ "allocated" \notin flags
  /\ heap' = [heap EXCEPT ![g] = Allocated(@)]
  /\ flags' = flags \union {"allocated"}
  /\ sealed' = TRUE
  /\ UNCHANGED << flow, graphs, spaces, checkpoints, stage, code >>

Parallelize(g) ==
  /\ Client /\ "parallelized" \notin flags
  /\ heap' = [heap EXCEPT ![g] = Parallelized(@)]
  /\ flags' = flags \union {"parallelized"}
  /\ sealed' = TRUE
  /\ UNCHANGED << flow, graphs, spaces, checkpoints, stage, code >>

(* codegen(): schedules if need be, then walks the graph.                  *)
Codegen(g) ==
  /\ Client
  /\ heap' = IF "scheduled" \in flags THEN heap
             ELSE [heap EXCEPT ![g] = Scheduled(@)]
  /\ flags' = flags \union {"scheduled"}
  /\ sealed' = TRUE
  /\ code' = [ live |-> heap[g].alive, added |-> heap[g].added, nodes |-> heap[g].nodes,
               sched |-> heap'[g].sched, mem |-> heap[g].mem, size |-> heap[g].size,
               table |-> spaces ]
  /\ UNCHANGED << flow, graphs, spaces, checkpoints, stage >>

-----------------------------------------------------------------------------
(* transform(): the TransformVisitor fuses a copy, runs every pass on it    *)
(* and has it take the place of the current graph.                         *)

(* The nodes of a copy: only the statement a node began with is copied.    *)
Heads(N) ==
  {{{h[n]} : n \in N} : h \in {f \in [N -> Stmts] : \A n \in N : f[n] \in n}}

(* A copy of g, whose nodes have the statements of N left and all their     *)
(* edges, after fuse(): one node has the edges of all of them.             *)
FusedCopy(g, N) ==
  LET all(ends) == [x \in Spaces |-> IF ends[x] = << >> THEN << >> ELSE << UNION N >>]
  IN  [g EXCEPT !.nodes = {UNION N}, !.writers = all(@), !.readers = all(@)]

Variant == Len(heap)

(* generate(): checkpoint the tables, copy the graph and fuse the copy.    *)
Transform(g) ==
  /\ Client /\ "transformed" \notin flags
  /\ heap[g].nodes # {} /\ Len(heap) < MaxGraphs /\ MayTransform(g)
  /\ checkpoints' = [checkpoints EXCEPT ![<< heap[g].name, "" >>] = spaces]
  /\ \E N \in Heads(heap[g].nodes) :
       heap' = Append(heap, FusedCopy(heap[g], N))
  /\ sealed' = TRUE
  /\ stage' = "process"
  /\ UNCHANGED << flow, graphs, flags, spaces, code >>

(* Mutant: memory is assigned before the copy is fused.                   *)
ProcessVariant_AllocFirst ==
  /\ stage = "process"
  /\ heap' = [heap EXCEPT ![Variant] =
                [Parallelized(Reduced(Scheduled(@))) EXCEPT !.mem = {{s} : s \in heap[Variant].added}]]
  /\ spaces' = Contract(spaces, Shrunk(heap[Variant]))
  /\ stage' = "compare"
  /\ UNCHANGED << flow, graphs, flags, checkpoints, sealed, code >>

(* Mutant: the schedule is left to codegen().                             *)
ProcessVariant_NoSchedule ==
  /\ stage = "process"
  /\ heap' = [heap EXCEPT ![Variant] = Parallelized(Allocated(Reduced(@)))]
  /\ spaces' = Contract(spaces, Shrunk(heap[Variant]))
  /\ stage' = "compare"
  /\ UNCHANGED << flow, graphs, flags, checkpoints, sealed, code >>

(* process(): the passes, in this order.                                   *)
ProcessVariant ==
  /\ stage = "process"
  /\ heap' = [heap EXCEPT ![Variant] = Parallelized(Allocated(Reduced(Scheduled(@))))]
  /\ spaces' = Contract(spaces, Shrunk(heap[Variant]))
  /\ stage' = "compare"
  /\ UNCHANGED << flow, graphs, flags, checkpoints, sealed, code >>

(* Mutant: the tables are restored before they are checkpointed.          *)
KeepBest_RestoresFirst ==
  /\ stage = "compare"
  /\ spaces' = checkpoints[<< heap[Variant].name, "" >>]
  /\ checkpoints' = [checkpoints EXCEPT ![<< heap[Variant].name, "_fuse" >>] = spaces']
  /\ stage' = "finish"
  /\ UNCHANGED << heap, flow, graphs, flags, sealed, code >>

(* compare(): the variant, the only one, is the best; then the tables of   *)
(* the original graph are restored.                                        *)
KeepBest ==
  /\ stage = "compare"
  /\ checkpoints' = [checkpoints EXCEPT ![<< heap[Variant].name, "_fuse" >>] = spaces]
  /\ spaces' = checkpoints'[<< heap[Variant].name, "" >>]
  /\ stage' = "finish"
  /\ UNCHANGED << heap, flow, graphs, flags, sealed, code >>

(* finish(), and the end of transform(): the tables of the best graph come  *)
(* back, and it replaces the current graph, but not in _graphs.            *)
FinishTransform ==
  /\ stage = "finish"
  /\ spaces' = checkpoints[<< heap[Variant].name, "_fuse" >>]
  /\ heap' = [heap EXCEPT ![flow].alive = FALSE]
  /\ flow' = Variant
  /\ flags' = flags \union {"transformed", "scheduled"}
  /\ stage' = "client"
  /\ UNCHANGED << graphs, checkpoints, sealed, code >>

Next ==
  \/ \E n \in Names : NewGraph(n)
  \/ \E s \in Stmts : AddComp(s)
  \/ \E n \in SUBSET Stmts, s \in Stmts : Fuse(n, s)
  \/ \E g \in Targets : Reschedule(g)
  \/ \E g \in Targets : Reduce(g)
  \/ \E g \in Targets : Allocate(g)
  \/ \E g \in Targets : Parallelize(g)
  \/ \E g \in Targets : Codegen(g)
  \/ \E g \in Targets : Transform(g)
  \/ ProcessVariant
  \/ KeepBest
  \/ FinishTransform

(* transform() runs to its end once it was called; the client need not do   *)
(* anything.                                                               *)
Spec ==
  /\ Init /\ [][Next]_vars
  /\ WF_vars(ProcessVariant) /\ WF_vars(KeepBest) /\ WF_vars(FinishTransform)

-----------------------------------------------------------------------------
(* Properties.                                                             *)

Parted(g) ==
  /\ UNION g.nodes \subseteq g.added
  /\ \A m, n \in g.nodes : m # {} /\ (m = n \/ m \cap n = {})

(* Types; a statement is in one node of a graph at most, and transform()    *)
(* works on a graph that was made after the current one.                   *)
TypeOK ==
  /\ heap \in Seq(Graph)
  /\ \A g \in DOMAIN heap : Parted(heap[g])
  /\ flow \in 0..Len(heap)
  /\ flow = 0 => Len(heap) = 0
  /\ graphs \in [Names -> 0..Len(heap)]
  /\ flags \subseteq Passes
  /\ spaces \in Shapes
  /\ checkpoints \in [Slots -> Shapes]
  /\ sealed \in BOOLEAN
  /\ stage \in {"client", "process", "compare", "finish"}
  /\ stage # "client" => 0 < flow /\ flow < Len(heap)
  /\ code \in Code

(* "Run scheduling pass if needed": whatever passes ran before, on which   *)
(* graphs, the fused nodes that are emitted run by the schedules of their   *)
(* iteration graphs, not by those their statements had on their own.       *)
CodeScheduled == Fused(code.nodes) \subseteq code.sched

(* The code is generated from a graph that still exists, and holds every    *)
(* statement the client added to it: neither fusing, nor the copy and the   *)
(* exchange of graphs in transform(), loses one.                           *)
CodeComplete == code.live /\ UNION code.nodes = code.added

(* A buffer is declared with the size of the data node, and indexed by the  *)
(* table that all graphs share: the two agree, through checkpoints and      *)
(* restores and newer graphs, or the code would index past a scalar.       *)
CodeMapped == \A x \in Used(code.added) : code.size[x] = code.table[x]

(* What contraction relies on: one node of the code uses a scalar, and no   *)
(* other one needs values that are overwritten when it runs.  The labels    *)
(* that DataReduceVisitor compares do not make sure of it: two nodes that   *)
(* both add to a space pass.  It holds where spaces have one writer.        *)
ContractedPrivately ==
  \A x \in Used(code.added) :
    code.table[x] = "contracted" =>
      \A m, n \in code.nodes : x \in Used(m) /\ x \in Used(n) => m = n

(* What the labels at the edges do make sure of, through fusions that move *)
(* edges, newer graphs, checkpoints and restores: all nodes of the code    *)
(* that use a scalar write it and read it, so that none of them is there   *)
(* to fill an array for others, or to read what others filled.             *)
ContractedInPlace ==
  \A x \in Used(code.added) :
    code.table[x] = "contracted" =>
      \A n \in code.nodes :
        x \in Used(n) => (\E s \in n : x \in Writes[s]) /\ (\E s \in n : x \in Reads[s])

(* Buffers are shared for the nodes that are emitted, in the loops they     *)
(* share, not for those before a fusion.                                   *)
MemoryOfCode == code.mem \in {{}, code.nodes}

(* transform() gives the control back to the client, with a graph that is   *)
(* scheduled.                                                              *)
TransformReturns ==
  stage # "client" ~> /\ Client /\ flow # 0
                      /\ Fused(heap[flow].nodes) \subseteq heap[flow].sched
=============================================================================
