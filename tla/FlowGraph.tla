----------------------------- MODULE FlowGraph ------------------------------
(***************************************************************************)
(* The dataflow graph (src/src/pdfg/FlowGraph.hpp): how GraphMaker builds  *)
(* it one computation at a time, and how computations are fused.           *)
(*                                                                         *)
(* A node is named by the symbol table key it was created under.  Its      *)
(* label changes when other nodes are fused into it ("a" becomes "a+b"),   *)
(* and the graph compares nodes by label and looks them up by key or,      *)
(* failing that, by a substring of the label.                              *)
(*                                                                         *)
(* Computations are numbered in the order in which the symbol table, a     *)
(* sorted map, lists their names.  No name is a substring of another one.  *)
(* What fuse() does to the loops (updateIterGraph) is not in this module.  *)
(***************************************************************************)
EXTENDS Naturals, Sequences, FiniteSets, Functions

CONSTANTS
  NComps,     (* number of computations a client may define                *)
  Data,       (* data spaces                                               *)
  Accesses    (* the access sets of a statement (bounds the model)         *)

Comps == 1..NComps

ASSUME NCompsAssumption == NComps \in Nat
ASSUME AccessesAssumption == Accesses \subseteq SUBSET Data
ASSUME NamesAssumption == Data \cap Comps = {}

None == 0

VARIABLES
  rank,       (* when the node of a computation was pushed, 0: not yet     *)
  nodes,      (* computation nodes in _nodes, in the order of their ranks  *)
  keys,       (* computation names in _symtable                            *)
  label,      (* the names a label is made of, << a, b >> for "a+b"        *)
  children,   (* _children of a node                                       *)
  edges,      (* _edges: <<data, comp>> and <<comp, data>> pairs           *)
  childProds, (* _child_prods: the node last fused that writes a space     *)
  reads,      (* what the statement of a computation reads, and            *)
  writes,     (* writes                                                    *)
  fused       (* the client is done building and has started to fuse       *)

vars == << rank, nodes, keys, label, children, edges, childProds, reads, writes, fused >>

Defined == {c \in Comps : rank[c] > 0}

-----------------------------------------------------------------------------
(* Queries.                                                                *)

(* in_edges and out_edges of a computation node compare labels.            *)
InEdges(n)  == {e \in edges : e[2] \in Comps /\ label[e[2]] = label[n]}
OutEdges(n) == {e \in edges : e[1] \in Comps /\ label[e[1]] = label[n]}

Inputs(n)  == {e[1] : e \in InEdges(n)}
Outputs(n) == {e[2] : e \in OutEdges(n)}

(* A data node without incoming (outgoing) edges is an input (output) of   *)
(* the generated function, any other one is a local temporary.             *)
IsSource(d) == ~ \E e \in edges : e[2] = d
IsSink(d)   == ~ \E e \in edges : e[1] = d

(* get(name): the node under that key, else the first in key order whose   *)
(* label contains the name, else null.                                     *)
Matches(c) == {k \in keys : c \in Range(label[k])}

(* Mutant: no fallback to labels.                                          *)
Get_NoFallback(c) == IF c \in keys THEN c ELSE None

Get(c) ==
  IF c \in keys THEN c
  ELSE IF Matches(c) = {} THEN None
  ELSE CHOOSE k \in Matches(c) : \A j \in Matches(c) : k <= j

(* Mutant: the children first.                                             *)
Emits_ChildrenFirst(n) == children[n] \o << n >>

(* The statements the code generator emits for a node: its own and those   *)
(* of its children, one level deep.                                        *)
Emits(n) == << n >> \o children[n]

(* getProducers(prev, curr): for every space curr reads and prev writes,   *)
(* the child recorded for the space, else prev itself.                     *)
Producers(prev, curr) ==
  {IF childProds[d] # None THEN childProds[d] ELSE prev :
     d \in {x \in Inputs(curr) : << prev, x >> \in edges}}

-----------------------------------------------------------------------------
Init ==
  /\ rank = [c \in Comps |-> 0]
  /\ nodes = {}
  /\ keys = {}
  /\ label = [c \in Comps |-> << >>]
  /\ children = [c \in Comps |-> << >>]
  /\ edges = {}
  /\ childProds = [d \in Data |-> None]
  /\ reads = [c \in Comps |-> {}]
  /\ writes = [c \in Comps |-> {}]
  /\ fused = FALSE

(* GraphMaker::addComp: the node is made on first use; a later call for    *)
(* the same computation (its statement has grown) only adds edges.         *)
AddComp(c, R, W) ==
  /\ ~ fused
  /\ IF c \in keys
       THEN UNCHANGED << rank, nodes, keys, label >>
       ELSE /\ rank' = [rank EXCEPT ![c] = Cardinality(Defined) + 1]
            /\ nodes' = nodes \union {c}
            /\ keys' = keys \union {c}
            /\ label' = [label EXCEPT ![c] = << c >>]
  /\ edges' = edges \union ((R \X {c}) \union ({c} \X W))
  /\ reads'  = [reads EXCEPT ![c] = @ \union R]
  /\ writes' = [writes EXCEPT ![c] = @ \union W]
  /\ UNCHANGED << children, childProds, fused >>

(* Mutant: incoming edges stay at next.                                    *)
MoveEdges_KeepsReads(first, next) ==
  edges' = (edges \ OutEdges(next)) \union ({first} \X Outputs(next))

(* Mutant: outgoing edges are removed and not added again.                 *)
MoveEdges_DropsWrites(first, next) ==
  edges' = (edges \ (InEdges(next) \union OutEdges(next))) \union (Inputs(next) \X {first})

(* The edges of next become edges of first.                                *)
MoveEdges(first, next) ==
  edges' = (edges \ (InEdges(next) \union OutEdges(next)))
             \union ((Inputs(next) \X {first}) \union ({first} \X Outputs(next)))

(* Mutant: the wrong end of the edge is recorded.                          *)
RecordProducers_Dest(next) ==
  childProds' = [d \in Data |-> IF d \in Outputs(next) THEN d ELSE childProds[d]]

(* Mutant: nothing is recorded.                                            *)
RecordProducers_Never(next) == UNCHANGED childProds

(* _child_prods: next is the producer of what it writes from now on.       *)
RecordProducers(next) ==
  childProds' = [d \in Data |-> IF d \in Outputs(next) THEN next ELSE childProds[d]]

(* Mutant: only the symbol table forgets the node.                         *)
RemoveNode_KeyOnly(n) == keys' = keys \ {n} /\ UNCHANGED nodes

(* remove(node) erases the node if its label is a key of the symbol table. *)
RemoveNode(n) ==
  IF \E k \in keys : label[n] = << k >>
    THEN /\ nodes' = nodes \ {n}
         /\ keys' = keys \ {n}
    ELSE UNCHANGED << nodes, keys >>

(* fuse(lhs, rhs) once the two nodes are found: first takes the edges, the *)
(* label and the statement of next, and next leaves the graph.             *)
FuseNodes(first, next) ==
  /\ MoveEdges(first, next)
  /\ RecordProducers(next)
  /\ label' = [label EXCEPT ![first] = label[first] \o label[next]]
  /\ children' = [children EXCEPT ![first] = Append(children[first], next)]
  /\ RemoveNode(next)
  /\ fused' = TRUE
  /\ UNCHANGED << rank, reads, writes >>

(* Mutant: the first node is fused into the second.                        *)
Fuse_Swapped(l, r) ==
  /\ Get(l) # None
  /\ Get(r) # None
  /\ Get(l) \notin Range(label[Get(r)])
  /\ FuseNodes(Get(r), Get(l))

(* One fusion of the client, by name: fuse("l", "r").  Fusing a node into  *)
(* its own group is left out: the code would go on to walk the children of *)
(* a node that is its own child for ever.  fuse({a, b, c}) and fuse() are  *)
(* sequences of such fusions into the same first node.                     *)
Fuse(l, r) ==
  /\ Get(l) # None
  /\ Get(r) # None
  /\ Get(l) \notin Range(label[Get(r)])
  /\ FuseNodes(Get(l), Get(r))

Next ==
  \/ \E c \in Comps, R, W \in Accesses : AddComp(c, R, W)
  \/ \E l, r \in Comps : Fuse(l, r)

Spec == Init /\ [][Next]_vars

-----------------------------------------------------------------------------
(* What clients of fuse() have to see to.                                  *)

(* Nothing was fused into what is named second.                            *)
Flat(r) == r \in keys /\ children[r] = << >>

(* Two statements whose order matters.                                     *)
Conflict(a, b) ==
  \/ writes[a] \cap (reads[b] \union writes[b]) # {}
  \/ writes[b] \cap reads[a] # {}

(* Fusing pulls next up to the place of first, so it has to come later and *)
(* no statement emitted in between may conflict with it.                   *)
Movable(first, next) ==
  /\ rank[first] < rank[next]
  /\ \A n \in nodes : rank[first] < rank[n] /\ rank[n] < rank[next] =>
       \A s \in Range(Emits(n)) : ~ Conflict(s, next)

FlatNext ==
  \/ \E c \in Comps, R, W \in Accesses : AddComp(c, R, W)
  \/ \E l, r \in Comps : Flat(r) /\ Fuse(l, r)

FlatSpec == Init /\ [][FlatNext]_vars

OrderedNext ==
  \/ \E c \in Comps, R, W \in Accesses : AddComp(c, R, W)
  \/ \E l, r \in Comps : Get(l) # None /\ Flat(r) /\ Movable(Get(l), r) /\ Fuse(l, r)

OrderedSpec == Init /\ [][OrderedNext]_vars

-----------------------------------------------------------------------------
(* Properties.                                                             *)

(* The variables have their types.                                         *)
TypeOK ==
  /\ rank \in [Comps -> Nat]
  /\ nodes \subseteq Comps
  /\ keys \subseteq Comps
  /\ label \in [Comps -> Seq(Comps)]
  /\ children \in [Comps -> Seq(Comps)]
  /\ edges \subseteq (Data \X Comps) \union (Comps \X Data)
  /\ childProds \in [Data -> Comps \union {None}]
  /\ reads \in [Comps -> SUBSET Data]
  /\ writes \in [Comps -> SUBSET Data]
  /\ fused \in BOOLEAN

(* However the client fuses, every statement it wrote is emitted by one    *)
(* node only and only once: moving nodes between _nodes and _children      *)
(* neither drops a statement nor generates it twice.                       *)
StatementsOnce ==
  \A c \in Defined :
    \E n \in nodes : \E i \in DOMAIN Emits(n) :
      \A m \in nodes : \A j \in DOMAIN Emits(m) :
        Emits(m)[j] = c <=> m = n /\ j = i

(* The edges of a node are what its statements read and write, after any   *)
(* sequence of fusions: the code generator and the memory allocator, which *)
(* only look at edges, see every access.                                   *)
EdgesMatchStatements ==
  edges = UNION {UNION {(reads[s] \X {n}) \union ({n} \X writes[s]) :
                          s \in Range(Emits(n))} : n \in nodes}

(* A name that was fused away still leads to the node that emits its       *)
(* statement, through the substring fallback of get(): this is what lets   *)
(* fuse(a, b, c) call fuse(a, b) and then fuse(b, c).                      *)
LookupFindsHome ==
  \A c \in Defined : Get(c) \in nodes /\ c \in Range(Emits(Get(c)))

(* What updateIterGraph takes for the producers of a node that it places   *)
(* into the loops of prev are the statements of prev that write something  *)
(* the node reads, all of them and no other, when every space is written   *)
(* by one computation.                                                     *)
SingleAssignment ==
  \A a, b \in Defined : writes[a] \cap writes[b] # {} => a = b

ProducersExact ==
  SingleAssignment =>
    \A prev \in nodes : \A curr \in nodes \ {prev} :
      Producers(prev, curr) =
        {s \in Range(Emits(prev)) : writes[s] \cap Inputs(curr) # {}}

(* The same for any client, as the comment in getProducers has it: the     *)
(* producer found is prev or a child of prev.                              *)
ProducersAreChildren ==
  \A prev \in nodes : \A curr \in nodes \ {prev} :
    Producers(prev, curr) \subseteq Range(Emits(prev))

(* What fuse() reports as removed is gone from the graph.                  *)
FusedNodesRemoved ==
  \A n \in Comps : \A i \in DOMAIN children[n] : children[n][i] \notin nodes

(* Fusing does not change the signature of the generated function: what is *)
(* a source or a sink of the graph stays one, and nothing else becomes one.*)
SignatureKept ==
  [][fused' => \A d \in Data : /\ IsSource(d)' = IsSource(d)
                               /\ IsSink(d)' = IsSink(d)]_vars

(* Statement a is handed to the code generator before statement b.         *)
EmittedBefore(a, b) ==
  \E m, n \in nodes : \E i \in DOMAIN Emits(m), j \in DOMAIN Emits(n) :
    /\ Emits(m)[i] = a
    /\ Emits(n)[j] = b
    /\ rank[m] < rank[n] \/ (m = n /\ i < j)

(* Clients that only pull statements over others they do not conflict with *)
(* keep the program order of every pair of conflicting statements, however *)
(* many fusions they make.                                                 *)
OrderKept ==
  \A a, b \in Defined : rank[a] < rank[b] /\ Conflict(a, b) => EmittedBefore(a, b)

(* And more than that: what reaches the code generator is the program of   *)
(* such a client after code motion.  Each fusion takes one statement to    *)
(* the front, over none that it conflicts with, and all others stay where  *)
(* they are.                                                               *)
RunsBefore == {p \in Defined \X Defined : EmittedBefore(p[1], p[2])}

Motion == INSTANCE CodeMotion WITH
            Stmts <- Comps, code <- Defined, before <- RunsBefore, moving <- fused

ImplementsMotion == Motion!Spec
=============================================================================
