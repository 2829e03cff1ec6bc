-------------------------- MODULE FlowGraphProofs ---------------------------
(***************************************************************************)
(* Proofs about FlowGraph, for every number of computations and every set  *)
(* of data spaces and accesses.                                            *)
(***************************************************************************)
EXTENDS FlowGraph, TLAPS, FiniteSetTheorems

(* The types, before anything is known about what nodes hold.              *)
Shape ==
  /\ TypeOK
  /\ keys = nodes
  /\ nodes \subseteq Defined

(* While the client is building, every computation has a node of its own.  *)
Building ==
  ~ fused => /\ nodes = Defined
             /\ \A c \in Comps : children[c] = << >>
             /\ \A d \in Data : childProds[d] = None

(* The label of a node lists what it emits; an absorbed or undefined       *)
(* computation has no children.                                            *)
LabelInv ==
  /\ \A n \in nodes : label[n] = Emits(n)
  /\ \A n \in Comps \ nodes : children[n] = << >>

(* Every defined computation has a place among the emitted statements,     *)
(* nothing else has one, and no two places hold the same statement.        *)
Distinct ==
  \A m, n \in nodes : \A i \in DOMAIN Emits(m), j \in DOMAIN Emits(n) :
    Emits(m)[i] = Emits(n)[j] => m = n /\ i = j

Covered ==
  /\ \A c \in Defined : \E n \in nodes : c \in Range(Emits(n))
  /\ \A n \in nodes : Range(Emits(n)) \subseteq Defined

(* EdgesMatchStatements, edge by edge.                                     *)
EdgeInv ==
  \A d \in Data, n \in Comps :
    /\ << d, n >> \in edges <=> n \in nodes /\ \E s \in Range(Emits(n)) : d \in reads[s]
    /\ << n, d >> \in edges <=> n \in nodes /\ \E s \in Range(Emits(n)) : d \in writes[s]

(* A recorded producer writes the space and is a child of some node; a     *)
(* space no producer is recorded for is written by no child.               *)
ChildProdInv ==
  \A d \in Data :
    /\ childProds[d] # None =>
         d \in writes[childProds[d]] /\ \E n \in nodes : childProds[d] \in Range(children[n])
    /\ childProds[d] = None =>
         \A n \in nodes : \A s \in Range(children[n]) : d \notin writes[s]

(* Ranks number the defined computations.                                  *)
RankInv ==
  /\ \A c \in Defined : rank[c] <= Cardinality(Defined)
  /\ \A c, e \in Defined : rank[c] = rank[e] => c = e

(* A computation that is not defined has no statement.                     *)
UndefInv ==
  \A c \in Comps \ Defined : reads[c] = {} /\ writes[c] = {}

FlatInv ==
  /\ Shape
  /\ UndefInv
  /\ Building
  /\ LabelInv
  /\ Distinct
  /\ Covered
  /\ EdgeInv
  /\ ChildProdInv
  /\ RankInv

-----------------------------------------------------------------------------
(* The statements of a node: itself first, then its children.              *)
LEMMA EmitsShape ==
  ASSUME NEW n \in Comps, children[n] \in Seq(Comps)
  PROVE  /\ Emits(n) \in Seq(Comps)
         /\ Len(Emits(n)) = Len(children[n]) + 1
         /\ DOMAIN Emits(n) = 1..(Len(children[n]) + 1)
         /\ Emits(n)[1] = n
         /\ \A i \in 1..Len(children[n]) : Emits(n)[i + 1] = children[n][i]
         /\ Range(Emits(n)) = {n} \union Range(children[n])
         /\ children[n] = << >> => Emits(n) = << n >> /\ Range(Emits(n)) = {n}
<1>1. /\ << n >> \in Seq(Comps) /\ Len(<< n >>) = 1 /\ << n >>[1] = n
  OBVIOUS
<1>2. Emits(n) \in Seq(Comps) /\ Len(Emits(n)) = Len(children[n]) + 1
  BY <1>1 DEF Emits
<1>3. DOMAIN Emits(n) = 1..(Len(children[n]) + 1)
  BY <1>2
<1>4. Emits(n)[1] = n
  BY <1>1 DEF Emits
<1>5. \A i \in 1..Len(children[n]) : Emits(n)[i + 1] = children[n][i]
  BY <1>1 DEF Emits
<1>6. Range(Emits(n)) = {n} \union Range(children[n])
  <2>1. ASSUME NEW s \in Range(Emits(n))
        PROVE  s \in {n} \union Range(children[n])
    <3>1. PICK i \in 1..(Len(children[n]) + 1) : s = Emits(n)[i]
      BY <1>3 DEF Range
    <3>2. CASE i = 1
      BY <3>1, <3>2, <1>4
    <3>3. CASE i # 1
      <4>1. i - 1 \in 1..Len(children[n]) /\ i = (i - 1) + 1
        BY <3>3
      <4>2. s = children[n][i - 1]
        BY <4>1, <3>1, <1>5
      <4>3. QED
        BY <4>1, <4>2 DEF Range
    <3>4. QED
      BY <3>2, <3>3
  <2>2. n \in Range(Emits(n))
    BY <1>3, <1>4 DEF Range
  <2>3. ASSUME NEW s \in Range(children[n])
        PROVE  s \in Range(Emits(n))
    <3>1. PICK i \in 1..Len(children[n]) : s = children[n][i]
      BY DEF Range
    <3>2. i + 1 \in DOMAIN Emits(n) /\ Emits(n)[i + 1] = s
      BY <3>1, <1>3, <1>5
    <3>3. QED
      BY <3>2 DEF Range
  <2>4. QED
    BY <2>1, <2>2, <2>3
<1>7. children[n] = << >> => Emits(n) = << n >> /\ Range(Emits(n)) = {n}
  <2>1. SUFFICES ASSUME children[n] = << >>
                 PROVE  Emits(n) = << n >> /\ Range(children[n]) = {}
    BY <1>6
  <2>2. Emits(n) = << n >>
    BY <2>1, <1>2, <1>4
  <2>3. Range(children[n]) = {}
    BY <2>1 DEF Range
  <2>4. QED
    BY <2>2, <2>3
<1>8. QED
  BY <1>2, <1>3, <1>4, <1>5, <1>6, <1>7

(* Two nodes with one label are the same node.                             *)
LEMMA LabelsDiffer ==
  ASSUME Shape, LabelInv, NEW m \in nodes, NEW n \in nodes, label[m] = label[n]
  PROVE  m = n
<1>1. m \in Comps /\ n \in Comps /\ children[m] \in Seq(Comps) /\ children[n] \in Seq(Comps)
  BY DEF Shape, TypeOK
<1>2. Emits(m)[1] = m /\ Emits(n)[1] = n
  BY <1>1, EmitsShape
<1>3. QED
  BY <1>2 DEF LabelInv

(* get() finds the node that emits the statement, if there is one.         *)
LEMMA GetFinds ==
  ASSUME FlatInv, NEW c \in Comps, Get(c) # None
  PROVE  Get(c) \in nodes /\ c \in Range(Emits(Get(c)))
<1>0. nodes \subseteq Comps /\ keys = nodes /\ \A n \in nodes : children[n] \in Seq(Comps)
  BY DEF FlatInv, Shape, TypeOK
<1>1. CASE c \in keys
  <2>1. Get(c) = c
    BY <1>1 DEF Get
  <2>2. QED
    BY <2>1, <1>0, <1>1, EmitsShape
<1>2. CASE c \notin keys
  <2>1. Matches(c) # {}
    BY <1>2 DEF Get
  <2>2. PICK k \in nodes : k \in Matches(c) /\ c \in Range(Emits(k))
    BY <2>1, <1>0 DEF Matches, FlatInv, LabelInv
  <2>3. \A j \in Matches(c) : j = k
    BY <2>2, <1>0 DEF Matches, FlatInv, LabelInv, Distinct, Range
  <2>4. k \in Nat
    BY <1>0 DEF Comps
  <2>5. \A j \in Matches(c) : k <= j
    BY <2>3, <2>4
  <2>6. Get(c) = CHOOSE m \in Matches(c) : \A j \in Matches(c) : m <= j
    BY <1>2, <2>1 DEF Get
  <2>7. Get(c) \in Matches(c)
    BY <2>2, <2>5, <2>6
  <2>8. QED
    BY <2>2, <2>3, <2>7
<1>3. QED
  BY <1>1, <1>2

(* Conversely, get() finds a node for every computation with a statement.  *)
LEMMA GetDefined ==
  ASSUME FlatInv, NEW c \in Defined
  PROVE  Get(c) # None
<1>0. /\ nodes \subseteq Comps /\ keys = nodes /\ c \in Comps
      /\ \A k \in nodes : k # None
  BY DEF FlatInv, Shape, TypeOK, Defined, Comps, None
<1>1. CASE c \in keys
  BY <1>1, <1>0 DEF Get
<1>2. CASE c \notin keys
  <2>1. PICK k \in nodes : c \in Range(Emits(k))
    BY DEF FlatInv, Covered
  <2>2. k \in Matches(c)
    BY <2>1, <1>0 DEF Matches, FlatInv, LabelInv
  <2>3. \A j \in Matches(c) : j = k
    BY <2>1, <1>0 DEF Matches, FlatInv, LabelInv, Distinct, Range
  <2>4. k \in Nat
    BY <1>0 DEF Comps
  <2>5. \A j \in Matches(c) : k <= j
    BY <2>3, <2>4
  <2>6. Get(c) = CHOOSE m \in Matches(c) : \A j \in Matches(c) : m <= j
    BY <1>2, <2>2 DEF Get
  <2>7. Get(c) \in Matches(c)
    BY <2>2, <2>5, <2>6
  <2>8. QED
    BY <2>3, <2>7, <1>0
<1>3. QED
  BY <1>1, <1>2

-----------------------------------------------------------------------------
(* Edges.                                                                  *)

(* Comparing labels picks the edges of the node itself.                    *)
LEMMA NodeEdges ==
  ASSUME FlatInv, NEW n \in nodes
  PROVE  /\ InEdges(n) = edges \cap (Data \X {n})
         /\ OutEdges(n) = edges \cap ({n} \X Data)
         /\ Inputs(n) = {d \in Data : << d, n >> \in edges}
         /\ Outputs(n) = {d \in Data : << n, d >> \in edges}
<1>0. /\ edges \subseteq (Data \X Comps) \union (Comps \X Data)
      /\ nodes \subseteq Comps
  BY DEF FlatInv, Shape, TypeOK
<1>1. ASSUME NEW e \in InEdges(n)
      PROVE  e \in edges \cap (Data \X {n})
  <2>1. e \in edges /\ e[2] \in Comps /\ label[e[2]] = label[n]
    BY DEF InEdges
  <2>2. PICK d \in Data, m \in Comps : e = << d, m >>
    BY <2>1, <1>0, NamesAssumption
  <2>3. m \in nodes
    BY <2>1, <2>2 DEF FlatInv, EdgeInv
  <2>4. m = n
    BY <2>1, <2>2, <2>3, LabelsDiffer DEF FlatInv
  <2>5. QED
    BY <2>1, <2>2, <2>4
<1>2. ASSUME NEW e \in OutEdges(n)
      PROVE  e \in edges \cap ({n} \X Data)
  <2>1. e \in edges /\ e[1] \in Comps /\ label[e[1]] = label[n]
    BY DEF OutEdges
  <2>2. PICK d \in Data, m \in Comps : e = << m, d >>
    BY <2>1, <1>0, NamesAssumption
  <2>3. m \in nodes
    BY <2>1, <2>2 DEF FlatInv, EdgeInv
  <2>4. m = n
    BY <2>1, <2>2, <2>3, LabelsDiffer DEF FlatInv
  <2>5. QED
    BY <2>1, <2>2, <2>4
<1>3. InEdges(n) = edges \cap (Data \X {n})
  BY <1>0, <1>1 DEF InEdges
<1>4. OutEdges(n) = edges \cap ({n} \X Data)
  BY <1>0, <1>2 DEF OutEdges
<1>5. Inputs(n) = {d \in Data : << d, n >> \in edges}
  BY <1>3 DEF Inputs
<1>6. Outputs(n) = {d \in Data : << n, d >> \in edges}
  BY <1>4 DEF Outputs
<1>7. QED
  BY <1>3, <1>4, <1>5, <1>6

-----------------------------------------------------------------------------
(* What one fusion does, for a client that keeps to flat nodes: r leaves   *)
(* the graph and node f takes over its edges.                              *)
FuseEffect(f, r) ==
  /\ f \in nodes /\ r \in nodes /\ f # r
  /\ children[r] = << >> /\ Emits(r) = << r >>
  /\ nodes' = nodes \ {r} /\ keys' = nodes' /\ fused'
  /\ UNCHANGED << rank, reads, writes >>
  /\ children' = [children EXCEPT ![f] = Append(children[f], r)]
  /\ label' = [label EXCEPT ![f] = label[f] \o << r >>]
  /\ edges' \subseteq (Data \X Comps) \union (Comps \X Data)
  /\ \A d \in Data, n \in Comps :
       /\ << d, n >> \in edges' <=> \/ n # r /\ << d, n >> \in edges
                                    \/ n = f /\ << d, r >> \in edges
       /\ << n, d >> \in edges' <=> \/ n # r /\ << n, d >> \in edges
                                    \/ n = f /\ << r, d >> \in edges
  /\ childProds' = [d \in Data |-> IF << r, d >> \in edges
                                      THEN r ELSE childProds[d]]

(* A flat fusion, in terms of the variables: r leaves the graph and its    *)
(* edges, name and statement go to f.                                      *)
LEMMA FuseFacts ==
  ASSUME FlatInv, NEW l \in Comps, NEW r \in Comps, Flat(r), Fuse(l, r),
         NEW f, f = Get(l)
  PROVE  FuseEffect(f, r)
<1>0. keys = nodes /\ nodes \subseteq Comps /\ children[r] \in Seq(Comps)
  BY DEF FlatInv, Shape, TypeOK
<1>1. f \in nodes
  BY GetFinds DEF Fuse
<1>2. r \in nodes /\ children[r] = << >> /\ Get(r) = r
  BY <1>0 DEF Flat, Get
<1>3. Emits(r) = << r >> /\ Range(Emits(r)) = {r}
  BY <1>0, <1>2, EmitsShape
<1>4. label[r] = << r >>
  BY <1>2, <1>3 DEF FlatInv, LabelInv
<1>5. f # r
  BY <1>2, <1>3, <1>4 DEF Fuse
<1>6. FuseNodes(f, r)
  BY <1>2 DEF Fuse
<1>7. \E k \in keys : label[r] = << k >>
  BY <1>0, <1>2, <1>4
<1>8. nodes' = nodes \ {r} /\ keys' = nodes' /\ fused'
  BY <1>0, <1>6, <1>7 DEF FuseNodes, RemoveNode
<1>9. /\ UNCHANGED << rank, reads, writes >>
      /\ children' = [children EXCEPT ![f] = Append(children[f], r)]
      /\ label' = [label EXCEPT ![f] = label[f] \o << r >>]
  BY <1>4, <1>6 DEF FuseNodes
<1>10. /\ edges' \subseteq (Data \X Comps) \union (Comps \X Data)
       /\ \A d \in Data, n \in Comps :
            /\ << d, n >> \in edges' <=> \/ n # r /\ << d, n >> \in edges
                                         \/ n = f /\ << d, r >> \in edges
            /\ << n, d >> \in edges' <=> \/ n # r /\ << n, d >> \in edges
                                         \/ n = f /\ << r, d >> \in edges
  <2>1. /\ InEdges(r) = edges \cap (Data \X {r})
        /\ OutEdges(r) = edges \cap ({r} \X Data)
        /\ Inputs(r) = {d \in Data : << d, r >> \in edges}
        /\ Outputs(r) = {d \in Data : << r, d >> \in edges}
    BY <1>2, NodeEdges
  <2>2. edges' = (edges \ (InEdges(r) \union OutEdges(r)))
                   \union ((Inputs(r) \X {f}) \union ({f} \X Outputs(r)))
    BY <1>6 DEF FuseNodes, MoveEdges
  <2>3. edges \subseteq (Data \X Comps) \union (Comps \X Data) /\ f \in Comps
    BY <1>0, <1>1 DEF FlatInv, Shape, TypeOK
  <2>4. edges' \subseteq (Data \X Comps) \union (Comps \X Data)
    BY <2>1, <2>2, <2>3
  <2>5. ASSUME NEW d \in Data, NEW n \in Comps
        PROVE  /\ << d, n >> \in edges' <=> \/ n # r /\ << d, n >> \in edges
                                            \/ n = f /\ << d, r >> \in edges
               /\ << n, d >> \in edges' <=> \/ n # r /\ << n, d >> \in edges
                                            \/ n = f /\ << r, d >> \in edges
    <3>1. d # r /\ d # n /\ d # f
      BY <2>3, NamesAssumption
    <3>2. QED
      BY <2>1, <2>2, <3>1
  <2>6. QED
    BY <2>4, <2>5
<1>11. childProds' = [d \in Data |-> IF << r, d >> \in edges THEN r ELSE childProds[d]]
  <2>1. \A d \in Data : d \in Outputs(r) <=> << r, d >> \in edges
    BY <1>2, NodeEdges
  <2>2. QED
    BY <1>6, <2>1 DEF FuseNodes, RecordProducers
<1>12. QED
  BY <1>1, <1>2, <1>3, <1>5, <1>8, <1>9, <1>10, <1>11 DEF FuseEffect

(* What it does to the statements of the nodes: r moves to the end of f.   *)
EmitEffect(f, r) ==
  /\ children' \in [Comps -> Seq(Comps)]
  /\ \A n \in Comps \ {f} : children'[n] = children[n] /\ Emits(n)' = Emits(n)
  /\ Range(children[f])' = Range(children[f]) \union {r}
  /\ Emits(f)' = Append(Emits(f), r)
  /\ DOMAIN Emits(f)' = DOMAIN Emits(f) \union {Len(Emits(f)) + 1}
  /\ \A i \in DOMAIN Emits(f) :
       Emits(f)'[i] = Emits(f)[i] /\ i < Len(Emits(f)) + 1
  /\ Emits(f)'[Len(Emits(f)) + 1] = r
  /\ Range(Emits(f))' = Range(Emits(f)) \union {r}

(* What the nodes emit after a fusion: f emits r last, the other nodes what *)
(* they emitted before.                                                    *)
LEMMA FuseEmits ==
  ASSUME TypeOK, NEW f \in nodes, NEW r \in Comps, FuseEffect(f, r)
  PROVE  EmitEffect(f, r)
<1>0. /\ f \in nodes /\ f \in Comps /\ children \in [Comps -> Seq(Comps)]
      /\ children' = [children EXCEPT ![f] = Append(children[f], r)]
  BY DEF FuseEffect, TypeOK
<1>1. children' \in [Comps -> Seq(Comps)]
  BY <1>0
<1>2. \A n \in Comps \ {f} : children'[n] = children[n] /\ Emits(n)' = Emits(n)
  BY <1>0 DEF Emits
<1>3. children'[f] = Append(children[f], r) /\ children[f] \in Seq(Comps)
  BY <1>0
<1>4. Emits(f) \in Seq(Comps) /\ DOMAIN Emits(f) = 1..Len(Emits(f))
  BY <1>0, EmitsShape
<1>5. << f >> \o children'[f] = Append(<< f >> \o children[f], r)
  BY <1>3, <1>0
<1>6. << f >> \o children'[f] = Append(Emits(f), r)
  BY <1>5 DEF Emits
<1>7. /\ DOMAIN Append(Emits(f), r) = DOMAIN Emits(f) \union {Len(Emits(f)) + 1}
      /\ \A i \in DOMAIN Emits(f) : Append(Emits(f), r)[i] = Emits(f)[i] /\ i < Len(Emits(f)) + 1
      /\ Append(Emits(f), r)[Len(Emits(f)) + 1] = r
  BY <1>4
<1>8. Range(Append(Emits(f), r)) = Range(Emits(f)) \union {r}
  BY <1>7 DEF Range
<1>9. Range(Append(children[f], r)) = Range(children[f]) \union {r}
  <2>1. /\ DOMAIN Append(children[f], r) = DOMAIN children[f] \union {Len(children[f]) + 1}
        /\ \A i \in DOMAIN children[f] : Append(children[f], r)[i] = children[f][i]
        /\ Append(children[f], r)[Len(children[f]) + 1] = r
    BY <1>3
  <2>2. QED
    BY <2>1 DEF Range
<1>10. QED
  BY <1>1, <1>2, <1>3, <1>6, <1>7, <1>8, <1>9 DEF EmitEffect, Emits

-----------------------------------------------------------------------------
(* Preservation.                                                           *)

(* The empty graph.                                                        *)
LEMMA InitFlatInv ==
  ASSUME Init
  PROVE  FlatInv
<1>1. Defined = {}
  BY DEF Init, Defined
<1>2. \A c \in Comps : << >> \in Seq(Comps)
  OBVIOUS
<1>3. Shape
  BY <1>2 DEF Init, Shape, TypeOK
<1>4. Building /\ LabelInv /\ Distinct /\ EdgeInv
  BY <1>1 DEF Init, Building, LabelInv, Distinct, EdgeInv
<1>5. Covered /\ ChildProdInv /\ RankInv /\ UndefInv
  BY <1>1 DEF Init, Covered, ChildProdInv, RankInv, UndefInv
<1>6. QED
  BY <1>3, <1>4, <1>5 DEF FlatInv

(* What defining a computation does: no node has children yet.             *)
LEMMA AddFacts ==
  ASSUME FlatInv, NEW c \in Comps, NEW R \in Accesses, NEW W \in Accesses,
         AddComp(c, R, W)
  PROVE  /\ nodes = Defined /\ keys = Defined /\ ~ fused'
         /\ Defined' = Defined \union {c} /\ nodes' = Defined' /\ keys' = Defined'
         /\ rank' \in [Comps -> Nat]
         /\ c \in Defined => rank' = rank
         /\ c \notin Defined => rank' = [rank EXCEPT ![c] = Cardinality(Defined) + 1]
         /\ UNCHANGED << children, childProds >>
         /\ \A d \in Data : childProds[d] = None
         /\ \A n \in Comps : /\ children[n] = << >> /\ Emits(n) = << n >>
                              /\ Emits(n)' = << n >> /\ Range(Emits(n))' = {n}
                              /\ Range(children[n]) = {} /\ Range(Emits(n)) = {n}
         /\ R \subseteq Data /\ W \subseteq Data
<1>1. /\ ~ fused /\ nodes = Defined /\ keys = Defined
      /\ \A n \in Comps : children[n] = << >>
      /\ \A d \in Data : childProds[d] = None
  BY DEF AddComp, FlatInv, Building, Shape
<1>2. UNCHANGED << children, childProds, fused >>
  BY DEF AddComp
<1>3. \A n \in Comps : /\ Emits(n) = << n >> /\ Range(Emits(n)) = {n}
                       /\ Range(children[n]) = {}
  BY <1>1, EmitsShape DEF FlatInv, Shape, TypeOK, Range
<1>4. \A n \in Comps : Emits(n)' = << n >> /\ Range(Emits(n))' = {n}
  BY <1>2, <1>3 DEF Emits
<1>5. IsFiniteSet(Defined) /\ Cardinality(Defined) \in Nat
  <2>1. IsFiniteSet(Comps)
    BY NCompsAssumption, FS_Interval DEF Comps
  <2>2. IsFiniteSet(Defined)
    BY <2>1, FS_Subset DEF Defined
  <2>3. QED
    BY <2>2, FS_CardinalityType
<1>6. rank \in [Comps -> Nat]
  BY DEF FlatInv, Shape, TypeOK
<1>7. /\ Defined' = Defined \union {c} /\ nodes' = Defined' /\ keys' = Defined'
      /\ rank' \in [Comps -> Nat]
      /\ c \in Defined => rank' = rank
      /\ c \notin Defined => rank' = [rank EXCEPT ![c] = Cardinality(Defined) + 1]
  <2>1. CASE c \in Defined
    BY <2>1, <1>1, <1>6 DEF AddComp, Defined
  <2>2. CASE c \notin Defined
    <3>1. /\ rank' = [rank EXCEPT ![c] = Cardinality(Defined) + 1]
          /\ nodes' = nodes \union {c}
          /\ keys' = keys \union {c}
      BY <1>1, <2>2 DEF AddComp
    <3>2. rank' \in [Comps -> Nat]
      BY <3>1, <1>5, <1>6
    <3>3. Defined' = Defined \union {c}
      BY <3>1, <1>5, <1>6 DEF Defined
    <3>4. QED
      BY <3>1, <3>2, <3>3, <1>1, <2>2
  <2>3. QED
    BY <2>1, <2>2
<1>8. QED
  BY <1>1, <1>2, <1>3, <1>4, <1>7, AccessesAssumption

(* Defining a computation, or adding to one, preserves the invariant.      *)
LEMMA AddPreserves ==
  ASSUME FlatInv, NEW c \in Comps, NEW R \in Accesses, NEW W \in Accesses,
         AddComp(c, R, W)
  PROVE  FlatInv'
<1>1. /\ nodes = Defined /\ keys = Defined /\ ~ fused'
      /\ Defined' = Defined \union {c} /\ nodes' = Defined' /\ keys' = Defined'
      /\ rank' \in [Comps -> Nat]
      /\ UNCHANGED << children, childProds >>
      /\ \A d \in Data : childProds[d] = None
      /\ R \subseteq Data /\ W \subseteq Data
  BY AddFacts
<1>2. \A n \in Comps : /\ children[n] = << >> /\ Emits(n) = << n >>
                       /\ Emits(n)' = << n >> /\ Range(Emits(n))' = {n}
                       /\ Range(children[n]) = {} /\ Range(Emits(n)) = {n}
  BY AddFacts
<1>3. /\ edges' = edges \union ((R \X {c}) \union ({c} \X W))
      /\ reads'  = [reads EXCEPT ![c] = @ \union R]
      /\ writes' = [writes EXCEPT ![c] = @ \union W]
      /\ c \in keys => label' = label
      /\ c \notin keys => label' = [label EXCEPT ![c] = << c >>]
  BY DEF AddComp
<1>4. TypeOK /\ Defined' \subseteq Comps
  BY DEF FlatInv, Shape, Defined
<1>5. Shape'
  <2>1. label' \in [Comps -> Seq(Comps)]
    <3>1. << c >> \in Seq(Comps) /\ label \in [Comps -> Seq(Comps)]
      BY <1>4 DEF TypeOK
    <3>2. QED
      BY <3>1, <1>3
  <2>2. edges' \subseteq (Data \X Comps) \union (Comps \X Data)
    BY <1>1, <1>3, <1>4 DEF TypeOK
  <2>3. reads' \in [Comps -> SUBSET Data] /\ writes' \in [Comps -> SUBSET Data]
    BY <1>1, <1>3, <1>4 DEF TypeOK
  <2>4. /\ children' \in [Comps -> Seq(Comps)] /\ fused' \in BOOLEAN
        /\ childProds' \in [Data -> Comps \union {None}]
    BY <1>1, <1>4 DEF TypeOK, AddComp
  <2>5. nodes' \subseteq Comps /\ keys' \subseteq Comps /\ keys' = nodes' /\ nodes' \subseteq Defined'
    BY <1>1, <1>4
  <2>6. QED
    BY <1>1, <2>1, <2>2, <2>3, <2>4, <2>5 DEF Shape, TypeOK
<1>6. Building' /\ ChildProdInv'
  <2>1. children' = children /\ childProds' = childProds
    BY <1>1
  <2>2. /\ \A n \in Comps : children'[n] = << >> /\ Range(children'[n]) = {}
        /\ \A d \in Data : childProds'[d] = None
    BY <2>1, <1>1, <1>2
  <2>3. nodes' = Defined' /\ nodes' \subseteq Comps
    BY <1>1, <1>4
  <2>4. Building'
    BY <2>2, <2>3 DEF Building
  <2>5. ChildProdInv'
    BY <2>2, <2>3 DEF ChildProdInv
  <2>6. QED
    BY <2>4, <2>5
<1>7. LabelInv'
  <2>1. \A n \in Defined : label[n] = << n >>
    BY <1>1, <1>2, <1>4 DEF FlatInv, LabelInv, Defined
  <2>2. \A n \in Defined' : label'[n] = << n >>
    BY <2>1, <1>1, <1>3, <1>4 DEF TypeOK, Defined
  <2>3. QED
    BY <2>2, <1>1, <1>2, <1>4 DEF LabelInv
<1>8. Distinct'
  <2>1. \A n \in nodes' : /\ \A i \in DOMAIN Emits(n)' : i = 1 /\ Emits(n)'[i] = n
    BY <1>1, <1>2, <1>4
  <2>2. QED
    BY <2>1 DEF Distinct
<1>9. Covered'
  BY <1>1, <1>2, <1>4 DEF Covered
<1>10. EdgeInv'
  <2> SUFFICES ASSUME NEW d \in Data, NEW n \in Comps
               PROVE  /\ << d, n >> \in edges' <=> n \in nodes' /\ d \in reads'[n]
                      /\ << n, d >> \in edges' <=> n \in nodes' /\ d \in writes'[n]
    <3>1. \A n \in Comps : \A s : s \in Range(Emits(n))' <=> s = n
      BY <1>2
    <3>2. QED
      BY <3>1 DEF EdgeInv
  <2>1. /\ << d, n >> \in edges <=> n \in nodes /\ d \in reads[n]
        /\ << n, d >> \in edges <=> n \in nodes /\ d \in writes[n]
    BY <1>2 DEF FlatInv, EdgeInv
  <2>2. d # c /\ d # n
    BY NamesAssumption
  <2>3. /\ << d, n >> \in edges' <=> << d, n >> \in edges \/ (n = c /\ d \in R)
        /\ << n, d >> \in edges' <=> << n, d >> \in edges \/ (n = c /\ d \in W)
    BY <1>3, <2>2
  <2>4. CASE n = c
    <3>1. n \in nodes' /\ reads'[n] = reads[n] \union R /\ writes'[n] = writes[n] \union W
      BY <2>4, <1>1, <1>3, <1>4 DEF TypeOK
    <3>2. n \notin nodes => reads[n] = {} /\ writes[n] = {}
      BY <1>1, <2>4 DEF FlatInv, UndefInv
    <3>3. QED
      BY <2>1, <2>3, <2>4, <3>1, <3>2
  <2>5. CASE n # c
    <3>1. reads'[n] = reads[n] /\ writes'[n] = writes[n] /\ (n \in nodes' <=> n \in nodes)
      BY <2>5, <1>1, <1>3, <1>4 DEF TypeOK
    <3>2. QED
      BY <2>1, <2>3, <2>5, <3>1
  <2>6. QED
    BY <2>4, <2>5
<1>11. RankInv'
  <2>1. CASE c \in Defined
    <3>1. rank' = rank
      BY <2>1, AddFacts
    <3>2. Defined' = Defined
      BY <2>1, <1>1
    <3>3. QED
      BY <3>1, <3>2 DEF FlatInv, RankInv
  <2>2. CASE c \notin Defined
    <3>1. IsFiniteSet(Defined) /\ Cardinality(Defined) \in Nat
      <4>1. IsFiniteSet(Comps)
        BY NCompsAssumption, FS_Interval DEF Comps
      <4>2. IsFiniteSet(Defined)
        BY <4>1, FS_Subset DEF Defined
      <4>3. QED
        BY <4>2, FS_CardinalityType
    <3>2. Cardinality(Defined') = Cardinality(Defined) + 1
      BY <3>1, <2>2, <1>1, FS_AddElement
    <3>3. rank' = [rank EXCEPT ![c] = Cardinality(Defined) + 1]
      BY <2>2, AddFacts
    <3>4. /\ rank'[c] = Cardinality(Defined) + 1
          /\ \A e \in Defined : rank'[e] = rank[e] /\ rank[e] \in Nat /\ rank[e] <= Cardinality(Defined)
      BY <3>3, <2>2, <1>4 DEF TypeOK, FlatInv, RankInv, Defined
    <3>5. QED
      BY <3>1, <3>2, <3>4, <1>1 DEF FlatInv, RankInv
  <2>3. QED
    BY <2>1, <2>2
<1>12. UndefInv'
  BY <1>1, <1>3, <1>4 DEF FlatInv, UndefInv, TypeOK
<1>13. QED
  BY <1>5, <1>6, <1>7, <1>8, <1>9, <1>10, <1>11, <1>12 DEF FlatInv

(* A flat fusion preserves the invariant.                                  *)
LEMMA FusePreserves ==
  ASSUME FlatInv, NEW l \in Comps, NEW r \in Comps, Flat(r), Fuse(l, r)
  PROVE  FlatInv'
<1>f. PICK f : f = Get(l)
  OBVIOUS
<1>a. FuseEffect(f, r)
  BY <1>f, FuseFacts, Zenon
<1>b. EmitEffect(f, r)
  <2>1. TypeOK /\ f \in nodes
    BY <1>a DEF FlatInv, Shape, FuseEffect
  <2>2. QED
    BY <2>1, <1>a, FuseEmits
<1>1. /\ f \in nodes /\ r \in nodes /\ f # r /\ children[r] = << >> /\ Emits(r) = << r >>
      /\ nodes' = nodes \ {r} /\ keys' = nodes' /\ fused'
      /\ UNCHANGED << rank, reads, writes >>
  BY <1>a DEF FuseEffect
<1>2. /\ children' \in [Comps -> Seq(Comps)]
      /\ \A n \in Comps \ {f} : children'[n] = children[n] /\ Emits(n)' = Emits(n)
      /\ Range(children[f])' = Range(children[f]) \union {r}
      /\ Emits(f)' = Append(Emits(f), r)
      /\ Range(Emits(f))' = Range(Emits(f)) \union {r}
  BY <1>b DEF EmitEffect
<1>3. TypeOK /\ Defined' = Defined /\ nodes \subseteq Comps /\ f \in Comps
  BY <1>1 DEF FlatInv, Shape, TypeOK, Defined
<1>4. \A d \in Data, n \in Comps :
        /\ << d, n >> \in edges' <=> \/ n # r /\ << d, n >> \in edges
                                     \/ n = f /\ << d, r >> \in edges
        /\ << n, d >> \in edges' <=> \/ n # r /\ << n, d >> \in edges
                                     \/ n = f /\ << r, d >> \in edges
  BY <1>a DEF FuseEffect
<1>5. \A d \in Data : << r, d >> \in edges <=> d \in writes[r]
  <2>1. Range(Emits(r)) = {r}
    BY <1>1, <1>3, EmitsShape DEF TypeOK
  <2>2. QED
    BY <2>1, <1>1 DEF FlatInv, EdgeInv
<1>6. \A d \in Data : << d, r >> \in edges <=> d \in reads[r]
  <2>1. Range(Emits(r)) = {r}
    BY <1>1, <1>3, EmitsShape DEF TypeOK
  <2>2. QED
    BY <2>1, <1>1 DEF FlatInv, EdgeInv
<1>7. childProds' = [d \in Data |-> IF << r, d >> \in edges THEN r ELSE childProds[d]]
  BY <1>a DEF FuseEffect
<1>8. label' = [label EXCEPT ![f] = label[f] \o << r >>]
  BY <1>a DEF FuseEffect
<1>9. Shape'
  <2>1. label' \in [Comps -> Seq(Comps)]
    <3>1. label \in [Comps -> Seq(Comps)] /\ << r >> \in Seq(Comps)
      BY <1>3 DEF TypeOK
    <3>2. label[f] \o << r >> \in Seq(Comps)
      BY <3>1, <1>3
    <3>3. QED
      BY <3>1, <3>2, <1>8
  <2>2. edges' \subseteq (Data \X Comps) \union (Comps \X Data)
    BY <1>a DEF FuseEffect
  <2>3. childProds' \in [Data -> Comps \union {None}]
    BY <1>3, <1>7 DEF TypeOK
  <2>4. fused' \in BOOLEAN
    BY <1>f DEF Fuse, FuseNodes
  <2>5. nodes' \subseteq Comps /\ keys' \subseteq Comps /\ nodes' \subseteq Defined'
    BY <1>1, <1>3 DEF FlatInv, Shape
  <2>6. /\ rank' \in [Comps -> Nat]
        /\ reads' \in [Comps -> SUBSET Data]
        /\ writes' \in [Comps -> SUBSET Data]
    BY <1>1, <1>3 DEF TypeOK
  <2>7. QED
    BY <1>1, <1>2, <2>1, <2>2, <2>3, <2>4, <2>5, <2>6 DEF Shape, TypeOK
<1>10. Building'
  BY <1>1 DEF Building
<1>11. LabelInv'
  <2>1. \A n \in nodes : label[n] = Emits(n)
    BY DEF FlatInv, LabelInv
  <2>2. label'[f] = Emits(f)'
    <3>1. label'[f] = Emits(f) \o << r >>
      BY <2>1, <1>1, <1>3, <1>8 DEF TypeOK
    <3>2. Emits(f) \in Seq(Comps)
      BY <1>3, EmitsShape DEF TypeOK
    <3>3. Emits(f) \o << r >> = Append(Emits(f), r)
      BY <3>2
    <3>4. QED
      BY <3>1, <3>3, <1>2
  <2>3. \A n \in nodes \ {f} : label'[n] = Emits(n)'
    BY <2>1, <1>2, <1>3, <1>8 DEF TypeOK
  <2>4. \A n \in Comps \ nodes' : children'[n] = << >>
    BY <1>1, <1>2, <1>3 DEF FlatInv, LabelInv
  <2>5. QED
    BY <2>2, <2>3, <2>4, <1>1 DEF LabelInv
<1>12. Distinct'
  <2>1. /\ DOMAIN Emits(f)' = DOMAIN Emits(f) \union {Len(Emits(f)) + 1}
        /\ \A i \in DOMAIN Emits(f) : Emits(f)'[i] = Emits(f)[i]
        /\ Emits(f)'[Len(Emits(f)) + 1] = r
    BY <1>b DEF EmitEffect
  <2>2. \A n \in nodes' : \A i \in DOMAIN Emits(n) : Emits(n)[i] # r
    <3>1. 1 \in DOMAIN Emits(r) /\ Emits(r)[1] = r
      BY <1>1
    <3>2. QED
      BY <3>1, <1>1 DEF FlatInv, Distinct
  <2>3. \A n \in nodes' : n \in nodes /\ n \in Comps /\ (n # f => Emits(n)' = Emits(n))
    BY <1>1, <1>2, <1>3
  <2>4. ASSUME NEW n \in nodes', NEW i \in DOMAIN Emits(n)'
        PROVE  \/ n = f /\ i = Len(Emits(f)) + 1 /\ Emits(n)'[i] = r
               \/ i \in DOMAIN Emits(n) /\ Emits(n)'[i] = Emits(n)[i] /\ Emits(n)'[i] # r
    <3>1. CASE n = f /\ i = Len(Emits(f)) + 1
      BY <3>1, <2>1
    <3>2. CASE n = f /\ i \in DOMAIN Emits(f)
      BY <3>2, <2>1, <2>2
    <3>3. CASE n # f
      BY <3>3, <2>2, <2>3
    <3>4. QED
      BY <3>1, <3>2, <3>3, <2>1
  <2>5. SUFFICES ASSUME NEW m \in nodes', NEW n \in nodes',
                        NEW i \in DOMAIN Emits(m)', NEW j \in DOMAIN Emits(n)',
                        Emits(m)'[i] = Emits(n)'[j]
                 PROVE  m = n /\ i = j
    BY DEF Distinct
  <2>6. CASE Emits(m)'[i] = r
    <3>1. m = f /\ i = Len(Emits(f)) + 1
      BY <2>4, <2>6
    <3>2. n = f /\ j = Len(Emits(f)) + 1
      BY <2>4, <2>5, <2>6
    <3>3. QED
      BY <3>1, <3>2
  <2>7. CASE Emits(m)'[i] # r
    <3>1. i \in DOMAIN Emits(m) /\ Emits(m)'[i] = Emits(m)[i]
      BY <2>4, <2>7
    <3>2. j \in DOMAIN Emits(n) /\ Emits(n)'[j] = Emits(n)[j]
      BY <2>4, <2>5, <2>7
    <3>3. Emits(m)[i] = Emits(n)[j] /\ m \in nodes /\ n \in nodes
      BY <3>1, <3>2, <2>3, <2>5
    <3>4. QED
      BY <3>1, <3>2, <3>3 DEF FlatInv, Distinct
  <2>8. QED
    BY <2>6, <2>7
<1>13. Covered'
  <2>1. ASSUME NEW c \in Defined
        PROVE  \E n \in nodes' : c \in Range(Emits(n))'
    <3>1. PICK n \in nodes : c \in Range(Emits(n))
      BY DEF FlatInv, Covered
    <3>2. CASE n = r
      <4>1. c = r
        <5>1. Range(Emits(r)) = {r}
          BY <1>1, <1>3, EmitsShape DEF TypeOK
        <5>2. QED
          BY <5>1, <3>1, <3>2
      <4>2. QED
        BY <4>1, <1>1, <1>2
    <3>3. CASE n = f
      BY <3>1, <3>3, <1>1, <1>2
    <3>4. CASE n # r /\ n # f
      BY <3>1, <3>4, <1>1, <1>2, <1>3
    <3>5. QED
      BY <3>2, <3>3, <3>4
  <2>2. ASSUME NEW n \in nodes'
        PROVE  Range(Emits(n))' \subseteq Defined
    <3>1. r \in Defined /\ Range(Emits(n)) \subseteq Defined
      BY <1>1 DEF FlatInv, Covered, Shape
    <3>2. CASE n = f
      BY <3>1, <3>2, <1>2
    <3>3. CASE n # f
      BY <3>1, <3>3, <1>1, <1>2, <1>3
    <3>4. QED
      BY <3>2, <3>3
  <2>3. QED
    BY <2>1, <2>2, <1>3 DEF Covered
<1>14. EdgeInv'
  <2> SUFFICES ASSUME NEW d \in Data, NEW n \in Comps
               PROVE  /\ << d, n >> \in edges' <=>
                           n \in nodes' /\ \E s \in Range(Emits(n))' : d \in reads[s]
                      /\ << n, d >> \in edges' <=>
                           n \in nodes' /\ \E s \in Range(Emits(n))' : d \in writes[s]
    BY <1>1 DEF EdgeInv
  <2>1. /\ << d, n >> \in edges <=> n \in nodes /\ \E s \in Range(Emits(n)) : d \in reads[s]
        /\ << n, d >> \in edges <=> n \in nodes /\ \E s \in Range(Emits(n)) : d \in writes[s]
    BY DEF FlatInv, EdgeInv
  <2>2. CASE n = f
    <3>1. \A s : s \in Range(Emits(n))' <=> s \in Range(Emits(n)) \/ s = r
      BY <2>2, <1>2
    <3>2. n \in nodes /\ n \in nodes' /\ n # r
      BY <2>2, <1>1
    <3>3. QED
      BY <2>1, <2>2, <3>1, <3>2, <1>4, <1>5, <1>6
  <2>3. CASE n # f
    <3>1. Range(Emits(n))' = Range(Emits(n)) /\ (n \in nodes' <=> n \in nodes /\ n # r)
      BY <2>3, <1>1, <1>2
    <3>2. QED
      BY <2>1, <2>3, <3>1, <1>4
  <2>4. QED
    BY <2>2, <2>3
<1>15. ChildProdInv'
  <2> SUFFICES ASSUME NEW d \in Data
               PROVE  /\ childProds'[d] # None =>
                           /\ d \in writes[childProds'[d]]
                           /\ \E n \in nodes' : childProds'[d] \in Range(children[n])'
                      /\ childProds'[d] = None =>
                           \A n \in nodes' : \A s \in Range(children[n])' : d \notin writes[s]
    BY <1>1 DEF ChildProdInv
  <2>1. \A n \in nodes' : /\ n \in nodes /\ n \in Comps
                          /\ n # f => Range(children[n])' = Range(children[n])
    BY <1>1, <1>2, <1>3
  <2>2. r # None
    BY <1>1, <1>3 DEF Comps, None
  <2>3. CASE d \in writes[r]
    <3>1. childProds'[d] = r
      BY <2>3, <1>5, <1>7
    <3>2. f \in nodes' /\ r \in Range(children[f])'
      BY <1>1, <1>2
    <3>3. QED
      BY <3>1, <3>2, <2>2, <2>3
  <2>4. CASE d \notin writes[r]
    <3>1. childProds'[d] = childProds[d]
      BY <2>4, <1>5, <1>7
    <3>2. ASSUME childProds[d] # None
          PROVE  \E n \in nodes' : childProds[d] \in Range(children[n])'
      <4>1. PICK n \in nodes : childProds[d] \in Range(children[n])
        BY <3>2 DEF FlatInv, ChildProdInv
      <4>2. n # r
        BY <4>1, <1>1 DEF Range
      <4>3. CASE n = f
        BY <4>1, <4>2, <4>3, <1>1, <1>2
      <4>4. CASE n # f
        BY <4>1, <4>2, <4>4, <2>1, <1>1
      <4>5. QED
        BY <4>3, <4>4
    <3>3. ASSUME childProds[d] = None, NEW n \in nodes', NEW s \in Range(children[n])'
          PROVE  d \notin writes[s]
      <4>1. s = r \/ s \in Range(children[n])
        BY <1>2, <2>1
      <4>2. \A t \in Range(children[n]) : d \notin writes[t]
        BY <2>1, <3>3 DEF FlatInv, ChildProdInv
      <4>3. QED
        BY <4>1, <4>2, <2>4
    <3>4. QED
      BY <3>1, <3>2, <3>3 DEF FlatInv, ChildProdInv
  <2>5. QED
    BY <2>3, <2>4
<1>16. RankInv' /\ UndefInv'
  BY <1>1, <1>3 DEF FlatInv, RankInv, UndefInv
<1>17. QED
  BY <1>9, <1>10, <1>11, <1>12, <1>13, <1>14, <1>15, <1>16 DEF FlatInv

(* Every step of a client of flat fusion preserves the invariant.          *)
LEMMA FlatNextPreserves ==
  ASSUME FlatInv, [FlatNext]_vars
  PROVE  FlatInv'
<1>1. ASSUME NEW c \in Comps, NEW R \in Accesses, NEW W \in Accesses, AddComp(c, R, W)
      PROVE  FlatInv'
  BY <1>1, AddPreserves
<1>2. ASSUME NEW l \in Comps, NEW r \in Comps, Flat(r), Fuse(l, r)
      PROVE  FlatInv'
  BY <1>2, FusePreserves
<1>3. CASE UNCHANGED vars
  <2>1. /\ UNCHANGED << rank, nodes, keys, label, children >>
        /\ UNCHANGED << edges, childProds, reads, writes, fused >>
    BY <1>3 DEF vars
  <2>2. Defined' = Defined /\ \A n : Emits(n)' = Emits(n)
    BY <2>1 DEF Defined, Emits
  <2>3. Shape' /\ Building'
    BY <2>1, <2>2 DEF FlatInv, Shape, TypeOK, Building
  <2>4. LabelInv' /\ Distinct' /\ Covered' /\ UndefInv'
    BY <2>1, <2>2 DEF FlatInv, LabelInv, Distinct, Covered, UndefInv
  <2>5. EdgeInv' /\ ChildProdInv' /\ RankInv'
    BY <2>1, <2>2 DEF FlatInv, EdgeInv, ChildProdInv, RankInv
  <2>6. QED
    BY <2>3, <2>4, <2>5 DEF FlatInv
<1>4. QED
  BY <1>1, <1>2, <1>3 DEF FlatNext

(* The inductive invariant: whatever clients with flat right hand sides    *)
(* do, every computation sits in one place, labels and edges describe what *)
(* the nodes emit, and the recorded producers are children.                *)
THEOREM FlatInvariant == FlatSpec => []FlatInv
<1>1. Init => FlatInv
  BY InitFlatInv
<1>2. FlatInv /\ [FlatNext]_vars => FlatInv'
  BY FlatNextPreserves
<1>3. QED
  BY <1>1, <1>2, PTL DEF FlatSpec

-----------------------------------------------------------------------------
(* The theorems about flat fusion.                                         *)

(* The variables keep their types.                                         *)
THEOREM TypeCorrect == FlatSpec => []TypeOK
<1>1. FlatInv => TypeOK
  BY DEF FlatInv, Shape
<1>2. QED
  BY <1>1, FlatInvariant, PTL

(* Every statement is emitted by one node and only once.                   *)
THEOREM EveryStatementOnce == FlatSpec => []StatementsOnce
<1>1. ASSUME FlatInv, NEW c \in Defined
      PROVE  \E n \in nodes : \E i \in DOMAIN Emits(n) :
               \A m \in nodes : \A j \in DOMAIN Emits(m) :
                 Emits(m)[j] = c <=> m = n /\ j = i
  <2>1. PICK n \in nodes : c \in Range(Emits(n))
    BY <1>1 DEF FlatInv, Covered
  <2>2. PICK i \in DOMAIN Emits(n) : Emits(n)[i] = c
    BY <2>1 DEF Range
  <2>3. \A m \in nodes : \A j \in DOMAIN Emits(m) : Emits(m)[j] = c <=> m = n /\ j = i
    BY <1>1, <2>2 DEF FlatInv, Distinct
  <2>4. QED
    BY <2>3
<1>2. FlatInv => StatementsOnce
  BY <1>1 DEF StatementsOnce
<1>3. QED
  BY <1>2, FlatInvariant, PTL

(* The edges are the accesses of the emitted statements.                   *)
THEOREM EdgesComplete == FlatSpec => []EdgesMatchStatements
<1> DEFINE Access(n, s) == (reads[s] \X {n}) \union ({n} \X writes[s])
           All == UNION {UNION {Access(n, s) : s \in Range(Emits(n))} : n \in nodes}
<1>1. ASSUME FlatInv
      PROVE  edges = All
  <2>1. /\ edges \subseteq (Data \X Comps) \union (Comps \X Data)
        /\ nodes \subseteq Comps /\ Defined \subseteq Comps
        /\ reads \in [Comps -> SUBSET Data] /\ writes \in [Comps -> SUBSET Data]
        /\ \A n \in nodes : Range(Emits(n)) \subseteq Defined
    BY <1>1 DEF FlatInv, Shape, TypeOK, Covered, Defined
  <2>2. ASSUME NEW e \in edges
        PROVE  \E n \in nodes : \E s \in Range(Emits(n)) : e \in Access(n, s)
    <3>1. CASE e \in Data \X Comps
      <4>1. PICK d \in Data, n \in Comps : e = << d, n >>
        BY <3>1
      <4>2. PICK s \in Range(Emits(n)) : n \in nodes /\ d \in reads[s]
        BY <1>1, <4>1 DEF FlatInv, EdgeInv
      <4>3. e \in Access(n, s)
        BY <4>1, <4>2
      <4>4. QED
        BY <4>2, <4>3
    <3>2. CASE e \in Comps \X Data
      <4>1. PICK d \in Data, n \in Comps : e = << n, d >>
        BY <3>2
      <4>2. PICK s \in Range(Emits(n)) : n \in nodes /\ d \in writes[s]
        BY <1>1, <4>1 DEF FlatInv, EdgeInv
      <4>3. e \in Access(n, s)
        BY <4>1, <4>2
      <4>4. QED
        BY <4>2, <4>3
    <3>3. QED
      BY <3>1, <3>2, <2>1
  <2>3. ASSUME NEW n \in nodes, NEW s \in Range(Emits(n)), NEW e \in Access(n, s)
        PROVE  e \in edges
    <3>1. n \in Comps /\ reads[s] \subseteq Data /\ writes[s] \subseteq Data
      BY <2>1
    <3>2. CASE e \in reads[s] \X {n}
      <4>1. PICK d \in reads[s] : e = << d, n >>
        BY <3>2
      <4>2. QED
        BY <1>1, <3>1, <4>1 DEF FlatInv, EdgeInv
    <3>3. CASE e \in {n} \X writes[s]
      <4>1. PICK d \in writes[s] : e = << n, d >>
        BY <3>3
      <4>2. QED
        BY <1>1, <3>1, <4>1 DEF FlatInv, EdgeInv
    <3>4. QED
      BY <3>2, <3>3
  <2>4. \A e : e \in All <=> \E n \in nodes : \E s \in Range(Emits(n)) : e \in Access(n, s)
    OBVIOUS
  <2>5. QED
    BY <2>2, <2>3, <2>4, Zenon
<1>2. FlatInv => EdgesMatchStatements
  BY <1>1 DEF EdgesMatchStatements
<1>3. QED
  BY <1>2, FlatInvariant, PTL

(* get() finds the node that emits a statement, fused or not.              *)
THEOREM Lookup == FlatSpec => []LookupFindsHome
<1>1. FlatInv => LookupFindsHome
  BY GetFinds, GetDefined DEF LookupFindsHome, Defined
<1>2. QED
  BY <1>1, FlatInvariant, PTL

(* With one writer per space, the producers are exactly the statements of  *)
(* prev that write something curr reads.                                   *)
LEMMA ProducerIsWriter ==
  ASSUME FlatInv, SingleAssignment, NEW prev \in nodes, NEW d \in Data,
         NEW t \in Range(Emits(prev)), d \in writes[t]
  PROVE  (IF childProds[d] # None THEN childProds[d] ELSE prev) = t
<1>0. /\ nodes \subseteq Comps /\ children \in [Comps -> Seq(Comps)]
      /\ \A n \in nodes : Range(Emits(n)) \subseteq Defined
  BY DEF FlatInv, Shape, TypeOK, Covered
<1>1. \A n \in nodes : Range(Emits(n)) = {n} \union Range(children[n])
  BY <1>0, EmitsShape
<1>2. CASE childProds[d] # None
  <2>1. d \in writes[childProds[d]]
    BY <1>2 DEF FlatInv, ChildProdInv
  <2>2. childProds[d] \in Defined
    BY <1>0, <1>1, <1>2 DEF FlatInv, ChildProdInv
  <2>3. childProds[d] = t
    BY <2>1, <2>2, <1>0 DEF SingleAssignment
  <2>4. QED
    BY <2>3, <1>2
<1>3. CASE childProds[d] = None
  <2>1. t = prev
    BY <1>1, <1>3 DEF FlatInv, ChildProdInv
  <2>2. QED
    BY <2>1, <1>3
<1>4. QED
  BY <1>2, <1>3

(* getProducers finds the producing statements of prev, all and only.      *)
THEOREM ProducersFound == FlatSpec => []ProducersExact
<1>1. ASSUME FlatInv, SingleAssignment, NEW prev \in nodes, NEW curr \in nodes \ {prev}
      PROVE  Producers(prev, curr) =
               {s \in Range(Emits(prev)) : writes[s] \cap Inputs(curr) # {}}
  <2> DEFINE P(d) == IF childProds[d] # None THEN childProds[d] ELSE prev
  <2>1. /\ Inputs(curr) \subseteq Data /\ prev \in Comps
        /\ Range(Emits(prev)) \subseteq Comps /\ \A s \in Comps : writes[s] \subseteq Data
    <3>1. Inputs(curr) = {d \in Data : << d, curr >> \in edges}
      BY <1>1, NodeEdges
    <3>2. Range(Emits(prev)) \subseteq Defined /\ Defined \subseteq Comps
      BY <1>1 DEF FlatInv, Covered, Defined
    <3>3. QED
      BY <1>1, <3>1, <3>2 DEF FlatInv, Shape, TypeOK
  <2>2. \A d \in Data : << prev, d >> \in edges <=>
                        \E s \in Range(Emits(prev)) : d \in writes[s]
    BY <1>1, <2>1 DEF FlatInv, EdgeInv
  <2>3. \A d \in Data : \A s \in Range(Emits(prev)) : d \in writes[s] => P(d) = s
    BY <1>1, ProducerIsWriter
  <2>4. \A s : s \in Producers(prev, curr) <=>
               \E d \in Inputs(curr) : << prev, d >> \in edges /\ s = P(d)
    BY DEF Producers
  <2> HIDE DEF P
  <2>5. ASSUME NEW s \in Producers(prev, curr)
        PROVE  s \in Range(Emits(prev)) /\ writes[s] \cap Inputs(curr) # {}
    <3>1. PICK d \in Inputs(curr) : << prev, d >> \in edges /\ s = P(d)
      BY <2>4
    <3>2. PICK t \in Range(Emits(prev)) : d \in writes[t]
      BY <3>1, <2>1, <2>2
    <3>3. s = t
      BY <3>1, <3>2, <2>1, <2>3
    <3>4. QED
      BY <3>1, <3>2, <3>3
  <2>6. ASSUME NEW s \in Range(Emits(prev)), writes[s] \cap Inputs(curr) # {}
        PROVE  s \in Producers(prev, curr)
    <3>1. PICK d \in Data : d \in writes[s] /\ d \in Inputs(curr)
      BY <2>1, <2>6
    <3>2. << prev, d >> \in edges /\ s = P(d)
      BY <3>1, <2>2, <2>3
    <3>3. QED
      BY <3>1, <3>2, <2>4
  <2>7. QED
    BY <2>5, <2>6
<1>2. FlatInv => ProducersExact
  BY <1>1 DEF ProducersExact
<1>3. QED
  BY <1>2, FlatInvariant, PTL

(* Edges to and from a space, in any set of edges of the right type.       *)
LEMMA EndsOf ==
  ASSUME NEW E, E \subseteq (Data \X Comps) \union (Comps \X Data), NEW d \in Data
  PROVE  /\ (\E e \in E : e[2] = d) <=> (\E n \in Comps : << n, d >> \in E)
         /\ (\E e \in E : e[1] = d) <=> (\E n \in Comps : << d, n >> \in E)
<1>1. ASSUME NEW e \in E, e[2] = d
      PROVE  \E n \in Comps : << n, d >> \in E
  <2>1. e \in Comps \X Data
    BY <1>1, NamesAssumption
  <2>2. e[1] \in Comps /\ e = << e[1], d >>
    BY <2>1, <1>1
  <2>3. QED
    BY <2>2
<1>2. ASSUME NEW e \in E, e[1] = d
      PROVE  \E n \in Comps : << d, n >> \in E
  <2>1. e \in Data \X Comps
    BY <1>2, NamesAssumption
  <2>2. e[2] \in Comps /\ e = << d, e[2] >>
    BY <2>1, <1>2
  <2>3. QED
    BY <2>2
<1>3. \A n : << n, d >>[2] = d /\ << d, n >>[1] = d
  OBVIOUS
<1>4. QED
  BY <1>1, <1>2, <1>3

(* Sources and sinks of the graph are the same before and after a fusion.  *)
LEMMA FuseKeepsEnds ==
  ASSUME FlatInv, NEW f \in nodes, NEW r \in nodes, FuseEffect(f, r), NEW d \in Data
  PROVE  IsSource(d)' = IsSource(d) /\ IsSink(d)' = IsSink(d)
<1>1. /\ edges \subseteq (Data \X Comps) \union (Comps \X Data)
      /\ edges' \subseteq (Data \X Comps) \union (Comps \X Data)
      /\ f \in Comps /\ r \in Comps /\ f # r
  BY DEF FlatInv, Shape, TypeOK, FuseEffect
<1>2. \A n \in Comps : /\ << d, n >> \in edges' <=> \/ n # r /\ << d, n >> \in edges
                                                    \/ n = f /\ << d, r >> \in edges
                       /\ << n, d >> \in edges' <=> \/ n # r /\ << n, d >> \in edges
                                                    \/ n = f /\ << r, d >> \in edges
  BY DEF FuseEffect
<1>3. /\ (\E e \in edges : e[2] = d) <=> (\E n \in Comps : << n, d >> \in edges)
      /\ (\E e \in edges : e[1] = d) <=> (\E n \in Comps : << d, n >> \in edges)
  BY <1>1, EndsOf
<1>4. /\ (\E e \in edges' : e[2] = d) <=> (\E n \in Comps : << n, d >> \in edges')
      /\ (\E e \in edges' : e[1] = d) <=> (\E n \in Comps : << d, n >> \in edges')
  BY <1>1, EndsOf
<1>5. /\ (\E n \in Comps : << n, d >> \in edges') <=> (\E n \in Comps : << n, d >> \in edges)
      /\ (\E n \in Comps : << d, n >> \in edges') <=> (\E n \in Comps : << d, n >> \in edges)
  BY <1>1, <1>2
<1>6. QED
  BY <1>3, <1>4, <1>5 DEF IsSource, IsSink

(* Fusing leaves the signature of the generated function alone.            *)
THEOREM SignatureStays == FlatSpec => SignatureKept
<1> DEFINE Keeps == fused' => \A d \in Data : /\ IsSource(d)' = IsSource(d)
                                              /\ IsSink(d)' = IsSink(d)
<1>1. FlatInv /\ [FlatNext]_vars => [Keeps]_vars
  <2> SUFFICES ASSUME FlatInv, [FlatNext]_vars PROVE [Keeps]_vars
    OBVIOUS
  <2>1. ASSUME NEW c \in Comps, NEW R \in Accesses, NEW W \in Accesses, AddComp(c, R, W)
        PROVE  Keeps
    BY <2>1 DEF AddComp
  <2>2. ASSUME NEW l \in Comps, NEW r \in Comps, Flat(r), Fuse(l, r)
        PROVE  Keeps
    <3>1. PICK f : f = Get(l)
      OBVIOUS
    <3>2. FuseEffect(f, r)
      BY <2>2, <3>1, FuseFacts, Zenon
    <3>3. f \in nodes /\ r \in nodes
      BY <3>2 DEF FuseEffect
    <3>4. QED
      BY <3>2, <3>3, FuseKeepsEnds
  <2>3. QED
    BY <2>1, <2>2 DEF FlatNext
<1>2. QED
  BY <1>1, FlatInvariant, PTL DEF FlatSpec, SignatureKept

-----------------------------------------------------------------------------
(* Program order.                                                          *)

(* A client that only pulls statements over others they do not conflict    *)
(* with is a client with flat right hand sides.                            *)
LEMMA OrderedIsFlat == [OrderedNext]_vars => [FlatNext]_vars
BY DEF OrderedNext, FlatNext

(* While the graph is built the statements come in the order of the ranks. *)
LEMMA AddKeepsOrder ==
  ASSUME FlatInv, NEW c \in Comps, NEW R \in Accesses, NEW W \in Accesses,
         AddComp(c, R, W)
  PROVE  OrderKept'
<1>1. nodes' = Defined' /\ Defined' \subseteq Comps
  BY AddFacts DEF FlatInv, Shape, TypeOK, Defined
<1>2. \A n \in Comps : 1 \in DOMAIN Emits(n)' /\ Emits(n)'[1] = n
  <2>1. \A n \in Comps : Emits(n)' = << n >>
    BY AddFacts
  <2>2. \A n \in Comps : 1 \in DOMAIN << n >> /\ << n >>[1] = n
    OBVIOUS
  <2>3. QED
    BY <2>1, <2>2
<1>3. SUFFICES ASSUME NEW a \in Defined', NEW b \in Defined', rank'[a] < rank'[b]
               PROVE  EmittedBefore(a, b)'
  BY DEF OrderKept
<1>4. QED
  BY <1>1, <1>2, <1>3 DEF EmittedBefore

(* A fusion that respects the conflicts keeps the order: statements keep   *)
(* their places except r, and r passes nothing it conflicts with.          *)
LEMMA FuseKeepsOrder ==
  ASSUME FlatInv, OrderKept, NEW f \in nodes, NEW r \in nodes,
         FuseEffect(f, r), Movable(f, r)
  PROVE  OrderKept'
<1>1. /\ f \in Comps /\ r \in Comps /\ f # r /\ f \in Defined /\ r \in Defined
      /\ nodes \subseteq Comps /\ nodes \subseteq Defined /\ Emits(r) = << r >>
      /\ nodes' = nodes \ {r} /\ rank' = rank /\ reads' = reads /\ writes' = writes
      /\ Defined' = Defined
  BY DEF FlatInv, Shape, TypeOK, FuseEffect, Defined
<1>2. EmitEffect(f, r)
  BY <1>1, FuseEmits DEF FlatInv, Shape
<1>3. \A n \in nodes' : \A i \in DOMAIN Emits(n) :
        i \in DOMAIN Emits(n)' /\ Emits(n)'[i] = Emits(n)[i]
  BY <1>1, <1>2 DEF EmitEffect
<1>4. \A i \in DOMAIN Emits(r) : i = 1 /\ Emits(r)[i] = r
  BY <1>1
<1>5. \A n \in nodes : \A i \in DOMAIN Emits(n) : Emits(n)[i] = r => n = r
  <2>1. 1 \in DOMAIN Emits(r) /\ Emits(r)[1] = r
    BY <1>1
  <2>2. QED
    BY <2>1, <1>1 DEF FlatInv, Distinct
<1>6. LET k == Len(Emits(f)) + 1
      IN  /\ k \in DOMAIN Emits(f)' /\ Emits(f)'[k] = r
          /\ \A i \in DOMAIN Emits(f) : i < k
  BY <1>2 DEF EmitEffect
<1>7. /\ rank \in [Comps -> Nat]
      /\ rank[f] < rank[r]
      /\ \A n \in nodes : rank[f] < rank[n] /\ rank[n] < rank[r] =>
           \A s \in Range(Emits(n)) : ~ Conflict(s, r)
      /\ \A n \in nodes : rank[n] = rank[f] => n = f
  BY <1>1 DEF FlatInv, Shape, TypeOK, Movable, RankInv
<1>8. SUFFICES ASSUME NEW a \in Defined, NEW b \in Defined, rank[a] < rank[b], Conflict(a, b)
               PROVE  EmittedBefore(a, b)'
  <2>1. \A a, b : Conflict(a, b)' = Conflict(a, b)
    BY <1>1 DEF Conflict
  <2>2. QED
    BY <2>1, <1>1, <1>8 DEF OrderKept
<1>9. PICK m \in nodes, n \in nodes : \E i \in DOMAIN Emits(m), j \in DOMAIN Emits(n) :
        /\ Emits(m)[i] = a
        /\ Emits(n)[j] = b
        /\ rank[m] < rank[n] \/ (m = n /\ i < j)
  BY <1>8 DEF OrderKept, EmittedBefore
<1>10. PICK i \in DOMAIN Emits(m), j \in DOMAIN Emits(n) :
         /\ Emits(m)[i] = a
         /\ Emits(n)[j] = b
         /\ rank[m] < rank[n] \/ (m = n /\ i < j)
  BY <1>9
<1>11. SUFFICES \E p \in nodes', q \in nodes' : \E g \in DOMAIN Emits(p)', h \in DOMAIN Emits(q)' :
                  /\ Emits(p)'[g] = a
                  /\ Emits(q)'[h] = b
                  /\ rank[p] < rank[q] \/ (p = q /\ g < h)
  BY <1>1 DEF EmittedBefore
<1>12. a # b /\ a \in Comps /\ b \in Comps
  BY <1>7, <1>8 DEF Defined
<1>13. CASE b = r
  <2>1. n = r /\ m # r
    BY <1>4, <1>5, <1>10, <1>12, <1>13
  <2>2. rank[m] < rank[r] /\ m \in nodes'
    BY <2>1, <1>1, <1>9, <1>10
  <2>3. a \in Range(Emits(m)) /\ Conflict(a, r)
    BY <1>8, <1>10, <1>13 DEF Range
  <2>4. ~ (rank[f] < rank[m])
    BY <2>2, <2>3, <1>7, <1>9
  <2>5. m = f \/ rank[m] < rank[f]
    BY <2>4, <1>1, <1>7, <1>9
  <2>6. i \in DOMAIN Emits(m)' /\ Emits(m)'[i] = a
    BY <2>2, <1>3, <1>10
  <2>7. f \in nodes'
    BY <1>1
  <2>8. m = f => i < Len(Emits(f)) + 1
    BY <1>6, <1>10
  <2>9. QED
    BY <2>2, <2>5, <2>6, <2>7, <2>8, <1>6, <1>13
<1>14. CASE a = r
  <2>1. m = r /\ n # r
    BY <1>4, <1>5, <1>10, <1>12, <1>14
  <2>2. rank[r] < rank[n] /\ n \in nodes'
    BY <2>1, <1>1, <1>9, <1>10
  <2>3. rank[f] < rank[n]
    BY <2>2, <1>1, <1>7, <1>9
  <2>4. j \in DOMAIN Emits(n)' /\ Emits(n)'[j] = b
    BY <2>2, <1>3, <1>10
  <2>5. f \in nodes'
    BY <1>1
  <2>6. QED
    BY <2>2, <2>3, <2>4, <2>5, <1>6, <1>14
<1>15. CASE a # r /\ b # r
  <2>1. m \in nodes' /\ n \in nodes'
    BY <1>1, <1>4, <1>9, <1>10, <1>15
  <2>2. /\ i \in DOMAIN Emits(m)' /\ Emits(m)'[i] = a
        /\ j \in DOMAIN Emits(n)' /\ Emits(n)'[j] = b
    BY <2>1, <1>3, <1>10
  <2>3. QED
    BY <2>1, <2>2, <1>10
<1>16. QED
  BY <1>13, <1>14, <1>15

(* Conflicting statements reach the code generator in program order.       *)
THEOREM ProgramOrder == OrderedSpec => []OrderKept
<1>1. Init => FlatInv /\ OrderKept
  <2>1. Init => Defined = {}
    BY DEF Init, Defined
  <2>2. QED
    BY <2>1, InitFlatInv DEF OrderKept
<1>2. FlatInv /\ OrderKept /\ [OrderedNext]_vars => (FlatInv /\ OrderKept)'
  <2> SUFFICES ASSUME FlatInv, OrderKept, [OrderedNext]_vars
               PROVE  FlatInv' /\ OrderKept'
    OBVIOUS
  <2>1. FlatInv'
    BY OrderedIsFlat, FlatNextPreserves
  <2>2. ASSUME NEW c \in Comps, NEW R \in Accesses, NEW W \in Accesses, AddComp(c, R, W)
        PROVE  OrderKept'
    BY <2>2, AddKeepsOrder
  <2>3. ASSUME NEW l \in Comps, NEW r \in Comps, Flat(r), Movable(Get(l), r), Fuse(l, r)
        PROVE  OrderKept'
    <3>1. PICK f : f = Get(l)
      OBVIOUS
    <3>2. FuseEffect(f, r)
      BY <2>3, <3>1, FuseFacts, Zenon
    <3>3. f \in nodes /\ r \in nodes /\ Movable(f, r)
      BY <2>3, <3>1, <3>2 DEF FuseEffect
    <3>4. QED
      BY <3>2, <3>3, FuseKeepsOrder
  <2>4. CASE UNCHANGED vars
    <3>1. UNCHANGED << rank, nodes, children, reads, writes >>
      BY <2>4 DEF vars
    <3>2. /\ Defined' = Defined /\ \A n : Emits(n)' = Emits(n)
          /\ \A a, b : Conflict(a, b)' = Conflict(a, b)
      BY <3>1 DEF Defined, Emits, Conflict
    <3>3. ASSUME NEW a, NEW b, EmittedBefore(a, b)
          PROVE  EmittedBefore(a, b)'
      <4>1. PICK m \in nodes, n \in nodes : \E i \in DOMAIN Emits(m), j \in DOMAIN Emits(n) :
              /\ Emits(m)[i] = a
              /\ Emits(n)[j] = b
              /\ rank[m] < rank[n] \/ (m = n /\ i < j)
        BY <3>3 DEF EmittedBefore
      <4>2. /\ m \in nodes' /\ n \in nodes' /\ rank' = rank
            /\ Emits(m)' = Emits(m) /\ Emits(n)' = Emits(n)
        BY <3>1, <3>2
      <4>3. PICK i \in DOMAIN Emits(m), j \in DOMAIN Emits(n) :
              /\ Emits(m)[i] = a
              /\ Emits(n)[j] = b
              /\ rank[m] < rank[n] \/ (m = n /\ i < j)
        BY <4>1
      <4>4. /\ i \in DOMAIN Emits(m)' /\ Emits(m)'[i] = a
            /\ j \in DOMAIN Emits(n)' /\ Emits(n)'[j] = b
            /\ rank'[m] < rank'[n] \/ (m = n /\ i < j)
        BY <4>2, <4>3
      <4>5. \E p \in nodes', q \in nodes' : \E g \in DOMAIN Emits(p)', h \in DOMAIN Emits(q)' :
              /\ Emits(p)'[g] = a
              /\ Emits(q)'[h] = b
              /\ rank'[p] < rank'[q] \/ (p = q /\ g < h)
        BY <4>2, <4>4
      <4>6. QED
        BY <4>5 DEF EmittedBefore
    <3>4. QED
      BY <2>1, <3>1, <3>2, <3>3 DEF OrderKept
  <2>5. QED
    BY <2>1, <2>2, <2>3, <2>4 DEF OrderedNext
<1>3. QED
  BY <1>1, <1>2, PTL DEF OrderedSpec

-----------------------------------------------------------------------------
(* Refinement: what is emitted is the program after code motion.           *)

(* Statement s is the i-th that node n emits.                              *)
At(s, n, i) == n \in nodes /\ i \in DOMAIN Emits(n) /\ Emits(n)[i] = s

LEMMA Somewhere == FlatInv => \A s \in Defined : \E n, i : At(s, n, i)
<1> SUFFICES ASSUME FlatInv, NEW s \in Defined
             PROVE  \E n, i : At(s, n, i)
  OBVIOUS
<1>1. PICK n \in nodes : s \in Range(Emits(n))
  BY DEF FlatInv, Covered
<1>2. PICK i \in DOMAIN Emits(n) : Emits(n)[i] = s
  BY <1>1 DEF Range
<1>3. QED
  BY <1>2 DEF At

PlaceTyped ==
  \A s, n, i : At(s, n, i) => i \in Nat /\ rank[n] \in Nat /\ s \in Defined

LEMMA PlaceTypes == FlatInv => PlaceTyped
<1> SUFFICES ASSUME FlatInv, NEW s, NEW n, NEW i, At(s, n, i)
             PROVE  i \in Nat /\ rank[n] \in Nat /\ s \in Defined
  BY DEF PlaceTyped
<1>1. n \in nodes /\ n \in Comps /\ children[n] \in Seq(Comps) /\ rank[n] \in Nat
  BY DEF At, FlatInv, Shape, TypeOK
<1>2. DOMAIN Emits(n) = 1..(Len(children[n]) + 1) /\ Len(children[n]) \in Nat
  BY <1>1, EmitsShape
<1>3. s \in Range(Emits(n))
  BY DEF At, Range
<1>4. QED
  BY <1>1, <1>2, <1>3 DEF At, FlatInv, Covered

(* Which of two statements runs first is a matter of their places.         *)
Decided ==
  \A a, b, m, n, i, j :
    At(a, m, i) /\ At(b, n, j) =>
      (<< a, b >> \in RunsBefore <=> rank[m] < rank[n] \/ (m = n /\ i < j))

LEMMA PlacesDecide == FlatInv => Decided
<1> SUFFICES ASSUME FlatInv, NEW a, NEW b, NEW m, NEW n, NEW i, NEW j, At(a, m, i), At(b, n, j)
             PROVE  << a, b >> \in RunsBefore <=> rank[m] < rank[n] \/ (m = n /\ i < j)
  BY DEF Decided
<1>1. a \in Defined /\ b \in Defined
  BY PlaceTypes DEF PlaceTyped
<1>2. << a, b >> \in RunsBefore <=> EmittedBefore(a, b)
  BY <1>1 DEF RunsBefore
<1>3. ASSUME NEW p \in nodes, NEW g \in DOMAIN Emits(p), Emits(p)[g] = a
      PROVE  p = m /\ g = i
  BY <1>3 DEF At, FlatInv, Distinct
<1>4. ASSUME NEW p \in nodes, NEW g \in DOMAIN Emits(p), Emits(p)[g] = b
      PROVE  p = n /\ g = j
  BY <1>4 DEF At, FlatInv, Distinct
<1>5. EmittedBefore(a, b) => rank[m] < rank[n] \/ (m = n /\ i < j)
  BY <1>3, <1>4 DEF EmittedBefore
<1>6. rank[m] < rank[n] \/ (m = n /\ i < j) => EmittedBefore(a, b)
  BY DEF EmittedBefore, At
<1>7. QED
  BY <1>2, <1>5, <1>6

(* All that is defined is emitted in a line.                               *)
InLine == Motion!Linear(RunsBefore, Defined)

LEMMA AllInLine == FlatInv => InLine
<1> SUFFICES ASSUME FlatInv
             PROVE  InLine
  OBVIOUS
<1>1. RunsBefore \subseteq Defined \X Defined
  BY DEF RunsBefore
<1>2. ASSUME NEW a \in Defined
      PROVE  << a, a >> \notin RunsBefore
  <2>1. PICK n, i : At(a, n, i)
    BY Somewhere
  <2>2. << a, a >> \in RunsBefore <=> rank[n] < rank[n] \/ (n = n /\ i < i)
    BY <2>1, PlacesDecide DEF Decided
  <2>3. i \in Nat /\ rank[n] \in Nat
    BY <2>1, PlaceTypes DEF PlaceTyped
  <2>4. QED
    BY <2>2, <2>3
<1>3. ASSUME NEW a \in Defined, NEW b \in Defined, a # b
      PROVE  << a, b >> \in RunsBefore \/ << b, a >> \in RunsBefore
  <2>1. PICK m, i : At(a, m, i)
    BY Somewhere
  <2>2. PICK n, j : At(b, n, j)
    BY Somewhere
  <2>3. /\ << a, b >> \in RunsBefore <=> rank[m] < rank[n] \/ (m = n /\ i < j)
        /\ << b, a >> \in RunsBefore <=> rank[n] < rank[m] \/ (n = m /\ j < i)
    BY <2>1, <2>2, PlacesDecide DEF Decided
  <2>4. i \in Nat /\ j \in Nat /\ rank[m] \in Nat /\ rank[n] \in Nat
    BY <2>1, <2>2, PlaceTypes DEF PlaceTyped
  <2>5. rank[m] = rank[n] => m = n
    BY <2>1, <2>2 DEF At, FlatInv, Shape, RankInv
  <2>6. m = n => i # j
    BY <2>1, <2>2, <1>3 DEF At
  <2>7. QED
    BY <2>3, <2>4, <2>5, <2>6
<1>4. ASSUME NEW a \in Defined, NEW b \in Defined, NEW c \in Defined,
             << a, b >> \in RunsBefore, << b, c >> \in RunsBefore
      PROVE  << a, c >> \in RunsBefore
  <2>1. PICK m, i : At(a, m, i)
    BY Somewhere
  <2>2. PICK n, j : At(b, n, j)
    BY Somewhere
  <2>3. PICK o, k : At(c, o, k)
    BY Somewhere
  <2>4. /\ rank[m] < rank[n] \/ (m = n /\ i < j)
        /\ rank[n] < rank[o] \/ (n = o /\ j < k)
        /\ rank[m] < rank[o] \/ (m = o /\ i < k) => << a, c >> \in RunsBefore
    BY <2>1, <2>2, <2>3, <1>4, PlacesDecide DEF Decided
  <2>5. /\ i \in Nat /\ j \in Nat /\ k \in Nat
        /\ rank[m] \in Nat /\ rank[n] \in Nat /\ rank[o] \in Nat
    BY <2>1, <2>2, <2>3, PlaceTypes DEF PlaceTyped
  <2>6. QED
    BY <2>4, <2>5
<1>5. QED
  BY <1>1, <1>2, <1>3, <1>4 DEF InLine, Motion!Linear

(* The same after a step that keeps the invariant.                         *)
LEMMA Afterwards == FlatInv' => PlaceTyped' /\ InLine' /\ Decided'
BY PlaceTypes, AllInLine, PlacesDecide, PTL

(* A statement that is written comes last.                                 *)
LEMMA AddRefines ==
  ASSUME FlatInv, FlatInv', NEW c \in Comps, NEW R \in Accesses, NEW W \in Accesses,
         AddComp(c, R, W)
  PROVE  Motion!Write(c)
<1>1. /\ ~ fused /\ ~ fused'
      /\ reads  \in [Comps -> SUBSET Data] /\ reads'  = [reads EXCEPT ![c] = @ \union R]
      /\ writes \in [Comps -> SUBSET Data] /\ writes' = [writes EXCEPT ![c] = @ \union W]
      /\ rank \in [Comps -> Nat] /\ rank' \in [Comps -> Nat]
  BY DEF AddComp, FlatInv, Shape, TypeOK
<1>2. /\ nodes = Defined /\ nodes' = Defined' /\ Defined \subseteq Comps /\ Defined' \subseteq Comps
      /\ \A n \in Comps : Emits(n) = << n >> /\ Emits(n)' = << n >>
  BY AddFacts DEF Defined
<1>3. \A n : 1 \in DOMAIN << n >> /\ << n >>[1] = n
  OBVIOUS
<1>4. (\A n \in Defined : At(n, n, 1)) /\ \A n \in Defined' : At(n, n, 1)'
  BY <1>2, <1>3 DEF At
<1>5. /\ Defined' = Defined \union {c}
      /\ \A n \in Defined : rank'[n] = rank[n]
      /\ c \notin Defined => \A n \in Defined : rank[n] < rank'[c]
  <2>1. CASE c \in Defined
    BY <2>1, <1>1, <1>2 DEF AddComp, Defined, FlatInv, Shape
  <2>2. CASE c \notin Defined
    <3>1. rank' = [rank EXCEPT ![c] = Cardinality(Defined) + 1]
      BY <2>2, <1>2 DEF AddComp, FlatInv, Shape
    <3>2. Cardinality(Defined) \in Nat
      <4>1. IsFiniteSet(Comps)
        BY NCompsAssumption, FS_Interval DEF Comps
      <4>2. IsFiniteSet(Defined)
        BY <4>1, FS_Subset DEF Defined
      <4>3. QED
        BY <4>2, FS_CardinalityType
    <3>3. \A n \in Defined : rank[n] <= Cardinality(Defined) /\ n # c
      BY <2>2 DEF FlatInv, RankInv
    <3>4. \A n \in Defined : n \in Comps /\ rank[n] \in Nat
      BY <1>1 DEF Defined
    <3>5. rank'[c] = Cardinality(Defined) + 1 /\ \A n \in Comps \ {c} : rank'[n] = rank[n]
      BY <1>1, <3>1
    <3>6. Defined' = Defined \union {c}
      BY AddFacts
    <3>7. QED
      BY <3>2, <3>3, <3>4, <3>5, <3>6
  <2>3. QED
    BY <2>1, <2>2
<1>6. /\ RunsBefore  = {p \in Defined \X Defined : rank[p[1]] < rank[p[2]]}
      /\ RunsBefore' = {p \in Defined' \X Defined' : rank'[p[1]] < rank'[p[2]]}
  <2>1. \A a, b \in Defined : << a, b >> \in RunsBefore <=> rank[a] < rank[b]
    BY <1>4, PlacesDecide DEF Decided
  <2>2. \A a, b \in Defined' : << a, b >> \in RunsBefore' <=> rank'[a] < rank'[b]
    BY <1>4, Afterwards DEF Decided
  <2>3. RunsBefore \subseteq Defined \X Defined /\ RunsBefore' \subseteq Defined' \X Defined'
    BY DEF RunsBefore
  <2>4. QED
    BY <2>1, <2>2, <2>3
<1>7. RunsBefore' = RunsBefore \union {<< a, c >> : a \in {x \in Defined : c \notin Defined}}
  <2>1. \A n \in Defined' : rank'[n] \in Nat
    BY <1>1 DEF Defined
  <2>2. QED
    BY <1>5, <1>6, <2>1
<1>8. QED
  BY <1>1, <1>5, <1>7 DEF Motion!Write

(* A fusion moves the statement of the node that is fused.                 *)
LEMMA FuseRefines ==
  ASSUME FlatInv, FlatInv', NEW f \in nodes, NEW r \in nodes,
         FuseEffect(f, r), Movable(f, r)
  PROVE  Motion!Move(r)
<1>1. /\ f \in Comps /\ r \in Comps /\ f # r /\ r \in Defined
      /\ Emits(r) = << r >> /\ nodes' = nodes \ {r} /\ rank' = rank
      /\ Defined' = Defined /\ fused' = TRUE /\ UNCHANGED << reads, writes >>
  BY DEF FlatInv, Shape, TypeOK, FuseEffect, Defined
<1>2. EmitEffect(f, r)
  BY <1>1, FuseEmits DEF FlatInv, Shape
<1>3. At(r, r, 1)
  BY <1>1 DEF At
<1>4. PICK last : last = Len(Emits(f)) + 1
  OBVIOUS
<1>5. At(r, f, last)' /\ last \in Nat
  <2>1. f \in nodes' /\ last \in DOMAIN Emits(f)' /\ Emits(f)'[last] = r
    BY <1>1, <1>2, <1>4 DEF EmitEffect
  <2>2. At(r, f, last)'
    BY <2>1 DEF At
  <2>3. QED
    BY <2>2, Afterwards DEF PlaceTyped
<1>6. ASSUME NEW a \in Defined \ {r}
      PROVE  \E n, i : n # r /\ At(a, n, i) /\ At(a, n, i)' /\ (n = f => i < last)
  <2>1. PICK n, i : At(a, n, i)
    BY Somewhere
  <2>2. n # r
    BY <2>1, <1>1 DEF At
  <2>3. At(a, n, i)' /\ (n = f => i < last)
    BY <2>1, <2>2, <1>1, <1>2, <1>4 DEF At, EmitEffect, FlatInv, Shape, TypeOK
  <2>4. QED
    BY <2>1, <2>2, <2>3
<1>7. ASSUME NEW a \in Defined \ {r}, NEW b \in Defined \ {r}
      PROVE  << a, b >> \in RunsBefore' <=> << a, b >> \in RunsBefore
  <2>1. PICK m, i : m # r /\ At(a, m, i) /\ At(a, m, i)'
    BY <1>6
  <2>2. PICK n, j : n # r /\ At(b, n, j) /\ At(b, n, j)'
    BY <1>6
  <2>3. << a, b >> \in RunsBefore <=> rank[m] < rank[n] \/ (m = n /\ i < j)
    BY <2>1, <2>2, PlacesDecide DEF Decided
  <2>4. << a, b >> \in RunsBefore' <=> rank'[m] < rank'[n] \/ (m = n /\ i < j)
    BY <2>1, <2>2, Afterwards DEF Decided
  <2>5. QED
    BY <2>3, <2>4, <1>1
<1>8. /\ rank[f] < rank[r] /\ rank[f] \in Nat /\ rank[r] \in Nat
      /\ \A n \in nodes : rank[f] < rank[n] /\ rank[n] < rank[r] =>
           \A s \in Range(Emits(n)) : ~ Conflict(s, r)
  BY <1>1 DEF FlatInv, Shape, TypeOK, Movable
<1>9. ASSUME NEW b \in Defined \ {r}
      PROVE  /\ << r, b >> \in RunsBefore => << r, b >> \in RunsBefore'
             /\ << b, r >> \in RunsBefore /\ << r, b >> \in RunsBefore' => ~ Conflict(b, r)
  <2>1. PICK n, i : n # r /\ At(b, n, i) /\ At(b, n, i)' /\ (n = f => i < last)
    BY <1>6
  <2>2. /\ << r, b >> \in RunsBefore <=> rank[r] < rank[n]
        /\ << b, r >> \in RunsBefore <=> rank[n] < rank[r]
    BY <2>1, <1>3, PlacesDecide, SMTT(30) DEF Decided
  <2>3. << r, b >> \in RunsBefore' <=> rank'[f] < rank'[n] \/ (f = n /\ last < i)
    BY <2>1, <1>5, Afterwards DEF Decided
  <2>4. i \in Nat /\ rank[n] \in Nat
    BY <2>1, PlaceTypes DEF PlaceTyped
  <2>5. b \in Range(Emits(n)) /\ n \in nodes
    BY <2>1 DEF At, Range
  <2>6. << r, b >> \in RunsBefore' <=> rank[f] < rank[n]
    BY <2>1, <2>3, <2>4, <1>1, <1>5
  <2>7. rank[r] < rank[n] => rank[f] < rank[n]
    BY <2>4, <1>8
  <2>8. QED
    BY <2>2, <2>5, <2>6, <2>7, <1>8
<1>10. << r, r >> \notin RunsBefore
  BY <1>1, AllInLine DEF InLine, Motion!Linear
<1>11. \A b : Motion!Dependent(b, r) <=> Conflict(b, r)
  BY DEF Motion!Dependent, Conflict
<1>12. Motion!Linear(RunsBefore', Defined)
  BY <1>1, Afterwards DEF InLine
<1>13. QED
  BY <1>1, <1>7, <1>9, <1>10, <1>11, <1>12 DEF Motion!Move

(* Fusing, as clients that keep to the rule do it, is code motion.         *)
THEOREM MotionRefinement == OrderedSpec => ImplementsMotion
<1>1. Init => Motion!Init
  BY DEF Init, Motion!Init, Defined, RunsBefore
<1>2. FlatInv /\ FlatInv' /\ [OrderedNext]_vars => [Motion!Next]_Motion!vars
  <2> SUFFICES ASSUME FlatInv, FlatInv', [OrderedNext]_vars
               PROVE  [Motion!Next]_Motion!vars
    OBVIOUS
  <2>1. ASSUME NEW c \in Comps, NEW R \in Accesses, NEW W \in Accesses, AddComp(c, R, W)
        PROVE  Motion!Next
    BY <2>1, AddRefines DEF Motion!Next
  <2>2. ASSUME NEW l \in Comps, NEW r \in Comps, Flat(r), Movable(Get(l), r), Fuse(l, r)
        PROVE  Motion!Next
    <3>1. PICK f : f = Get(l)
      OBVIOUS
    <3>2. FuseEffect(f, r)
      BY <2>2, <3>1, FuseFacts, Zenon
    <3>3. f \in nodes /\ r \in nodes /\ Movable(f, r)
      BY <2>2, <3>1, <3>2 DEF FuseEffect
    <3>4. QED
      BY <3>2, <3>3, FuseRefines DEF Motion!Next
  <2>3. CASE UNCHANGED vars
    BY <2>3 DEF vars, Motion!vars, Defined, RunsBefore, EmittedBefore, Emits
  <2>4. QED
    BY <2>1, <2>2, <2>3 DEF OrderedNext
<1>3. OrderedSpec => FlatSpec
  BY OrderedIsFlat, PTL DEF OrderedSpec, FlatSpec
<1>4. QED
  BY <1>1, <1>2, <1>3, FlatInvariant, PTL DEF OrderedSpec, ImplementsMotion, Motion!Spec
=============================================================================
