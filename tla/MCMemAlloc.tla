----------------------------- MODULE MCMemAlloc -----------------------------
(***************************************************************************)
(* Small dataflow graphs for MemAlloc: N computations over three data      *)
(* nodes, each computation reading at most MaxReads and writing at most    *)
(* MaxWrites of them, in every combination; sizes run over Sizes.          *)
(***************************************************************************)
EXTENDS MemAlloc, TLC

CONSTANTS a, b, c, Sizes, MaxReads, MaxWrites

MCData == {a, b, c}

Accesses(k) == {S \in SUBSET MCData : Cardinality(S) <= k}

Graphs(os) ==
  [ reads   : [1..N -> Accesses(MaxReads)],
    writes  : [1..N -> Accesses(MaxWrites)],
    outputs : os ]

(* Every read follows a write; every write is followed by a read.          *)
ReadAfterWrite(g) ==
  \A r \in 1..N : \A d \in g.reads[r] : \E w \in 1..r : d \in g.writes[w]

WriteBeforeRead(g) ==
  \A w \in 1..N : \A d \in g.writes[w] : \E r \in w..N : d \in g.reads[r]

MCDefined    == {g \in Graphs({{}}) : ReadAfterWrite(g)}
MCSequential == {g \in Graphs({{}}) : ReadAfterWrite(g) /\ WriteBeforeRead(g)}
MCAny        == Graphs({{}, {c}})

MCSizings == [MCData -> Sizes]

Symmetry == Permutations(MCData)
=============================================================================
