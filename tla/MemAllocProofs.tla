--------------------------- MODULE MemAllocProofs ---------------------------
(***************************************************************************)
(* The allocator's promises, for every graph and every table of sizes.     *)
(***************************************************************************)
EXTENDS MemAlloc, TLAPS, FiniteSetTheorems

(* Where the walk is: visited is everything behind it.                     *)
PositionInv ==
  /\ visited = (cur + 1)..N
  /\ phase = "visit" => /\ cur > 0
                        /\ outs \subseteq prog.writes[cur]
                        /\ ins \subseteq prog.reads[cur]

(* Only temporaries are in the space map, and they are once process() was  *)
(* called on them.                                                         *)
Processed(d) ==
  \/ Touch(d) \intersect visited # {}
  \/ phase = "visit" /\ d \in (prog.writes[cur] \ outs) \union (prog.reads[cur] \ ins)

MappedInv ==
  \A d \in Data : /\ entry[d] # 0 => IsTemp(d)
                  /\ IsTemp(d) /\ Processed(d) => entry[d] # 0

(* The producers of a data node are known once one of its readers has been *)
(* entered.                                                                *)
Seen(n) == n > cur \/ (n = cur /\ phase = "visit")

ProducersInv ==
  \A d \in Data : /\ producers[d] \subseteq Writers(d)
                  /\ \A r \in Readers(d) : Seen(r) => producers[d] = Writers(d)

WalkInv == PositionInv /\ MappedInv /\ ProducersInv

(* The space map: live spaces sit in active entries of their own.          *)
HoldInv ==
  /\ \A d \in Data : Live(d) => entries[entry[d]].active
  /\ \A d, e \in Data : Live(d) /\ Live(e) /\ entry[d] = entry[e] => d = e

IInv == Sequential /\ TypeOK /\ WalkInv /\ HoldInv /\ NoInterference

-----------------------------------------------------------------------------
(* Lemmas about find().                                                    *)

(* Taking an entry marks it active, sets its size and touches no other.    *)
LEMMA TakeResult ==
  ASSUME entries \in Seq(Entry), NEW s \in Nat,
         NEW i \in 1..Len(entries), Take(i, s)
  PROVE  /\ entries' \in Seq(Entry)
         /\ Len(entries') = Len(entries)
         /\ entries'[i].size = s /\ entries'[i].active
         /\ \A j \in 1..Len(entries) : j # i => entries'[j] = entries[j]
<1>1. [size |-> s, active |-> TRUE] \in Entry
  BY DEF Entry
<1>2. entries' = [entries EXCEPT ![i] = [size |-> s, active |-> TRUE]]
  BY DEF Take
<1>3. entries' \in Seq(Entry) /\ Len(entries') = Len(entries)
  BY <1>1, <1>2
<1>4. entries'[i] = [size |-> s, active |-> TRUE]
  BY <1>2
<1>5. \A j \in 1..Len(entries) : j # i => entries'[j] = entries[j]
  BY <1>2
<1>6. QED
  BY <1>3, <1>4, <1>5

(* Whatever way find() takes, the entry it returns was free or is new, it  *)
(* is now active and large enough, and the other entries are unchanged.    *)
Found(i, s) ==
  /\ entries' \in Seq(Entry)
  /\ i \in 1..Len(entries')
  /\ entries'[i].active
  /\ entries'[i].size \in Nat
  /\ \A j \in 1..Len(entries) : j # i => entries'[j] = entries[j]
  /\ \/ /\ i \in 1..Len(entries)
        /\ Len(entries') = Len(entries)
        /\ ~entries[i].active
        /\ \/ entries'[i].size = entries[i].size /\ s <= entries[i].size
           \/ entries'[i].size = s /\ entries[i].size <= s
     \/ /\ i = Len(entries) + 1
        /\ Len(entries') = i
        /\ entries'[i].size = s

(* find() takes a free entry, or appends one, that the space fits in.      *)
LEMMA FindResult ==
  ASSUME entries \in Seq(Entry), NEW s \in Nat,
         NEW i \in 1..(Len(entries) + 1), Find(i, s)
  PROVE  Found(i, s)
<1>0. \A j \in 1..Len(entries) : entries[j].size \in Nat
  <2>1. \A j \in 1..Len(entries) : entries[j] \in Entry
    OBVIOUS
  <2>2. QED
    BY <2>1 DEF Entry
<1>1. CASE FindExact(i, s)
  <2>1. i \in 1..Len(entries) /\ ~entries[i].active /\ entries[i].size = s
    BY <1>1 DEF FindExact, IsFirst, Exact, Free
  <2>2. Take(i, s)
    BY <1>1 DEF FindExact
  <2>3. QED
    BY <2>1, <2>2, TakeResult DEF Found
<1>2. CASE FindLarger(i, s)
  <2>1. i \in 1..Len(entries) /\ ~entries[i].active /\ entries[i].size > s
    BY <1>2 DEF FindLarger, IsFirst, Larger, Free
  <2>2. Take(i, entries[i].size)
    BY <1>2 DEF FindLarger
  <2>3. QED
    BY <1>0, <2>1, <2>2, TakeResult DEF Found
<1>3. CASE FindResized(i, s)
  <2>1. i \in 1..Len(entries) /\ ~entries[i].active
    BY <1>3 DEF FindResized, Resizable, IsNearest, Free
  <2>2. entries[i].size < s
    BY <1>0, <1>3, <2>1 DEF FindResized, Exact, Larger, Free
  <2>3. Take(i, s)
    BY <1>3 DEF FindResized
  <2>4. QED
    BY <1>0, <2>1, <2>2, <2>3, TakeResult DEF Found
<1>4. CASE FindNew(i, s)
  <2>1. [size |-> s, active |-> TRUE] \in Entry
    BY DEF Entry
  <2>2. i = Len(entries) + 1 /\ entries' = Append(entries, [size |-> s, active |-> TRUE])
    BY <1>4 DEF FindNew
  <2>3. QED
    BY <2>1, <2>2 DEF Found
<1>5. QED
  BY <1>1, <1>2, <1>3, <1>4 DEF Find

(* The table after find(): every other index was there before and kept its *)
(* entry.                                                                  *)
LEMMA OtherSlots ==
  ASSUME NEW n \in Nat, NEW m \in Nat, NEW i \in Nat,
         (i \in 1..n /\ m = n) \/ (i = n + 1 /\ m = i)
  PROVE  \A j \in 1..m : j # i => j \in 1..n /\ j # 0
OBVIOUS

(* find() leaves every entry but the one it returns as it was.             *)
LEMMA FoundOthers ==
  ASSUME NEW i \in Nat, NEW s, Found(i, s), entries \in Seq(Entry)
  PROVE  \A j \in DOMAIN entries' :
           j # i => j \in DOMAIN entries /\ j # 0 /\ entries'[j] = entries[j]
<1>1. entries' \in Seq(Entry)
  BY Zenon DEF Found
<1>2. Len(entries) \in Nat /\ Len(entries') \in Nat
  BY <1>1
<1>3. \/ (i \in 1..Len(entries) /\ Len(entries') = Len(entries))
      \/ (i = Len(entries) + 1 /\ Len(entries') = i)
  BY Zenon DEF Found
<1>4. \A j \in 1..Len(entries') : j # i => j \in 1..Len(entries) /\ j # 0
  BY <1>2, <1>3, OtherSlots, SMTT(30)
<1>5. \A j \in 1..Len(entries) : j # i => entries'[j] = entries[j]
  BY Zenon DEF Found
<1>6. DOMAIN entries = 1..Len(entries) /\ DOMAIN entries' = 1..Len(entries')
  BY <1>1
<1>7. QED
  BY <1>4, <1>5, <1>6, Zenon

(* The size of the entry find() returned.                                  *)
LEMMA FoundSize ==
  ASSUME NEW i, NEW s, Found(i, s)
  PROVE  \/ /\ i \in 1..Len(entries)
            /\ \/ entries'[i].size = entries[i].size /\ s <= entries[i].size
               \/ entries'[i].size = s /\ entries[i].size <= s
         \/ (i = Len(entries) + 1 /\ entries'[i].size = s)
BY Zenon DEF Found

-----------------------------------------------------------------------------
(* Type correctness.                                                       *)

TypeInv == TypeOK /\ (phase = "visit" => cur > 0)

(* The pass starts well typed.                                             *)
LEMMA InitTypeInv == Init => TypeInv
<1>1. << >> \in Seq(Entry)
  OBVIOUS
<1>2. QED
  BY <1>1, NAssumption, ProgramsAssumption, SizingsAssumption
     DEF Init, TypeInv, TypeOK, NoAttr

(* process() keeps the table and the space map well typed.                 *)
LEMMA ProcessType ==
  ASSUME TypeInv, NEW d \in Data, Process(d)
  PROVE  entries' \in Seq(Entry) /\ entry' \in [Data -> 0..Len(entries')]
<1>1. CASE IsTemp(d) /\ entry[d] = 0
  <2>1. PICK i \in 1..(Len(entries) + 1) :
          Find(i, size[d]) /\ entry' = [entry EXCEPT ![d] = i]
    BY <1>1 DEF Process
  <2>2. Found(i, size[d])
    BY <2>1, FindResult DEF TypeInv, TypeOK
  <2>3. Len(entries) <= Len(entries') /\ Len(entries) \in Nat /\ Len(entries') \in Nat
    BY <2>2 DEF Found, TypeInv, TypeOK
  <2>4. QED
    BY <2>1, <2>2, <2>3 DEF Found, TypeInv, TypeOK
<1>2. CASE ~(IsTemp(d) /\ entry[d] = 0)
  BY <1>2 DEF Process, TypeInv, TypeOK
<1>3. QED
  BY <1>1, <1>2

(* Every step of the pass keeps the types.                                 *)
LEMMA TypeStep == TypeInv /\ [Next]_vars => TypeInv'
<1> SUFFICES ASSUME TypeInv, [Next]_vars PROVE TypeInv'
  OBVIOUS
<1>1. CASE Enter
  <2>1. cur \in Comps
    BY <1>1, NAssumption DEF Enter, TypeInv, TypeOK, Comps
  <2>2. prog.writes[cur] \subseteq Data /\ prog.reads[cur] \subseteq Data
    BY <2>1 DEF TypeInv, TypeOK, ProgramSpace
  <2>3. \A d \in Data : Writers(d) \subseteq Comps
    BY DEF Writers
  <2>4. producers' \in [Data -> SUBSET Comps]
    BY <1>1, <2>3 DEF Enter, TypeInv, TypeOK
  <2>5. QED
    BY <1>1, <2>2, <2>4 DEF Enter, TypeInv, TypeOK, graph
<1>2. ASSUME NEW d \in Data, ProcessOutput(d) PROVE TypeInv'
  BY <1>2, ProcessType DEF ProcessOutput, TypeInv, TypeOK, graph
<1>3. ASSUME NEW d \in Data, ProcessInput(d) PROVE TypeInv'
  BY <1>3, ProcessType DEF ProcessInput, TypeInv, TypeOK, graph
<1>4. CASE Exit
  <2> DEFINE back(i) == \E d \in Data : GivesBack(d) /\ entry[d] = i
  <2>1. entries' = [i \in DOMAIN entries |->
                      IF back(i) THEN [entries[i] EXCEPT !.active = FALSE]
                                 ELSE entries[i]]
    BY <1>4 DEF Exit
  <2>2. \A i \in 1..Len(entries) :
          entries[i] \in Entry /\ [entries[i] EXCEPT !.active = FALSE] \in Entry
    <3>1. \A i \in 1..Len(entries) : entries[i] \in Entry
      BY DEF TypeInv, TypeOK
    <3>2. QED
      BY <3>1 DEF Entry
  <2>3. DOMAIN entries = 1..Len(entries) /\ Len(entries) \in Nat
    BY DEF TypeInv, TypeOK
  <2> HIDE DEF back
  <2>4. entries' \in Seq(Entry) /\ Len(entries') = Len(entries)
    BY <2>1, <2>2, <2>3
  <2>5. cur \in 1..N
    BY <1>4, NAssumption DEF Exit, TypeInv, TypeOK
  <2>6. QED
    BY <1>4, <2>4, <2>5, NAssumption DEF Exit, TypeInv, TypeOK, graph, Comps
<1>5. CASE Finish
  <2>1. \A i \in 1..Len(entries) : entries[i].size \in Nat
    <3>1. \A i \in 1..Len(entries) : entries[i] \in Entry
      BY DEF TypeInv, TypeOK
    <3>2. QED
      BY <3>1 DEF Entry
  <2>2. \A d \in Data : entry[d] # 0 => entry[d] \in 1..Len(entries)
    BY DEF TypeInv, TypeOK
  <2>3. attrs' \in [Data -> [kind : {"none", "array", "scalar"}, entry : Nat, size : Nat]]
    BY <1>5, <2>1, <2>2 DEF Finish, TypeInv, TypeOK
  <2>4. QED
    BY <1>5, <2>3 DEF Finish, TypeInv, TypeOK, graph
<1>6. CASE Returned
  BY <1>6 DEF Returned, TypeInv, TypeOK, vars, graph
<1>7. CASE UNCHANGED vars
  BY <1>7 DEF TypeInv, TypeOK, vars, graph
<1>8. QED
  BY <1>1, <1>2, <1>3, <1>4, <1>5, <1>6, <1>7 DEF Next

(* The walk, the table and the space map keep their types: in particular   *)
(* _space_map never names an entry that is not in _entries.                *)
THEOREM TypeCorrect == Spec => []TypeOK
<1>1. TypeInv => TypeOK
  BY DEF TypeInv
<1>2. QED
  BY <1>1, InitTypeInv, TypeStep, PTL DEF Spec

-----------------------------------------------------------------------------
(* Sharing.  The graph does not change, so neither do the operators that   *)
(* only look at it.                                                        *)
LEMMA GraphFixed ==
  ASSUME UNCHANGED graph
  PROVE  /\ prog' = prog
         /\ \A d \in Data : Writers(d)' = Writers(d) /\ Readers(d)' = Readers(d)
         /\ \A d \in Data : Touch(d)' = Touch(d) /\ (IsTemp(d)' <=> IsTemp(d))
         /\ Temps' = Temps
         /\ Sequential' <=> Sequential
BY DEF graph, Writers, Readers, Touch, IsTemp, Temps, Sequential,
       DefinedBeforeUse, UsedAfterDefinition

(* Only computations touch a data node.                                    *)
LEMMA TouchComps == ASSUME NEW d PROVE Touch(d) \subseteq Comps
BY DEF Touch, Writers, Readers

(* process(d), called while the walk is at a computation that touches d,   *)
(* gives d an entry that no live space holds, and keeps HoldInv and        *)
(* NoInterference.                                                         *)
LEMMA ProcessStep ==
  ASSUME TypeInv, IInv, NEW d \in Data, phase = "visit", cur \in Touch(d),
         Process(d), UNCHANGED << graph, cur, phase, producers, visited, attrs >>
  PROVE  /\ \A e \in Data : e # d => entry'[e] = entry[e]
         /\ entry[d] # 0 => entry'[d] = entry[d]
         /\ entry'[d] # 0 <=> (entry[d] # 0 \/ IsTemp(d))
         /\ HoldInv' /\ NoInterference'
         /\ \A e \in Data : e # d => (Live(e)' <=> Live(e))
         /\ entry[d] # 0 => (Live(d)' <=> Live(d))
         /\ entry[d] = 0 /\ entry'[d] # 0 =>
              Live(d)' /\ \A e \in Data : Live(e) => entry[e] # entry'[d]
<1> USE GraphFixed
<1>1. CASE IsTemp(d) /\ entry[d] = 0
  <2>1. PICK i \in 1..(Len(entries) + 1) :
          Find(i, size[d]) /\ entry' = [entry EXCEPT ![d] = i]
    BY <1>1 DEF Process
  <2>2. Found(i, size[d])
    BY <2>1, FindResult DEF TypeInv, TypeOK
  <2>3. entry \in [Data -> 0..Len(entries)] /\ Len(entries) \in Nat
    BY DEF TypeInv, TypeOK
  <2>4. /\ \A e \in Data : e # d => entry'[e] = entry[e]
        /\ entry'[d] = i /\ i # 0
    BY <2>1, <2>3
  <2>5. cur \notin visited /\ Live(d)' /\ Touch(d) \intersect visited = {}
    BY <1>1, <2>4, TouchComps, NAssumption
       DEF IInv, WalkInv, PositionInv, MappedInv, Processed, Live, Unvisited,
           TypeInv, TypeOK, Comps
  <2>6. \A e \in Data : e # d => (Live(e)' <=> Live(e))
    BY <2>4 DEF Live, Unvisited
  <2>7. ASSUME NEW e \in Data, e # d, entry[e] = i
        PROVE  ~Live(e)
    <3>1. i \in 1..Len(entries)
      BY <2>3, <2>7
    <3>2. ~entries[i].active
      BY <2>2, <2>3, <3>1 DEF Found
    <3>3. QED
      BY <2>7, <3>2 DEF IInv, HoldInv
  <2>8. ASSUME NEW e \in Data, Live(e)'
        PROVE  entries'[entry'[e]].active
    <3>1. CASE e = d
      BY <2>2, <2>4, <3>1 DEF Found
    <3>2. CASE e # d
      <4>1. Live(e) /\ entry'[e] = entry[e] /\ entry[e] # i
        BY <2>4, <2>6, <2>7, <2>8, <3>2
      <4>2. entry[e] \in 1..Len(entries)
        BY <2>3, <4>1 DEF Live
      <4>3. entries'[entry[e]] = entries[entry[e]]
        BY <2>2, <4>1, <4>2 DEF Found
      <4>4. QED
        BY <4>1, <4>3 DEF IInv, HoldInv
    <3>3. QED
      BY <3>1, <3>2
  <2>9. HoldInv'
    BY <2>4, <2>6, <2>7, <2>8 DEF IInv, HoldInv
  <2>10. ASSUME NEW e \in Data, e # d, entry[e] = i
         PROVE  \A m \in Touch(d), n \in Touch(e) : m < n
    <3>1. Touch(e) \subseteq visited
      BY <2>3, <2>4, <2>7, <2>10 DEF Live, Unvisited
    <3>2. \A m \in Touch(d) : m \in 1..N /\ m \notin visited
      BY <2>5, TouchComps DEF Comps
    <3>3. visited = (cur + 1)..N /\ cur \in Nat /\ N \in Nat
      BY NAssumption DEF IInv, WalkInv, PositionInv, TypeInv, TypeOK
    <3>4. QED
      BY <3>1, <3>2, <3>3
  <2>11. NoInterference'
    <3> SUFFICES ASSUME NEW e \in Data, NEW f \in Data, e # f,
                        entry'[e] # 0, entry'[e] = entry'[f]
                 PROVE  \/ \A m \in Touch(e), n \in Touch(f) : m < n
                        \/ \A m \in Touch(e), n \in Touch(f) : n < m
      BY DEF NoInterference
    <3>1. CASE e = d
      BY <2>4, <2>10, <3>1
    <3>2. CASE f = d
      BY <2>4, <2>10, <3>2
    <3>3. CASE e # d /\ f # d
      BY <2>4, <3>3 DEF IInv, NoInterference
    <3>4. QED
      BY <3>1, <3>2, <3>3
  <2>12. \A e \in Data : Live(e) => entry[e] # i
    BY <1>1, <2>4, <2>7 DEF Live
  <2>13. QED
    BY <1>1, <2>4, <2>5, <2>6, <2>9, <2>11, <2>12
<1>2. CASE ~(IsTemp(d) /\ entry[d] = 0)
  <2>1. UNCHANGED << entry, entries >>
    BY <1>2 DEF Process
  <2>2. \A e \in Data : Live(e)' <=> Live(e)
    BY <2>1 DEF Live, Unvisited
  <2>3. HoldInv'
    BY <2>1, <2>2 DEF IInv, HoldInv
  <2>4. NoInterference'
    BY <2>1 DEF IInv, NoInterference
  <2>5. IsTemp(d) => entry[d] # 0
    BY <1>2
  <2>6. QED
    BY <2>1, <2>2, <2>3, <2>4, <2>5
<1>3. QED
  BY <1>1, <1>2

(* The heart of exit(CompNode): an entry is given back only when no        *)
(* computation that touches its space is ahead of the walk.                *)
LEMMA GivenBackIsDead ==
  ASSUME TypeInv, IInv, phase = "visit", NEW d \in Data, GivesBack(d)
  PROVE  Touch(d) \subseteq visited \union {cur}
<1>1. cur \in 1..N /\ N \in Nat /\ visited = (cur + 1)..N
  BY NAssumption DEF IInv, WalkInv, PositionInv, TypeInv, TypeOK
<1>2. d \in Temps /\ cur \in Writers(d)
  BY <1>1 DEF GivesBack, IInv, WalkInv, MappedInv, Temps, Writers, Comps
<1>3. PICK r \in Readers(d) : cur <= r
  BY <1>2 DEF IInv, Sequential, UsedAfterDefinition
<1>4. r \in 1..N /\ Seen(r)
  BY <1>1, <1>3 DEF Readers, Comps, Seen
<1>5. producers[d] = Writers(d)
  BY <1>3, <1>4 DEF IInv, WalkInv, ProducersInv
<1>6. \A w \in Writers(d) : w \in visited \union {cur}
  BY <1>5 DEF GivesBack
<1>7. ASSUME NEW q \in Readers(d) PROVE q \in visited \union {cur}
  <2>1. PICK w \in Writers(d) : w <= q
    BY <1>2 DEF IInv, Sequential, DefinedBeforeUse
  <2>2. w >= cur /\ w \in 1..N /\ q \in 1..N
    BY <1>1, <1>6, <2>1 DEF Readers, Writers, Comps
  <2>3. QED
    BY <1>1, <2>1, <2>2
<1>8. QED
  BY <1>6, <1>7 DEF Touch

(* The invariant holds before the walk, on a sequential program.           *)
LEMMA InitIInv == Init /\ Sequential => IInv
<1> SUFFICES ASSUME Init, Sequential PROVE IInv
  OBVIOUS
<1>1. TypeOK
  BY InitTypeInv DEF TypeInv
<1>2. /\ \A d \in Data : entry[d] = 0
      /\ visited = {} /\ cur = N /\ phase = "enter"
  BY DEF Init
<1>3. WalkInv
  <2>1. PositionInv
    BY <1>2, NAssumption DEF PositionInv
  <2>2. MappedInv
    BY <1>2 DEF MappedInv, Processed
  <2>3. ProducersInv
    <3>1. \A d \in Data : producers[d] = {}
      BY DEF Init
    <3>2. \A d \in Data : \A r \in Readers(d) : ~Seen(r)
      BY <1>2, NAssumption DEF Seen, Comps, Readers
    <3>3. QED
      BY <3>1, <3>2 DEF ProducersInv
  <2>4. QED
    BY <2>1, <2>2, <2>3 DEF WalkInv
<1>4. HoldInv /\ NoInterference
  BY <1>2 DEF HoldInv, NoInterference, Live
<1>5. QED
  BY <1>1, <1>3, <1>4 DEF IInv

(* A step that only moves the walk keeps the sharing part of IInv.         *)
LEMMA SharingFixed ==
  ASSUME IInv, UNCHANGED << graph, visited, entry, entries >>
  PROVE  HoldInv' /\ NoInterference' /\ Sequential'
<1>1. \A d \in Data : Live(d)' <=> Live(d)
  BY GraphFixed DEF Live, Unvisited
<1>2. HoldInv'
  BY <1>1 DEF IInv, HoldInv
<1>3. NoInterference'
  BY GraphFixed DEF IInv, NoInterference
<1>4. QED
  BY <1>2, <1>3, GraphFixed DEF IInv

(* Recording producers keeps the walk's invariant.                         *)
LEMMA EnterIInv ==
  ASSUME TypeInv, IInv, Enter
  PROVE  WalkInv'
<1> USE GraphFixed
<1>1. /\ UNCHANGED << graph, cur, visited, entry, entries >>
      /\ phase' = "visit" /\ cur > 0 /\ phase = "enter"
      /\ outs' = prog.writes[cur] /\ ins' = prog.reads[cur]
  BY DEF Enter
<1>2. \A d \in Data : producers'[d] = IF d \in prog.reads[cur]
                                        THEN Writers(d) ELSE producers[d]
  BY DEF Enter, IInv, WalkInv, ProducersInv
<1>3. PositionInv'
  BY <1>1 DEF IInv, WalkInv, PositionInv
<1>4. MappedInv'
  BY <1>1 DEF IInv, WalkInv, MappedInv, Processed
<1>5. ASSUME NEW d \in Data, NEW r \in Readers(d), Seen(r)'
      PROVE  producers'[d] = Writers(d)
  <2>1. d \in prog.reads[r] /\ r \in Comps
    BY DEF Readers
  <2>2. CASE r = cur
    BY <1>2, <2>1, <2>2
  <2>3. CASE r # cur
    <3>1. Seen(r)
      BY <1>1, <1>5, <2>3 DEF Seen
    <3>2. QED
      BY <1>2, <3>1 DEF IInv, WalkInv, ProducersInv
  <2>4. QED
    BY <2>2, <2>3
<1>6. ProducersInv'
  BY <1>1, <1>2, <1>5 DEF IInv, WalkInv, ProducersInv
<1>7. QED
  BY <1>3, <1>4, <1>6 DEF WalkInv

(* process() on d, as an output or as an input of cur.                     *)
LEMMA ProcessIInv ==
  ASSUME TypeInv, IInv, NEW d \in Data,
         ProcessOutput(d) \/ ProcessInput(d)
  PROVE  WalkInv' /\ HoldInv' /\ NoInterference'
<1> USE GraphFixed
<1>1. /\ phase = "visit" /\ Process(d)
      /\ d \in outs \/ d \in ins
      /\ outs' \subseteq outs /\ outs \ {d} \subseteq outs'
      /\ ins' \subseteq ins /\ ins \ {d} \subseteq ins'
      /\ UNCHANGED << graph, cur, phase, producers, visited, attrs >>
  BY DEF ProcessOutput, ProcessInput
<1>2. cur \in Comps /\ cur \in Touch(d)
  BY <1>1, NAssumption
     DEF IInv, WalkInv, PositionInv, TypeInv, TypeOK, Comps, Touch, Writers, Readers
<1>3. /\ \A e \in Data : e # d => entry'[e] = entry[e]
      /\ entry[d] # 0 => entry'[d] = entry[d]
      /\ entry'[d] # 0 <=> (entry[d] # 0 \/ IsTemp(d))
      /\ HoldInv' /\ NoInterference'
  BY <1>1, <1>2, ProcessStep
<1>4. PositionInv'
  BY <1>1 DEF IInv, WalkInv, PositionInv
<1>5. ProducersInv'
  BY <1>1 DEF IInv, WalkInv, ProducersInv, Seen
<1>6. \A e \in Data : e # d => (Processed(e)' <=> Processed(e))
  BY <1>1 DEF Processed
<1>7. MappedInv'
  BY <1>1, <1>3, <1>6 DEF IInv, WalkInv, MappedInv
<1>8. QED
  BY <1>3, <1>4, <1>5, <1>7 DEF WalkInv

(* Leaving a computation gives back only entries of dead spaces.           *)
LEMMA ExitIInv ==
  ASSUME TypeInv, IInv, Exit
  PROVE  WalkInv' /\ HoldInv' /\ NoInterference'
<1> USE GraphFixed
<1>1. /\ phase = "visit" /\ outs = {} /\ ins = {}
      /\ phase' = "enter" /\ cur' = cur - 1 /\ visited' = visited \union {cur}
      /\ UNCHANGED << graph, outs, ins, producers, entry, attrs >>
      /\ DOMAIN entries' = DOMAIN entries
      /\ \A i \in DOMAIN entries :
           \/ entries'[i] = entries[i]
           \/ \E d \in Data : GivesBack(d) /\ entry[d] = i
  BY DEF Exit
<1>2. cur \in 1..N /\ N \in Nat /\ visited = (cur + 1)..N
  BY <1>1, NAssumption DEF IInv, WalkInv, PositionInv, TypeInv, TypeOK
<1>3. PositionInv'
  BY <1>1, <1>2 DEF PositionInv
<1>4. ProducersInv'
  <2>1. \A d \in Data : \A r \in Readers(d) : r \in Nat /\ (Seen(r)' => Seen(r))
    BY <1>1, <1>2 DEF Seen, Readers, Comps
  <2>2. QED
    BY <1>1, <2>1 DEF IInv, WalkInv, ProducersInv
<1>5. MappedInv'
  <2>1. ASSUME NEW d \in Data, Processed(d)' PROVE Processed(d)
    <3>1. PICK n \in Touch(d) : n \in visited \/ n = cur
      BY <1>1, <2>1 DEF Processed
    <3>2. CASE n \in visited
      BY <3>1, <3>2 DEF Processed
    <3>3. CASE n = cur
      BY <1>1, <3>1, <3>3 DEF Processed, Touch, Writers, Readers
    <3>4. QED
      BY <3>1, <3>2, <3>3
  <2>2. QED
    BY <1>1, <2>1 DEF IInv, WalkInv, MappedInv
<1>6. \A d \in Data : Live(d)' => Live(d) /\ ~GivesBack(d)
  <2>1. \A d \in Data : Live(d)' => Live(d)
    BY <1>1 DEF Live, Unvisited
  <2>2. \A d \in Data : GivesBack(d) => ~Live(d)'
    BY <1>1, GivenBackIsDead DEF Live, Unvisited
  <2>3. QED
    BY <2>1, <2>2
<1>7. \A d \in Data : GivesBack(d) => Live(d)
  BY <1>2 DEF GivesBack, Live, Unvisited, Touch, Writers, Comps
<1>8. ASSUME NEW d \in Data, Live(d)'
      PROVE  entries'[entry[d]] = entries[entry[d]]
  <2>1. \A e \in Data : GivesBack(e) => entry[e] # entry[d]
    BY <1>6, <1>7, <1>8 DEF IInv, HoldInv
  <2>2. entry[d] \in DOMAIN entries
    BY <1>6, <1>8 DEF Live, TypeInv, TypeOK
  <2>3. QED
    BY <1>1, <2>1, <2>2
<1>9. HoldInv'
  BY <1>1, <1>6, <1>8 DEF IInv, HoldInv
<1>10. NoInterference'
  BY <1>1 DEF IInv, NoInterference
<1>11. QED
  BY <1>3, <1>4, <1>5, <1>9, <1>10 DEF WalkInv

(* finish(), and the pass after it returned.                               *)
LEMMA StillIInv ==
  ASSUME TypeInv, IInv, Finish \/ UNCHANGED vars
  PROVE  WalkInv'
<1> USE GraphFixed
<1>1. /\ UNCHANGED << graph, cur, outs, ins, producers, visited, entry >>
      /\ phase' = phase \/ (phase = "enter" /\ phase' = "done")
  BY DEF Finish, vars
<1>2. PositionInv'
  BY <1>1 DEF IInv, WalkInv, PositionInv
<1>3. MappedInv'
  BY <1>1 DEF IInv, WalkInv, MappedInv, Processed
<1>4. ProducersInv'
  BY <1>1 DEF IInv, WalkInv, ProducersInv, Seen
<1>5. QED
  BY <1>2, <1>3, <1>4 DEF WalkInv

(* Every step of the pass preserves the invariant.                         *)
LEMMA IInvStep == TypeInv /\ IInv /\ [Next]_vars => IInv'
<1> SUFFICES ASSUME TypeInv, IInv, [Next]_vars PROVE IInv'
  OBVIOUS
<1>1. TypeOK'
  BY TypeStep DEF TypeInv
<1>2. Sequential'
  BY GraphFixed
     DEF IInv, Next, vars, Enter, ProcessOutput, ProcessInput, Exit, Finish, Returned
<1>3. CASE Enter
  BY <1>1, <1>2, <1>3, EnterIInv, SharingFixed DEF IInv, Enter
<1>4. ASSUME NEW d \in Data, ProcessOutput(d) \/ ProcessInput(d) PROVE IInv'
  BY <1>1, <1>2, <1>4, ProcessIInv DEF IInv
<1>5. CASE Exit
  BY <1>1, <1>2, <1>5, ExitIInv DEF IInv
<1>6. CASE Finish \/ UNCHANGED vars
  BY <1>1, <1>2, <1>6, StillIInv, SharingFixed DEF IInv, Finish, vars
<1>7. QED
  BY <1>3, <1>4, <1>5, <1>6 DEF Next, Returned

(* Whatever the graph, the sizes and the order of the accesses: spaces     *)
(* that share an entry are used over disjoint stretches of the program.    *)
THEOREM SharingIsSafe == SequentialSpec => []NoInterference
<1>1. IInv => NoInterference
  BY DEF IInv
<1>2. QED
  BY <1>1, InitTypeInv, TypeStep, InitIInv, IInvStep, PTL DEF SequentialSpec, SequentialInit

-----------------------------------------------------------------------------
(* Refinement: every step of the walk is a step of SharedStorage.          *)

(* A step that leaves the walk's position and the map alone is a stutter of *)
(* the abstract storage.                                                   *)
LEMMA StageFixed ==
  ASSUME UNCHANGED << graph, visited, entry >>
  PROVE  UNCHANGED << Stage, entry >>
<1>1. \A d \in Data : Live(d)' <=> Live(d)
  BY GraphFixed DEF Live, Unvisited
<1>2. QED
  BY <1>1 DEF Stage

(* process() acquires a cell that no space holds, or does nothing.         *)
LEMMA ProcessRefines ==
  ASSUME TypeInv, IInv, NEW d \in Data,
         ProcessOutput(d) \/ ProcessInput(d)
  PROVE  [Storage!Next]_<< Stage, entry >>
<1>1. /\ phase = "visit" /\ Process(d) /\ (d \in outs \/ d \in ins)
      /\ UNCHANGED << graph, cur, phase, producers, visited, attrs >>
  BY DEF ProcessOutput, ProcessInput
<1>2. cur \in Touch(d)
  BY <1>1, NAssumption
     DEF IInv, WalkInv, PositionInv, TypeInv, TypeOK, Comps, Touch, Writers, Readers
<1>3. entry' \in [Data -> Nat] /\ entry \in [Data -> Nat]
  <2>1. Len(entries) \in Nat /\ entries' \in Seq(Entry)
    BY <1>1, ProcessType DEF TypeInv, TypeOK
  <2>2. Len(entries') \in Nat
    BY <2>1
  <2>3. QED
    BY <1>1, <2>1, <2>2, ProcessType, SMTT(30) DEF TypeInv, TypeOK
<1>4. /\ \A e \in Data : e # d => entry'[e] = entry[e] /\ (Live(e)' <=> Live(e))
      /\ entry[d] # 0 => entry'[d] = entry[d] /\ (Live(d)' <=> Live(d))
      /\ entry[d] = 0 /\ entry'[d] # 0 =>
              Live(d)' /\ \A e \in Data : Live(e) => entry[e] # entry'[d]
  BY <1>1, <1>2, ProcessStep
<1>5. CASE entry'[d] = entry[d]
  <2>1. entry' = entry
    BY <1>3, <1>4, <1>5
  <2>2. QED
    BY <1>1, <2>1, StageFixed
<1>6. CASE entry'[d] # entry[d]
  <2>1. entry[d] = 0 /\ entry'[d] \in Nat \ {0}
    BY <1>3, <1>4, <1>6
  <2>2. entry' = [entry EXCEPT ![d] = entry'[d]]
    BY <1>3, <1>4
  <2>3. Stage' = [Stage EXCEPT ![d] = "held"]
    BY <1>4, <2>1 DEF Stage
  <2>4. Stage[d] = "unborn"
    BY <2>1 DEF Stage
  <2>5. \A e \in Data : Stage[e] = "held" => entry[e] # entry'[d]
    BY <1>4, <2>1 DEF Stage
  <2>6. Storage!Acquire(d)
    BY <2>1, <2>2, <2>3, <2>4, <2>5 DEF Storage!Acquire
  <2>7. QED
    BY <2>6 DEF Storage!Next
<1>7. QED
  BY <1>5, <1>6

(* Leaving a computation releases the spaces it was the last to touch.     *)
LEMMA ExitRefines ==
  ASSUME TypeInv, IInv, Exit
  PROVE  Storage!Release
<1>1. UNCHANGED << graph, entry >> /\ visited' = visited \union {cur}
  BY DEF Exit
<1>2. \A d \in Data : Live(d)' => Live(d)
  BY <1>1, GraphFixed DEF Live, Unvisited
<1>3. Stage' = [d \in Data |-> Stage'[d]]
  BY DEF Stage
<1>4. \A d \in Data : Stage'[d] # Stage[d] => Stage[d] = "held" /\ Stage'[d] = "done"
  BY <1>1, <1>2 DEF Stage
<1>5. QED
  BY <1>1, <1>3, <1>4 DEF Storage!Release

(* The allocator implements the abstract sharing of storage cells.         *)
THEOREM Refinement == SequentialSpec => ImplementsStorage
<1>1. Init => Storage!Init
  BY DEF Init, Storage!Init, Stage
<1>2. TypeInv /\ IInv /\ [Next]_vars => [Storage!Next]_<< Stage, entry >>
  <2> SUFFICES ASSUME TypeInv, IInv, [Next]_vars
               PROVE  [Storage!Next]_<< Stage, entry >>
    OBVIOUS
  <2>1. CASE Enter \/ Finish \/ UNCHANGED vars
    BY <2>1, StageFixed DEF Enter, Finish, vars
  <2>2. ASSUME NEW d \in Data, ProcessOutput(d) \/ ProcessInput(d)
        PROVE  [Storage!Next]_<< Stage, entry >>
    BY <2>2, ProcessRefines
  <2>3. CASE Exit
    BY <2>3, ExitRefines DEF Storage!Next
  <2>4. QED
    BY <2>1, <2>2, <2>3 DEF Next, Returned
<1>3. QED
  BY <1>1, <1>2, InitTypeInv, TypeStep, InitIInv, IInvStep, PTL
     DEF SequentialSpec, SequentialInit, ImplementsStorage, Storage!Spec

(* Under the same condition find() does what its comments say.             *)
THEOREM NonLiveTaken == SequentialSpec => OnlyNonLiveTaken
<1> DEFINE Taken == \A d \in Data : entry[d] = 0 /\ entry'[d] # 0 =>
                      \A e \in Data : Live(e) => entry[e] # entry'[d]
<1>1. TypeInv /\ IInv /\ [Next]_vars => [Taken]_vars
  <2> SUFFICES ASSUME TypeInv, IInv, [Next]_vars PROVE [Taken]_vars
    OBVIOUS
  <2>1. ASSUME NEW c \in Data, ProcessOutput(c) \/ ProcessInput(c) PROVE Taken
    <3>1. /\ phase = "visit" /\ Process(c) /\ (c \in outs \/ c \in ins)
          /\ UNCHANGED << graph, cur, phase, producers, visited, attrs >>
      BY <2>1 DEF ProcessOutput, ProcessInput
    <3>2. cur \in Touch(c)
      BY <3>1, NAssumption
         DEF IInv, WalkInv, PositionInv, TypeInv, TypeOK, Comps, Touch, Writers, Readers
    <3>3. QED
      BY <3>1, <3>2, ProcessStep
  <2>2. CASE Enter \/ Exit \/ Finish \/ UNCHANGED vars
    BY <2>2 DEF Enter, Exit, Finish, vars
  <2>3. QED
    BY <2>1, <2>2 DEF Next, Returned
<1>2. QED
  BY <1>1, InitTypeInv, TypeStep, InitIInv, IInvStep, PTL
     DEF SequentialSpec, SequentialInit, OnlyNonLiveTaken

-----------------------------------------------------------------------------
(* Nothing is lost.                                                        *)

(* An entry that process() takes is held by a live space.                  *)
LEMMA ProcessNoLeak ==
  ASSUME TypeInv, IInv, NoLeak, NEW d \in Data,
         ProcessOutput(d) \/ ProcessInput(d)
  PROVE  NoLeak'
<1>1. /\ phase = "visit" /\ Process(d) /\ (d \in outs \/ d \in ins)
      /\ UNCHANGED << graph, cur, phase, producers, visited, attrs >>
  BY DEF ProcessOutput, ProcessInput
<1>2. cur \in Touch(d)
  BY <1>1, NAssumption
     DEF IInv, WalkInv, PositionInv, TypeInv, TypeOK, Comps, Touch, Writers, Readers
<1>3. /\ \A e \in Data : e # d => entry'[e] = entry[e] /\ (Live(e)' <=> Live(e))
      /\ entry[d] # 0 => entry'[d] = entry[d] /\ (Live(d)' <=> Live(d))
      /\ entry[d] = 0 /\ entry'[d] # 0 => Live(d)'
  BY <1>1, <1>2, ProcessStep
<1>4. CASE IsTemp(d) /\ entry[d] = 0
  <2>1. PICK i \in 1..(Len(entries) + 1) :
          Find(i, size[d]) /\ entry' = [entry EXCEPT ![d] = i]
    BY <1>1, <1>4 DEF Process
  <2>2. Found(i, size[d])
    BY <2>1, FindResult DEF TypeInv, TypeOK
  <2>3. entry'[d] = i /\ i # 0
    BY <2>1 DEF TypeInv, TypeOK
  <2>4. DOMAIN entries = 1..Len(entries) /\ DOMAIN entries' = 1..Len(entries')
        /\ Len(entries) \in Nat
    BY <2>2 DEF Found, TypeInv, TypeOK
  <2>0. \A j \in DOMAIN entries' :
          j # i => j \in DOMAIN entries /\ j # 0 /\ entries'[j] = entries[j]
    BY <2>2, FoundOthers DEF TypeInv, TypeOK
  <2>5. ASSUME NEW j \in DOMAIN entries', entries'[j].active, j # i
        PROVE  \E e \in Data : entry'[e] = j /\ Live(e)'
    <3>1. j \in DOMAIN entries /\ entries'[j] = entries[j]
      BY <2>0, <2>5
    <3>2. PICK e \in Data : entry[e] = j /\ Live(e)
      BY <2>5, <3>1 DEF NoLeak
    <3>3. e # d
      BY <1>4, <3>2 DEF Live
    <3>4. QED
      BY <1>3, <3>2, <3>3
  <2>6. QED
    BY <1>3, <1>4, <2>3, <2>5 DEF NoLeak
<1>5. CASE ~(IsTemp(d) /\ entry[d] = 0)
  <2>1. UNCHANGED << entry, entries >>
    BY <1>1, <1>5 DEF Process
  <2>2. \A e \in Data : Live(e)' <=> Live(e)
    BY <1>1, <2>1, GraphFixed DEF Live, Unvisited
  <2>3. QED
    BY <2>1, <2>2 DEF NoLeak
<1>6. QED
  BY <1>4, <1>5

(* A space that only the computation being left still touches is one that  *)
(* this computation is the first to write, so its entry is given back.     *)
LEMMA LastIsGivenBack ==
  ASSUME TypeInv, IInv, phase = "visit", NEW d \in Data, Live(d),
         Unvisited(d) \subseteq {cur}
  PROVE  GivesBack(d)
<1>1. cur \in 1..N /\ N \in Nat /\ visited = (cur + 1)..N
  BY NAssumption DEF IInv, WalkInv, PositionInv, TypeInv, TypeOK
<1>2. Touch(d) \subseteq visited \union {cur} /\ cur \in Touch(d) /\ entry[d] # 0
  BY DEF Live, Unvisited
<1>3. d \in Temps
  BY <1>2 DEF IInv, WalkInv, MappedInv, Temps
<1>4. cur \in Writers(d)
  <2>1. CASE cur \in Readers(d)
    <3>1. PICK w \in Writers(d) : w <= cur
      BY <1>3, <2>1 DEF IInv, Sequential, DefinedBeforeUse
    <3>2. w \in visited \union {cur}
      BY <1>2 DEF Touch
    <3>3. w = cur
      BY <1>1, <3>1, <3>2
    <3>4. QED
      BY <3>1, <3>3
  <2>2. QED
    BY <1>2, <2>1 DEF Touch
<1>5. producers[d] \ {cur} \subseteq visited
  BY <1>2 DEF IInv, WalkInv, ProducersInv, Touch
<1>6. QED
  BY <1>2, <1>4, <1>5 DEF GivesBack, Writers

(* An entry that stays active after exit() is held by a space still live.  *)
LEMMA ExitNoLeak ==
  ASSUME TypeInv, IInv, NoLeak, Exit
  PROVE  NoLeak'
<1>1. /\ phase = "visit" /\ visited' = visited \union {cur}
      /\ UNCHANGED << graph, entry >>
      /\ DOMAIN entries' = DOMAIN entries
  BY DEF Exit
<1>2. ASSUME NEW i \in DOMAIN entries, entries'[i].active
      PROVE  entries[i].active /\ \A d \in Data : entry[d] = i => ~GivesBack(d)
  <2>1. CASE \E d \in Data : GivesBack(d) /\ entry[d] = i
    <3>1. entries'[i] = [entries[i] EXCEPT !.active = FALSE]
      BY <2>1 DEF Exit
    <3>2. entries[i] \in Entry
      BY DEF TypeInv, TypeOK
    <3>3. entries'[i].active = FALSE
      BY <3>1, <3>2 DEF Entry
    <3>4. QED
      BY <1>2, <3>3
  <2>2. CASE ~ \E d \in Data : GivesBack(d) /\ entry[d] = i
    BY <1>2, <2>2 DEF Exit
  <2>3. QED
    BY <2>1, <2>2
<1>3. ASSUME NEW i \in DOMAIN entries, entries'[i].active
      PROVE  \E d \in Data : entry[d] = i /\ Live(d)'
  <2>1. PICK d \in Data : entry[d] = i /\ Live(d)
    BY <1>2, <1>3 DEF NoLeak
  <2>2. ~(Unvisited(d) \subseteq {cur})
    BY <1>1, <1>2, <1>3, <2>1, LastIsGivenBack
  <2>3. Live(d)'
    BY <1>1, <2>1, <2>2, GraphFixed DEF Live, Unvisited
  <2>4. QED
    BY <2>1, <2>3
<1>4. QED
  BY <1>1, <1>3 DEF NoLeak

(* Every active entry is held by a space the walk still needs; at the end  *)
(* of the walk no entry is active.                                         *)
THEOREM NothingLeaks == SequentialSpec => []NoLeak
<1>1. Init => NoLeak
  BY DEF Init, NoLeak
<1>2. TypeInv /\ IInv /\ NoLeak /\ [Next]_vars => NoLeak'
  <2> SUFFICES ASSUME TypeInv, IInv, NoLeak, [Next]_vars PROVE NoLeak'
    OBVIOUS
  <2>1. ASSUME NEW d \in Data, ProcessOutput(d) \/ ProcessInput(d) PROVE NoLeak'
    BY <2>1, ProcessNoLeak
  <2>2. CASE Exit
    BY <2>2, ExitNoLeak
  <2>3. CASE Enter \/ Finish \/ UNCHANGED vars
    <3>1. UNCHANGED << graph, visited, entry, entries >>
      BY <2>3 DEF Enter, Finish, vars
    <3>2. \A d \in Data : Live(d)' <=> Live(d)
      BY <3>1, GraphFixed DEF Live, Unvisited
    <3>3. QED
      BY <3>1, <3>2 DEF NoLeak
  <2>4. QED
    BY <2>1, <2>2, <2>3 DEF Next, Returned
<1>3. QED
  BY <1>1, <1>2, InitTypeInv, TypeStep, InitIInv, IInvStep, PTL DEF SequentialSpec, SequentialInit

-----------------------------------------------------------------------------
(* Sizes: for any graph, sequential or not.                                *)

(* process() keeps every entry as large as its largest space.              *)
LEMMA ProcessTight ==
  ASSUME TypeInv, TightEntries, NEW d \in Data, Process(d), UNCHANGED size
  PROVE  TightEntries'
<1>1. CASE IsTemp(d) /\ entry[d] = 0
  <2>1. PICK i \in 1..(Len(entries) + 1) :
          Find(i, size[d]) /\ entry' = [entry EXCEPT ![d] = i]
    BY <1>1 DEF Process
  <2>2. Found(i, size[d])
    BY <2>1, FindResult DEF TypeInv, TypeOK
  <2>3. /\ entry'[d] = i /\ i # 0
        /\ \A e \in Data : e # d => entry'[e] = entry[e]
        /\ \A e \in Data : entry[e] \in 0..Len(entries) /\ size[e] \in Nat
    BY <2>1 DEF TypeInv, TypeOK
  <2>4. DOMAIN entries = 1..Len(entries) /\ DOMAIN entries' = 1..Len(entries')
        /\ Len(entries) \in Nat
    BY <2>2 DEF Found, TypeInv, TypeOK
  <2>5. \A j \in DOMAIN entries : entries[j].size \in Nat
    <3>1. \A j \in DOMAIN entries : entries[j] \in Entry
      BY DEF TypeInv, TypeOK
    <3>2. QED
      BY <3>1 DEF Entry
  <2>0. \A j \in DOMAIN entries' :
          j # i => j \in DOMAIN entries /\ j # 0 /\ entries'[j] = entries[j]
    BY <2>2, FoundOthers DEF TypeInv, TypeOK
  <2>6. ASSUME NEW j \in DOMAIN entries', j # i
        PROVE  /\ \A e \in Data : entry'[e] = j => size[e] <= entries'[j].size
               /\ \E e \in Data : entry'[e] = j /\ size[e] = entries'[j].size
    <3>1. j \in DOMAIN entries /\ entries'[j] = entries[j] /\ j # 0
      BY <2>0, <2>6
    <3>2. QED
      BY <1>1, <2>3, <2>6, <3>1 DEF TightEntries
  <2>7. CASE i = Len(entries) + 1 /\ entries'[i].size = size[d]
    <3>1. \A e \in Data : entry'[e] = i => e = d
      BY <2>3, <2>4, <2>7
    <3>2. QED
      BY <2>3, <2>6, <2>7, <3>1 DEF TightEntries
  <2>8. CASE /\ i \in 1..Len(entries)
             /\ \/ entries'[i].size = entries[i].size /\ size[d] <= entries[i].size
                \/ entries'[i].size = size[d] /\ entries[i].size <= size[d]
    <3>1. /\ \A e \in Data : entry[e] = i => size[e] <= entries[i].size
          /\ \E e \in Data : entry[e] = i /\ size[e] = entries[i].size
      BY <2>4, <2>8 DEF TightEntries
    <3>2. entries[i].size \in Nat
      BY <2>4, <2>5, <2>8
    <3>3. /\ \A e \in Data : entry'[e] = i => size[e] <= entries'[i].size
          /\ \E e \in Data : entry'[e] = i /\ size[e] = entries'[i].size
      BY <1>1, <2>3, <2>8, <3>1, <3>2
    <3>4. QED
      BY <2>6, <3>3 DEF TightEntries
  <2>9. QED
    BY <2>2, <2>7, <2>8, FoundSize
<1>2. CASE ~(IsTemp(d) /\ entry[d] = 0)
  BY <1>2 DEF Process, TightEntries
<1>3. QED
  BY <1>1, <1>2

(* Every step keeps the entries tight.                                     *)
LEMMA TightStep == TypeInv /\ TightEntries /\ [Next]_vars => TightEntries'
<1> SUFFICES ASSUME TypeInv, TightEntries, [Next]_vars PROVE TightEntries'
  OBVIOUS
<1>1. ASSUME NEW d \in Data, ProcessOutput(d) \/ ProcessInput(d) PROVE TightEntries'
  BY <1>1, ProcessTight DEF ProcessOutput, ProcessInput, graph
<1>2. CASE Exit
  <2>1. /\ UNCHANGED << size, entry >> /\ DOMAIN entries' = DOMAIN entries
        /\ \A i \in DOMAIN entries :
             \/ entries'[i] = entries[i]
             \/ entries'[i] = [entries[i] EXCEPT !.active = FALSE]
    BY <1>2 DEF Exit, graph
  <2>2. \A i \in DOMAIN entries : entries[i] \in Entry
    BY DEF TypeInv, TypeOK
  <2>3. \A i \in DOMAIN entries : entries'[i].size = entries[i].size
    BY <2>1, <2>2 DEF Entry
  <2>4. QED
    BY <2>1, <2>3 DEF TightEntries
<1>3. CASE Enter \/ Finish \/ UNCHANGED vars
  BY <1>3 DEF Enter, Finish, vars, graph, TightEntries
<1>4. QED
  BY <1>1, <1>2, <1>3 DEF Next, Returned

(* Through all reuse and resizing an entry is as large as the largest      *)
(* space it was given to, and no larger.                                   *)
THEOREM EntriesAreTight == Spec => []TightEntries
<1>1. Init => TightEntries
  BY DEF Init, TightEntries
<1>2. QED
  BY <1>1, InitTypeInv, TypeStep, TightStep, PTL DEF Spec

-----------------------------------------------------------------------------
(* The attributes finish() leaves, for any graph, sequential or not.  What *)
(* is needed of the walk: where it is, that the space map holds exactly    *)
(* the temporaries it has met, and that no attribute is set before it ends.*)
AnnotInv ==
  /\ PositionInv /\ MappedInv
  /\ phase # "done" => \A d \in Data : attrs[d] = NoAttr
  /\ Annotated

(* Nothing is mapped and nothing annotated before the walk.                *)
LEMMA InitAnnot == Init => AnnotInv
<1> SUFFICES ASSUME Init PROVE AnnotInv
  OBVIOUS
<1>1. PositionInv
  BY NAssumption DEF Init, PositionInv
<1>2. MappedInv
  BY DEF Init, MappedInv, Processed
<1>3. QED
  BY <1>1, <1>2 DEF Init, AnnotInv, Annotated

(* process() puts d in the space map if it is a temporary.                 *)
LEMMA ProcessMaps ==
  ASSUME TypeInv, NEW d \in Data, Process(d)
  PROVE  /\ \A e \in Data : e # d => entry'[e] = entry[e]
         /\ entry'[d] # 0 <=> (entry[d] # 0 \/ IsTemp(d))
<1>1. CASE IsTemp(d) /\ entry[d] = 0
  <2>1. PICK i \in 1..(Len(entries) + 1) : entry' = [entry EXCEPT ![d] = i]
    BY <1>1 DEF Process
  <2>2. i # 0
    OBVIOUS
  <2>3. QED
    BY <1>1, <2>1, <2>2 DEF TypeInv, TypeOK
<1>2. CASE ~(IsTemp(d) /\ entry[d] = 0)
  BY <1>2 DEF Process
<1>3. QED
  BY <1>1, <1>2

(* A step of the walk, up to and without finish().                         *)
LEMMA WalkAnnot ==
  ASSUME TypeInv, AnnotInv,
         \/ Enter
         \/ \E d \in Data : ProcessOutput(d) \/ ProcessInput(d)
         \/ Exit
  PROVE  AnnotInv'
<1> USE GraphFixed
<1>0. /\ UNCHANGED << graph, attrs >>
      /\ phase # "done" /\ phase' # "done"
  BY DEF Enter, ProcessOutput, ProcessInput, Exit
<1>1. Annotated' /\ (phase' # "done" => \A d \in Data : attrs'[d] = NoAttr)
  BY <1>0 DEF AnnotInv, Annotated
<1>2. CASE Enter
  <2>1. PositionInv'
    BY <1>2 DEF Enter, AnnotInv, PositionInv, graph
  <2>2. MappedInv'
    BY <1>2 DEF Enter, AnnotInv, MappedInv, Processed
  <2>3. QED
    BY <1>1, <2>1, <2>2 DEF AnnotInv
<1>3. ASSUME NEW d \in Data, ProcessOutput(d) \/ ProcessInput(d) PROVE AnnotInv'
  <2>1. /\ phase = "visit" /\ Process(d)
        /\ d \in outs \/ d \in ins
        /\ outs' \subseteq outs /\ outs \ {d} \subseteq outs'
        /\ ins' \subseteq ins /\ ins \ {d} \subseteq ins'
        /\ UNCHANGED << graph, cur, phase, visited >>
    BY <1>3 DEF ProcessOutput, ProcessInput
  <2>2. PositionInv'
    BY <2>1 DEF AnnotInv, PositionInv, graph
  <2>3. \A e \in Data : e # d => (Processed(e)' <=> Processed(e))
    BY <2>1 DEF Processed
  <2>4. MappedInv'
    BY <2>1, <2>3, ProcessMaps DEF AnnotInv, MappedInv
  <2>5. QED
    BY <1>1, <2>2, <2>4 DEF AnnotInv
<1>4. CASE Exit
  <2>1. /\ phase = "visit" /\ outs = {} /\ ins = {} /\ phase' = "enter"
        /\ cur' = cur - 1 /\ visited' = visited \union {cur}
        /\ UNCHANGED << graph, entry >>
    BY <1>4 DEF Exit
  <2>2. cur \in 1..N /\ N \in Nat /\ visited = (cur + 1)..N
    BY <2>1, NAssumption DEF AnnotInv, PositionInv, TypeInv, TypeOK
  <2>3. PositionInv'
    BY <2>1, <2>2 DEF PositionInv
  <2>4. ASSUME NEW d \in Data, Processed(d)' PROVE Processed(d)
    <3>1. PICK n \in Touch(d) : n \in visited \/ n = cur
      BY <2>1, <2>4 DEF Processed
    <3>2. CASE n \in visited
      BY <3>1, <3>2 DEF Processed
    <3>3. CASE n = cur
      BY <2>1, <3>1, <3>3 DEF Processed, Touch, Writers, Readers
    <3>4. QED
      BY <3>1, <3>2, <3>3
  <2>5. MappedInv'
    BY <2>1, <2>4 DEF AnnotInv, MappedInv
  <2>6. QED
    BY <1>1, <2>3, <2>5 DEF AnnotInv
<1>5. QED
  BY <1>2, <1>3, <1>4

(* finish() runs when all computations were left, so every temporary is in *)
(* the space map; what it copies is the tight table.                       *)
LEMMA FinishAnnot ==
  ASSUME TypeInv, TightEntries, AnnotInv, Finish
  PROVE  AnnotInv'
<1> USE GraphFixed
<1>1. /\ phase = "enter" /\ cur = 0 /\ phase' = "done"
      /\ UNCHANGED << graph, cur, outs, ins, visited, entry >>
  BY DEF Finish
<1>2. PositionInv'
  BY <1>1 DEF AnnotInv, PositionInv
<1>3. MappedInv'
  BY <1>1 DEF AnnotInv, MappedInv, Processed
<1>4. visited = Comps
  BY <1>1, NAssumption DEF AnnotInv, PositionInv, Comps
<1>5. \A d \in Data : IsTemp(d) <=> entry[d] # 0
  <2>1. \A d \in Data : IsTemp(d) => Touch(d) # {} /\ Touch(d) \subseteq Comps
    BY TouchComps DEF IsTemp, Touch
  <2>2. \A d \in Data : IsTemp(d) => Processed(d)
    BY <1>4, <2>1 DEF Processed
  <2>3. QED
    BY <2>2 DEF AnnotInv, MappedInv
<1>6. ASSUME NEW d \in Data
      PROVE  attrs'[d] = IF entry[d] = 0
                           THEN NoAttr
                           ELSE [kind  |-> IF entries[entry[d]].size > 1
                                             THEN "array" ELSE "scalar",
                                 entry |-> entry[d],
                                 size  |-> entries[entry[d]].size]
  BY <1>1 DEF Finish, AnnotInv
<1>7. ASSUME NEW d \in Data PROVE attrs'[d].kind # "none" <=> IsTemp(d)
  <2>1. CASE entry[d] = 0
    <3>1. attrs'[d] = NoAttr
      BY <1>6, <2>1
    <3>2. QED
      BY <1>5, <2>1, <3>1 DEF NoAttr
  <2>2. CASE entry[d] # 0
    <3> DEFINE k == IF entries[entry[d]].size > 1 THEN "array" ELSE "scalar"
               s == entries[entry[d]].size
    <3>1. attrs'[d] = [kind |-> k, entry |-> entry[d], size |-> s]
      BY <1>6, <2>2
    <3>2. k # "none"
      OBVIOUS
    <3> HIDE DEF k, s
    <3>3. attrs'[d].kind = k
      BY <3>1
    <3>4. QED
      BY <1>5, <2>2, <3>2, <3>3
  <2>3. QED
    BY <2>1, <2>2
<1>8. ASSUME NEW d \in Data, entry[d] # 0
      PROVE  size[d] <= attrs'[d].size /\ attrs'[d].entry = entry[d]
  <2>1. entry[d] \in DOMAIN entries
    BY <1>8 DEF TypeInv, TypeOK
  <2>2. size[d] <= entries[entry[d]].size
    BY <2>1 DEF TightEntries
  <2> DEFINE k == IF entries[entry[d]].size > 1 THEN "array" ELSE "scalar"
             s == entries[entry[d]].size
  <2>3. attrs'[d] = [kind |-> k, entry |-> entry[d], size |-> s]
    BY <1>6, <1>8
  <2> HIDE DEF k
  <2>4. attrs'[d].size = s /\ attrs'[d].entry = entry[d]
    BY <2>3
  <2>5. QED
    BY <2>2, <2>4
<1>9. \A d, e \in Data :
        entry[d] # 0 /\ entry[e] # 0 /\ entry[d] = entry[e] => attrs'[d] = attrs'[e]
  BY <1>6
<1>10. Temps' = Temps /\ \A d \in Temps : d \in Data /\ entry[d] # 0
  BY <1>1, <1>5 DEF Temps
<1>11. size' = size /\ \A d \in Data : IsTemp(d)' <=> IsTemp(d)
  BY <1>1 DEF graph
<1>12. Annotated'
  <2>1. \A d \in Temps : size[d] <= attrs'[d].size /\ attrs'[d].entry = entry[d]
    BY <1>8, <1>10
  <2>2. \A d, e \in Temps : attrs'[d].entry = attrs'[e].entry => attrs'[d] = attrs'[e]
    BY <1>9, <1>10, <2>1
  <2>3. QED
    BY <1>7, <1>10, <1>11, <2>1, <2>2 DEF Annotated
<1>13. QED
  BY <1>1, <1>2, <1>3, <1>12 DEF AnnotInv

(* Whatever the graph: when the pass returns, the temporaries and no other *)
(* data node are annotated, each with the entry that holds it and a size   *)
(* it fits in, and the spaces of one entry agree on the declaration.       *)
THEOREM AllAnnotated == Spec => []Annotated
<1>1. TypeInv /\ TightEntries /\ AnnotInv /\ [Next]_vars => AnnotInv'
  <2> SUFFICES ASSUME TypeInv, TightEntries, AnnotInv, [Next]_vars PROVE AnnotInv'
    OBVIOUS
  <2>1. CASE UNCHANGED vars
    <3>1. UNCHANGED << prog, size, cur, phase, outs, ins, visited, entry, attrs >>
      BY <2>1 DEF vars, graph
    <3>2. (PositionInv /\ MappedInv)'
      BY <2>1, <3>1, GraphFixed DEF AnnotInv, PositionInv, MappedInv, Processed, vars
    <3>3. Annotated'
      BY <2>1, <3>1, GraphFixed DEF AnnotInv, Annotated, vars
    <3>4. QED
      BY <3>1, <3>2, <3>3 DEF AnnotInv
  <2>2. QED
    BY <2>1, WalkAnnot, FinishAnnot DEF Next, Returned
<1>2. Init => TightEntries
  BY DEF Init, TightEntries
<1>3. AnnotInv => Annotated
  BY DEF AnnotInv
<1>4. QED
  BY <1>1, <1>2, <1>3, InitTypeInv, TypeStep, TightStep, InitAnnot, PTL DEF Spec

-----------------------------------------------------------------------------
(* Economy: spaces of one size never make the walk open an entry that it   *)
(* could have shared.                                                      *)

(* What is in the space map is touched at or behind the walk.              *)
MetInv == \A d \in Data : entry[d] # 0 => \E m \in Touch(d) : m >= cur

EconomyInv == IInv /\ NoLeak /\ TightEntries /\ MetInv /\ Economical

(* Crossing and UniformSizes speak of the graph, which does not change.    *)
LEMMA CrossingFixed ==
  ASSUME UNCHANGED graph
  PROVE  /\ \A n : Crossing(n)' = Crossing(n)
         /\ UniformSizes' <=> UniformSizes
<1>1. size' = size /\ Temps' = Temps
  BY GraphFixed DEF graph
<1>2. ASSUME NEW n PROVE Crossing(n)' = Crossing(n)
  <2>1. \A d \in Temps : d \in Data
    BY DEF Temps
  <2>2. QED
    BY <1>1, <2>1, GraphFixed DEF Crossing
<1>3. UniformSizes' <=> UniformSizes
  BY <1>1 DEF UniformSizes
<1>4. QED
  BY <1>2, <1>3

(* With one size, a new entry is opened only when all entries are in use.  *)
LEMMA NewMeansFull ==
  ASSUME TypeInv, IInv, TightEntries, UniformSizes, NEW d \in Temps,
         NEW i, FindNew(i, size[d])
  PROVE  \A j \in DOMAIN entries : entries[j].active
<1> SUFFICES ASSUME NEW j \in DOMAIN entries, ~entries[j].active PROVE FALSE
  OBVIOUS
<1>1. PICK e \in Data : entry[e] = j /\ size[e] = entries[j].size
  BY DEF TightEntries
<1>2. j # 0
  BY DEF TypeInv, TypeOK
<1>3. e \in Temps
  BY <1>1, <1>2 DEF IInv, WalkInv, MappedInv, Temps
<1>4. entries[j].size = size[d]
  BY <1>1, <1>3 DEF UniformSizes
<1>5. j \in Exact(size[d])
  BY <1>4 DEF Exact, Free
<1>6. QED
  BY <1>5 DEF FindNew

(* As many spaces in use at the computation n as there are places, each in *)
(* a place of its own, make the crossing at n no smaller.                  *)
LEMMA OnePlaceEach ==
  ASSUME IsFiniteSet(Data), NEW n, NEW k \in Nat, NEW at \in [Data -> Nat],
         \A i \in 1..k : \E e \in Crossing(n) : at[e] = i
  PROVE  k <= Cardinality(Crossing(n))
<1> DEFINE f == [i \in 1..k |-> CHOOSE e \in Crossing(n) : at[e] = i]
<1>1. Crossing(n) \in SUBSET Data
  BY DEF Crossing, Temps
<1>2. IsFiniteSet(Crossing(n)) /\ Cardinality(Crossing(n)) \in Nat
  BY <1>1, FS_Subset, FS_CardinalityType
<1>3. IsFiniteSet(1..k) /\ Cardinality(1..k) = k
  BY FS_Interval
<1>4. \A i \in 1..k : f[i] \in Crossing(n) /\ at[f[i]] = i
  OBVIOUS
<1>5. f \in [1..k -> Crossing(n)]
  BY <1>4
<1>6. \A x, y \in 1..k : f[x] = f[y] => x = y
  BY <1>4
<1>7. ~(Cardinality(Crossing(n)) < Cardinality(1..k))
  <2> HIDE DEF f
  <2>1. QED
    BY <1>2, <1>3, <1>5, <1>6, FS_PigeonHole
<1>8. QED
  BY <1>2, <1>3, <1>7

(* process() keeps it: a new entry is opened for a space that is in use at *)
(* cur together with the holders of all entries there are.                 *)
LEMMA ProcessEconomical ==
  ASSUME IsFiniteSet(Data), TypeInv, EconomyInv, NEW d \in Data,
         ProcessOutput(d) \/ ProcessInput(d)
  PROVE  MetInv' /\ Economical'
<1>1. /\ phase = "visit" /\ Process(d) /\ (d \in outs \/ d \in ins)
      /\ UNCHANGED << graph, cur, phase, producers, visited, attrs >>
  BY DEF ProcessOutput, ProcessInput
<1>2. /\ cur \in Touch(d) /\ cur \in Comps /\ cur \in 1..N /\ N \in Nat
      /\ visited = (cur + 1)..N
  BY <1>1, NAssumption
     DEF EconomyInv, IInv, WalkInv, PositionInv, TypeInv, TypeOK, Comps, Touch, Writers, Readers
<1>3. \A e \in Data : Touch(e)' = Touch(e) /\ Touch(e) \subseteq 1..N
  BY <1>1, GraphFixed, TouchComps DEF Comps
<1>4. /\ \A n : Crossing(n)' = Crossing(n)
      /\ UniformSizes' <=> UniformSizes
  BY <1>1, CrossingFixed
<1>5. CASE ~(IsTemp(d) /\ entry[d] = 0)
  <2>1. UNCHANGED << entry, entries >>
    BY <1>1, <1>5 DEF Process
  <2>2. MetInv'
    BY <1>1, <1>3, <2>1 DEF EconomyInv, MetInv
  <2>3. Economical'
    BY <1>4, <2>1 DEF EconomyInv, Economical
  <2>4. QED
    BY <2>2, <2>3
<1>6. CASE IsTemp(d) /\ entry[d] = 0
  <2>1. PICK i \in 1..(Len(entries) + 1) :
          Find(i, size[d]) /\ entry' = [entry EXCEPT ![d] = i]
    BY <1>1, <1>6 DEF Process
  <2>2. Found(i, size[d])
    BY <2>1, FindResult DEF TypeInv, TypeOK
  <2>3. /\ entry'[d] = i /\ i \in Nat /\ i # 0
        /\ \A e \in Data : e # d => entry'[e] = entry[e]
        /\ DOMAIN entries = 1..Len(entries) /\ Len(entries) \in Nat
    BY <2>1 DEF TypeInv, TypeOK
  <2>4. MetInv'
    <3>1. \A e \in Data : e # d /\ entry[e] # 0 => \E m \in Touch(e) : m >= cur
      BY DEF EconomyInv, MetInv
    <3>2. \E m \in Touch(d) : m >= cur
      BY <1>2
    <3>3. QED
      BY <1>1, <1>3, <2>3, <3>1, <3>2 DEF MetInv
  <2>5. CASE Len(entries') = Len(entries)
    <3>1. entries # << >>
      BY <2>2, <2>3, <2>5 DEF Found
    <3>2. UniformSizes => \E n \in Comps : Len(entries) <= Cardinality(Crossing(n))
      BY <3>1 DEF EconomyInv, Economical
    <3>3. Economical'
      BY <1>4, <2>5, <3>2 DEF Economical
    <3>4. QED
      BY <2>4, <3>3
  <2>6. CASE Len(entries') # Len(entries) /\ UniformSizes
    <3>1. i = Len(entries) + 1 /\ Len(entries') = i
      BY <2>2, <2>6 DEF Found
    <3>2. FindNew(i, size[d])
      <4>1. i \notin DOMAIN entries
        BY <2>3, <3>1
      <4>2. QED
        BY <2>1, <4>1 DEF Find, FindExact, FindLarger, FindResized, IsFirst, Exact, Larger,
                          Resizable, IsNearest, Free
    <3>3. d \in Temps
      BY <1>6 DEF Temps
    <3>4. \A j \in DOMAIN entries : entries[j].active
      BY <2>6, <3>2, <3>3, NewMeansFull DEF EconomyInv
    <3>5. d \in Crossing(cur)
      BY <1>2, <3>3 DEF Crossing
    <3>6. ASSUME NEW e \in Data, Live(e) PROVE e \in Crossing(cur)
      <4>1. PICK m \in Touch(e) : m \notin visited
        BY <3>6 DEF Live, Unvisited
      <4>2. m <= cur
        BY <1>2, <1>3, <4>1
      <4>3. PICK q \in Touch(e) : q >= cur
        BY <3>6 DEF Live, EconomyInv, MetInv
      <4>4. q \in Nat /\ cur <= q
        BY <1>2, <1>3, <4>3
      <4>5. e \in Temps
        BY <3>6 DEF Live, EconomyInv, IInv, WalkInv, MappedInv, Temps
      <4>6. QED
        BY <4>2, <4>4, <4>5 DEF Crossing
    <3>7. ASSUME NEW j \in 1..Len(entries')
          PROVE  \E e \in Crossing(cur) : entry'[e] = j
      <4>1. CASE j = i
        BY <2>3, <3>5, <4>1
      <4>2. CASE j # i
        <5>1. j \in DOMAIN entries
          BY <2>3, <3>1, <4>2
        <5>2. PICK e \in Data : entry[e] = j /\ Live(e)
          BY <3>4, <5>1 DEF EconomyInv, NoLeak
        <5>3. e # d
          BY <1>6, <5>2 DEF Live
        <5>4. entry'[e] = j
          BY <2>3, <5>2, <5>3
        <5>5. QED
          BY <3>6, <5>2, <5>4
      <4>3. QED
        BY <4>1, <4>2
    <3>8. entry' \in [Data -> Nat] /\ Len(entries') \in Nat
      BY <2>1, <2>3, <3>1 DEF TypeInv, TypeOK
    <3>9. Len(entries') <= Cardinality(Crossing(cur))
      BY <3>7, <3>8, OnePlaceEach
    <3>10. Economical'
      BY <1>2, <1>4, <3>9 DEF Economical
    <3>11. QED
      BY <2>4, <3>10
  <2>7. CASE ~UniformSizes
    BY <1>4, <2>4, <2>7 DEF Economical
  <2>8. QED
    BY <2>5, <2>6, <2>7
<1>7. QED
  BY <1>5, <1>6

(* On a sequential program, when all temporaries have one size: the table  *)
(* has no more entries than there are temporaries in use at one and the    *)
(* same computation, and no sharing that is safe has fewer.                *)
THEOREM SharingIsEconomical ==
  ASSUME IsFiniteSet(Data) PROVE SequentialSpec => []Economical
<1>1. Init => NoLeak /\ TightEntries /\ MetInv /\ Economical
  BY DEF Init, NoLeak, TightEntries, MetInv, Economical
<1>2. TypeInv /\ EconomyInv /\ NoLeak' /\ TightEntries' /\ [Next]_vars => EconomyInv'
  <2> SUFFICES ASSUME TypeInv, EconomyInv, NoLeak', TightEntries', [Next]_vars
               PROVE  EconomyInv'
    OBVIOUS
  <2>1. IInv'
    BY IInvStep DEF EconomyInv
  <2>2. ASSUME NEW d \in Data, ProcessOutput(d) \/ ProcessInput(d)
        PROVE  MetInv' /\ Economical'
    BY <2>2, ProcessEconomical
  <2>3. ASSUME Enter \/ Exit \/ Finish \/ UNCHANGED vars
        PROVE  MetInv' /\ Economical'
    <3>1. UNCHANGED << graph, entry >>
      BY <2>3 DEF Enter, Exit, Finish, vars
    <3>2. Len(entries') = Len(entries)
      <4>1. entries \in Seq(Entry) /\ entries' \in Seq(Entry)
        BY TypeStep DEF TypeInv, TypeOK
      <4>2. DOMAIN entries' = DOMAIN entries
        BY <2>3 DEF Enter, Exit, Finish, vars
      <4>3. QED
        BY <4>1, <4>2
    <3>3. Economical'
      <4>1. entries = << >> => entries' = << >>
        BY <3>2, TypeStep DEF TypeInv, TypeOK
      <4>2. QED
        BY <3>1, <3>2, <4>1, CrossingFixed DEF EconomyInv, Economical
    <3>4. MetInv'
      <4>1. cur \in Nat /\ cur' \in Nat /\ cur' <= cur
        BY <2>3, TypeStep, NAssumption DEF Enter, Exit, Finish, vars, TypeInv, TypeOK
      <4>2. \A d \in Data : Touch(d)' = Touch(d) /\ \A m \in Touch(d) : m \in Nat
        BY <3>1, GraphFixed, TouchComps, NAssumption DEF Comps
      <4>3. ASSUME NEW d \in Data, entry[d] # 0 PROVE \E m \in Touch(d) : m >= cur'
        <5>1. PICK m \in Touch(d) : m >= cur
          BY <4>3 DEF EconomyInv, MetInv
        <5>2. m >= cur'
          BY <4>1, <4>2, <5>1
        <5>3. QED
          BY <5>2
      <4>4. QED
        BY <3>1, <4>2, <4>3 DEF MetInv
    <3>5. QED
      BY <3>3, <3>4
  <2>4. MetInv' /\ Economical'
    BY <2>2, <2>3 DEF Next, Returned
  <2>5. QED
    BY <2>1, <2>4 DEF EconomyInv
<1>3. SequentialSpec => Spec
  BY PTL DEF SequentialSpec, SequentialInit, Spec
<1>4. Init /\ Sequential => EconomyInv
  BY <1>1, InitIInv DEF EconomyInv
<1>5. EconomyInv => Economical
  BY DEF EconomyInv
<1>6. QED
  BY <1>2, <1>3, <1>4, <1>5, InitTypeInv, TypeStep, NothingLeaks, EntriesAreTight, PTL
     DEF SequentialSpec, SequentialInit
=============================================================================
