----------------------------- MODULE CodeMotion -----------------------------
(***************************************************************************)
(* What fusing may do to a program, whatever the graph: first the program  *)
(* is written, each statement behind those there are; then statements are  *)
(* moved, one at a time and towards the front, past others that neither    *)
(* need nor overwrite what they access.                                    *)
(***************************************************************************)
CONSTANT Stmts

VARIABLES
  code,      (* the statements of the program                              *)
  before,    (* << a, b >> if a runs before b                              *)
  reads,     (* what a statement reads, and                                *)
  writes,    (* writes                                                     *)
  moving     (* the program is written                                     *)

vars == << code, before, reads, writes, moving >>

Dependent(a, b) ==
  \/ writes[a] \cap (reads[b] \union writes[b]) # {}
  \/ reads[a] \cap writes[b] # {}

(* All of S in a line.                                                     *)
Linear(R, S) ==
  /\ R \subseteq S \X S
  /\ \A a \in S : << a, a >> \notin R
  /\ \A a, b \in S : a = b \/ << a, b >> \in R \/ << b, a >> \in R
  /\ \A a, b, c \in S : << a, b >> \in R /\ << b, c >> \in R => << a, c >> \in R

Init ==
  /\ code = {}
  /\ before = {}
  /\ reads = [s \in Stmts |-> {}]
  /\ writes = [s \in Stmts |-> {}]
  /\ moving = FALSE

(* Statement c is written, or more of it.                                  *)
Write(c) ==
  /\ ~ moving
  /\ code' = code \union {c}
  /\ reads[c] \subseteq reads'[c] /\ reads' = [reads EXCEPT ![c] = reads'[c]]
  /\ writes[c] \subseteq writes'[c] /\ writes' = [writes EXCEPT ![c] = writes'[c]]
  /\ moving' = FALSE
  /\ before' = before \union {<< a, c >> : a \in {x \in code : c \notin code}}

(* Statement c moves to the front, the others keep their places.           *)
Move(c) ==
  /\ c \in code
  /\ moving' = TRUE
  /\ UNCHANGED << code, reads, writes >>
  /\ \A a, b \in code \ {c} : << a, b >> \in before' <=> << a, b >> \in before
  /\ \A b \in code : << c, b >> \in before => << c, b >> \in before'
  /\ \A b \in code : << b, c >> \in before /\ << c, b >> \in before' => ~ Dependent(b, c)
  /\ Linear(before', code)

Next == \E c \in Stmts : Write(c) \/ Move(c)

Spec == Init /\ [][Next]_vars
=============================================================================
