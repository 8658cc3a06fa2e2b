------------------------------ MODULE Pushdown ------------------------------
(***************************************************************************)
(* What becomes of a WHERE clause.  DuckDB asks the scan which columns and *)
(* which expressions it can filter; what it can, DuckDB hands over and     *)
(* never tests again, the rest stays with DuckDB.  The scan takes an       *)
(* expression apart into filters, which hold together.                     *)
(*                                                                         *)
(* An expression is about one column.  Exprs maps the name of every        *)
(* expression that may occur to its node:                                  *)
(*   [class : {"comparison"}, operand, op, constant]                       *)
(*   [class : {"in"}, operand, values]                                     *)
(*   [class : NullOps, operand]                                            *)
(*   [class : {"and", "or"}, children]    a set of names                   *)
(*   [class : {"optional"}, children]     a hint that may be ignored       *)
(* An operand is "column", or "expression" if it computes with the column. *)
(***************************************************************************)
EXTENDS ZoneMap, TaeTypes

CONSTANT Exprs

Names == DOMAIN Exprs

Joined == {"and", "or", "optional"}

(* Expressions are trees: among any that are joined from others there is one that is
   joined from none of them. *)
ASSUME PushdownAssumption ==
  /\ \A e \in Names : Exprs[e].class \in Joined => Exprs[e].children \subseteq Names
  /\ \A S \in SUBSET {e \in Names : Exprs[e].class \in Joined} :
       S # {} => \E e \in S : Exprs[e].children \cap S = {}

(* The column is one of the table, not a virtual one, and of a type that the
   filters know. *)
SupportsPushdownType(bind, id) ==
  /\ id \in DOMAIN bind.all_col_types
  /\ bind.all_col_types[id] # "LIST"

(* An expression on its own that becomes one filter. *)
SupportsLeaf(n) ==
  /\ n.operand = "column"
  /\ \/ n.class = "comparison" /\ n.constant # Null /\ n.op \in ScalarOps
     \/ n.class \in NullOps
     \/ n.class = "in" /\ n.values # {} /\ Null \notin n.values

(* Mutant: a disjunction passes like a conjunction. *)
SupportsEither(expr) ==
  LET supports[e \in Names] ==
        \/ Exprs[e].class = "optional"
        \/ Exprs[e].class \in {"and", "or"} /\ \A part \in Exprs[e].children : supports[part]
        \/ Exprs[e].class \notin Joined /\ SupportsLeaf(Exprs[e])
  IN  supports[expr]

SupportsFilterExpression(expr) ==
  LET supports[e \in Names] ==
        \/ Exprs[e].class = "optional"
        \/ Exprs[e].class = "and" /\ \A part \in Exprs[e].children : supports[part]
        \/ Exprs[e].class \notin Joined /\ SupportsLeaf(Exprs[e])
  IN  supports[expr]

(* The nodes that have to hold, conjunctions and hints taken apart. *)
Conjuncts(expr) ==
  LET nodes[e \in Names] ==
        IF Exprs[e].class = "optional" THEN {}
        ELSE IF Exprs[e].class = "and" THEN UNION {nodes[part] : part \in Exprs[e].children}
        ELSE {Exprs[e]}
  IN  nodes[expr]

(* What a node compares with. *)
ComparedWith(n) ==
  IF n.class = "comparison" THEN {n.constant} ELSE IF n.class = "in" THEN n.values ELSE {}

PushedFilter(n, oid) ==
  IF n.class = "comparison" THEN [op |-> n.op, constant |-> EncodeConstant(oid, n.constant)]
  ELSE IF n.class = "in"
       THEN [op |-> "IN_SET", in_values |-> {EncodeConstant(oid, c) : c \in n.values}]
       ELSE [op |-> n.class]

ExtractExpression(expr, oid) == {PushedFilter(n, oid) : n \in Conjuncts(expr)}

(* Otherwise ExtractFilter throws. *)
CanExtract(expr, oid) ==
  /\ SupportsFilterExpression(expr)
  /\ \A n \in Conjuncts(expr) :
       n.class \notin Joined /\ SupportsLeaf(n) /\ (n.class \notin NullOps => Encodable(oid))

---------------------------------------------------------------------------
(* What the expressions mean to DuckDB: the values for which one is TRUE.  A hint
   need not hold.  What an "expression" computes does not matter, as it is never
   pushed: here it holds for a NULL. *)
LeafHolds(kind, n, v) ==
  \/ n.operand = "expression" /\ v = Null
  \/ /\ n.operand = "column"
     /\ \/ n.class = "IS_NULL" /\ v = Null
        \/ n.class = "IS_NOT_NULL" /\ v # Null
        \/ n.class = "in" /\ v # Null /\ v \in n.values
        \/ n.class = "comparison" /\ n.op = "DISTINCT_FROM" /\ v # n.constant
        \/ /\ n.class = "comparison" /\ n.op \in ScalarOps /\ v # Null /\ n.constant # Null
           /\ OpHolds(n.op, Compare(kind, v, n.constant))

Holds(kind, expr, v) ==
  LET holds[e \in Names] ==
        \/ Exprs[e].class = "optional"
        \/ Exprs[e].class = "and" /\ \A part \in Exprs[e].children : holds[part]
        \/ Exprs[e].class = "or" /\ \E part \in Exprs[e].children : holds[part]
        \/ Exprs[e].class \notin Joined /\ LeafHolds(kind, Exprs[e], v)
  IN  holds[expr]
===========================================================================
