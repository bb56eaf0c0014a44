------------------------------ MODULE Autograd ------------------------------
(* ReinC/autograd.c: the variables of a computation graph, allocated in an  *)
(* arena.  A step is one arena_push and what the code does up to the next.  *)
(* The pointer arena_push returns is used unchecked.                        *)
EXTENDS Integers, Sequences
CONSTANTS U64_MAX, PTRDIFF_MAX, ARENA_ALIGN, Capacities, Sizes, NULL,  \* of Arena
          sizeof_Var, sizeof_matrix,
          Shapes,       \* rows and cols of matrices; rows * cols fits into u32
          MaxVars       \* bound on create_var
VARIABLES
  capacity, pos, out,   \* the arena
  stage,                \* "idle", or what the latest push was for; "crashed"
  var,                  \* the variable in the making
  graph                 \* the variables, in the order of creation

arenaVars == <<capacity, pos, out>>
vars == <<arenaVars, stage, var, graph>>

MemArena == INSTANCE Arena

GraphAssumption ==
  /\ sizeof_Var \in Nat /\ sizeof_matrix \in Nat
  /\ Shapes \subseteq Nat \X Nat

NoVar == [at |-> NULL, val |-> NULL, data |-> NULL, rows |-> 0, cols |-> 0, inputs |-> {}]
Init == MemArena!Init /\ stage = "start" /\ var = NoVar /\ graph = <<>>

main ==
  /\ stage = "start"
  /\ \E c \in Capacities : MemArena!arena_create(c)
  /\ stage' = "idle"
  /\ UNCHANGED <<var, graph>>

\* create_var, by the program or by create_node for up to two inputs.
create_var(rows, cols, inputs) ==
  /\ stage = "idle" /\ Len(graph) < MaxVars
  /\ MemArena!arena_push(sizeof_Var)
  /\ var' = [NoVar EXCEPT !.rows = rows, !.cols = cols, !.inputs = inputs]
  /\ stage' = "Var"
  /\ UNCHANGED graph

create_node(rows, cols) ==
  \E a, b \in 1 .. Len(graph) : create_var(rows, cols, {a, b})

\* PUSH_STRUCT returned NULL and is written through.
NullWrite ==
  /\ stage \in {"Var", "matrix"} /\ out.at = NULL
  /\ stage' = "crashed"
  /\ UNCHANGED <<arenaVars, var, graph>>

\* create_matrix.  The memory is zeroed and flags is never assigned, so the
\* test for VAR_FLAG_REQUIRES_GRAD fails and there is no second matrix.
create_matrix ==
  /\ stage = "Var" /\ out.at # NULL
  /\ var' = [var EXCEPT !.at = out.at]
  /\ MemArena!arena_push(sizeof_matrix)
  /\ stage' = "matrix"
  /\ UNCHANGED graph

\* The data is pushed before the matrix has advanced the position.
push_data_OverMatrix ==
  /\ stage = "matrix" /\ out.at # NULL
  /\ var' = [var EXCEPT !.val = out.at]
  /\ pos' = out.at + sizeof_matrix * (var.rows * var.cols)
  /\ out' = [size |-> sizeof_matrix * (var.rows * var.cols), at |-> out.at]
  /\ stage' = "data"
  /\ UNCHANGED <<capacity, graph>>

push_data ==
  /\ stage = "matrix" /\ out.at # NULL
  /\ var' = [var EXCEPT !.val = out.at]
  /\ MemArena!arena_push(sizeof_matrix * (var.rows * var.cols))
  /\ stage' = "data"
  /\ UNCHANGED graph

\* index is the number of variables before; data may be NULL.
Finish ==
  /\ stage = "data"
  /\ graph' = Append(graph, [var EXCEPT !.data = out.at])
  /\ var' = NoVar
  /\ stage' = "idle"
  /\ UNCHANGED arenaVars

Next ==
  \/ main \/ create_matrix \/ push_data \/ Finish \/ NullWrite
  \/ \E shape \in Shapes :
       create_var(shape[1], shape[2], {}) \/ create_node(shape[1], shape[2])

Spec == Init /\ [][Next]_vars
-----------------------------------------------------------------------------
Cells(at, size) == IF at = NULL THEN {} ELSE at .. at + size - 1
Structs(v) == {Cells(v.at, sizeof_Var), Cells(v.val, sizeof_matrix),
               Cells(v.data, sizeof_matrix * v.rows * v.cols)}

\* The structs and matrices of all variables are disjoint and inside the
\* arena, and inputs are older than the variables made of them: the graph has
\* no cycle.
GraphInvariant ==
  /\ \A i \in 1 .. Len(graph) :
       /\ graph[i].inputs \subseteq 1 .. i - 1
       /\ UNION Structs(graph[i]) \subseteq 0 .. pos - 1
       /\ \A c, d \in Structs(graph[i]) : c = d \/ c \cap d = {}
       /\ \A j \in 1 .. i - 1 : (UNION Structs(graph[i])) \cap (UNION Structs(graph[j])) = {}
  /\ graph # <<>> => pos <= capacity
=============================================================================
