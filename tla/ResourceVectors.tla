-------------------------- MODULE ResourceVectors --------------------------
(***************************************************************************)
(* ResourceVector of duckdb/runners/ray/query_execution_graph.py, with the *)
(* vector helpers of query_resource_manager.py.                            *)
(*                                                                         *)
(* A vector has two of the four dimensions of the code.  CPU and GPU are   *)
(* treated as heap is, up to rounding, and are left out.                   *)
(***************************************************************************)
EXTENDS Integers, Sequences, FiniteSets, SequencesExt, FiniteSetsExt, Functions

Vectors == [{"heap_bytes", "object_store_bytes"} -> Nat]

Vec(heap, store) == [heap_bytes |-> heap, object_store_bytes |-> store]
Zero == Vec(0, 0)
Positive(n) == IF n > 0 THEN n ELSE 0

(* The operations are functions, whose arguments TLC evaluates only once.   *)
Differences == [{"heap_bytes", "object_store_bytes"} -> Int]
Sum2 == [u, v \in Differences |-> Vec(u.heap_bytes + v.heap_bytes, u.object_store_bytes + v.object_store_bytes)]
Difference == [u, v \in Differences |-> Vec(u.heap_bytes - v.heap_bytes, u.object_store_bytes - v.object_store_bytes)]
PositivePart == [u \in Differences |-> Vec(Positive(u.heap_bytes), Positive(u.object_store_bytes))]
Within == [u, v \in Differences |-> u.heap_bytes <= v.heap_bytes /\ u.object_store_bytes <= v.object_store_bytes]

Plus(u, v) == Sum2[u, v]
Minus(u, v) == Difference[u, v]
PositiveDifference(u, v) == PositivePart[Difference[u, v]]
FitsWithin(u, v) == Within[u, v]
ExceededDimensions(u, v) == {f \in DOMAIN u : u[f] > v[f]}
ComponentMax(S) ==
    Vec(Max({0} \cup {v.heap_bytes : v \in S}), Max({0} \cup {v.object_store_bytes : v \in S}))
Total(Op(_), S) == FoldSet(LAMBDA x, sum : Plus(Op(x), sum), Zero, S)

(* dominant_share(capacity), times the product of the capacities, so that   *)
(* shares of one capacity compare as integers.  A demand for what there is *)
(* none of has an infinite share.                                          *)
Share(v, capacity) ==
    LET others(f) == ProductSet({capacity[g] : g \in DOMAIN v \ {f}})
        infinite == 1 + MapThenSumSet(LAMBDA f : v[f] * others(f), DOMAIN v)
    IN Max({0} \cup {IF capacity[f] = 0 THEN infinite ELSE v[f] * others(f) : f \in {g \in DOMAIN v : v[g] > 0}})

(* Op(x), for an expression x that TLC is to evaluate only once.             *)
With(x, Op(_)) == CHOOSE r \in {Op(v) : v \in {x}} : TRUE

(* Tuples of integers in the order Python's min and sorted give them.       *)
LexLess(s, t) == \E i \in DOMAIN s : s[i] < t[i] /\ \A j \in 1..(i - 1) : s[j] = t[j]
MinBy(S, Key(_)) == CHOOSE x \in S : \A y \in S \ {x} : ~LexLess(Key(y), Key(x))

=============================================================================
