---------------------------- MODULE TensorShape ----------------------------
(***************************************************************************)
(* Shape arithmetic of Tensor (src/src/app/main.cpp): the loop of          *)
(* storage_size_from_dims, one dimension per step, in usize arithmetic,    *)
(* and the elements that print visits.                                     *)
(***************************************************************************)
EXTENDS Integers, Sequences, SequencesExt, FiniteSetsExt

CONSTANTS MaxUsize,  \* std::numeric_limits<usize>::max()
          MaxRank    \* bound: dimensions of a tensor

ShapeAssumption == MaxUsize \in Nat \ {0} /\ MaxRank \in Nat

VARIABLES dims, size,
          done,     \* dimensions multiplied so far
          outcome   \* "running", "returned", "threw"

shapeVars == <<dims, size, done, outcome>>

Wrap(n) == n % (MaxUsize + 1)

ShapeInit ==
    /\ dims \in UNION {[1 .. r -> 0 .. MaxUsize] : r \in 0 .. MaxRank}
    /\ size = (IF dims = << >> THEN 0 ELSE 1)
    /\ done = 0
    /\ outcome = "running"

\* Mutant: a division that rounds the other way.
OverflowsLate(d) == size # 0 /\ d > (MaxUsize \div size) + 1
Overflows(d)     == size # 0 /\ d > MaxUsize \div size

Multiply ==
    /\ outcome = "running" /\ done < Len(dims)
    /\ IF Overflows(dims[done + 1])
       THEN outcome' = "threw" /\ UNCHANGED <<size, done>>
       ELSE size' = Wrap(size * dims[done + 1]) /\ done' = done + 1 /\ UNCHANGED outcome
    /\ UNCHANGED dims

ShapeReturn ==
    /\ outcome = "running" /\ done = Len(dims)
    /\ outcome' = "returned"
    /\ UNCHANGED <<dims, size, done>>

ShapeNext == Multiply \/ ShapeReturn

ShapeSpec == ShapeInit /\ [][ShapeNext]_shapeVars
-----------------------------------------------------------------------------
\* format_slice, print_matrix and print, as the indices given to data_.at.
Slice(offset, count) == [k \in 1 .. count |-> Wrap(offset + k - 1)]
Matrix(offset, rows, cols) ==
    FlattenSeq([r \in 1 .. rows |-> Slice(Wrap(offset + Wrap((r - 1) * cols)), cols)])

\* Mutant: matrices of a rank 3 tensor are a row apart.
PrintedByRow ==
    CASE Len(dims) = 1 -> Slice(0, dims[1])
      [] Len(dims) = 2 -> Matrix(0, dims[1], dims[2])
      [] Len(dims) = 3 -> FlattenSeq([m \in 1 .. dims[1] |->
                              Matrix(Wrap((m - 1) * dims[3]), dims[2], dims[3])])

Printed ==
    CASE Len(dims) = 1 -> Slice(0, dims[1])
      [] Len(dims) = 2 -> Matrix(0, dims[1], dims[2])
      [] Len(dims) = 3 -> FlattenSeq([m \in 1 .. dims[1] |->
                              Matrix(Wrap((m - 1) * Wrap(dims[2] * dims[3])), dims[2], dims[3])])
-----------------------------------------------------------------------------
\* The true products of the first 0, 1, ... numbers of s, and of all of them.
Products(s) == LET p[n \in 0 .. Len(s)] == IF n = 0 THEN 1 ELSE p[n - 1] * s[n] IN p
Product(s)  == Products(s)[Len(s)]

(***************************************************************************)
(* The check before each multiplication is exact: the size is the true     *)
(* product at every step, a shape without a zero is refused if and only if *)
(* its product does not fit, whatever the order of its dimensions, and one *)
(* that starts with a zero never is.                                       *)
(***************************************************************************)
SizeExact ==
    dims # << >> =>
        /\ size = Products(dims)[done]
        /\ outcome # "running" /\ 0 \notin ToSet(dims) =>
              (outcome = "threw" <=> Product(dims) > MaxUsize)
        /\ outcome = "threw" => dims[1] # 0 /\ Products(dims)[done + 1] > MaxUsize

(***************************************************************************)
(* Why: the loop stops at the first factor that does not fit, and a size   *)
(* of zero accepts every factor.                                           *)
(***************************************************************************)
ShapeIInv ==
    /\ dims \in Seq(0 .. MaxUsize) /\ done \in 0 .. Len(dims) /\ size \in 0 .. MaxUsize
    /\ dims # << >> => size = Products(dims)[done]
    /\ done > 0 /\ dims[1] = 0 => size = 0
    /\ \/ outcome = "running"
       \/ outcome = "returned" /\ done = Len(dims)
       \/ outcome = "threw" /\ done < Len(dims) /\ Overflows(dims[done + 1])

(***************************************************************************)
(* print shows every element once, in storage order, and never indexes     *)
(* past the end, although rows * cols may wrap when there is no matrix.    *)
(***************************************************************************)
PrintsAll ==
    outcome = "returned" /\ Len(dims) \in 1 .. 3 =>
        Printed = [k \in 1 .. size |-> k - 1]
=============================================================================
