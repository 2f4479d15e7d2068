---------------------------- MODULE MCSequential ----------------------------
(***************************************************************************)
(* The parts of the code that run in one thread and meet nobody else: the  *)
(* index mask, shapes and objects of Tensor, and address resolution.  A    *)
(* behaviour is one of them, with the others at rest.                      *)
(***************************************************************************)
EXTENDS IndexMask, Tensor, TensorShape, AddressResolution

CONSTANTS a, b, auto0, auto1, width

\* One shape is too large and one empty; two of the names have the same hash,
\* and a list has both of them.
MCShapes    == {<< >>, <<2>>, <<2, 3>>, <<0, 2>>, <<3, MaxUsize>>}
MCNameLists == {<<width>>, <<auto1, width>>, <<auto0, width>>, <<width, width>>}
MCAutoName  == <<auto0, auto1>>
MCNameHash  == auto0 :> 1 @@ auto1 :> 2 @@ width :> 1

ASSUME SequentialAssumption ==
    MaskAssumption /\ ShapeAssumption /\ TensorAssumption /\ AddressAssumption

VARIABLE part   \* which of them runs

ShapeAtRest   == dims = << >> /\ size = 0 /\ done = 0 /\ outcome = "running"
AddressAtRest == found = << >> /\ out = << >> /\ pc = "returned" /\ held = FALSE

SequentialInit ==
    /\ MaskInit /\ Init
    /\ \/ part \in {"mask", "tensor"} /\ ShapeAtRest /\ AddressAtRest
       \/ part = "shape"   /\ ShapeInit   /\ AddressAtRest
       \/ part = "address" /\ ShapeAtRest /\ AddressInit

SequentialNext ==
    \/ part = "mask"    /\ MaskNext    /\ UNCHANGED <<part, vars, shapeVars, addressVars>>
    \/ part = "shape"   /\ ShapeNext   /\ UNCHANGED <<part, counter, vars, addressVars>>
    \/ part = "tensor"  /\ Next        /\ UNCHANGED <<part, counter, shapeVars, addressVars>>
    \/ part = "address" /\ AddressNext /\ UNCHANGED <<part, counter, vars, shapeVars>>

SequentialSpec ==
    SequentialInit /\ [][SequentialNext]_<<part, counter, vars, shapeVars, addressVars>>
=============================================================================
