------------------------------- MODULE Tensor -------------------------------
(***************************************************************************)
(* Construction, copy, move and destruction of Tensor                      *)
(* (src/src/app/main.cpp).  The four vectors of a tensor are kept apart,   *)
(* because copy_from assigns them one after the other and each assignment  *)
(* can throw.  Of the values in data_ the model keeps how many there are   *)
(* and which labelled shape they were constructed for.                     *)
(***************************************************************************)
EXTENDS Integers, Sequences, SequencesExt

CONSTANTS Objects,    \* places a Tensor may live in
          Shapes,     \* dimensions given to constructors
          NameLists,  \* names given to constructors
          AutoName,   \* the names make_auto_names makes, "_0", "_1", ...
          NameHash,   \* std::hash of each name; collisions are allowed
          MaxSize,    \* std::numeric_limits<usize>::max()
          Absent

Names == DOMAIN NameHash

\* There are names enough for make_auto_names.
TensorAssumption ==
    /\ Shapes \subseteq Seq(Nat) /\ NameLists \subseteq Seq(Names) /\ AutoName \in Seq(Names)
    /\ \A dims \in Shapes : Len(dims) <= Len(AutoName)

VARIABLES tensor,  \* the four vectors of each object, or Absent
          torn     \* objects that hold parts of different tensors
vars == <<tensor, torn>>

Alive(o) == tensor[o] # Absent
NoTensor == [data |-> [len |-> 0, shape |-> << >>], dims |-> << >>, names |-> << >>, hashes |-> << >>]

Init == tensor = [o \in Objects |-> Absent] /\ torn = {}
-----------------------------------------------------------------------------
Refused == -1
StorageSize(dims) ==
    IF dims = << >> THEN 0
    ELSE FoldLeft(LAMBDA size, d :
             IF size = Refused \/ (size # 0 /\ d > MaxSize \div size) THEN Refused ELSE size * d,
             1, dims)

MatchesRank(names, rank) == Len(names) = rank   \* Mutant of ValidNames
ValidNames(names, rank)  == Len(names) = rank /\ IsInjective(names)

AutoNames(rank) == SubSeq(AutoName, 1, rank)
Hashes(names)   == [k \in 1 .. Len(names) |-> NameHash[names[k]]]

Label(dims, names) == [k \in 1 .. Len(dims) |-> <<names[k], dims[k]>>]

TensorOf(dims, names) ==
    [data   |-> [len |-> StorageSize(dims), shape |-> Label(dims, names)],
     dims   |-> dims,
     names  |-> names,
     hashes |-> Hashes(names)]

\* A constructor that throws leaves no object, and nothing else changed.
Construct(o, dims, names) ==
    /\ ~Alive(o)
    /\ dims # << >> /\ ValidNames(names, Len(dims)) /\ StorageSize(dims) # Refused
    /\ tensor' = [tensor EXCEPT ![o] = TensorOf(dims, names)]
    /\ UNCHANGED torn

Destroy(o) ==
    /\ Alive(o)
    /\ tensor' = [tensor EXCEPT ![o] = Absent]
    /\ torn' = torn \ {o}

TornLike(o, p) == IF p \in torn THEN torn \cup {o} ELSE torn \ {o}

\* copy_from as it ends, and as it ends if the copy of one vector throws.
CopyAs(o, p, copy) ==
    /\ tensor' = [tensor EXCEPT ![o] = copy]
    /\ torn' = TornLike(o, p)

CopiedNotHashes(o, p) == CopyAs(o, p, [tensor[p] EXCEPT !.hashes = << >>])   \* Mutant
Copied(o, p)          == CopyAs(o, p, tensor[p])

CopyConstruct(o, p) == ~Alive(o) /\ Alive(p) /\ Copied(o, p)

CopyAssign(o, p) == o # p /\ Alive(o) /\ Alive(p) /\ Copied(o, p)

\* A vector of numbers can throw only when it has to grow, names_ also while
\* its strings are copied; data_ comes first, so nothing has changed then.
Before == [dims |-> {"data"}, names |-> {"data", "dims"}, hashes |-> {"data", "dims", "names"}]

CopyThrows(o, p) ==
    /\ o # p /\ Alive(o) /\ Alive(p)
    /\ \E f \in DOMAIN Before, n \in 0 .. Len(tensor[o].names) :
          /\ f # "names" => n = 0 /\ Len(tensor[p][f]) > Len(tensor[o][f])
          /\ n <= Len(tensor[p].names)
          /\ tensor' = [tensor EXCEPT ![o] = [g \in DOMAIN @ |->
                 IF g \in Before[f] THEN tensor[p][g]
                 ELSE IF g = "names" THEN SubSeq(tensor[p].names, 1, n) \o SubSeq(@.names, n + 1, Len(@.names))
                 ELSE @[g]]]
          /\ torn' = torn \cup {o}

\* steal_from: the source stays alive and is left with these parts.
StealLeaving(o, p, rest) ==
    /\ tensor' = [tensor EXCEPT ![o] = tensor[p], ![p] = rest]
    /\ torn' = TornLike(o, p) \ {p}

StolenNotDims(o, p) == StealLeaving(o, p, [NoTensor EXCEPT !.dims = tensor[p].dims])   \* Mutant
Stolen(o, p)        == StealLeaving(o, p, NoTensor)

MoveConstruct(o, p) == ~Alive(o) /\ Alive(p) /\ Stolen(o, p)

MoveAssign(o, p) == o # p /\ Alive(o) /\ Alive(p) /\ Stolen(o, p)

Next == \E o \in Objects :
    \/ \E dims \in Shapes : \E names \in NameLists \cup {AutoNames(Len(dims))} :
          Construct(o, dims, names)
    \/ Destroy(o)
    \/ \E p \in Objects :
          \/ CopyConstruct(o, p) \/ CopyAssign(o, p) \/ CopyThrows(o, p)
          \/ MoveConstruct(o, p) \/ MoveAssign(o, p)

Spec == Init /\ [][Next]_vars
-----------------------------------------------------------------------------
\* linear_search, get_idx and get_dim; 0 and Refused stand for std::nullopt.
SearchLast(values, target) == SelectLastInSeq(values, LAMBDA v : v = target)   \* Mutant
Search(values, target)     == SelectInSeq(values, LAMBDA v : v = target)
IdxByName(t, name)         == Search(t.names, name)
IdxByHash(t, name)         == Search(t.hashes, NameHash[name])
DimAt(t, idx)              == IF idx = 0 THEN Refused ELSE t.dims[idx]
-----------------------------------------------------------------------------
(***************************************************************************)
(* Every tensor no copy threw into is one that a constructor made, or the  *)
(* empty one that a move leaves: the invariant behind the three below.     *)
(***************************************************************************)
Constructed(t) ==
    \E dims \in Shapes \cup {<< >>} : \E names \in NameLists \cup {AutoNames(Len(dims))} :
        /\ ValidNames(names, Len(dims)) /\ StorageSize(dims) # Refused
        /\ t = TensorOf(dims, names)

IInv ==
    /\ DOMAIN tensor = Objects /\ torn \subseteq Objects
    /\ \A o \in Objects \ torn : Alive(o) => Constructed(tensor[o])

(***************************************************************************)
(* Whatever was copied and moved where, a tensor that no copy threw into   *)
(* answers get_dim with the dimension its data was constructed with under  *)
(* that name, and with nothing for every other name.                       *)
(***************************************************************************)
DimOfName ==
    \A o \in Objects \ torn : Alive(o) =>
        LET t == tensor[o] IN
        \A name \in Names :
            LET dim == DimAt(t, IdxByName(t, name)) IN
            IF dim = Refused THEN \A k \in DOMAIN t.data.shape : t.data.shape[k][1] # name
            ELSE \A k \in DOMAIN t.data.shape : t.data.shape[k][1] = name => t.data.shape[k][2] = dim

(***************************************************************************)
(* The two lookups agree, except that a name whose hash collides with that *)
(* of an earlier dimension of the same tensor is found at the earlier one. *)
(***************************************************************************)
LookupsAgree ==
    \A o \in Objects \ torn : Alive(o) =>
        LET t == tensor[o] IN
        \A k \in DOMAIN t.names :
            LET found == IdxByHash(t, t.names[k]) IN
            found \in 1 .. k /\ (found # k => NameHash[t.names[found]] = NameHash[t.names[k]])

(***************************************************************************)
(* The check of validate_storage holds for every tensor no copy threw      *)
(* into, the ones that were moved from included.                           *)
(***************************************************************************)
StorageOk(o)   == tensor[o].data.len = StorageSize(tensor[o].dims)
StorageMatches == \A o \in Objects \ torn : Alive(o) => StorageOk(o)
=============================================================================
