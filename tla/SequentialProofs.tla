-------------------------- MODULE SequentialProofs --------------------------
(***************************************************************************)
(* The index mask for any word size, and tensors for any objects, shapes,  *)
(* names and hashes: whatever is copied and moved where, and whichever     *)
(* copies throw, a tensor that no copy threw into is one that a            *)
(* constructor made, or the empty one.                                     *)
(***************************************************************************)
EXTENDS IndexMask, Tensor, TensorShape, WellFoundedInduction, SequenceTheorems,
        FiniteSetTheorems, TLAPS

-----------------------------------------------------------------------------
(***************************************************************************)
(* A nonempty set of numbers has a least element, which Min finds.         *)
(***************************************************************************)
LEMMA LeastNumber ==
    ASSUME NEW I \in SUBSET Nat, I # {}
    PROVE  Min(I) \in I /\ \A i \in I : Min(I) <= i
<1>1. IsWellFoundedOn(OpToRel(<, Nat), Nat)
  BY NatLessThanWellFounded
<1>2. PICK x \in I : \A y \in I : <<y, x>> \notin OpToRel(<, Nat)
  BY <1>1, WFMin
<1>3. \A y \in I : ~(y < x)
  BY <1>2 DEF OpToRel
<1>4. x \in I /\ \A y \in I : x <= y
  BY <1>3
<1> QED BY <1>4 DEF Min

(***************************************************************************)
(* linear_search returns the first place that holds the target, or nothing *)
(* when no place does.                                                     *)
(***************************************************************************)
LEMMA SearchFindsFirst ==
    ASSUME NEW S, NEW values \in Seq(S), NEW target
    PROVE  LET found == Search(values, target) IN
           \/ found = 0 /\ \A i \in DOMAIN values : values[i] # target
           \/ /\ found \in DOMAIN values /\ values[found] = target
              /\ \A i \in DOMAIN values : values[i] = target => found <= i
<1> DEFINE I == {i \in 1 .. Len(values) : values[i] = target}
<1>1. Search(values, target) = IF I # {} THEN Min(I) ELSE 0
  BY DEF Search, SelectInSeq
<1>2. DOMAIN values = 1 .. Len(values) /\ I \in SUBSET Nat
  OBVIOUS
<1>3. CASE I = {}
  BY <1>1, <1>2, <1>3
<1>4. CASE I # {}
  <2>1. Min(I) \in I /\ \A i \in I : Min(I) <= i
    BY <1>2, <1>4, LeastNumber
  <2> QED BY <1>1, <1>2, <1>4, <2>1
<1> QED BY <1>3, <1>4

(***************************************************************************)
(* The empty tensor that steal_from leaves is the tensor of no dimension,  *)
(* whose data validate_storage expects to be empty.                        *)
(***************************************************************************)
LEMMA EmptyIsConstructed ==
    ASSUME TensorAssumption
    PROVE  Constructed(NoTensor)
<1>1. StorageSize(<< >>) = 0 /\ 0 # Refused
  <2>1. StorageSize(<< >>) = 0
    BY Zenon DEF StorageSize
  <2>2. 0 # Refused
    BY DEF Refused
  <2> QED BY <2>1, <2>2
<1>2. AutoNames(Len(<< >>)) = << >>
  BY DEF AutoNames, TensorAssumption
<1>3. Label(<< >>, << >>) = << >> /\ Hashes(<< >>) = << >>
  BY DEF Label, Hashes
<1>4. ValidNames(<< >>, Len(<< >>))
  BY DEF ValidNames, IsInjective
<1>5. NoTensor = TensorOf(<< >>, << >>)
  BY <1>1, <1>3 DEF NoTensor, TensorOf
<1> QED BY <1>1, <1>2, <1>4, <1>5 DEF Constructed

-----------------------------------------------------------------------------
(***************************************************************************)
(* The invariant holds at the start: no tensor is alive.                   *)
(***************************************************************************)
LEMMA InvariantInitially == Init => IInv
BY DEF Init, IInv, Alive

(***************************************************************************)
(* A step that puts one value in one place keeps the invariant when the    *)
(* value is a constructed tensor, or the place is marked as torn.          *)
(***************************************************************************)
LEMMA OnePlaceChanges ==
    ASSUME IInv, NEW o \in Objects, NEW t,
           tensor' = [tensor EXCEPT ![o] = t],
           torn' \subseteq Objects, torn \ {o} \subseteq torn',
           o \notin torn' => t = Absent \/ Constructed(t)
    PROVE  IInv'
<1>1. DOMAIN tensor' = Objects /\ tensor'[o] = t /\ \A p \in Objects \ {o} : tensor'[p] = tensor[p]
  BY DEF IInv
<1>2. ASSUME NEW p \in Objects \ torn', Alive(p)'
      PROVE  Constructed(tensor'[p])
  <2>1. CASE p = o
    BY <1>1, <1>2, <2>1 DEF Alive
  <2>2. CASE p # o
    <3>1. p \in Objects \ torn /\ Alive(p) /\ tensor'[p] = tensor[p]
      BY <1>1, <1>2, <2>2 DEF Alive
    <3> QED BY <3>1 DEF IInv
  <2> QED BY <2>1, <2>2
<1>3. \A p \in Objects \ torn' : Alive(p)' => Constructed(tensor[p])'
  BY <1>2 DEF Constructed
<1> QED BY <1>1, <1>3 DEF IInv

(***************************************************************************)
(* copy_from and steal_from from a tensor that is alive.                   *)
(***************************************************************************)
LEMMA CopiesKeepInvariant ==
    ASSUME IInv, NEW o \in Objects, NEW p \in Objects, o # p, Alive(p), Copied(o, p)
    PROVE  IInv'
<1>1. tensor' = [tensor EXCEPT ![o] = tensor[p]] /\ torn' = TornLike(o, p)
  BY DEF Copied, CopyAs
<1>2. torn' \subseteq Objects /\ torn \ {o} \subseteq torn' /\ (o \notin torn' => p \notin torn)
  BY <1>1 DEF TornLike, IInv
<1>3. o \notin torn' => Constructed(tensor[p])
  BY <1>2 DEF IInv
<1> QED BY <1>1, <1>2, <1>3, OnePlaceChanges

LEMMA MovesKeepInvariant ==
    ASSUME TensorAssumption, IInv, NEW o \in Objects, NEW p \in Objects, o # p, Alive(p), Stolen(o, p)
    PROVE  IInv'
<1>1. tensor' = [tensor EXCEPT ![o] = tensor[p], ![p] = NoTensor] /\ torn' = TornLike(o, p) \ {p}
  BY DEF Stolen, StealLeaving
<1>2. DOMAIN tensor' = Objects /\ tensor'[o] = tensor[p] /\ tensor'[p] = NoTensor
  BY <1>1 DEF IInv
<1>3. \A r \in Objects \ {o, p} : tensor'[r] = tensor[r]
  BY <1>1 DEF IInv
<1>4. torn' \subseteq Objects /\ torn \ {o, p} \subseteq torn' /\ (o \notin torn' => p \notin torn)
  BY <1>1 DEF TornLike, IInv
<1>5. ASSUME NEW r \in Objects \ torn', Alive(r)'
      PROVE  Constructed(tensor'[r])
  <2>1. CASE r = o
    <3>1. p \in Objects \ torn /\ Constructed(tensor[p])
      BY <1>4, <1>5, <2>1 DEF IInv
    <3> QED BY <1>2, <2>1, <3>1
  <2>2. CASE r = p
    BY <1>2, <2>2, EmptyIsConstructed
  <2>3. CASE r \notin {o, p}
    <3>1. r \in Objects \ torn /\ Alive(r) /\ tensor'[r] = tensor[r]
      BY <1>3, <1>4, <1>5, <2>3 DEF Alive
    <3> QED BY <3>1 DEF IInv
  <2> QED BY <2>1, <2>2, <2>3
<1>6. \A r \in Objects \ torn' : Alive(r)' => Constructed(tensor[r])'
  BY <1>5 DEF Constructed
<1> QED BY <1>2, <1>4, <1>6 DEF IInv

(***************************************************************************)
(* Every operation keeps the invariant.                                    *)
(***************************************************************************)
LEMMA InvariantStep ==
    ASSUME TensorAssumption, IInv, [Next]_vars
    PROVE  IInv'
<1>1. ASSUME NEW o \in Objects, NEW given \in Shapes,
             NEW names \in NameLists \cup {AutoNames(Len(given))}, Construct(o, given, names)
      PROVE  IInv'
  <2>1. Constructed(TensorOf(given, names))
    BY <1>1 DEF Construct, Constructed
  <2>2. tensor' = [tensor EXCEPT ![o] = TensorOf(given, names)] /\ torn' = torn
    BY <1>1 DEF Construct
  <2> QED BY <2>1, <2>2, OnePlaceChanges DEF IInv
<1>2. ASSUME NEW o \in Objects, Destroy(o)
      PROVE  IInv'
  <2>1. tensor' = [tensor EXCEPT ![o] = Absent] /\ torn' = torn \ {o}
    BY <1>2 DEF Destroy
  <2> QED BY <2>1, OnePlaceChanges DEF IInv
<1>3. ASSUME NEW o \in Objects, NEW p \in Objects, CopyConstruct(o, p) \/ CopyAssign(o, p)
      PROVE  IInv'
  BY <1>3, CopiesKeepInvariant DEF CopyConstruct, CopyAssign
<1>4. ASSUME NEW o \in Objects, NEW p \in Objects, CopyThrows(o, p)
      PROVE  IInv'
  <2>1. PICK t : tensor' = [tensor EXCEPT ![o] = t]
    BY <1>4 DEF CopyThrows
  <2>2. torn' = torn \cup {o}
    BY <1>4 DEF CopyThrows
  <2> QED BY <2>1, <2>2, OnePlaceChanges DEF IInv
<1>5. ASSUME NEW o \in Objects, NEW p \in Objects, MoveConstruct(o, p) \/ MoveAssign(o, p)
      PROVE  IInv'
  BY <1>5, MovesKeepInvariant DEF MoveConstruct, MoveAssign
<1>6. CASE UNCHANGED vars
  BY <1>6 DEF vars, IInv, Alive, Constructed
<1> QED BY <1>1, <1>2, <1>3, <1>4, <1>5, <1>6 DEF Next

(***************************************************************************)
(* For any objects, shapes, names and hashes, a tensor no copy threw into  *)
(* is one that a constructor made, or the one a move leaves.               *)
(***************************************************************************)
THEOREM TensorInvariance ==
    ASSUME TensorAssumption
    PROVE  Spec => []IInv
<1>1. IInv /\ [Next]_vars => IInv'
  BY InvariantStep
<1> QED BY <1>1, InvariantInitially, PTL DEF Spec

-----------------------------------------------------------------------------
(***************************************************************************)
(* The parts of a constructed tensor fit together.                         *)
(***************************************************************************)
LEMMA PartsOfConstructed ==
    ASSUME TensorAssumption, NEW t, Constructed(t)
    PROVE  /\ t.dims \in Seq(Nat) /\ t.names \in Seq(Names) /\ Len(t.names) = Len(t.dims)
           /\ IsInjective(t.names)
           /\ t.hashes = Hashes(t.names) /\ t.data.shape = Label(t.dims, t.names)
           /\ t.data.len = StorageSize(t.dims)
<1>1. PICK given \in Shapes \cup {<< >>} : \E names \in NameLists \cup {AutoNames(Len(given))} :
         ValidNames(names, Len(given)) /\ t = TensorOf(given, names)
  BY DEF Constructed
<1>2. PICK names \in NameLists \cup {AutoNames(Len(given))} :
         ValidNames(names, Len(given)) /\ t = TensorOf(given, names)
  BY <1>1
<1>3. given \in Seq(Nat) /\ Len(given) \in Nat /\ Len(given) <= Len(AutoName) /\ AutoName \in Seq(Names)
  <2>1. Shapes \subseteq Seq(Nat) /\ AutoName \in Seq(Names) /\ \A d \in Shapes : Len(d) <= Len(AutoName)
    BY DEF TensorAssumption
  <2>2. CASE given \in Shapes
    BY <2>1, <2>2
  <2>3. CASE given = << >>
    BY <2>1, <2>3
  <2> QED BY <2>1, <2>2, <2>3
<1>4. AutoNames(Len(given)) \in Seq(Names)
  BY <1>3 DEF AutoNames
<1>5. names \in Seq(Names)
  BY <1>4 DEF TensorAssumption
<1>6. Len(names) = Len(given) /\ IsInjective(names)
  BY <1>2 DEF ValidNames
<1> QED BY <1>2, <1>3, <1>5, <1>6 DEF TensorOf

(***************************************************************************)
(* get_idx of a name and get_idx of its hash, on a constructed tensor.     *)
(***************************************************************************)
LEMMA LookupOfName ==
    ASSUME TensorAssumption, NEW t, Constructed(t), NEW k \in DOMAIN t.names
    PROVE  LET found == IdxByHash(t, t.names[k]) IN
           found \in 1 .. k /\ (found # k => NameHash[t.names[found]] = NameHash[t.names[k]])
<1> DEFINE hash == NameHash[t.names[k]]
           found == Search(t.hashes, hash)
<1>1. t.names \in Seq(Names) /\ t.hashes = [i \in 1 .. Len(t.names) |-> NameHash[t.names[i]]]
  BY PartsOfConstructed DEF Hashes
<1>2. t.hashes \in Seq({NameHash[n] : n \in Names}) /\ DOMAIN t.hashes = DOMAIN t.names
      /\ \A i \in DOMAIN t.names : t.hashes[i] = NameHash[t.names[i]]
  <2>1. Len(t.names) \in Nat /\ DOMAIN t.names = 1 .. Len(t.names)
    BY <1>1
  <2>2. \A i \in 1 .. Len(t.names) : NameHash[t.names[i]] \in {NameHash[n] : n \in Names}
    BY <1>1
  <2> QED BY <1>1, <2>1, <2>2
<1>3. \/ found = 0 /\ \A i \in DOMAIN t.hashes : t.hashes[i] # hash
      \/ /\ found \in DOMAIN t.hashes /\ t.hashes[found] = hash
         /\ \A i \in DOMAIN t.hashes : t.hashes[i] = hash => found <= i
  BY <1>2, SearchFindsFirst
<1>4. found \in DOMAIN t.names /\ NameHash[t.names[found]] = hash /\ found <= k
  BY <1>2, <1>3
<1>5. IdxByHash(t, t.names[k]) = found
  BY DEF IdxByHash
<1>6. DOMAIN t.names = 1 .. Len(t.names) /\ Len(t.names) \in Nat
  BY <1>1
<1>7. found \in 1 .. k
  BY <1>4, <1>6
<1> QED BY <1>4, <1>5, <1>7

LEMMA DimOfConstructed ==
    ASSUME TensorAssumption, NEW t, Constructed(t), NEW name
    PROVE  LET dim == DimAt(t, IdxByName(t, name)) IN
           IF dim = Refused THEN \A k \in DOMAIN t.data.shape : t.data.shape[k][1] # name
           ELSE \A k \in DOMAIN t.data.shape : t.data.shape[k][1] = name => t.data.shape[k][2] = dim
<1> DEFINE found == Search(t.names, name)
           dim == DimAt(t, found)
<1>1. /\ t.dims \in Seq(Nat) /\ t.names \in Seq(Names) /\ Len(t.names) = Len(t.dims)
      /\ \A i, j \in DOMAIN t.names : t.names[i] = t.names[j] => i = j
  BY PartsOfConstructed DEF IsInjective
<1>2. /\ DOMAIN t.data.shape = DOMAIN t.names
      /\ \A k \in DOMAIN t.names : t.data.shape[k][1] = t.names[k] /\ t.data.shape[k][2] = t.dims[k]
  <2>1. t.data.shape = [k \in 1 .. Len(t.dims) |-> <<t.names[k], t.dims[k]>>]
    BY PartsOfConstructed DEF Label
  <2>2. DOMAIN t.names = 1 .. Len(t.dims)
    BY <1>1
  <2> QED BY <2>1, <2>2
<1>3. DOMAIN t.names = DOMAIN t.dims /\ DOMAIN t.names = 1 .. Len(t.names)
  BY <1>1
<1>4. \/ found = 0 /\ \A i \in DOMAIN t.names : t.names[i] # name
      \/ found \in DOMAIN t.names /\ t.names[found] = name
  BY <1>1, SearchFindsFirst
<1>5. CASE found = 0
  <2>1. dim = Refused
    BY <1>5 DEF DimAt
  <2>2. \A k \in DOMAIN t.data.shape : t.data.shape[k][1] # name
    BY <1>2, <1>3, <1>4, <1>5
  <2> QED BY <2>1, <2>2 DEF IdxByName
<1>6. CASE found # 0
  <2>1. found \in DOMAIN t.dims /\ dim = t.dims[found]
    BY <1>3, <1>4, <1>6 DEF DimAt
  <2>2. dim # Refused
    <3>1. t.dims[found] \in Nat
      BY <1>1, <2>1
    <3> QED BY <2>1, <3>1 DEF Refused
  <2>3. \A k \in DOMAIN t.data.shape : t.data.shape[k][1] = name => t.data.shape[k][2] = dim
    BY <1>1, <1>2, <1>4, <1>6, <2>1
  <2> QED BY <2>2, <2>3 DEF IdxByName
<1> QED BY <1>5, <1>6

(***************************************************************************)
(* validate_storage never throws for a tensor no copy threw into.          *)
(***************************************************************************)
THEOREM StorageAlwaysMatches ==
    ASSUME TensorAssumption
    PROVE  Spec => []StorageMatches
<1>1. IInv => StorageMatches
  BY PartsOfConstructed DEF IInv, StorageMatches, StorageOk
<1> QED BY <1>1, TensorInvariance, PTL

(***************************************************************************)
(* The lookup by hash finds what the lookup by name finds, or an earlier   *)
(* name with the same hash.                                                *)
(***************************************************************************)
THEOREM LookupsAlwaysAgree ==
    ASSUME TensorAssumption
    PROVE  Spec => []LookupsAgree
<1>1. IInv => LookupsAgree
  BY LookupOfName DEF IInv, LookupsAgree
<1> QED BY <1>1, TensorInvariance, PTL

(***************************************************************************)
(* get_dim answers with the dimension the data was constructed with.       *)
(***************************************************************************)
THEOREM DimensionsAreKept ==
    ASSUME TensorAssumption
    PROVE  Spec => []DimOfName
<1>1. IInv => DimOfName
  BY DimOfConstructed DEF IInv, DimOfName
<1> QED BY <1>1, TensorInvariance, PTL

-----------------------------------------------------------------------------
(***************************************************************************)
(* The size of a shape (TensorShape).                                      *)
(*                                                                         *)
(* The products of the first numbers of a sequence exist: the least        *)
(* length for which they did not would follow one for which they do.       *)
(***************************************************************************)
IsProducts(p, s, n) ==
    p = [k \in 0 .. n |-> IF k = 0 THEN 1 ELSE p[k - 1] * s[k]]

LEMMA ProductsExist ==
    ASSUME NEW s \in Seq(Nat)
    PROVE  IsProducts(Products(s), s, Len(s))
<1> DEFINE Bad == {n \in 0 .. Len(s) : ~ \E p : IsProducts(p, s, n)}
<1>1. Len(s) \in Nat
  OBVIOUS
<1>2. Bad = {}
  <2> SUFFICES ASSUME Bad # {} PROVE FALSE
    OBVIOUS
  <2>1. Bad \in SUBSET Nat
    BY <1>1
  <2>2. PICK n \in Bad : \A m \in Bad : n <= m
    BY <2>1, LeastNumber
  <2>3. n \in 0 .. Len(s) /\ ~ \E p : IsProducts(p, s, n)
    OBVIOUS
  <2>4. CASE n = 0
    <3> DEFINE p == [k \in 0 .. 0 |-> 1]
    <3>1. p = [k \in 0 .. 0 |-> IF k = 0 THEN 1 ELSE p[k - 1] * s[k]]
      OBVIOUS
    <3> QED BY <2>3, <2>4, <3>1 DEF IsProducts
  <2>5. CASE n # 0
    <3>1. n - 1 \in 0 .. Len(s) /\ n - 1 \notin Bad
      BY SMTT(30), <1>1, <2>2, <2>3, <2>5
    <3>2. PICK q : IsProducts(q, s, n - 1)
      BY <3>1
    <3> DEFINE p == [k \in 0 .. n |-> IF k = n THEN q[n - 1] * s[n] ELSE q[k]]
    <3>3. \A k \in 0 .. (n - 1) : q[k] = IF k = 0 THEN 1 ELSE q[k - 1] * s[k]
      BY <3>2 DEF IsProducts
    <3>4. n \in Nat /\ n > 0
      BY <2>3, <2>5, <1>1
    <3>5. \A k \in 0 .. n : p[k] = IF k = 0 THEN 1 ELSE p[k - 1] * s[k]
      <4> SUFFICES ASSUME NEW k \in 0 .. n PROVE p[k] = IF k = 0 THEN 1 ELSE p[k - 1] * s[k]
        OBVIOUS
      <4>1. CASE k = n
        <5>1. p[n - 1] = q[n - 1]
          BY <3>4
        <5> QED BY <3>4, <4>1, <5>1
      <4>2. CASE k = 0
        BY <3>3, <3>4, <4>2
      <4>3. CASE k # n /\ k # 0
        <5>1. k \in 0 .. (n - 1) /\ k - 1 \in 0 .. (n - 1) /\ k - 1 # n
          BY <3>4, <4>3
        <5>2. p[k] = q[k] /\ p[k - 1] = q[k - 1]
          BY <4>3, <5>1, <3>4
        <5> QED BY <3>3, <4>3, <5>1, <5>2
      <4> QED BY <4>1, <4>2, <4>3
    <3> HIDE DEF p
    <3>6. p = [k \in 0 .. n |-> p[k]]
      BY DEF p
    <3>7. p = [k \in 0 .. n |-> IF k = 0 THEN 1 ELSE p[k - 1] * s[k]]
      BY <3>5, <3>6
    <3> QED BY <2>3, <3>7 DEF IsProducts
  <2> QED BY <2>4, <2>5
<1>3. \E p : p = [k \in 0 .. Len(s) |-> IF k = 0 THEN 1 ELSE p[k - 1] * s[k]]
  BY <1>1, <1>2 DEF IsProducts
<1>4. Products(s) = CHOOSE p : p = [k \in 0 .. Len(s) |-> IF k = 0 THEN 1 ELSE p[k - 1] * s[k]]
  BY DEF Products
<1> QED BY <1>3, <1>4 DEF IsProducts

(***************************************************************************)
(* What the products are, one number after the other, that they are        *)
(* numbers, and that without a zero they only grow.                        *)
(***************************************************************************)
LEMMA ProductsStep ==
    ASSUME NEW s \in Seq(Nat)
    PROVE  /\ Products(s)[0] = 1
           /\ \A n \in 1 .. Len(s) : Products(s)[n] = Products(s)[n - 1] * s[n]
<1> DEFINE p == Products(s)
<1>1. p = [k \in 0 .. Len(s) |-> IF k = 0 THEN 1 ELSE p[k - 1] * s[k]] /\ Len(s) \in Nat
  BY ProductsExist DEF IsProducts
<1> HIDE DEF p
<1>2. p[0] = 1 /\ \A n \in 1 .. Len(s) : p[n] = p[n - 1] * s[n]
  BY SMTT(30), <1>1
<1> QED BY <1>2 DEF p

LEMMA ProductsType ==
    ASSUME NEW s \in Seq(Nat), NEW n \in 0 .. Len(s)
    PROVE  Products(s)[n] \in Nat
<1> DEFINE p == Products(s)
           Bad == {k \in 0 .. Len(s) : p[k] \notin Nat}
<1>1. Len(s) \in Nat /\ p[0] = 1 /\ \A k \in 1 .. Len(s) : p[k] = p[k - 1] * s[k] /\ s[k] \in Nat
  BY ProductsStep
<1> HIDE DEF p
<1>2. Bad = {}
  <2> SUFFICES ASSUME Bad # {} PROVE FALSE
    OBVIOUS
  <2>0. Bad \in SUBSET Nat
    BY <1>1
  <2>1. PICK k \in Bad : \A m \in Bad : k <= m
    BY <2>0, LeastNumber
  <2>2. k \in 1 .. Len(s) /\ k - 1 \in 0 .. Len(s) /\ k - 1 \notin Bad
    BY <1>1, <2>1
  <2>3. p[k - 1] \in Nat /\ s[k] \in Nat /\ p[k] = p[k - 1] * s[k]
    BY <1>1, <2>2
  <2> QED BY <2>1, <2>3
<1> QED BY <1>2 DEF p

LEMMA ProductsGrow ==
    ASSUME NEW s \in Seq(Nat), 0 \notin ToSet(s), NEW i \in 0 .. Len(s), NEW n \in i .. Len(s)
    PROVE  Products(s)[i] <= Products(s)[n]
<1> DEFINE p == Products(s)
           Bad == {k \in i .. Len(s) : ~(p[i] <= p[k])}
<1>1. Len(s) \in Nat /\ \A k \in 1 .. Len(s) : p[k] = p[k - 1] * s[k] /\ s[k] \in Nat
  BY ProductsStep
<1>2. \A k \in 0 .. Len(s) : p[k] \in Nat
  BY ProductsType
<1>3. \A k \in 1 .. Len(s) : s[k] # 0
  BY DEF ToSet
<1> HIDE DEF p
<1>4. Bad = {}
  <2> SUFFICES ASSUME Bad # {} PROVE FALSE
    OBVIOUS
  <2>0. Bad \in SUBSET Nat
    BY <1>1
  <2>1. PICK k \in Bad : \A m \in Bad : k <= m
    BY <2>0, LeastNumber
  <2>2. k \in 1 .. Len(s) /\ k - 1 \in i .. Len(s) /\ k - 1 \notin Bad
    BY <1>1, <1>2, <2>1
  <2>3. p[i] <= p[k - 1] /\ p[k - 1] \in Nat /\ p[i] \in Nat
    BY <1>1, <1>2, <2>2
  <2>4. p[k] = p[k - 1] * s[k] /\ s[k] \in Nat /\ s[k] >= 1
    BY <1>1, <1>3, <2>2
  <2>5. p[k - 1] <= p[k]
    <3>1. \A a, b \in Nat : b >= 1 => a <= a * b
      OBVIOUS
    <3> QED BY <2>3, <2>4, <3>1
  <2> QED BY <1>1, <1>2, <2>1, <2>2, <2>3, <2>5
<1> QED BY <1>4 DEF p

(***************************************************************************)
(* The check is exact: a factor overflows when the product does not fit.   *)
(***************************************************************************)
LEMMA OverflowsExact ==
    ASSUME ShapeAssumption, NEW d \in 0 .. MaxUsize, size \in 0 .. MaxUsize
    PROVE  /\ Overflows(d) <=> size * d > MaxUsize
           /\ ~Overflows(d) => Wrap(size * d) = size * d
<1>1. MaxUsize \in Nat /\ d \in Nat /\ size \in Nat
  BY DEF ShapeAssumption
<1>2. CASE size = 0
  BY <1>1, <1>2 DEF Overflows, Wrap
<1>3. CASE size # 0
  <2> DEFINE q == MaxUsize \div size
             r == MaxUsize % size
  <2>1. q \in Nat /\ r \in 0 .. (size - 1) /\ MaxUsize = size * q + r
    BY <1>1, <1>3
  <2> HIDE DEF q, r
  <2>2. d <= q => size * d <= MaxUsize
    <3>1. d <= q => size * d <= size * q
      BY <1>1, <2>1
    <3> QED BY <1>1, <2>1, <3>1
  <2>3. d > q => size * d > MaxUsize
    <3>1. d >= q + 1 => size * d >= size * (q + 1)
      BY <1>1, <2>1
    <3>2. size * (q + 1) = size * q + size
      BY <1>1, <2>1
    <3> QED BY <1>1, <2>1, <3>1, <3>2
  <2>4. Overflows(d) <=> d > q
    BY <1>3 DEF Overflows, q
  <2>5. size * d \in Nat /\ (size * d <= MaxUsize => Wrap(size * d) = size * d)
    BY <1>1 DEF Wrap
  <2> QED BY <1>1, <2>1, <2>2, <2>3, <2>4, <2>5
<1> QED BY <1>2, <1>3

(***************************************************************************)
(* The loop keeps its invariant.                                           *)
(***************************************************************************)
LEMMA ShapeInitially ==
    ASSUME ShapeAssumption
    PROVE  ShapeInit => ShapeIInv
<1> SUFFICES ASSUME ShapeInit PROVE ShapeIInv
  OBVIOUS
<1>1. MaxUsize \in Nat \ {0} /\ MaxRank \in Nat
  BY DEF ShapeAssumption
<1>2. PICK r \in 0 .. MaxRank : dims \in [1 .. r -> 0 .. MaxUsize]
  BY DEF ShapeInit
<1>3. r \in Nat
  BY <1>1
<1>4. dims \in Seq(0 .. MaxUsize) /\ Len(dims) \in Nat /\ dims \in Seq(Nat)
  BY <1>1, <1>2, <1>3
<1>5. done = 0 /\ outcome = "running" /\ size = (IF dims = << >> THEN 0 ELSE 1)
  BY DEF ShapeInit
<1>6. size \in 0 .. MaxUsize /\ done \in 0 .. Len(dims)
  BY <1>1, <1>4, <1>5
<1>7. dims # << >> => size = Products(dims)[done]
  BY <1>4, <1>5, ProductsStep
<1> QED BY <1>4, <1>5, <1>6, <1>7 DEF ShapeIInv

LEMMA ShapeStep ==
    ASSUME ShapeAssumption, ShapeIInv, [ShapeNext]_shapeVars
    PROVE  ShapeIInv'
<1>1. /\ dims \in Seq(0 .. MaxUsize) /\ dims \in Seq(Nat) /\ Len(dims) \in Nat /\ MaxUsize \in Nat
      /\ done \in 0 .. Len(dims) /\ size \in 0 .. MaxUsize
  BY DEF ShapeIInv, ShapeAssumption
<1>2. CASE Multiply
  <2> DEFINE n == done + 1
             d == dims[n]
  <2>1. outcome = "running" /\ n \in 1 .. Len(dims) /\ n - 1 = done /\ dims' = dims /\ dims # << >>
    BY <1>1, <1>2 DEF Multiply
  <2>2. d \in 0 .. MaxUsize
    BY <1>1, <2>1
  <2>3. CASE Overflows(d)
    <3>1. outcome' = "threw" /\ UNCHANGED <<size, done, dims>> /\ done < Len(dims)
      BY <1>2, <2>3 DEF Multiply
    <3> QED BY <2>3, <3>1 DEF ShapeIInv, Overflows
  <2>4. CASE ~Overflows(d)
    <3>1. outcome' = "running" /\ size' = size * d /\ done' = n
      BY <1>2, <2>1, <2>2, <2>4, <1>1, OverflowsExact DEF Multiply
    <3>2. size' \in 0 .. MaxUsize
      <4>1. size * d \in Nat /\ ~(size * d > MaxUsize)
        BY <1>1, <2>2, <2>4, OverflowsExact
      <4> QED BY <1>1, <3>1, <4>1
    <3>3. size' = Products(dims)[n]
      <4>1. size = Products(dims)[n - 1]
        BY <2>1 DEF ShapeIInv
      <4> QED BY <1>1, <2>1, <3>1, <4>1, ProductsStep
    <3>4. dims[1] = 0 => size' = 0
      <4>1. CASE n = 1
        BY <1>1, <3>1, <4>1
      <4>2. CASE n # 1
        <5>1. dims[1] = 0 => size = 0
          BY <1>1, <2>1, <4>2 DEF ShapeIInv
        <5> QED BY <2>2, <3>1, <5>1
      <4> QED BY <4>1, <4>2
    <3>5. done' \in 0 .. Len(dims)
      BY <1>1, <2>1, <3>1
    <3> QED BY <1>1, <2>1, <3>1, <3>2, <3>3, <3>4, <3>5 DEF ShapeIInv
  <2> QED BY <2>3, <2>4
<1>3. CASE ShapeReturn \/ UNCHANGED shapeVars
  <2>1. UNCHANGED <<dims, size, done>>
        /\ (outcome' = outcome \/ (outcome' = "returned" /\ done = Len(dims)))
    BY <1>3 DEF ShapeReturn, shapeVars
  <2> QED BY <2>1 DEF ShapeIInv, Overflows
<1> QED BY <1>2, <1>3 DEF ShapeNext

(***************************************************************************)
(* For any shape and any largest size: the multiplication never wraps, and *)
(* a shape is refused exactly when its product does not fit.               *)
(***************************************************************************)
THEOREM SizesAreExact ==
    ASSUME ShapeAssumption
    PROVE  ShapeSpec => []SizeExact
<1>1. ShapeIInv /\ [ShapeNext]_shapeVars => ShapeIInv'
  BY ShapeStep
<1>2. ShapeIInv => SizeExact
  <2> SUFFICES ASSUME ShapeIInv, dims # << >> PROVE SizeExact
    BY DEF SizeExact
  <2>1. /\ dims \in Seq(0 .. MaxUsize) /\ dims \in Seq(Nat) /\ Len(dims) \in Nat /\ MaxUsize \in Nat
        /\ done \in 0 .. Len(dims) /\ size \in 0 .. MaxUsize /\ size = Products(dims)[done]
    BY DEF ShapeIInv, ShapeAssumption
  <2>2. ASSUME outcome = "threw"
        PROVE  /\ dims[1] # 0 /\ done + 1 \in 0 .. Len(dims)
               /\ Products(dims)[done + 1] > MaxUsize
    <3> DEFINE d == dims[done + 1]
    <3>1. done < Len(dims) /\ Overflows(d) /\ done + 1 \in 1 .. Len(dims)
      BY <2>1, <2>2 DEF ShapeIInv
    <3>2. d \in 0 .. MaxUsize
      BY <2>1, <3>1
    <3>3. size * d > MaxUsize /\ Products(dims)[done + 1] = size * d
      <4>1. size * d > MaxUsize
        BY <2>1, <3>1, <3>2, OverflowsExact
      <4>2. (done + 1) - 1 = done
        BY <2>1
      <4> QED BY <2>1, <3>1, <4>1, <4>2, ProductsStep
    <3>4. dims[1] # 0
      <4>1. size # 0 /\ d # 0
        BY <2>1, <3>2, <3>3
      <4>2. CASE done = 0
        BY <4>1, <4>2
      <4>3. CASE done # 0
        BY <2>1, <4>1, <4>3 DEF ShapeIInv
      <4> QED BY <4>2, <4>3
    <3> QED BY <3>1, <3>3, <3>4
  <2>3. ASSUME outcome # "running", 0 \notin ToSet(dims)
        PROVE  outcome = "threw" <=> Product(dims) > MaxUsize
    <3>1. CASE outcome = "threw"
      <4>1. Products(dims)[done + 1] <= Products(dims)[Len(dims)]
        BY <2>1, <2>2, <2>3, <3>1, ProductsGrow
      <4>2. Products(dims)[done + 1] \in Nat /\ Products(dims)[Len(dims)] \in Nat
        BY <2>1, <2>2, <3>1, ProductsType
      <4> QED BY <2>1, <2>2, <3>1, <4>1, <4>2 DEF Product
    <3>2. CASE outcome = "returned"
      <4>1. Product(dims) = size
        BY <2>1, <3>2 DEF ShapeIInv, Product
      <4> QED BY <2>1, <3>2, <4>1
    <3> QED BY <2>3, <3>1, <3>2 DEF ShapeIInv
  <2> QED BY <2>1, <2>2, <2>3 DEF SizeExact
<1> QED BY <1>1, <1>2, ShapeInitially, PTL DEF ShapeSpec

-----------------------------------------------------------------------------
(***************************************************************************)
(* print visits every element once.  A run of numbers is what one row and  *)
(* one matrix are, and runs of equal length that follow each other are one *)
(* run when they are flattened.                                            *)
(***************************************************************************)
Run(first, count) == [k \in 1 .. count |-> first + k - 1]

LEMMA RunsAppend ==
    ASSUME NEW first \in Nat, NEW n \in Nat, NEW c \in Nat
    PROVE  /\ Run(first, n) \o Run(first + n, c) = Run(first, n + c)
           /\ Run(first, n) \in Seq(Nat) /\ Len(Run(first, n)) = n
<1> DEFINE s == Run(first, n)
           t == Run(first + n, c)
           u == Run(first, n + c)
<1>1. /\ s \in Seq(Nat) /\ Len(s) = n /\ \A k \in 1 .. n : s[k] = first + k - 1
      /\ t \in Seq(Nat) /\ Len(t) = c /\ \A k \in 1 .. c : t[k] = first + n + k - 1
      /\ u \in Seq(Nat) /\ Len(u) = n + c /\ \A k \in 1 .. (n + c) : u[k] = first + k - 1
  BY DEF Run
<1> HIDE DEF s, t, u
<1>2. s \o t \in Seq(Nat) /\ Len(s \o t) = n + c
      /\ \A k \in 1 .. (n + c) : (s \o t)[k] = IF k <= n THEN s[k] ELSE t[k - n]
  BY ZenonT(40), <1>1, ConcatProperties
<1>3. ASSUME NEW k \in 1 .. (n + c)
      PROVE  (s \o t)[k] = u[k]
  <2>1. CASE k <= n
    BY <1>1, <1>2, <2>1
  <2>2. CASE ~(k <= n)
    <3>1. k - n \in 1 .. c /\ t[k - n] = first + n + (k - n) - 1
      BY <1>1, <2>2
    <3> QED BY SMTT(30), <1>1, <1>2, <2>2, <3>1
  <2> QED BY <2>1, <2>2
<1>4. s \o t = u
  BY <1>1, <1>2, <1>3, SeqEqual
<1> QED BY <1>1, <1>4 DEF s, t, u

LEMMA Multiples ==
    ASSUME NEW c \in Nat, NEW r \in Nat \ {0}, NEW n \in Nat, r <= n
    PROVE  /\ (r - 1) * c \in Nat /\ r * c \in Nat /\ n * c \in Nat
           /\ (r - 1) * c + c = r * c /\ r * c <= n * c
OBVIOUS

LEMMA FlattenRuns ==
    ASSUME NEW first \in Nat, NEW n \in Nat, NEW c \in Nat,
           NEW seqs, seqs = [r \in 1 .. n |-> Run(first + (r - 1) * c, c)]
    PROVE  FlattenSeq(seqs) = Run(first, n * c)
<1> DEFINE Flat(p) == p = [r \in 1 .. n |-> IF r = 1 THEN seqs[r] ELSE p[r - 1] \o seqs[r]]
           f == [r \in 1 .. n |-> Run(first, r * c)]
<1>1. Len(seqs) = n
  OBVIOUS
<1>2. \A r \in 1 .. n : seqs[r] = Run(first + (r - 1) * c, c)
  OBVIOUS
<1>3. ASSUME NEW r \in 1 .. n, r # 1
      PROVE  Run(first, (r - 1) * c) \o seqs[r] = Run(first, r * c)
  <2>1. (r - 1) * c \in Nat /\ (r - 1) * c + c = r * c
    BY Multiples
  <2>2. seqs[r] = Run(first + (r - 1) * c, c)
    BY <1>2
  <2>3. Run(first, (r - 1) * c) \o Run(first + (r - 1) * c, c) = Run(first, (r - 1) * c + c)
    BY <2>1, RunsAppend
  <2> QED BY <2>1, <2>2, <2>3
<1>4. CASE n = 0
  <2>1. seqs = << >> /\ Run(first, n * c) = << >>
    BY <1>4 DEF Run
  <2> QED BY <1>1, <1>4, <2>1 DEF FlattenSeq
<1>5. CASE n # 0
  <2>1. Flat(f)
    <3>1. \A r \in 1 .. n : f[r] = IF r = 1 THEN seqs[r] ELSE f[r - 1] \o seqs[r]
      <4> SUFFICES ASSUME NEW r \in 1 .. n
                   PROVE  f[r] = IF r = 1 THEN seqs[r] ELSE f[r - 1] \o seqs[r]
        OBVIOUS
      <4>1. CASE r = 1
        <5>1. first + (1 - 1) * c = first /\ 1 * c = c
          OBVIOUS
        <5> QED BY <1>2, <4>1, <5>1
      <4>2. CASE r # 1
        <5>1. r - 1 \in 1 .. n
          BY <4>2
        <5> QED BY <1>3, <4>2, <5>1
      <4> QED BY <4>1, <4>2
    <3>2. f = [r \in 1 .. n |-> f[r]]
      OBVIOUS
    <3> HIDE DEF f
    <3> QED BY <3>1, <3>2
  <2>2. PICK p : p = (CHOOSE q : Flat(q))
    OBVIOUS
  <2>3. Flat(p)
    BY <2>1, <2>2
  <2>4. \A r \in 1 .. n : p[r] = IF r = 1 THEN seqs[r] ELSE p[r - 1] \o seqs[r]
    BY <2>3
  <2> DEFINE Bad == {r \in 1 .. n : p[r] # Run(first, r * c)}
  <2>5. Bad = {}
    <3> SUFFICES ASSUME Bad # {} PROVE FALSE
      OBVIOUS
    <3>1. Bad \in SUBSET Nat
      OBVIOUS
    <3>2. PICK r \in Bad : \A m \in Bad : r <= m
      BY <3>1, LeastNumber
    <3>3. r \in 1 .. n /\ p[r] # Run(first, r * c)
      OBVIOUS
    <3>4. CASE r = 1
      <4>1. first + (1 - 1) * c = first /\ 1 * c = c
        OBVIOUS
      <4> QED BY <1>2, <2>4, <3>3, <3>4, <4>1
    <3>5. CASE r # 1
      <4>1. r - 1 \in 1 .. n /\ r - 1 \notin Bad
        BY <3>2, <3>3, <3>5
      <4> QED BY ZenonT(40), <1>3, <2>4, <3>3, <3>5, <4>1
    <3> QED BY <3>4, <3>5
  <2>6. FlattenSeq(seqs) = p[n]
    <3>1. FlattenSeq(seqs) = (CHOOSE q : Flat(q))[n]
      BY <1>1, <1>5 DEF FlattenSeq
    <3> QED BY <2>2, <3>1
  <2> QED BY <1>5, <2>5, <2>6
<1> QED BY <1>4, <1>5

(***************************************************************************)
(* A row and a matrix that lie within the storage: no index wraps.         *)
(***************************************************************************)
LEMMA SliceIsRun ==
    ASSUME ShapeAssumption, NEW offset \in Nat, NEW count \in Nat, offset + count <= MaxUsize
    PROVE  Slice(offset, count) = Run(offset, count)
<1>1. MaxUsize \in Nat
  BY DEF ShapeAssumption
<1>2. \A k \in 1 .. count : Wrap(offset + k - 1) = offset + k - 1
  BY <1>1 DEF Wrap
<1> QED BY <1>2 DEF Slice, Run

LEMMA MatrixIsRun ==
    ASSUME ShapeAssumption, NEW offset \in Nat, NEW rows \in Nat, NEW cols \in Nat,
           offset + rows * cols <= MaxUsize
    PROVE  Matrix(offset, rows, cols) = Run(offset, rows * cols)
<1> DEFINE seqs == [r \in 1 .. rows |-> Slice(Wrap(offset + Wrap((r - 1) * cols)), cols)]
<1>1. MaxUsize \in Nat /\ rows * cols \in Nat
  BY DEF ShapeAssumption
<1>2. ASSUME NEW r \in 1 .. rows
      PROVE  Slice(Wrap(offset + Wrap((r - 1) * cols)), cols) = Run(offset + (r - 1) * cols, cols)
  <2> DEFINE start == (r - 1) * cols
  <2>1. start \in Nat /\ start + cols <= rows * cols
    BY Multiples
  <2> HIDE DEF start
  <2>2. Wrap(start) = start /\ Wrap(offset + start) = offset + start
    BY <1>1, <2>1 DEF Wrap
  <2>3. offset + start + cols <= MaxUsize
    BY <1>1, <2>1
  <2>4. Slice(offset + start, cols) = Run(offset + start, cols)
    BY <2>1, <2>3, SliceIsRun
  <2> QED BY <2>2, <2>4 DEF start
<1>3. seqs = [r \in 1 .. rows |-> Run(offset + (r - 1) * cols, cols)]
  BY <1>2
<1>4. FlattenSeq(seqs) = Run(offset, rows * cols)
  <2> HIDE DEF seqs
  <2> QED BY <1>3, FlattenRuns
<1> QED BY <1>4 DEF Matrix

(***************************************************************************)
(* What print visits is one run, for each of the three ranks.              *)
(***************************************************************************)
LEMMA PrintedIsRun ==
    ASSUME ShapeAssumption, ShapeIInv, outcome = "returned", Len(dims) \in 1 .. 3
    PROVE  Printed = Run(0, size)
<1>1. /\ dims \in Seq(0 .. MaxUsize) /\ dims \in Seq(Nat) /\ dims # << >> /\ MaxUsize \in Nat
      /\ \A k \in 1 .. Len(dims) : dims[k] \in 0 .. MaxUsize
      /\ size \in 0 .. MaxUsize /\ size = Products(dims)[Len(dims)]
  BY DEF ShapeIInv, ShapeAssumption
<1>2. /\ Products(dims)[0] = 1
      /\ \A n \in 1 .. Len(dims) : Products(dims)[n] = Products(dims)[n - 1] * dims[n]
  BY <1>1, ProductsStep
<1>3. Products(dims)[1] = dims[1]
  BY <1>1, <1>2
<1>4. CASE Len(dims) = 1
  <2>1. Printed = Slice(0, dims[1])
    BY <1>4 DEF Printed
  <2> QED BY <1>1, <1>3, <1>4, <2>1, SliceIsRun
<1>5. CASE Len(dims) = 2
  <2>1. Printed = Matrix(0, dims[1], dims[2])
    BY <1>5 DEF Printed
  <2>2. size = dims[1] * dims[2]
    BY <1>1, <1>2, <1>3, <1>5
  <2> QED BY <1>1, <1>5, <2>1, <2>2, MatrixIsRun
<1>6. CASE Len(dims) = 3
  <2> DEFINE n == dims[1]
             c == dims[2] * dims[3]
             seqs == [m \in 1 .. n |-> Matrix(Wrap((m - 1) * Wrap(c)), dims[2], dims[3])]
  <2>1. Printed = FlattenSeq(seqs)
    BY <1>6 DEF Printed
  <2>2. n \in Nat /\ c \in Nat /\ size = n * c
    <3>1. Products(dims)[2] = dims[1] * dims[2] /\ Products(dims)[3] = Products(dims)[2] * dims[3]
      BY <1>2, <1>3, <1>6
    <3>2. dims[1] \in Nat /\ dims[2] \in Nat /\ dims[3] \in Nat
      BY <1>1, <1>6
    <3>3. (dims[1] * dims[2]) * dims[3] = dims[1] * (dims[2] * dims[3])
      BY <3>2
    <3> QED BY SMTT(30), <1>1, <1>6, <3>1, <3>2, <3>3
  <2>3. ASSUME NEW m \in 1 .. n
        PROVE  Matrix(Wrap((m - 1) * Wrap(c)), dims[2], dims[3]) = Run(0 + (m - 1) * c, c)
    <3>1. (m - 1) * c \in Nat /\ (m - 1) * c + c <= n * c /\ c <= n * c
      <4>1. (m - 1) * c \in Nat /\ (m - 1) * c + c = m * c /\ m * c <= n * c /\ m * c \in Nat /\ n * c \in Nat
        BY <2>2, Multiples
      <4> HIDE DEF c, n
      <4> QED BY <2>2, <4>1
    <3> HIDE DEF c, n
    <3>2. Wrap(c) = c /\ Wrap((m - 1) * c) = (m - 1) * c /\ (m - 1) * c + c <= MaxUsize
      BY SMTT(30), <1>1, <2>2, <3>1 DEF Wrap
    <3>3. dims[2] \in Nat /\ dims[3] \in Nat /\ c = dims[2] * dims[3]
      BY <1>1, <1>6 DEF c
    <3>4. Matrix((m - 1) * c, dims[2], dims[3]) = Run((m - 1) * c, c)
      BY <3>1, <3>2, <3>3, MatrixIsRun
    <3>5. 0 + (m - 1) * c = (m - 1) * c
      BY <3>1
    <3> QED BY <3>2, <3>4, <3>5
  <2>4. seqs = [m \in 1 .. n |-> Run(0 + (m - 1) * c, c)]
    BY <2>3
  <2>5. FlattenSeq(seqs) = Run(0, n * c)
    <3> HIDE DEF seqs, n, c
    <3> QED BY <2>2, <2>4, FlattenRuns
  <2> QED BY <2>1, <2>2, <2>5
<1> QED BY <1>4, <1>5, <1>6

(***************************************************************************)
(* For any shape that was not refused, of the ranks that print knows: the  *)
(* elements it shows are all of data_, once, in their order, although the  *)
(* products it forms may wrap when there is nothing to show.               *)
(***************************************************************************)
THEOREM EveryElementPrinted ==
    ASSUME ShapeAssumption
    PROVE  ShapeSpec => []PrintsAll
<1>1. ShapeIInv /\ [ShapeNext]_shapeVars => ShapeIInv'
  BY ShapeStep
<1>2. ShapeIInv => PrintsAll
  <2>1. size \in Nat => Run(0, size) = [k \in 1 .. size |-> k - 1]
    BY DEF Run
  <2>2. ShapeIInv => size \in Nat
    BY DEF ShapeIInv, ShapeAssumption
  <2> QED BY <2>1, <2>2, PrintedIsRun DEF PrintsAll
<1> QED BY <1>1, <1>2, ShapeInitially, PTL DEF ShapeSpec
-----------------------------------------------------------------------------
(***************************************************************************)
(* The index mask (IndexMask).                                             *)
(*                                                                         *)
(* Half of a number, and the number it is half of.                         *)
(***************************************************************************)
LEMMA Halves ==
    ASSUME NEW x \in Nat
    PROVE  /\ x \div 2 \in Nat /\ x % 2 \in 0 .. 1
           /\ x = 2 * (x \div 2) + (x % 2)
           /\ x \div 2 <= x /\ (x # 0 => x \div 2 < x)
  OBVIOUS

LEMMA HalfUnique ==
    ASSUME NEW h \in Nat, NEW d \in 0 .. 1
    PROVE  (2 * h + d) \div 2 = h /\ (2 * h + d) % 2 = d
  OBVIOUS

(***************************************************************************)
(* Induction by halving: what holds for 0, and for every number when it    *)
(* holds for its half, holds for all.                                      *)
(***************************************************************************)
LEMMA HalvingInduction ==
    ASSUME NEW N \in Nat, NEW G, 0 \in G, \A x \in 1 .. N : x \div 2 \in G => x \in G
    PROVE  \A x \in 0 .. N : x \in G
<1> DEFINE Bad == {x \in 0 .. N : x \notin G}
<1>1. Bad = {}
  <2> SUFFICES ASSUME Bad # {} PROVE FALSE
    OBVIOUS
  <2>1. Bad \in SUBSET Nat
    OBVIOUS
  <2>2. PICK x \in Bad : \A y \in Bad : x <= y
    BY <2>1, LeastNumber
  <2>3. x \in 1 .. N
    OBVIOUS
  <2>4. x \div 2 \in 0 .. N /\ x \div 2 < x
    BY <2>3, Halves
  <2>5. x \div 2 \in G
    BY <2>2, <2>3, <2>4
  <2> QED BY <2>3, <2>5
<1> QED BY <1>1

(***************************************************************************)
(* The bitwise and of two words exists: the least first word for which it  *)
(* did not would follow ones for which it does.                            *)
(***************************************************************************)
IsAnd(f, n) ==
    f = [x \in 0 .. n |-> [y \in Words |->
            IF x = 0 THEN 0 ELSE 2 * f[x \div 2][y \div 2] + (x % 2) * (y % 2)]]

LEMMA AndExists ==
    ASSUME Modulus \in Nat
    PROVE  IsAnd(And, Modulus)
<1> DEFINE Bad == {n \in Words : ~ \E f : IsAnd(f, n)}
           Value(f, x, y) == IF x = 0 THEN 0 ELSE 2 * f[x \div 2][y \div 2] + (x % 2) * (y % 2)
<1>1. Bad = {}
  <2> SUFFICES ASSUME Bad # {} PROVE FALSE
    OBVIOUS
  <2>1. Bad \in SUBSET Nat
    BY DEF Words
  <2>2. PICK n \in Bad : \A m \in Bad : n <= m
    BY <2>1, LeastNumber
  <2>3. n \in Nat /\ n <= Modulus /\ ~ \E f : IsAnd(f, n)
    BY DEF Words
  <2>4. CASE n = 0
    <3> DEFINE f == [x \in 0 .. 0 |-> [y \in Words |-> 0]]
    <3>1. f = [x \in 0 .. 0 |-> [y \in Words |-> Value(f, x, y)]]
      OBVIOUS
    <3> QED BY <2>3, <2>4, <3>1 DEF IsAnd
  <2>5. CASE n # 0
    <3>1. n - 1 \in Words /\ n - 1 \notin Bad
      BY <2>2, <2>3, <2>5 DEF Words
    <3>2. PICK g : IsAnd(g, n - 1)
      BY <3>1
    <3> DEFINE f == [x \in 0 .. n |-> [y \in Words |-> IF x = n THEN Value(g, x, y) ELSE g[x][y]]]
    <3>3. ASSUME NEW x \in 0 .. (n - 1), NEW y \in Words
          PROVE  g[x][y] = Value(g, x, y)
      <4>1. g[x] = [z \in Words |-> Value(g, x, z)]
        BY Zenon, <3>2 DEF IsAnd
      <4> QED BY Zenon, <4>1
    <3>4. ASSUME NEW x \in 0 .. n, NEW y \in Words
          PROVE  f[x][y] = Value(f, x, y)
      <4>1. f[x][y] = Value(g, x, y)
        BY <2>3, <3>3
      <4>2. CASE x = 0
        BY <4>1, <4>2
      <4>3. CASE x # 0
        <5>1. x \div 2 \in 0 .. n /\ x \div 2 # n /\ y \div 2 \in Words
          BY <2>3, <4>3, Halves DEF Words
        <5>2. f[x \div 2][y \div 2] = g[x \div 2][y \div 2]
          BY <5>1
        <5> QED BY <4>1, <4>3, <5>2
      <4> QED BY <4>2, <4>3
    <3> HIDE DEF f
    <3>5. f = [x \in 0 .. n |-> [y \in Words |-> f[x][y]]]
      BY DEF f
    <3>6. f = [x \in 0 .. n |-> [y \in Words |-> Value(f, x, y)]]
      BY <3>4, <3>5
    <3> QED BY <2>3, <3>6 DEF IsAnd
  <2> QED BY <2>4, <2>5
<1>2. Modulus \in Words
  BY DEF Words
<1>3. \E f : IsAnd(f, Modulus)
  BY <1>1, <1>2
<1>4. And = CHOOSE f : IsAnd(f, Modulus)
  BY DEF And, IsAnd, Words
<1> QED BY <1>3, <1>4

LEMMA AndStep ==
    ASSUME Modulus \in Nat, NEW x \in Words, NEW y \in Words
    PROVE  /\ x \div 2 \in Words /\ y \div 2 \in Words
           /\ x = 0 => And[x][y] = 0
           /\ x # 0 => And[x][y] = 2 * And[x \div 2][y \div 2] + (x % 2) * (y % 2)
<1>1. x \div 2 \in Words /\ y \div 2 \in Words
  BY Halves DEF Words
<1>2. And = [z \in Words |-> [w \in Words |->
                IF z = 0 THEN 0 ELSE 2 * And[z \div 2][w \div 2] + (z % 2) * (w % 2)]]
  BY AndExists DEF IsAnd, Words
<1>3. And[x] = [w \in Words |-> IF x = 0 THEN 0
                                ELSE 2 * And[x \div 2][w \div 2] + (x % 2) * (w % 2)]
  BY Zenon, <1>2
<1>4. And[x][y] = IF x = 0 THEN 0 ELSE 2 * And[x \div 2][y \div 2] + (x % 2) * (y % 2)
  BY Zenon, <1>3
<1> QED BY <1>1, <1>4

(***************************************************************************)
(* The and of two words is a word no larger than either.                   *)
(***************************************************************************)
LEMMA AndType ==
    ASSUME Modulus \in Nat, NEW x \in Words, NEW y \in Words
    PROVE  And[x][y] \in Nat /\ And[x][y] <= x /\ And[x][y] <= y
<1> DEFINE Good(z, w) == And[z][w] \in Nat /\ And[z][w] <= z /\ And[z][w] <= w
           G          == {z \in Words : \A w \in Words : Good(z, w)}
<1> HIDE DEF Good
<1>1. 0 \in G
  <2>1. ASSUME NEW w \in Words PROVE Good(0, w)
    BY AndStep DEF Words, Good
  <2> QED BY <2>1 DEF Words
<1>2. ASSUME NEW z \in 1 .. Modulus, z \div 2 \in G
      PROVE  z \in G
  <2>1. z \in Words /\ z # 0 /\ z \in Nat
    BY DEF Words
  <2> SUFFICES ASSUME NEW w \in Words PROVE Good(z, w)
    BY <2>1
  <2>2. w \in Nat
    BY DEF Words
  <2> DEFINE h == z \div 2
             i == w \div 2
  <2>3. h \in Words /\ i \in Words /\ And[z][w] = 2 * And[h][i] + (z % 2) * (w % 2)
    BY <2>1, AndStep
  <2>4. Good(h, i)
    BY <1>2, <2>3
  <2>5. /\ h \in Nat /\ z = 2 * h + (z % 2) /\ z % 2 \in 0 .. 1
        /\ i \in Nat /\ w = 2 * i + (w % 2) /\ w % 2 \in 0 .. 1
    BY <2>1, <2>2, Halves
  <2>6. (z % 2) * (w % 2) \in Nat /\ (z % 2) * (w % 2) <= z % 2 /\ (z % 2) * (w % 2) <= w % 2
    <3>1. \A c, d \in 0 .. 1 : c * d \in Nat /\ c * d <= c /\ c * d <= d
      OBVIOUS
    <3> QED BY <2>5, <3>1
  <2> HIDE DEF h, i
  <2> QED BY <2>3, <2>4, <2>5, <2>6 DEF Good
<1> HIDE DEF G
<1>3. \A z \in 0 .. Modulus : z \in G
  BY <1>1, <1>2, HalvingInduction
<1>4. Good(x, y)
  BY <1>3 DEF Words, G
<1> QED BY <1>4 DEF Good

(***************************************************************************)
(* The and by halves: the last digit is set when both last digits are.     *)
(***************************************************************************)
LEMMA AndHalves ==
    ASSUME Modulus \in Nat, NEW x \in Words, NEW y \in Words
    PROVE  LET half == And[x \div 2][y \div 2] IN
           /\ x \div 2 \in Words /\ y \div 2 \in Words /\ half \in Nat
           /\ And[x][y] = IF x % 2 = 1 /\ y % 2 = 1 THEN 2 * half + 1 ELSE 2 * half
<1> DEFINE half == And[x \div 2][y \div 2]
<1>1. x \in Nat /\ y \in Nat /\ x \div 2 \in Words /\ y \div 2 \in Words
  BY AndStep DEF Words
<1>2. half \in Nat /\ half <= x \div 2
  BY <1>1, AndType
<1>3. x % 2 \in 0 .. 1 /\ y % 2 \in 0 .. 1
  BY <1>1, Halves
<1>4. CASE x = 0
  <2>1. x \div 2 = 0 /\ x % 2 # 1 /\ And[x][y] = 0
    BY <1>1, <1>4, AndStep
  <2> QED BY <1>1, <1>2, <2>1
<1>5. CASE x # 0
  <2>1. And[x][y] = 2 * half + (x % 2) * (y % 2)
    BY <1>5, AndStep
  <2>2. \A c, d \in 0 .. 1 : c * d = IF c = 1 /\ d = 1 THEN 1 ELSE 0
    OBVIOUS
  <2>3. (x % 2) * (y % 2) = IF x % 2 = 1 /\ y % 2 = 1 THEN 1 ELSE 0
    BY <1>3, <2>2
  <2> HIDE DEF half
  <2>4. And[x][y] = IF x % 2 = 1 /\ y % 2 = 1 THEN 2 * half + 1 ELSE 2 * half
    BY <1>2, <2>1, <2>3
  <2> QED BY <1>1, <1>2, <2>4 DEF half
<1> QED BY <1>4, <1>5

(***************************************************************************)
(* The and of a word with itself is that word, and masking twice is        *)
(* masking once.                                                           *)
(***************************************************************************)
LEMMA AndSelf ==
    ASSUME Modulus \in Nat, NEW x \in Words
    PROVE  And[x][x] = x
<1> DEFINE G == {z \in Words : And[z][z] = z}
<1>1. 0 \in G
  BY AndStep DEF Words
<1>2. ASSUME NEW z \in 1 .. Modulus, z \div 2 \in G
      PROVE  z \in G
  <2>1. z \in Words /\ z \in Nat
    BY DEF Words
  <2>2. And[z][z] = IF z % 2 = 1 THEN 2 * (z \div 2) + 1 ELSE 2 * (z \div 2)
    BY <1>2, <2>1, AndHalves
  <2>3. And[z][z] = z
    BY <2>1, <2>2, Halves
  <2> QED BY <2>1, <2>3
<1> HIDE DEF G
<1>3. \A z \in 0 .. Modulus : z \in G
  BY <1>1, <1>2, HalvingInduction
<1> QED BY <1>3 DEF Words, G

LEMMA AndAgain ==
    ASSUME Modulus \in Nat, NEW x \in Words, NEW y \in Words
    PROVE  And[And[x][y]][y] = And[x][y]
<1> DEFINE Good(z, w) == And[And[z][w]][w] = And[z][w]
           G          == {z \in Words : \A w \in Words : Good(z, w)}
<1> HIDE DEF Good
<1>1. 0 \in G
  <2>1. ASSUME NEW w \in Words PROVE Good(0, w)
    BY AndStep DEF Words, Good
  <2> QED BY <2>1 DEF Words
<1>2. ASSUME NEW z \in 1 .. Modulus, z \div 2 \in G
      PROVE  z \in G
  <2>1. z \in Words /\ z \in Nat
    BY DEF Words
  <2> SUFFICES ASSUME NEW w \in Words PROVE Good(z, w)
    BY <2>1
  <2> DEFINE i    == w \div 2
             half == And[z \div 2][i]
             v    == And[z][w]
             d    == IF z % 2 = 1 /\ w % 2 = 1 THEN 1 ELSE 0
  <2>2. i \in Words /\ half \in Nat /\ v = 2 * half + d /\ d \in 0 .. 1
    BY <2>1, AndHalves
  <2>3. v \in Words
    BY <2>1, AndType DEF Words
  <2>4. v \div 2 = half /\ v % 2 = d
    BY <2>2, HalfUnique
  <2>5. And[v][w] = IF v % 2 = 1 /\ w % 2 = 1 THEN 2 * And[half][i] + 1 ELSE 2 * And[half][i]
    BY <2>3, <2>4, AndHalves
  <2>6. And[half][i] = half
    BY <1>2, <2>2 DEF Good
  <2>7. v % 2 = 1 /\ w % 2 = 1 <=> d = 1
    BY <2>4
  <2>8. And[v][w] = v
    BY <2>2, <2>5, <2>6, <2>7
  <2> QED BY <2>8 DEF Good
<1> HIDE DEF G
<1>3. \A z \in 0 .. Modulus : z \in G
  BY <1>1, <1>2, HalvingInduction
<1>4. Good(x, y)
  BY <1>3 DEF Words, G
<1> QED BY <1>4 DEF Good

(***************************************************************************)
(* is_power_of_2 accepts 1 and twice what it accepts, and nothing else.    *)
(***************************************************************************)
LEMMA PowerByHalves ==
    ASSUME Modulus \in Nat, NEW s \in Words
    PROVE  IsPowerOf2(s) <=> s = 1 \/ (s > 0 /\ s % 2 = 0 /\ IsPowerOf2(s \div 2))
<1> DEFINE h == s \div 2
<1>1. /\ s \in Nat /\ h \in Nat /\ s % 2 \in 0 .. 1 /\ s = 2 * h + (s % 2)
      /\ h \in Words
  BY Halves DEF Words
<1>2. CASE s = 0
  BY <1>2 DEF IsPowerOf2
<1>3. CASE s # 0 /\ s % 2 = 1
  <2>1. PICK p \in Words : p = s - 1 /\ p = 2 * h + 0
    BY <1>1, <1>3 DEF Words
  <2>2. p \div 2 = h /\ p % 2 = 0
    BY <1>1, <2>1, HalfUnique
  <2>3. And[s][p] = 2 * And[h][h]
    <3>1. And[s][p] = IF s % 2 = 1 /\ p % 2 = 1 THEN 2 * And[s \div 2][p \div 2] + 1
                                                ELSE 2 * And[s \div 2][p \div 2]
      BY AndHalves
    <3> QED BY <2>2, <3>1
  <2>4. And[h][h] = h
    BY <1>1, AndSelf
  <2> HIDE DEF h
  <2>5. And[s][s - 1] = 0 <=> s = 1
    BY <1>1, <1>3, <2>1, <2>3, <2>4
  <2> QED BY <1>1, <1>3, <2>5 DEF IsPowerOf2
<1>4. CASE s # 0 /\ s % 2 = 0
  <2>1. PICK p \in Words, q \in Words : p = s - 1 /\ q = h - 1 /\ p = 2 * q + 1 /\ h > 0
    BY <1>1, <1>4 DEF Words
  <2>2. p \div 2 = q /\ p % 2 = 1
    BY <2>1, HalfUnique DEF Words
  <2>3. And[s][p] = 2 * And[h][q] /\ And[h][q] \in Nat
    <3>1. /\ And[s \div 2][p \div 2] \in Nat
          /\ And[s][p] = IF s % 2 = 1 /\ p % 2 = 1 THEN 2 * And[s \div 2][p \div 2] + 1
                                                   ELSE 2 * And[s \div 2][p \div 2]
      BY AndHalves
    <3> QED BY <1>4, <2>2, <3>1
  <2> HIDE DEF h
  <2>4. And[s][s - 1] = 0 <=> And[h][h - 1] = 0
    BY <2>1, <2>3
  <2>5. s # 1
    BY <1>1, <1>4
  <2>6. IsPowerOf2(s) <=> IsPowerOf2(h)
    BY <1>1, <1>4, <2>1, <2>4 DEF IsPowerOf2
  <2> QED BY <1>1, <1>4, <2>5, <2>6 DEF h
<1> QED BY <1>1, <1>2, <1>3, <1>4

(***************************************************************************)
(* Masking with one less than a power of two is taking the remainder.      *)
(***************************************************************************)
LEMMA RemainderOfDouble ==
    ASSUME NEW k \in Nat, NEW t \in Nat \ {0}
    PROVE  k % (2 * t) = 2 * ((k \div 2) % t) + (k % 2)
<1>1. PICK h \in Nat, d \in 0 .. 1 : h = k \div 2 /\ d = k % 2 /\ k = 2 * h + d
  BY Halves
<1>2. PICK q \in Nat, r \in 0 .. (t - 1) : q = h \div t /\ r = h % t /\ h = t * q + r
  OBVIOUS
<1>3. k = (2 * t) * q + (2 * r + d) /\ 2 * r + d \in 0 .. (2 * t - 1) /\ 2 * t \in Nat \ {0}
  <2>1. k = 2 * (t * q + r) + d
    BY <1>1, <1>2
  <2>2. (2 * t) * q = 2 * (t * q) /\ t * q \in Nat
    OBVIOUS
  <2>3. k = (2 * t) * q + (2 * r + d)
    BY <2>1, <2>2
  <2>4. 2 * r + d \in 0 .. (2 * t - 1) /\ 2 * t \in Nat \ {0}
    OBVIOUS
  <2> QED BY <2>3, <2>4
<1>4. \A n \in Nat \ {0} : \A i \in Nat, e \in 0 .. (n - 1) : (n * i + e) % n = e
  OBVIOUS
<1>5. k % (2 * t) = 2 * r + d
  BY <1>3, <1>4
<1> QED BY <1>1, <1>2, <1>5

LEMMA MaskLemma ==
    ASSUME Modulus \in Nat, NEW s \in Words, IsPowerOf2(s), NEW k \in Words
    PROVE  MaskedSlot(k, s) = k % s
<1> DEFINE Good(t) == IsPowerOf2(t) => \A z \in Words : And[z][t - 1] = z % t
           G       == {t \in Words : Good(t)}
<1> HIDE DEF Good
<1>1. 0 \in G
  BY DEF Words, IsPowerOf2, Good
<1>2. ASSUME NEW t \in 1 .. Modulus, t \div 2 \in G
      PROVE  t \in G
  <2>1. t \in Words /\ t \in Nat
    BY DEF Words
  <2> SUFFICES ASSUME IsPowerOf2(t), NEW z \in Words
               PROVE  And[z][t - 1] = z % t
    BY <2>1 DEF Good
  <2>2. z \in Nat
    BY DEF Words
  <2>3. CASE t = 1
    <3>1. And[z][0] = 0 /\ z % 1 = 0
      BY <2>2, AndType DEF Words
    <3> QED BY <2>3, <3>1
  <2>4. CASE t # 1
    <3>1. PICK h \in Words : h = t \div 2 /\ t % 2 = 0 /\ IsPowerOf2(h)
      BY <2>1, <2>4, PowerByHalves, Halves DEF Words
    <3>2. PICK p \in Words, q \in Words : p = t - 1 /\ q = h - 1 /\ p = 2 * q + 1 /\ t = 2 * h /\ h > 0
      BY <2>1, <3>1, Halves DEF Words
    <3>3. p \div 2 = q /\ p % 2 = 1
      BY <3>2, HalfUnique DEF Words
    <3>4. /\ z \div 2 \in Words
          /\ And[z][p] = IF z % 2 = 1 /\ p % 2 = 1 THEN 2 * And[z \div 2][p \div 2] + 1
                                                   ELSE 2 * And[z \div 2][p \div 2]
      BY AndHalves
    <3>5. And[z \div 2][q] = (z \div 2) % h
      BY <1>2, <3>1, <3>2, <3>4 DEF Good
    <3>6. And[z][p] = 2 * ((z \div 2) % h) + (z % 2)
      <4>1. z % 2 \in 0 .. 1 /\ (z \div 2) % h \in Nat
        BY <2>2, <3>2, Halves DEF Words
      <4> QED BY <3>3, <3>4, <3>5, <4>1
    <3>7. z % (2 * h) = 2 * ((z \div 2) % h) + (z % 2)
      <4>1. h \in Nat \ {0}
        BY <3>2 DEF Words
      <4> QED BY <2>2, <4>1, RemainderOfDouble
    <3> QED BY <3>2, <3>6, <3>7
  <2> QED BY <2>3, <2>4
<1> HIDE DEF G
<1>3. \A t \in 0 .. Modulus : t \in G
  BY <1>1, <1>2, HalvingInduction
<1>4. Good(s)
  BY <1>3 DEF Words, G
<1> QED BY <1>4 DEF Good, MaskedSlot

(***************************************************************************)
(* A power of two divides every larger one.                                *)
(***************************************************************************)
LEMMA PowersDivide ==
    ASSUME Modulus \in Nat, NEW s \in Words, NEW t \in Words,
           IsPowerOf2(s), IsPowerOf2(t), s <= t
    PROVE  t % s = 0
<1> DEFINE Good(x) == IsPowerOf2(x) => \A y \in Words : IsPowerOf2(y) /\ x <= y => y % x = 0
           G       == {x \in Words : Good(x)}
<1> HIDE DEF Good
<1>1. 0 \in G
  BY DEF Words, IsPowerOf2, Good
<1>2. ASSUME NEW x \in 1 .. Modulus, x \div 2 \in G
      PROVE  x \in G
  <2>1. x \in Words /\ x \in Nat
    BY DEF Words
  <2> SUFFICES ASSUME IsPowerOf2(x), NEW y \in Words, IsPowerOf2(y), x <= y
               PROVE  y % x = 0
    BY <2>1 DEF Good
  <2>2. y \in Nat
    BY DEF Words
  <2>3. CASE x = 1
    BY <2>2, <2>3
  <2>4. CASE x # 1
    <3>1. PICK h \in Words : h = x \div 2 /\ x % 2 = 0 /\ IsPowerOf2(h) /\ x = 2 * h /\ h > 0
      BY <2>1, <2>4, PowerByHalves, Halves DEF Words
    <3>2. y # 1 /\ y > 0
      BY <2>1, <2>2, <2>4
    <3>3. PICK i \in Words : i = y \div 2 /\ y % 2 = 0 /\ IsPowerOf2(i) /\ y = 2 * i
      BY <2>2, <3>2, PowerByHalves, Halves DEF Words
    <3>4. i % h = 0
      BY <1>2, <3>1, <3>3 DEF Good, Words
    <3>5. y % (2 * h) = 2 * ((y \div 2) % h) + (y % 2)
      <4>1. h \in Nat \ {0}
        BY <3>1 DEF Words
      <4> QED BY <2>2, <4>1, RemainderOfDouble
    <3> QED BY <3>1, <3>3, <3>4, <3>5
  <2> QED BY <2>3, <2>4
<1> HIDE DEF G
<1>3. \A x \in 0 .. Modulus : x \in G
  BY <1>1, <1>2, HalvingInduction
<1>4. Good(s)
  BY <1>3 DEF Words, G
<1> QED BY <1>4 DEF Good

(***************************************************************************)
(* A mask through which every smaller number passes is one less than a     *)
(* power of two.                                                           *)
(***************************************************************************)
LEMMA PowerByMask ==
    ASSUME Modulus \in Nat, NEW s \in Words, s > 0, \A v \in 0 .. (s - 1) : And[v][s - 1] = v
    PROVE  IsPowerOf2(s)
<1> DEFINE Good(t) == t > 0 /\ (\A v \in 0 .. (t - 1) : And[v][t - 1] = v) => IsPowerOf2(t)
           G       == {t \in Words : Good(t)}
<1> HIDE DEF Good
<1>1. 0 \in G
  BY DEF Words, Good
<1>2. ASSUME NEW t \in 1 .. Modulus, t \div 2 \in G
      PROVE  t \in G
  <2>1. t \in Words /\ t \in Nat /\ t > 0
    BY DEF Words
  <2> SUFFICES ASSUME \A v \in 0 .. (t - 1) : And[v][t - 1] = v
               PROVE  IsPowerOf2(t)
    BY <2>1 DEF Good
  <2>2. CASE t = 1
    BY <2>1, <2>2, PowerByHalves
  <2>3. CASE t # 1 /\ t % 2 = 1
    <3>1. PICK p \in Words : p = t - 1 /\ p % 2 = 0 /\ p > 0 /\ 1 \in Words
      BY <2>1, <2>3 DEF Words
    <3>2. And[1][p] = 1
      BY <2>1, <3>1 DEF Words
    <3>3. /\ 1 \div 2 \in Words /\ p \div 2 \in Words
          /\ And[1][p] = IF 1 % 2 = 1 /\ p % 2 = 1 THEN 2 * And[1 \div 2][p \div 2] + 1
                                                   ELSE 2 * And[1 \div 2][p \div 2]
      BY <3>1, AndHalves
    <3>4. 1 \div 2 = 0
      OBVIOUS
    <3>5. And[1 \div 2][p \div 2] \in Nat /\ And[1 \div 2][p \div 2] <= 0
      BY <3>3, <3>4, AndType
    <3> QED BY <3>1, <3>2, <3>3, <3>5
  <2>4. CASE t % 2 = 0
    <3>1. PICK h \in Words : h = t \div 2 /\ t = 2 * h /\ h > 0
      BY <2>1, <2>4, Halves DEF Words
    <3>2. PICK p \in Words, q \in Words : p = t - 1 /\ q = h - 1 /\ p = 2 * q + 1
      BY <2>1, <3>1 DEF Words
    <3>3. p \div 2 = q /\ p % 2 = 1
      BY <3>2, HalfUnique DEF Words
    <3>4. ASSUME NEW v \in 0 .. (h - 1)
          PROVE  And[v][h - 1] = v
      <4>1. PICK w \in Words : w = 2 * v + 0 /\ w \in 0 .. (t - 1) /\ v \in Nat /\ v \in Words
        BY <2>1, <3>1 DEF Words
      <4>2. w \div 2 = v /\ w % 2 = 0
        BY <4>1, HalfUnique
      <4>3. /\ And[w \div 2][p \div 2] \in Nat
            /\ And[w][p] = IF w % 2 = 1 /\ p % 2 = 1 THEN 2 * And[w \div 2][p \div 2] + 1
                                                     ELSE 2 * And[w \div 2][p \div 2]
        BY AndHalves
      <4>4. And[w][p] = w
        BY <3>2, <4>1
      <4> QED BY <3>2, <3>3, <4>1, <4>2, <4>3, <4>4
    <3>5. IsPowerOf2(h)
      BY <1>2, <3>1, <3>4 DEF Good
    <3> QED BY <2>1, <2>4, <3>1, <3>5, PowerByHalves
  <2> QED BY <2>1, <2>2, <2>3, <2>4
<1> HIDE DEF G
<1>3. \A t \in 0 .. Modulus : t \in G
  BY <1>1, <1>2, HalvingInduction
<1>4. Good(s)
  BY <1>3 DEF Words, G
<1> QED BY <1>4 DEF Good

(***************************************************************************)
(* The slots of as many counters as the ring has slots are among those     *)
(* slots, and are all of them when their number is a power of two.         *)
(***************************************************************************)
MaskIInv == counter \in 0 .. (Modulus - 1)

LEMMA AdvanceType ==
    ASSUME Modulus \in Nat, MaskIInv, NEW d \in Nat
    PROVE  Advance(counter, d) \in 0 .. (Modulus - 1) /\ Advance(counter, d) \in Words
BY DEF MaskIInv, Advance, Words

LEMMA WindowInRange ==
    ASSUME Modulus \in Nat, MaskIInv, NEW s \in Words, s > 0
    PROVE  Window(s) \subseteq 0 .. (s - 1)
<1> SUFFICES ASSUME NEW d \in 0 .. (s - 1)
             PROVE  MaskedSlot(Advance(counter, d), s) \in 0 .. (s - 1)
  BY DEF Window
<1>1. Advance(counter, d) \in Words /\ s - 1 \in Words /\ s \in Nat
  BY AdvanceType DEF Words
<1>2. And[Advance(counter, d)][s - 1] \in Nat /\ And[Advance(counter, d)][s - 1] <= s - 1
  BY <1>1, AndType
<1> QED BY <1>1, <1>2 DEF MaskedSlot

LEMMA RemainderOfWrapped ==
    ASSUME NEW x \in Nat, NEW n \in Nat \ {0}, NEW M \in Nat \ {0}, M % n = 0
    PROVE  (x % M) % n = x % n
<1>1. PICK c \in Nat : M = n * c
  <2>1. M \div n \in Nat /\ M = n * (M \div n)
    OBVIOUS
  <2> QED BY <2>1
<1>2. PICK q \in Nat, y \in Nat : y = x % M /\ x = M * q + y
  <2>1. x \div M \in Nat /\ x % M \in Nat /\ x = M * (x \div M) + (x % M)
    OBVIOUS
  <2> QED BY <2>1
<1>3. PICK e \in Nat, f \in 0 .. (n - 1) : f = y % n /\ y = n * e + f
  <2>1. y \div n \in Nat /\ y % n \in 0 .. (n - 1) /\ y = n * (y \div n) + (y % n)
    OBVIOUS
  <2> QED BY <2>1
<1>4. x = n * (c * q + e) + f /\ c * q + e \in Nat
  <2>1. (n * c) * q = n * (c * q) /\ c * q \in Nat
    OBVIOUS
  <2>2. \A a, b \in Nat : n * a + n * b = n * (a + b)
    OBVIOUS
  <2>3. x = n * (c * q) + (n * e + f)
    BY <1>1, <1>2, <1>3, <2>1
  <2> QED BY <2>1, <2>2, <2>3
<1>5. \A i \in Nat, d \in 0 .. (n - 1) : (n * i + d) % n = d
  OBVIOUS
<1>6. x % n = f
  BY <1>4, <1>5
<1> QED BY <1>2, <1>3, <1>6

LEMMA WindowOfPower ==
    ASSUME Modulus \in Nat, IsPowerOf2(Modulus), MaskIInv, NEW s \in Words, IsPowerOf2(s)
    PROVE  Window(s) = 0 .. (s - 1)
<1>1. s \in Nat \ {0} /\ Modulus \in Nat \ {0} /\ Modulus \in Words /\ s <= Modulus /\ counter \in Nat
  BY DEF Words, IsPowerOf2, MaskIInv
<1>2. Modulus % s = 0
  BY <1>1, PowersDivide
<1>3. ASSUME NEW r \in 0 .. (s - 1)
      PROVE  r \in Window(s)
  <2> DEFINE d == (r - counter) % s
  <2>1. d \in 0 .. (s - 1) /\ d \in Nat
    BY <1>1
  <2>2. (counter + d) % s = r
    <3>1. PICK j \in Int : r - counter = s * j + d
      <4>1. r - counter = s * ((r - counter) \div s) + ((r - counter) % s) /\ (r - counter) \div s \in Int
        BY <1>1
      <4> QED BY <4>1
    <3> HIDE DEF d
    <3>2. counter + d = s * (-j) + r /\ -j \in Int
      BY <1>1, <2>1, <3>1
    <3>3. \A n \in Nat \ {0} : \A i \in Int, e \in 0 .. (n - 1) : (n * i + e) % n = e
      OBVIOUS
    <3> QED BY <1>1, <3>2, <3>3
  <2> HIDE DEF d
  <2>3. MaskedSlot(Advance(counter, d), s) = Advance(counter, d) % s
    BY <2>1, AdvanceType, MaskLemma
  <2>4. Advance(counter, d) % s = (counter + d) % s
    <3>1. counter + d \in Nat
      BY <1>1, <2>1
    <3>2. ((counter + d) % Modulus) % s = (counter + d) % s
      BY <1>1, <1>2, <3>1, RemainderOfWrapped
    <3> QED BY <3>2 DEF Advance
  <2> QED BY <2>1, <2>2, <2>3, <2>4 DEF Window
<1>4. Window(s) \subseteq 0 .. (s - 1)
  BY <1>1, WindowInRange
<1> QED BY <1>3, <1>4

(***************************************************************************)
(* The requires clause is_power_of_2(BufferSize) gives the ring what       *)
(* RingIndex assumes of it: BufferSize divides the modulus of the          *)
(* counters, so that the slot of a wrapped counter is its remainder.       *)
(***************************************************************************)
THEOREM RequiresClauseSuffices ==
    ASSUME MaskAssumption, NEW ring \in 1 .. (Modulus - 1), IsPowerOf2(ring)
    PROVE  /\ Modulus % ring = 0
           /\ \A k \in 0 .. (Modulus - 1) : MaskedSlot(k, ring) = k % ring
<1>1. Modulus \in Nat /\ ring \in Words /\ Modulus \in Words /\ IsPowerOf2(Modulus) /\ ring <= Modulus
  BY DEF MaskAssumption, Words
<1>2. Modulus % ring = 0
  BY <1>1, PowersDivide
<1>3. \A k \in 0 .. (Modulus - 1) : k \in Words
  BY <1>1 DEF Words
<1> QED BY <1>1, <1>2, <1>3, MaskLemma

(***************************************************************************)
(* A counter stays below the modulus.                                      *)
(***************************************************************************)
LEMMA MaskInvariance == MaskAssumption => (MaskSpec => []MaskIInv)
<1> SUFFICES ASSUME MaskAssumption PROVE MaskSpec => []MaskIInv
  OBVIOUS
<1>1. Modulus \in Nat \ {0}
  BY DEF MaskAssumption, IsPowerOf2
<1>2. MaskInit => MaskIInv
  BY <1>1 DEF MaskInit, MaskIInv
<1>3. MaskIInv /\ [MaskNext]_counter => MaskIInv'
  BY <1>1 DEF MaskIInv, MaskNext, Advance
<1> QED BY <1>2, <1>3, PTL DEF MaskSpec

(***************************************************************************)
(* Masking is the remainder for every size the requires clause lets        *)
(* through, whatever the width of the counters.                            *)
(***************************************************************************)
THEOREM MaskingIsRemainder == MaskAssumption => (MaskSpec => []MaskIsRemainder)
<1> SUFFICES ASSUME MaskAssumption PROVE MaskSpec => []MaskIsRemainder
  OBVIOUS
<1>1. Modulus \in Nat /\ \A ring \in 1 .. MaxRing : ring \in Words
  BY DEF MaskAssumption, Words
<1>2. ASSUME MaskIInv PROVE MaskIsRemainder
  <2>1. counter \in Words
    BY <1>1, <1>2 DEF MaskIInv, Words
  <2> QED BY <1>1, <2>1, MaskLemma DEF MaskIsRemainder
<1> QED BY <1>2, MaskInvariance, PTL

(***************************************************************************)
(* Powers of two, and nothing else, give the messages that can be queued   *)
(* at once a slot each, wherever the counters stand.                       *)
(***************************************************************************)
THEOREM OnlyPowersWork == MaskAssumption => (MaskSpec => []PowersNeeded)
<1> SUFFICES ASSUME MaskAssumption PROVE MaskSpec => []PowersNeeded
  OBVIOUS
<1>1. Modulus \in Nat /\ IsPowerOf2(Modulus) /\ MaxRing \in Words
  BY DEF MaskAssumption
<1>2. ASSUME MaskIInv, NEW ring \in 1 .. MaxRing
      PROVE  IsPowerOf2(ring) <=> Cardinality(Window(ring)) = ring
  <2>1. ring \in Words /\ ring \in Nat /\ ring > 0 /\ ring - 1 \in Words
    BY <1>1 DEF Words
  <2>2. IsFiniteSet(0 .. (ring - 1)) /\ Cardinality(0 .. (ring - 1)) = ring
    BY <2>1, FS_Interval
  <2>3. ASSUME IsPowerOf2(ring) PROVE Cardinality(Window(ring)) = ring
    BY <1>1, <1>2, <2>1, <2>2, <2>3, WindowOfPower
  <2>4. ASSUME Cardinality(Window(ring)) = ring PROVE IsPowerOf2(ring)
    <3>1. Window(ring) = 0 .. (ring - 1)
      BY <1>1, <1>2, <2>1, <2>2, <2>4, WindowInRange, FS_Subset
    <3>2. ASSUME NEW v \in 0 .. (ring - 1) PROVE And[v][ring - 1] = v
      <4>1. PICK d \in 0 .. (ring - 1) : v = MaskedSlot(Advance(counter, d), ring)
        BY <3>1 DEF Window
      <4>2. Advance(counter, d) \in Words
        BY <1>1, <1>2, AdvanceType
      <4> QED BY <1>1, <2>1, <4>1, <4>2, AndAgain DEF MaskedSlot
    <3> QED BY <1>1, <2>1, <3>2, PowerByMask
  <2> QED BY <2>3, <2>4
<1>3. MaskIInv => PowersNeeded
  BY <1>2 DEF PowersNeeded
<1> QED BY <1>3, MaskInvariance, PTL
=============================================================================
