-------------------------- MODULE BufferPoolProofs --------------------------
(***************************************************************************)
(* Proofs about module BufferPool, for every number of tasks, every series *)
(* of buckets and every announced length.                                  *)
(***************************************************************************)
EXTENDS BufferPool, FiniteSetTheorems, SequenceTheorems, WellFoundedInduction, TLAPS

\* Every set of lengths has a smallest one.
LEMMA LeastExists ==
  ASSUME NEW T \in SUBSET Nat, T # {}
  PROVE  \E x \in T : \A y \in T : x <= y
<1> DEFINE R == {p \in Nat \X Nat : p[1] < p[2]}
<1>1. IsWellFoundedOn(R, Nat)
  BY NatLessThanWellFounded DEF OpToRel
<1>2. PICK x \in T : \A y \in T : ~(<<y, x>> \in R)
  <2> HIDE DEF R
  <2> QED
    BY <1>1, WFMin
<1>3. ASSUME NEW y \in T PROVE x <= y
  <2>1. x \in Nat /\ y \in Nat
    OBVIOUS
  <2>2. y < x => <<y, x>> \in R
    BY <2>1
  <2> HIDE DEF R
  <2> QED
    BY <1>2, <2>1, <2>2
<1> QED
  BY <1>3

\* find takes the smallest bucket that fits.
LEMMA MinIsLeast ==
  ASSUME NEW T \in SUBSET Nat, T # {}
  PROVE  Min(T) \in T /\ \A y \in T : Min(T) <= y
BY LeastExists DEF Min

\* A bounded set of lengths has a largest one.
LEMMA MaxIsGreatest ==
  ASSUME NEW T \in SUBSET Nat, T # {}, NEW n \in Nat, \A x \in T : x <= n
  PROVE  Max(T) \in T /\ \A y \in T : Max(T) >= y
<1> DEFINE D == {n - x : x \in T}
<1>1. D \in SUBSET Nat /\ D # {}
  <2>1. ASSUME NEW x \in T PROVE n - x \in Nat
    BY <2>1
  <2> QED
    BY <2>1
<1>2. PICK d \in D : \A y \in D : d <= y
  <2> HIDE DEF D
  <2> QED
    BY <1>1, LeastExists
<1>3. PICK x \in T : d = n - x
  OBVIOUS
<1>4. \A y \in T : x >= y
  BY <1>2, <1>3
<1> QED
  BY <1>4 DEF Max

\* with_capacity gives a sequence of that many bytes.
LEMMA FreshBytes ==
  ASSUME NEW n \in Nat
  PROVE  /\ Fresh(n) \in Seq({Stale}) /\ Len(Fresh(n)) = n
         /\ n > 0 => Fresh(n) # <<>>
BY DEF Fresh

\* What is left of a stack after pop, and what pop returns.
LEMMA FrontKeeps ==
  ASSUME NEW S, NEW s \in Seq(S), s # <<>>
  PROVE  /\ Len(s) \in Nat \ {0} /\ Last(s) = s[Len(s)] /\ Last(s) \in S
         /\ Front(s) \in Seq(S) /\ Len(Front(s)) = Len(s) - 1
         /\ \A i \in 1 .. Len(s) - 1 : Front(s)[i] = s[i]
<1>1. Len(s) \in Nat \ {0}
  BY EmptySeq
<1>2. Last(s) = s[Len(s)] /\ Last(s) \in S
  BY <1>1, ElementOfSeq DEF Last
<1>3. PICK n \in Nat : n = Len(s) - 1
  BY <1>1
<1>4. \A i \in 1 .. n : s[i] \in S
  BY <1>1, <1>3, ElementOfSeq
<1>5. SubSeq(s, 1, n) = [i \in 1 .. n |-> s[i]]
  BY <1>1, <1>3, SubSeqRestrict DEF Restrict
<1>6. /\ SubSeq(s, 1, n) \in Seq(S) /\ Len(SubSeq(s, 1, n)) = n
      /\ \A i \in 1 .. n : SubSeq(s, 1, n)[i] = s[i]
  BY <1>4, <1>5
<1> QED
  BY <1>1, <1>2, <1>3, <1>6 DEF Front
-----------------------------------------------------------------------------
(* Counting.  The buckets and the rentals of the tasks are both families   *)
(* of stacks; the positions of a family that hold an element of W are      *)
(* counted, and push and pop change the count by one or not at all.        *)

Stacks(A, R) == [A -> Seq(R)]

PlacesOf(f, A, m, W) ==
  {p \in A \X (1 .. m) : p[2] \in DOMAIN f[p[1]] /\ f[p[1]][p[2]] \in W}

Count(f, A, m, W) == Cardinality(PlacesOf(f, A, m, W))

\* There are finitely many positions.
LEMMA CountType ==
  ASSUME NEW A, IsFiniteSet(A), NEW m \in Nat, NEW f, NEW W
  PROVE  IsFiniteSet(PlacesOf(f, A, m, W)) /\ Count(f, A, m, W) \in Nat
<1>0. IsFiniteSet(1 .. m)
  BY FS_Interval
<1>1. IsFiniteSet(A \X (1 .. m))
  BY <1>0, FS_Product
<1>2. PlacesOf(f, A, m, W) \subseteq A \X (1 .. m)
  BY DEF PlacesOf
<1>3. IsFiniteSet(PlacesOf(f, A, m, W))
  BY <1>1, <1>2, FS_Subset
<1> QED
  BY <1>3, FS_CardinalityType DEF Count

\* Stacks that agree on where elements of W are have the same count.
LEMMA CountSame ==
  ASSUME NEW A, NEW R, NEW m \in Nat, NEW W, NEW f \in Stacks(A, R), NEW g \in Stacks(A, R),
         \A a \in A : /\ Len(g[a]) = Len(f[a])
                      /\ \A i \in 1 .. Len(f[a]) : g[a][i] \in W <=> f[a][i] \in W
  PROVE  Count(g, A, m, W) = Count(f, A, m, W)
<1>1. \A a \in A : DOMAIN f[a] = 1 .. Len(f[a]) /\ DOMAIN g[a] = 1 .. Len(f[a])
  BY LenProperties DEF Stacks
<1>2. PlacesOf(g, A, m, W) = PlacesOf(f, A, m, W)
  BY <1>1 DEF PlacesOf
<1> QED
  BY <1>2 DEF Count

\* g is f with x on top of the stack of a.
Pushed(f, g, A, a, x) ==
  /\ Len(g[a]) = Len(f[a]) + 1 /\ g[a][Len(f[a]) + 1] = x
  /\ \A i \in 1 .. Len(f[a]) : g[a][i] = f[a][i]
  /\ \A c \in A : c # a => g[c] = f[c]

\* Vec::push, and what a task rents.
LEMMA PushIs ==
  ASSUME NEW A, NEW R, NEW f \in Stacks(A, R), NEW a \in A, NEW x \in R,
         NEW g, g = [f EXCEPT ![a] = Append(f[a], x)]
  PROVE  g \in Stacks(A, R) /\ Pushed(f, g, A, a, x)
BY DEF Pushed, Stacks

\* Vec::pop, and what a task gives back.
LEMMA PopIs ==
  ASSUME NEW A, NEW R, NEW f \in Stacks(A, R), NEW a \in A, f[a] # <<>>,
         NEW g, g = [f EXCEPT ![a] = Front(f[a])]
  PROVE  g \in Stacks(A, R) /\ Pushed(g, f, A, a, Last(f[a])) /\ Last(f[a]) \in R
<1>1. /\ Front(f[a]) \in Seq(R) /\ Last(f[a]) \in R /\ Len(Front(f[a])) = Len(f[a]) - 1
      /\ Len(f[a]) \in Nat \ {0} /\ Last(f[a]) = f[a][Len(f[a])]
      /\ \A i \in 1 .. Len(f[a]) - 1 : Front(f[a])[i] = f[a][i]
  BY FrontKeeps DEF Stacks
<1>2. g \in Stacks(A, R) /\ g[a] = Front(f[a]) /\ \A c \in A : c # a => g[c] = f[c]
  BY <1>1 DEF Stacks
<1> QED
  BY <1>1, <1>2 DEF Pushed

\* An element of W on top counts.
LEMMA CountPush ==
  ASSUME NEW A, IsFiniteSet(A), NEW R, NEW m \in Nat, NEW W,
         NEW f \in Stacks(A, R), NEW g \in Stacks(A, R),
         NEW a \in A, NEW x, Pushed(f, g, A, a, x), Len(f[a]) < m
  PROVE  Count(g, A, m, W) = Count(f, A, m, W) + (IF x \in W THEN 1 ELSE 0)
<1> DEFINE q == <<a, Len(f[a]) + 1>>
<1>1. /\ \A c \in A : DOMAIN f[c] = 1 .. Len(f[c]) /\ Len(f[c]) \in Nat
      /\ \A c \in A : DOMAIN g[c] = 1 .. Len(g[c])
  BY LenProperties DEF Stacks
<1>2. q \in A \X (1 .. m) /\ q \notin PlacesOf(f, A, m, W)
  BY <1>1 DEF PlacesOf
<1>3. ASSUME NEW c \in A, NEW i \in 1 .. m, <<c, i>> # q
      PROVE  <<c, i>> \in PlacesOf(g, A, m, W) <=> <<c, i>> \in PlacesOf(f, A, m, W)
  <2>1. c = a => i # Len(f[a]) + 1
    BY <1>3
  <2>2. i \in DOMAIN g[c] /\ g[c][i] \in W <=> i \in DOMAIN f[c] /\ f[c][i] \in W
    BY <1>1, <2>1 DEF Pushed
  <2> QED
    BY <2>2 DEF PlacesOf
<1>4. q \in PlacesOf(g, A, m, W) <=> x \in W
  <2>1. Len(f[a]) + 1 \in DOMAIN g[a] /\ g[a][Len(f[a]) + 1] = x
    BY <1>1 DEF Pushed
  <2> QED
    BY <1>2, <2>1 DEF PlacesOf
<1>5. \A p : p \in PlacesOf(f, A, m, W) \/ p \in PlacesOf(g, A, m, W)
               => \E c \in A, i \in 1 .. m : p = <<c, i>>
  BY DEF PlacesOf
<1> HIDE DEF q
<1>6. ASSUME NEW p, p # q
      PROVE  p \in PlacesOf(g, A, m, W) <=> p \in PlacesOf(f, A, m, W)
  <2>1. CASE \E c \in A, i \in 1 .. m : p = <<c, i>>
    <3>1. PICK c \in A, i \in 1 .. m : p = <<c, i>>
      BY <2>1
    <3>2. <<c, i>> # q
      BY <1>6, <3>1
    <3>3. <<c, i>> \in PlacesOf(g, A, m, W) <=> <<c, i>> \in PlacesOf(f, A, m, W)
      BY <1>3, <3>2
    <3> QED
      BY <3>1, <3>3
  <2> QED
    BY <1>5, <2>1
<1>7. CASE x \in W
  <2>1. PlacesOf(g, A, m, W) = PlacesOf(f, A, m, W) \cup {q}
    <3>1. ASSUME NEW p
          PROVE  p \in PlacesOf(g, A, m, W) <=> p \in PlacesOf(f, A, m, W) \/ p = q
      BY <1>6, <1>4, <1>7
    <3> QED
      BY <3>1
  <2> QED
    BY <1>2, <1>7, <2>1, CountType, FS_AddElement DEF Count
<1>8. CASE x \notin W
  <2>1. PlacesOf(g, A, m, W) = PlacesOf(f, A, m, W)
    <3>1. ASSUME NEW p
          PROVE  p \in PlacesOf(g, A, m, W) <=> p \in PlacesOf(f, A, m, W)
      BY <1>6, <1>2, <1>4, <1>8
    <3> QED
      BY <3>1
  <2>2. Count(g, A, m, W) = Count(f, A, m, W) /\ Count(f, A, m, W) \in Nat
    BY <2>1, CountType DEF Count
  <2> QED
    BY <1>8, <2>2
<1> QED
  BY <1>7, <1>8

\* A position that holds an element of W counts, and two count twice.
LEMMA CountAtLeast ==
  ASSUME NEW A, IsFiniteSet(A), NEW m \in Nat, NEW f, NEW W, NEW p \in PlacesOf(f, A, m, W)
  PROVE  /\ Count(f, A, m, W) >= 1
         /\ \A q \in PlacesOf(f, A, m, W) : q # p => Count(f, A, m, W) >= 2
<1> DEFINE P == PlacesOf(f, A, m, W)
<1>1. IsFiniteSet(P) /\ Cardinality(P) \in Nat
  BY CountType DEF Count
<1>2. Cardinality(P) # 0
  BY <1>1, FS_EmptySet
<1>3. ASSUME NEW q \in P, q # p PROVE Cardinality(P) # 1
  BY <1>1, <1>3, FS_Singleton
<1> QED
  BY <1>1, <1>2, <1>3 DEF Count
-----------------------------------------------------------------------------
(* The constants, and the inductive invariant. *)

\* The bounds are numbers.
LEMMA Numbers ==
  /\ MinLen \in Nat /\ MaxLen \in Nat /\ PreAlloc \in Nat /\ MaxCeiling \in Nat
  /\ MaxStartup \in Nat /\ MaxDepth \in Nat /\ MaxBufs \in Nat
BY PoolConstants

\* Bucket sizes are positive and there are finitely many of them.
LEMMA Sizes ==
  /\ IsFiniteSet(Buckets) /\ \A size \in Buckets : size \in Nat \ {0} /\ size <= MaxLen
  /\ MaxCapacity \in Nat /\ (Buckets # {} => MaxCapacity \in Buckets)
<1>1. \A size \in Buckets : size \in Nat \ {0} /\ size <= MaxLen
  BY Numbers, PoolConstants DEF Buckets
<1>2. IsFiniteSet(Buckets)
  <2>1. IsFiniteSet(MinLen .. MaxLen) /\ Buckets \subseteq MinLen .. MaxLen
    BY Numbers, FS_Interval DEF Buckets
  <2> QED
    BY <2>1, FS_Subset
<1>3. MaxCapacity \in Buckets \cup {0} /\ \A y \in Buckets \cup {0} : MaxCapacity >= y
  <2>1. Buckets \cup {0} \in SUBSET Nat /\ \A x \in Buckets \cup {0} : x <= MaxLen
    BY <1>1, Numbers
  <2> QED
    BY <2>1, Numbers, MaxIsGreatest DEF MaxCapacity
<1> QED
  BY <1>1, <1>2, <1>3

Rentals == [buf : Bufs, size : Buckets, len : Nat, want : Nat, got : Nat]
Just(b) == {b}
RentalsOf(b) == {r \in Rentals : r.buf = b}
RentalsIn(size) == {r \in Rentals : r.size = size}

PoolType ==
  /\ stock \in Stacks(Buckets, Bufs)
  /\ ceiling \in [Buckets -> PreAlloc .. MaxCeiling]
  /\ memory \in [Bufs -> Seq(Tasks \cup {Stale})]
  /\ held \in Stacks(Tasks, Rentals)
  /\ status \in [Tasks -> {"running", "ending", "panicked"}]
  /\ \A t \in Tasks : Len(held[t]) <= MaxDepth

\* An allocation is in one place, other numbers are in none.
PlacesCounted ==
  \A b \in Bufs :
    Count(stock, Buckets, MaxCeiling, Just(b)) + Count(held, Tasks, MaxDepth, RentalsOf(b))
      = IF b \in Allocated THEN 1 ELSE 0

\* What a bucket retains has the bucket's size.
StockInBounds ==
  \A size \in Buckets : \A i \in 1 .. Len(stock[size]) : Len(memory[stock[size][i]]) = size

\* A rental exposes what was asked for, and its bytes so far are its task's.
InBounds(m, t, r) ==
  /\ r.len = r.want /\ r.got <= r.want /\ r.want <= r.size
  /\ Len(m[r.buf]) = r.size
  /\ \A k \in 1 .. r.got : m[r.buf][k] = t

RentalsInBounds ==
  \A t \in Tasks : \A i \in 1 .. Len(held[t]) : InBounds(memory, t, held[t][i])

\* The count of a bucket's buffers, kept and out, does not fall below PreAlloc.
BucketsKept ==
  \A size \in Buckets :
    /\ Len(stock[size]) <= ceiling[size]
    /\ Len(stock[size]) + Count(held, Tasks, MaxDepth, RentalsIn(size)) >= PreAlloc

PoolInv ==
  PoolType /\ PlacesCounted /\ StockInBounds /\ RentalsInBounds /\ BucketsKept /\ NoPanic

\* A position of a bucket counts for its buffer.
LEMMA StockPlace ==
  ASSUME PoolInv, NEW size \in Buckets, NEW i \in 1 .. Len(stock[size])
  PROVE  /\ stock[size][i] \in Bufs
         /\ <<size, i>> \in PlacesOf(stock, Buckets, MaxCeiling, Just(stock[size][i]))
<1>1. stock[size] \in Seq(Bufs) /\ DOMAIN stock[size] = 1 .. Len(stock[size])
      /\ Len(stock[size]) \in Nat
  BY LenProperties DEF PoolInv, PoolType, Stacks
<1>2. Len(stock[size]) <= ceiling[size] /\ ceiling[size] \in Nat /\ ceiling[size] <= MaxCeiling
  BY Numbers DEF PoolInv, PoolType, Stacks, BucketsKept
<1>3. i \in 1 .. MaxCeiling
  BY <1>1, <1>2, Numbers
<1> QED
  BY <1>1, <1>3 DEF PlacesOf, Just

\* A position of a task's rentals counts for its buffer.
LEMMA HeldPlace ==
  ASSUME PoolInv, NEW t \in Tasks, NEW i \in 1 .. Len(held[t])
  PROVE  /\ held[t][i] \in Rentals /\ held[t][i].buf \in Bufs
         /\ <<t, i>> \in PlacesOf(held, Tasks, MaxDepth, RentalsOf(held[t][i].buf))
<1>1. held[t] \in Seq(Rentals) /\ DOMAIN held[t] = 1 .. Len(held[t])
      /\ Len(held[t]) \in Nat /\ Len(held[t]) <= MaxDepth
  BY LenProperties DEF PoolInv, PoolType, Stacks
<1>2. held[t][i] \in Rentals
  BY <1>1, ElementOfSeq
<1>3. i \in 1 .. MaxDepth
  BY <1>1, Numbers
<1>4. held[t][i].buf \in Bufs /\ held[t][i] \in RentalsOf(held[t][i].buf)
  BY <1>2 DEF Rentals, RentalsOf
<1> QED
  BY <1>1, <1>2, <1>3, <1>4 DEF PlacesOf

\* The two counts of a buffer.
LEMMA Counts ==
  ASSUME PoolInv, NEW b \in Bufs
  PROVE  \E x, y \in Nat :
           /\ x = Count(stock, Buckets, MaxCeiling, Just(b))
           /\ y = Count(held, Tasks, MaxDepth, RentalsOf(b))
           /\ (x + y = 1 /\ b \in Allocated) \/ (x + y = 0 /\ b \notin Allocated)
<1>1. Count(stock, Buckets, MaxCeiling, Just(b)) \in Nat
  BY CountType, Numbers, Sizes
<1>2. Count(held, Tasks, MaxDepth, RentalsOf(b)) \in Nat
  BY CountType, Numbers, PoolConstants
<1>3. Count(stock, Buckets, MaxCeiling, Just(b)) + Count(held, Tasks, MaxDepth, RentalsOf(b))
        = IF b \in Allocated THEN 1 ELSE 0
  BY DEF PoolInv, PlacesCounted
<1>4. PICK x \in Nat : x = Count(stock, Buckets, MaxCeiling, Just(b))
  BY <1>1
<1>5. PICK y \in Nat : y = Count(held, Tasks, MaxDepth, RentalsOf(b))
  BY <1>2
<1>6. (x + y = 1 /\ b \in Allocated) \/ (x + y = 0 /\ b \notin Allocated)
  BY <1>3, <1>4, <1>5
<1> QED
  BY <1>4, <1>5, <1>6

\* A retained buffer is in its bucket and nowhere else.
LEMMA StockOwner ==
  ASSUME PoolInv, NEW size \in Buckets, NEW i \in 1 .. Len(stock[size])
  PROVE  /\ stock[size][i] \in Allocated
         /\ \A s \in Buckets : \A j \in 1 .. Len(stock[s]) :
              stock[s][j] = stock[size][i] => s = size /\ j = i
         /\ \A t \in Tasks : \A j \in 1 .. Len(held[t]) : held[t][j].buf # stock[size][i]
<1>1. PICK b \in Bufs : b = stock[size][i]
  BY StockPlace
<1>2. <<size, i>> \in PlacesOf(stock, Buckets, MaxCeiling, Just(b))
  BY <1>1, StockPlace
<1>3. Count(stock, Buckets, MaxCeiling, Just(b)) >= 1
  BY <1>2, CountAtLeast, Numbers, Sizes
<1>4. /\ b \in Allocated /\ Count(stock, Buckets, MaxCeiling, Just(b)) = 1
      /\ Count(held, Tasks, MaxDepth, RentalsOf(b)) = 0
  BY <1>3, Counts
<1>5. ASSUME NEW s \in Buckets, NEW j \in 1 .. Len(stock[s]), stock[s][j] = b
      PROVE  s = size /\ j = i
  <2>1. <<s, j>> \in PlacesOf(stock, Buckets, MaxCeiling, Just(b))
    BY <1>5, StockPlace
  <2>2. <<s, j>> = <<size, i>>
    BY <1>2, <1>4, <2>1, CountAtLeast, Numbers, Sizes
  <2> QED
    BY <2>2
<1>6. ASSUME NEW t \in Tasks, NEW j \in 1 .. Len(held[t]), held[t][j].buf = b PROVE FALSE
  <2>1. <<t, j>> \in PlacesOf(held, Tasks, MaxDepth, RentalsOf(b))
    BY <1>6, HeldPlace
  <2> QED
    BY <1>4, <2>1, CountAtLeast, Numbers, PoolConstants
<1> QED
  BY <1>1, <1>4, <1>5, <1>6

\* A rented buffer is with its renter and nowhere else.
LEMMA HeldOwner ==
  ASSUME PoolInv, NEW t \in Tasks, NEW i \in 1 .. Len(held[t])
  PROVE  /\ held[t][i].buf \in Allocated
         /\ \A s \in Buckets : \A j \in 1 .. Len(stock[s]) : stock[s][j] # held[t][i].buf
         /\ \A u \in Tasks : \A j \in 1 .. Len(held[u]) :
              held[u][j].buf = held[t][i].buf => u = t /\ j = i
<1>1. PICK b \in Bufs : b = held[t][i].buf
  BY HeldPlace
<1>2. <<t, i>> \in PlacesOf(held, Tasks, MaxDepth, RentalsOf(b))
  BY <1>1, HeldPlace
<1>3. Count(held, Tasks, MaxDepth, RentalsOf(b)) >= 1
  BY <1>2, CountAtLeast, Numbers, PoolConstants
<1>4. b \in Allocated /\ Count(held, Tasks, MaxDepth, RentalsOf(b)) = 1
  <2>1. PICK x, y \in Nat :
          /\ x = Count(stock, Buckets, MaxCeiling, Just(b))
          /\ y = Count(held, Tasks, MaxDepth, RentalsOf(b))
          /\ (x + y = 1 /\ b \in Allocated) \/ (x + y = 0 /\ b \notin Allocated)
    BY Counts
  <2> QED
    BY <1>3, <2>1
<1>5. ASSUME NEW u \in Tasks, NEW j \in 1 .. Len(held[u]), held[u][j].buf = b
      PROVE  u = t /\ j = i
  <2>1. <<u, j>> \in PlacesOf(held, Tasks, MaxDepth, RentalsOf(b))
    BY <1>5, HeldPlace
  <2>2. <<u, j>> = <<t, i>>
    BY <1>2, <1>4, <2>1, CountAtLeast, Numbers, PoolConstants
  <2> QED
    BY <2>2
<1> QED
  BY <1>1, <1>4, <1>5, StockOwner
-----------------------------------------------------------------------------
(* The steps. *)

\* A rental more or less changes the counts of its buffer and of its size.
LEMMA HeldCounts ==
  ASSUME NEW f \in Stacks(Tasks, Rentals), NEW g \in Stacks(Tasks, Rentals),
         NEW t \in Tasks, NEW r \in Rentals, Pushed(f, g, Tasks, t, r), Len(f[t]) < MaxDepth
  PROVE  /\ \A b \in Bufs : Count(g, Tasks, MaxDepth, RentalsOf(b))
              = Count(f, Tasks, MaxDepth, RentalsOf(b)) + (IF b = r.buf THEN 1 ELSE 0)
         /\ \A s \in Buckets : Count(g, Tasks, MaxDepth, RentalsIn(s))
              = Count(f, Tasks, MaxDepth, RentalsIn(s)) + (IF s = r.size THEN 1 ELSE 0)
<1>1. ASSUME NEW W
      PROVE  Count(g, Tasks, MaxDepth, W)
               = Count(f, Tasks, MaxDepth, W) + (IF r \in W THEN 1 ELSE 0)
  <2>1. IsFiniteSet(Tasks) /\ MaxDepth \in Nat
    BY Numbers, PoolConstants
  <2> QED
    BY <2>1, CountPush
<1>2. \A b \in Bufs : r \in RentalsOf(b) <=> b = r.buf
  BY DEF RentalsOf
<1>3. \A s \in Buckets : r \in RentalsIn(s) <=> s = r.size
  BY DEF RentalsIn
<1>4. ASSUME NEW b \in Bufs
      PROVE  Count(g, Tasks, MaxDepth, RentalsOf(b))
              = Count(f, Tasks, MaxDepth, RentalsOf(b)) + (IF b = r.buf THEN 1 ELSE 0)
  BY <1>1, <1>2
<1>5. ASSUME NEW s \in Buckets
      PROVE  Count(g, Tasks, MaxDepth, RentalsIn(s))
              = Count(f, Tasks, MaxDepth, RentalsIn(s)) + (IF s = r.size THEN 1 ELSE 0)
  BY <1>1, <1>3
<1> QED
  BY <1>4, <1>5

\* A buffer more or less in a bucket changes the count of that buffer.
LEMMA StockCounts ==
  ASSUME NEW f \in Stacks(Buckets, Bufs), NEW g \in Stacks(Buckets, Bufs),
         NEW size \in Buckets, NEW x, Pushed(f, g, Buckets, size, x), Len(f[size]) < MaxCeiling
  PROVE  \A b \in Bufs : Count(g, Buckets, MaxCeiling, Just(b))
              = Count(f, Buckets, MaxCeiling, Just(b)) + (IF b = x THEN 1 ELSE 0)
<1>1. ASSUME NEW W
      PROVE  Count(g, Buckets, MaxCeiling, W)
               = Count(f, Buckets, MaxCeiling, W) + (IF x \in W THEN 1 ELSE 0)
  <2>1. IsFiniteSet(Buckets) /\ MaxCeiling \in Nat
    BY Numbers, Sizes
  <2> QED
    BY <2>1, CountPush
<1>2. \A b \in Bufs : x \in Just(b) <=> b = x
  BY DEF Just
<1> QED
  BY <1>1, <1>2

\* Counts are numbers.
LEMMA CountTypes ==
  ASSUME NEW f, NEW g, NEW W
  PROVE  Count(f, Buckets, MaxCeiling, W) \in Nat /\ Count(g, Tasks, MaxDepth, W) \in Nat
<1>1. Count(f, Buckets, MaxCeiling, W) \in Nat
  BY CountType, Numbers, Sizes
<1>2. Count(g, Tasks, MaxDepth, W) \in Nat
  BY CountType, Numbers, PoolConstants
<1> QED
  BY <1>1, <1>2

\* What get hands out, and what becomes of the rentals.
LEMMA NewRental ==
  ASSUME PoolInv, NEW t \in Tasks, NEW n \in Nat, NEW size \in Buckets, n <= size,
         NEW buf \in Bufs, Len(held[t]) < MaxDepth,
         held' = [held EXCEPT ![t] = Append(held[t], Rental(buf, size, n))]
  PROVE  /\ Rental(buf, size, n) \in Rentals
         /\ held' \in Stacks(Tasks, Rentals)
         /\ Pushed(held, held', Tasks, t, Rental(buf, size, n))
         /\ \A u \in Tasks : Len(held'[u]) <= MaxDepth
<1>1. Rental(buf, size, n) \in Rentals
  BY DEF Rental, Rentals, Exposed
<1>2. held \in Stacks(Tasks, Rentals)
  BY DEF PoolInv, PoolType, Stacks
<1>3. held' \in Stacks(Tasks, Rentals) /\ Pushed(held, held', Tasks, t, Rental(buf, size, n))
  <2>1. PICK r \in Rentals : r = Rental(buf, size, n)
    BY <1>1
  <2>2. PICK g : g = held' /\ g = [held EXCEPT ![t] = Append(held[t], r)]
    BY <2>1
  <2> QED
    BY <1>2, <2>1, <2>2, PushIs
<1>4. \A u \in Tasks : Len(held'[u]) <= MaxDepth
  <2>1. \A u \in Tasks : Len(held[u]) \in Nat /\ Len(held[u]) <= MaxDepth
    BY <1>2 DEF PoolInv, PoolType, Stacks
  <2> QED
    BY <1>3, <2>1, Numbers DEF Pushed
<1> QED
  BY <1>1, <1>3, <1>4

\* The rentals are in bounds when the new one is and the others' bytes are kept.
LEMMA NewRentalInBounds ==
  ASSUME PoolInv, NEW t \in Tasks, NEW r \in Rentals, Pushed(held, held', Tasks, t, r),
         held' \in Stacks(Tasks, Rentals),
         InBounds(memory', t, r),
         \A u \in Tasks : \A i \in 1 .. Len(held[u]) :
           memory'[held[u][i].buf] = memory[held[u][i].buf]
  PROVE  RentalsInBounds'
<1> SUFFICES ASSUME NEW u \in Tasks, NEW i \in 1 .. Len(held'[u])
             PROVE  InBounds(memory', u, held'[u][i])
  BY DEF RentalsInBounds
<1>1. Len(held[u]) \in Nat /\ Len(held[t]) \in Nat
  BY DEF PoolInv, PoolType, Stacks
<1>2. CASE u = t /\ i = Len(held[t]) + 1
  BY <1>2 DEF Pushed
<1>3. CASE ~(u = t /\ i = Len(held[t]) + 1)
  <2>1. i \in 1 .. Len(held[u]) /\ held'[u][i] = held[u][i]
    BY <1>1, <1>3 DEF Pushed
  <2>2. InBounds(memory, u, held[u][i]) /\ memory'[held[u][i].buf] = memory[held[u][i].buf]
    BY <2>1 DEF PoolInv, RentalsInBounds
  <2> QED
    BY <2>1, <2>2 DEF InBounds
<1> QED
  BY <1>2, <1>3

\* The types that the counting lemmas ask for.
LEMMA StacksTyped ==
  ASSUME PoolInv
  PROVE  /\ stock \in Stacks(Buckets, Bufs) /\ held \in Stacks(Tasks, Rentals)
         /\ \A size \in Buckets : /\ Len(stock[size]) \in Nat /\ ceiling[size] \in Nat
                                  /\ Len(stock[size]) <= ceiling[size]
                                  /\ ceiling[size] <= MaxCeiling /\ PreAlloc <= ceiling[size]
         /\ \A t \in Tasks : Len(held[t]) \in Nat
<1>1. stock \in Stacks(Buckets, Bufs) /\ held \in Stacks(Tasks, Rentals)
  BY DEF PoolInv, PoolType
<1>2. ASSUME NEW size \in Buckets
      PROVE  /\ Len(stock[size]) \in Nat /\ ceiling[size] \in Nat
             /\ Len(stock[size]) <= ceiling[size]
             /\ ceiling[size] <= MaxCeiling /\ PreAlloc <= ceiling[size]
  BY Numbers DEF PoolInv, PoolType, Stacks, BucketsKept
<1>3. \A t \in Tasks : Len(held[t]) \in Nat
  BY <1>1 DEF Stacks
<1> QED
  BY <1>1, <1>2, <1>3

\* The bucket get looks in.
LEMMA SmallestFits ==
  ASSUME NEW n \in Nat, Fitting(n) # {}
  PROVE  Min(Fitting(n)) \in Buckets /\ n <= Min(Fitting(n))
<1>1. Fitting(n) \in SUBSET Nat
  BY Sizes DEF Fitting
<1>2. Min(Fitting(n)) \in Fitting(n)
  BY <1>1, MinIsLeast
<1> QED
  BY <1>2, Sizes DEF Fitting

\* get takes a buffer out of the bucket.
LEMMA TakeKeeps ==
  ASSUME PoolInv, NEW t \in Tasks, NEW n \in Nat, Fitting(n) # {}, Len(held[t]) < MaxDepth,
         Get(t, n), stock[Min(Fitting(n))] # <<>>, UNCHANGED <<ceiling, status>>
  PROVE  PoolInv'
<1>1. PICK size \in Buckets : size = Min(Fitting(n)) /\ n <= size
  BY SmallestFits
<1>2. PICK buf : /\ buf = Last(stock[size])
                 /\ stock' = [stock EXCEPT ![size] = Front(stock[size])]
                 /\ memory' = memory
                 /\ held' = [held EXCEPT ![t] = Append(held[t], Rental(buf, size, n))]
  BY <1>1 DEF Get, Popped
<1>3. /\ stock' \in Stacks(Buckets, Bufs) /\ Pushed(stock', stock, Buckets, size, buf)
      /\ buf \in Bufs
  BY <1>1, <1>2, StacksTyped, PopIs
<1>4. \A s \in Buckets : Len(stock'[s]) \in Nat
  BY <1>3 DEF Stacks
<1>5. Len(stock[size]) = Len(stock'[size]) + 1 /\ buf = stock[size][Len(stock[size])]
  BY <1>3 DEF Pushed
<1> DEFINE r == Rental(buf, size, n)
<1>6. /\ r \in Rentals /\ held' \in Stacks(Tasks, Rentals) /\ Pushed(held, held', Tasks, t, r)
      /\ \A u \in Tasks : Len(held'[u]) <= MaxDepth
  BY <1>1, <1>2, <1>3, NewRental
<1>7. r.buf = buf /\ r.size = size /\ r.len = n /\ r.want = n /\ r.got = 0
  BY DEF Rental, Exposed
<1> HIDE DEF r
<1>8. PoolType'
  BY <1>2, <1>3, <1>6 DEF PoolInv, PoolType
<1>9. PlacesCounted'
  <2> SUFFICES ASSUME NEW b \in Bufs
               PROVE  Count(stock', Buckets, MaxCeiling, Just(b))
                        + Count(held', Tasks, MaxDepth, RentalsOf(b))
                        = IF b \in Allocated THEN 1 ELSE 0
    BY <1>2 DEF PlacesCounted, Allocated
  <2>1. Len(stock'[size]) < MaxCeiling
    BY <1>4, <1>5, StacksTyped, Numbers
  <2>2. Count(stock, Buckets, MaxCeiling, Just(b))
          = Count(stock', Buckets, MaxCeiling, Just(b)) + (IF b = buf THEN 1 ELSE 0)
    BY <1>3, <2>1, StacksTyped, StockCounts
  <2>3. Count(held', Tasks, MaxDepth, RentalsOf(b))
          = Count(held, Tasks, MaxDepth, RentalsOf(b)) + (IF b = buf THEN 1 ELSE 0)
    BY <1>6, <1>7, StacksTyped, HeldCounts
  <2>4. /\ Count(stock', Buckets, MaxCeiling, Just(b)) \in Nat
        /\ Count(held, Tasks, MaxDepth, RentalsOf(b)) \in Nat
    BY CountTypes
  <2>5. Count(stock, Buckets, MaxCeiling, Just(b)) + Count(held, Tasks, MaxDepth, RentalsOf(b))
          = IF b \in Allocated THEN 1 ELSE 0
    BY DEF PoolInv, PlacesCounted
  <2> QED
    BY <2>2, <2>3, <2>4, <2>5
<1>10. StockInBounds'
  <2> SUFFICES ASSUME NEW s \in Buckets, NEW i \in 1 .. Len(stock'[s])
               PROVE  Len(memory'[stock'[s][i]]) = s
    BY DEF StockInBounds
  <2>1. i \in 1 .. Len(stock[s]) /\ stock'[s][i] = stock[s][i]
    BY <1>3, <1>4, <1>5 DEF Pushed
  <2> QED
    BY <1>2, <2>1 DEF PoolInv, StockInBounds
<1>11. RentalsInBounds'
  <2>1. Len(memory[buf]) = size
    BY <1>4, <1>5 DEF PoolInv, StockInBounds
  <2>2. InBounds(memory', t, r)
    BY <1>1, <1>2, <1>7, <2>1, Sizes DEF InBounds
  <2> QED
    BY <1>2, <1>6, <2>2, NewRentalInBounds
<1>12. BucketsKept'
  <2> SUFFICES ASSUME NEW s \in Buckets
               PROVE  /\ Len(stock'[s]) <= ceiling[s]
                      /\ Len(stock'[s]) + Count(held', Tasks, MaxDepth, RentalsIn(s)) >= PreAlloc
    BY DEF BucketsKept
  <2>1. Count(held', Tasks, MaxDepth, RentalsIn(s))
          = Count(held, Tasks, MaxDepth, RentalsIn(s)) + (IF s = size THEN 1 ELSE 0)
    BY <1>6, <1>7, StacksTyped, HeldCounts
  <2>2. Count(held, Tasks, MaxDepth, RentalsIn(s)) \in Nat
    BY CountTypes
  <2>3. /\ Len(stock[s]) <= ceiling[s] /\ Len(stock[s]) \in Nat /\ Len(stock'[s]) \in Nat
        /\ ceiling[s] \in Nat
        /\ Len(stock[s]) + Count(held, Tasks, MaxDepth, RentalsIn(s)) >= PreAlloc
    BY <1>4, StacksTyped DEF PoolInv, BucketsKept
  <2>4. CASE s = size
    BY <1>5, <2>1, <2>2, <2>3, <2>4, Numbers
  <2>5. CASE s # size
    <3>1. stock'[s] = stock[s]
      BY <1>3, <2>5 DEF Pushed
    <3> QED
      BY <2>1, <2>2, <2>3, <2>5, <3>1, Numbers
  <2> QED
    BY <2>4, <2>5
<1>13. NoPanic'
  BY DEF PoolInv, NoPanic
<1> QED
  BY <1>8, <1>9, <1>10, <1>11, <1>12, <1>13 DEF PoolInv

\* The bucket is empty: get allocates.
LEMMA AllocKeeps ==
  ASSUME PoolInv, NEW t \in Tasks, NEW n \in Nat, Fitting(n) # {}, Len(held[t]) < MaxDepth,
         Get(t, n), stock[Min(Fitting(n))] = <<>>, UNCHANGED <<ceiling, status>>
  PROVE  PoolInv'
<1>1. PICK size \in Buckets : size = Min(Fitting(n)) /\ n <= size
  BY SmallestFits
<1>2. PICK buf \in Bufs : /\ buf \notin Allocated
                          /\ stock' = stock
                          /\ memory' = [memory EXCEPT ![buf] = Fresh(size)]
                          /\ held' = [held EXCEPT ![t] = Append(held[t], Rental(buf, size, n))]
  <2>1. Bufs \ Allocated \in SUBSET Nat /\ Bufs \ Allocated # {}
    BY <1>1, Numbers DEF Get, Bufs, Allocated
  <2>2. Min(Bufs \ Allocated) \in Bufs \ Allocated
    BY <2>1, MinIsLeast
  <2> QED
    BY <1>1, <2>2 DEF Get
<1>3. /\ Fresh(size) \in Seq(Tasks \cup {Stale}) /\ Len(Fresh(size)) = size /\ Fresh(size) # <<>>
  <2>1. size \in Nat /\ size > 0
    BY Sizes
  <2>2. Fresh(size) \in Seq({Stale}) /\ Len(Fresh(size)) = size /\ Fresh(size) # <<>>
    BY <2>1, FreshBytes
  <2> QED
    BY <2>2, SeqMonotonic
<1>4. /\ memory' \in [Bufs -> Seq(Tasks \cup {Stale})] /\ memory'[buf] = Fresh(size)
      /\ \A b \in Bufs : b # buf => memory'[b] = memory[b]
  BY <1>2, <1>3 DEF PoolInv, PoolType
<1>5. \A b \in Bufs : b \in Allocated' <=> b \in Allocated \/ b = buf
  BY <1>3, <1>4 DEF Allocated
<1> DEFINE r == Rental(buf, size, n)
<1>6. /\ r \in Rentals /\ held' \in Stacks(Tasks, Rentals) /\ Pushed(held, held', Tasks, t, r)
      /\ \A u \in Tasks : Len(held'[u]) <= MaxDepth
  BY <1>1, <1>2, NewRental
<1>7. r.buf = buf /\ r.size = size /\ r.len = n /\ r.want = n /\ r.got = 0
  BY DEF Rental, Exposed
<1> HIDE DEF r
<1>8. PoolType'
  BY <1>2, <1>4, <1>6 DEF PoolInv, PoolType
<1>9. PlacesCounted'
  <2> SUFFICES ASSUME NEW b \in Bufs
               PROVE  Count(stock, Buckets, MaxCeiling, Just(b))
                        + Count(held', Tasks, MaxDepth, RentalsOf(b))
                        = IF b \in Allocated \/ b = buf THEN 1 ELSE 0
    BY <1>2, <1>5 DEF PlacesCounted
  <2>1. Count(held', Tasks, MaxDepth, RentalsOf(b))
          = Count(held, Tasks, MaxDepth, RentalsOf(b)) + (IF b = buf THEN 1 ELSE 0)
    BY <1>6, <1>7, StacksTyped, HeldCounts
  <2>2. PICK x, y \in Nat :
          /\ x = Count(stock, Buckets, MaxCeiling, Just(b))
          /\ y = Count(held, Tasks, MaxDepth, RentalsOf(b))
          /\ (x + y = 1 /\ b \in Allocated) \/ (x + y = 0 /\ b \notin Allocated)
    BY Counts
  <2> QED
    BY <1>2, <2>1, <2>2
<1>10. StockInBounds'
  <2> SUFFICES ASSUME NEW s \in Buckets, NEW i \in 1 .. Len(stock[s])
               PROVE  Len(memory'[stock[s][i]]) = s
    BY <1>2 DEF StockInBounds
  <2>1. stock[s][i] \in Bufs /\ stock[s][i] # buf
    <3>1. stock[s][i] \in Bufs
      BY StockPlace
    <3>2. stock[s][i] \in Allocated
      BY StockOwner
    <3> QED
      BY <1>2, <3>1, <3>2
  <2> QED
    BY <1>4, <2>1 DEF PoolInv, StockInBounds
<1>11. RentalsInBounds'
  <2>1. InBounds(memory', t, r)
    BY <1>1, <1>3, <1>4, <1>7, Sizes DEF InBounds
  <2>2. ASSUME NEW u \in Tasks, NEW i \in 1 .. Len(held[u])
        PROVE  memory'[held[u][i].buf] = memory[held[u][i].buf]
    <3>1. held[u][i].buf \in Bufs /\ held[u][i].buf # buf
      <4>1. held[u][i].buf \in Bufs
        BY HeldPlace
      <4>2. held[u][i].buf \in Allocated
        BY HeldOwner
      <4> QED
        BY <1>2, <4>1, <4>2
    <3> QED
      BY <1>4, <3>1
  <2> QED
    BY <1>6, <2>1, <2>2, NewRentalInBounds
<1>12. BucketsKept'
  <2> SUFFICES ASSUME NEW s \in Buckets
               PROVE  /\ Len(stock[s]) <= ceiling[s]
                      /\ Len(stock[s]) + Count(held', Tasks, MaxDepth, RentalsIn(s)) >= PreAlloc
    BY <1>2 DEF BucketsKept
  <2>1. Count(held', Tasks, MaxDepth, RentalsIn(s))
          = Count(held, Tasks, MaxDepth, RentalsIn(s)) + (IF s = size THEN 1 ELSE 0)
    BY <1>6, <1>7, StacksTyped, HeldCounts
  <2>2. /\ Count(held, Tasks, MaxDepth, RentalsIn(s)) \in Nat /\ Len(stock[s]) \in Nat
        /\ Len(stock[s]) <= ceiling[s]
        /\ Len(stock[s]) + Count(held, Tasks, MaxDepth, RentalsIn(s)) >= PreAlloc
    BY CountTypes, StacksTyped DEF PoolInv, BucketsKept
  <2> QED
    BY <2>1, <2>2, Numbers
<1>13. NoPanic'
  BY DEF PoolInv, NoPanic
<1> QED
  BY <1>8, <1>9, <1>10, <1>11, <1>12, <1>13 DEF PoolInv

\* What is left of the rentals when the innermost is dropped, and what it was.
LEMMA DroppedRental ==
  ASSUME PoolInv, NEW t \in Tasks, held[t] # <<>>,
         held' = [held EXCEPT ![t] = Front(held[t])]
  PROVE  LET r == Last(held[t])
         IN /\ r \in Rentals /\ held' \in Stacks(Tasks, Rentals)
            /\ Pushed(held', held, Tasks, t, r)
            /\ \A u \in Tasks : Len(held'[u]) \in Nat /\ Len(held'[u]) <= MaxDepth
            /\ Len(held[t]) = Len(held'[t]) + 1 /\ Len(held'[t]) < MaxDepth
            /\ r = held[t][Len(held[t])] /\ InBounds(memory, t, r)
<1> DEFINE r == Last(held[t])
<1>1. r \in Rentals /\ held' \in Stacks(Tasks, Rentals) /\ Pushed(held', held, Tasks, t, r)
  BY StacksTyped, PopIs
<1> HIDE DEF r
<1>2. \A u \in Tasks : Len(held'[u]) \in Nat
  BY <1>1 DEF Stacks
<1>3. \A u \in Tasks : Len(held[u]) \in Nat /\ Len(held[u]) <= MaxDepth
  BY StacksTyped DEF PoolInv, PoolType
<1>4. Len(held[t]) = Len(held'[t]) + 1 /\ r = held[t][Len(held[t])]
  BY <1>1 DEF Pushed
<1>5. ASSUME NEW u \in Tasks PROVE Len(held'[u]) <= MaxDepth
  BY <1>1, <1>2, <1>3, <1>4, Numbers DEF Pushed
<1>6. InBounds(memory, t, r)
  BY <1>2, <1>4 DEF PoolInv, RentalsInBounds
<1>7. Len(held'[t]) < MaxDepth
  BY <1>2, <1>3, <1>4, Numbers
<1> QED
  BY <1>1, <1>2, <1>4, <1>5, <1>6, <1>7 DEF r

\* Dropping a buffer leaves the other rentals' bytes alone.
LEMMA OthersInBounds ==
  ASSUME PoolInv, NEW t \in Tasks, held[t] # <<>>,
         held' = [held EXCEPT ![t] = Front(held[t])],
         \A b \in Bufs : b # Last(held[t]).buf => memory'[b] = memory[b]
  PROVE  RentalsInBounds'
<1> SUFFICES ASSUME NEW u \in Tasks, NEW i \in 1 .. Len(held'[u])
             PROVE  InBounds(memory', u, held'[u][i])
  BY DEF RentalsInBounds
<1>1. PICK r : r = Last(held[t])
  OBVIOUS
<1>2. /\ Pushed(held', held, Tasks, t, r) /\ Len(held'[u]) \in Nat /\ Len(held'[t]) \in Nat
      /\ Len(held[t]) = Len(held'[t]) + 1 /\ r = held[t][Len(held[t])]
  BY <1>1, DroppedRental
<1>3. /\ i \in 1 .. Len(held[u]) /\ held'[u][i] = held[u][i]
      /\ ~(u = t /\ i = Len(held[t]))
  BY <1>2 DEF Pushed
<1>4. Len(held[t]) \in 1 .. Len(held[t])
  BY <1>2
<1>5. held[u][i].buf # r.buf
  BY <1>2, <1>3, <1>4, HeldOwner
<1>6. held[u][i].buf \in Bufs
  BY <1>3, HeldPlace
<1>7. memory'[held[u][i].buf] = memory[held[u][i].buf]
  BY <1>1, <1>5, <1>6
<1>8. InBounds(memory, u, held[u][i])
  BY <1>3 DEF PoolInv, RentalsInBounds
<1> QED
  BY <1>3, <1>7, <1>8 DEF InBounds

\* return_buffer retains the buffer.
LEMMA RetainKeeps ==
  ASSUME PoolInv, NEW t \in Tasks, held[t] # <<>>, HasRoom(Last(held[t]).size),
         Return(t), UNCHANGED status
  PROVE  PoolInv'
<1>1. PICK r : r = Last(held[t])
  OBVIOUS
<1>2. /\ stock' = [stock EXCEPT ![r.size] = Append(stock[r.size], r.buf)]
      /\ memory' = [memory EXCEPT ![r.buf] = Fresh(Len(memory[r.buf]))]
      /\ held' = [held EXCEPT ![t] = Front(held[t])]
      /\ ceiling' = ceiling /\ HasRoom(r.size)
  BY <1>1 DEF Return
<1>3. /\ r \in Rentals /\ held' \in Stacks(Tasks, Rentals) /\ Pushed(held', held, Tasks, t, r)
      /\ \A u \in Tasks : Len(held'[u]) \in Nat /\ Len(held'[u]) <= MaxDepth
      /\ Len(held'[t]) < MaxDepth /\ InBounds(memory, t, r)
      /\ Len(held[t]) = Len(held'[t]) + 1 /\ r = held[t][Len(held[t])]
  BY <1>1, <1>2, DroppedRental
<1>4. r.buf \in Bufs /\ r.size \in Buckets /\ Len(memory[r.buf]) = r.size
  BY <1>3 DEF Rentals, InBounds
<1>5. /\ stock' \in Stacks(Buckets, Bufs) /\ Pushed(stock, stock', Buckets, r.size, r.buf)
  BY <1>2, <1>4, StacksTyped, PushIs
<1>6. Len(stock[r.size]) < ceiling[r.size] /\ Len(stock[r.size]) < MaxCeiling
      /\ Len(stock'[r.size]) = Len(stock[r.size]) + 1
  BY <1>2, <1>4, <1>5, StacksTyped, Numbers DEF HasRoom, Pushed
<1>7. /\ Fresh(r.size) \in Seq(Tasks \cup {Stale}) /\ Len(Fresh(r.size)) = r.size
      /\ Fresh(r.size) # <<>>
  <2>1. r.size \in Nat /\ r.size > 0
    BY <1>4, Sizes
  <2>2. Fresh(r.size) \in Seq({Stale}) /\ Len(Fresh(r.size)) = r.size /\ Fresh(r.size) # <<>>
    BY <2>1, FreshBytes
  <2> QED
    BY <2>2, SeqMonotonic
<1>8. /\ memory' \in [Bufs -> Seq(Tasks \cup {Stale})] /\ memory'[r.buf] = Fresh(r.size)
      /\ \A b \in Bufs : b # r.buf => memory'[b] = memory[b]
  BY <1>2, <1>4, <1>7 DEF PoolInv, PoolType
<1>9. r.buf \in Allocated
  BY <1>3, HeldOwner
<1>10. Allocated' = Allocated
  BY <1>7, <1>8, <1>9 DEF Allocated
<1>11. PoolType'
  BY <1>2, <1>3, <1>5, <1>8 DEF PoolInv, PoolType
<1>12. PlacesCounted'
  <2> SUFFICES ASSUME NEW b \in Bufs
               PROVE  Count(stock', Buckets, MaxCeiling, Just(b))
                        + Count(held', Tasks, MaxDepth, RentalsOf(b))
                        = IF b \in Allocated THEN 1 ELSE 0
    BY <1>10 DEF PlacesCounted
  <2>1. Count(stock', Buckets, MaxCeiling, Just(b))
          = Count(stock, Buckets, MaxCeiling, Just(b)) + (IF b = r.buf THEN 1 ELSE 0)
    BY <1>4, <1>5, <1>6, StacksTyped, StockCounts
  <2>2. Count(held, Tasks, MaxDepth, RentalsOf(b))
          = Count(held', Tasks, MaxDepth, RentalsOf(b)) + (IF b = r.buf THEN 1 ELSE 0)
    BY <1>3, StacksTyped, HeldCounts
  <2>3. /\ Count(stock, Buckets, MaxCeiling, Just(b)) \in Nat
        /\ Count(held', Tasks, MaxDepth, RentalsOf(b)) \in Nat
    BY CountTypes
  <2>4. Count(stock, Buckets, MaxCeiling, Just(b)) + Count(held, Tasks, MaxDepth, RentalsOf(b))
          = IF b \in Allocated THEN 1 ELSE 0
    BY DEF PoolInv, PlacesCounted
  <2> QED
    BY <2>1, <2>2, <2>3, <2>4
<1>13. StockInBounds'
  <2> SUFFICES ASSUME NEW s \in Buckets, NEW i \in 1 .. Len(stock'[s])
               PROVE  Len(memory'[stock'[s][i]]) = s
    BY DEF StockInBounds
  <2>1. CASE s = r.size /\ i = Len(stock[r.size]) + 1
    BY <1>5, <1>7, <1>8, <2>1 DEF Pushed
  <2>2. CASE ~(s = r.size /\ i = Len(stock[r.size]) + 1)
    <3>1. i \in 1 .. Len(stock[s]) /\ stock'[s][i] = stock[s][i]
      BY <1>4, <1>5, <1>6, <2>2, StacksTyped DEF Pushed
    <3>2. stock[s][i] \in Bufs
      BY <3>1, StockPlace
    <3>3. Len(held[t]) \in 1 .. Len(held[t])
      BY <1>3
    <3>4. stock[s][i] # r.buf
      BY <1>3, <3>1, <3>3, HeldOwner
    <3> QED
      BY <1>8, <3>1, <3>2, <3>4 DEF PoolInv, StockInBounds
  <2> QED
    BY <2>1, <2>2
<1>14. RentalsInBounds'
  BY <1>1, <1>2, <1>8, OthersInBounds
<1>15. BucketsKept'
  <2> SUFFICES ASSUME NEW s \in Buckets
               PROVE  /\ Len(stock'[s]) <= ceiling[s]
                      /\ Len(stock'[s]) + Count(held', Tasks, MaxDepth, RentalsIn(s)) >= PreAlloc
    BY <1>2 DEF BucketsKept
  <2>1. Count(held, Tasks, MaxDepth, RentalsIn(s))
          = Count(held', Tasks, MaxDepth, RentalsIn(s)) + (IF s = r.size THEN 1 ELSE 0)
    BY <1>3, StacksTyped, HeldCounts
  <2>2. /\ Count(held', Tasks, MaxDepth, RentalsIn(s)) \in Nat /\ Len(stock[s]) \in Nat
        /\ ceiling[s] \in Nat /\ Len(stock[s]) <= ceiling[s]
        /\ Len(stock[s]) + Count(held, Tasks, MaxDepth, RentalsIn(s)) >= PreAlloc
    BY CountTypes, StacksTyped DEF PoolInv, BucketsKept
  <2>3. CASE s = r.size
    BY <1>6, <2>1, <2>2, <2>3, Numbers
  <2>4. CASE s # r.size
    <3>1. stock'[s] = stock[s]
      BY <1>5, <2>4 DEF Pushed
    <3> QED
      BY <2>1, <2>2, <2>4, <3>1, Numbers
  <2> QED
    BY <2>3, <2>4
<1>16. NoPanic'
  BY DEF PoolInv, NoPanic
<1> QED
  BY <1>11, <1>12, <1>13, <1>14, <1>15, <1>16 DEF PoolInv

\* The bucket is full: the buffer is freed.
LEMMA FreeKeeps ==
  ASSUME PoolInv, NEW t \in Tasks, held[t] # <<>>, ~HasRoom(Last(held[t]).size),
         Return(t), UNCHANGED status
  PROVE  PoolInv'
<1>1. PICK r : r = Last(held[t])
  OBVIOUS
<1>2. /\ stock' = stock
      /\ memory' = [memory EXCEPT ![r.buf] = <<>>]
      /\ held' = [held EXCEPT ![t] = Front(held[t])]
      /\ ceiling' = ceiling /\ ~HasRoom(r.size)
  BY <1>1 DEF Return
<1>3. /\ r \in Rentals /\ held' \in Stacks(Tasks, Rentals) /\ Pushed(held', held, Tasks, t, r)
      /\ \A u \in Tasks : Len(held'[u]) \in Nat /\ Len(held'[u]) <= MaxDepth
      /\ Len(held'[t]) < MaxDepth
      /\ Len(held[t]) = Len(held'[t]) + 1 /\ r = held[t][Len(held[t])]
  BY <1>1, <1>2, DroppedRental
<1>4. r.buf \in Bufs /\ r.size \in Buckets
  BY <1>3 DEF Rentals
<1>5. /\ memory' \in [Bufs -> Seq(Tasks \cup {Stale})] /\ memory'[r.buf] = <<>>
      /\ \A b \in Bufs : b # r.buf => memory'[b] = memory[b]
  BY <1>2, <1>4, EmptySeq DEF PoolInv, PoolType
<1>6. \A b \in Bufs : b \in Allocated' <=> b \in Allocated /\ b # r.buf
  BY <1>5 DEF Allocated
<1>7. PoolType'
  BY <1>2, <1>3, <1>5 DEF PoolInv, PoolType
<1>8. PlacesCounted'
  <2> SUFFICES ASSUME NEW b \in Bufs
               PROVE  Count(stock, Buckets, MaxCeiling, Just(b))
                        + Count(held', Tasks, MaxDepth, RentalsOf(b))
                        = IF b \in Allocated /\ b # r.buf THEN 1 ELSE 0
    BY <1>2, <1>6 DEF PlacesCounted
  <2>1. Count(held, Tasks, MaxDepth, RentalsOf(b))
          = Count(held', Tasks, MaxDepth, RentalsOf(b)) + (IF b = r.buf THEN 1 ELSE 0)
    BY <1>3, StacksTyped, HeldCounts
  <2>2. Count(held', Tasks, MaxDepth, RentalsOf(b)) \in Nat
    BY CountTypes
  <2>3. PICK x, y \in Nat :
          /\ x = Count(stock, Buckets, MaxCeiling, Just(b))
          /\ y = Count(held, Tasks, MaxDepth, RentalsOf(b))
          /\ (x + y = 1 /\ b \in Allocated) \/ (x + y = 0 /\ b \notin Allocated)
    BY Counts
  <2> QED
    BY <2>1, <2>2, <2>3
<1>9. StockInBounds'
  <2> SUFFICES ASSUME NEW s \in Buckets, NEW i \in 1 .. Len(stock[s])
               PROVE  Len(memory'[stock[s][i]]) = s
    BY <1>2 DEF StockInBounds
  <2>1. stock[s][i] \in Bufs
    BY StockPlace
  <2>2. Len(held[t]) \in 1 .. Len(held[t])
    BY <1>3
  <2>3. stock[s][i] # r.buf
    BY <1>3, <2>2, HeldOwner
  <2> QED
    BY <1>5, <2>1, <2>3 DEF PoolInv, StockInBounds
<1>10. RentalsInBounds'
  BY <1>1, <1>2, <1>5, OthersInBounds
<1>11. BucketsKept'
  <2> SUFFICES ASSUME NEW s \in Buckets
               PROVE  /\ Len(stock[s]) <= ceiling[s]
                      /\ Len(stock[s]) + Count(held', Tasks, MaxDepth, RentalsIn(s)) >= PreAlloc
    BY <1>2 DEF BucketsKept
  <2>1. Count(held, Tasks, MaxDepth, RentalsIn(s))
          = Count(held', Tasks, MaxDepth, RentalsIn(s)) + (IF s = r.size THEN 1 ELSE 0)
    BY <1>3, StacksTyped, HeldCounts
  <2>2. /\ Count(held', Tasks, MaxDepth, RentalsIn(s)) \in Nat /\ Len(stock[s]) \in Nat
        /\ ceiling[s] \in Nat /\ Len(stock[s]) <= ceiling[s] /\ PreAlloc <= ceiling[s]
        /\ Len(stock[s]) + Count(held, Tasks, MaxDepth, RentalsIn(s)) >= PreAlloc
    BY CountTypes, StacksTyped DEF PoolInv, BucketsKept
  <2>3. CASE s = r.size
    BY <1>2, <2>2, <2>3, Numbers DEF HasRoom
  <2>4. CASE s # r.size
    BY <2>1, <2>2, <2>4, Numbers
  <2> QED
    BY <2>3, <2>4
<1>12. NoPanic'
  BY DEF PoolInv, NoPanic
<1> QED
  BY <1>7, <1>8, <1>9, <1>10, <1>11, <1>12 DEF PoolInv

\* read_exact writes the renter's bytes into the renter's own buffer.
LEMMA FillKeeps ==
  ASSUME PoolInv, NEW t \in Tasks, NEW n \in Nat, Fill(t, n)
  PROVE  PoolInv'
<1> DEFINE L == Len(held[t])
           r == held[t][L]
           q == [r EXCEPT !.got = r.got + n]
<1>1. held[t] # <<>> /\ held[t] \in Seq(Rentals) /\ L \in 1 .. L /\ L \in Nat
  <2>1. held[t] # <<>> /\ held[t] \in Seq(Rentals)
    BY StacksTyped DEF Fill, ReadDone, Stacks
  <2> QED
    BY <2>1, EmptySeq
<1>2. r \in Rentals /\ r.buf \in Bufs /\ InBounds(memory, t, r)
  BY <1>1, HeldPlace DEF PoolInv, RentalsInBounds
<1>3. /\ r.got + n <= r.want
      /\ memory' = [memory EXCEPT ![r.buf] =
           [i \in DOMAIN memory[r.buf] |->
              IF i \in r.got + 1 .. r.got + n THEN t ELSE memory[r.buf][i]]]
      /\ UNCHANGED <<stock, ceiling, status>>
  BY DEF Fill, Fits, Last
<1>4. held' = [held EXCEPT ![t] = [held[t] EXCEPT ![L] = q]]
  BY DEF Fill
<1>5. /\ q \in Rentals /\ q.buf = r.buf /\ q.size = r.size /\ q.len = r.len /\ q.want = r.want
      /\ q.got = r.got + n
  <2>1. PICK e \in Nat : e = r.got + n
    BY <1>2 DEF Rentals
  <2>2. PICK z \in Rentals : z = r
    BY <1>2
  <2>3. /\ [z EXCEPT !.got = e] \in Rentals
        /\ \A f \in {"buf", "size", "len", "want"} : [z EXCEPT !.got = e][f] = z[f]
        /\ [z EXCEPT !.got = e].got = e
    BY DEF Rentals
  <2> QED
    BY <2>1, <2>2, <2>3
<1> HIDE DEF L, r, q
<1>6. /\ held' \in Stacks(Tasks, Rentals)
      /\ \A u \in Tasks : u # t => held'[u] = held[u]
      /\ Len(held'[t]) = L /\ held'[t][L] = q
      /\ \A i \in 1 .. L : i # L => held'[t][i] = held[t][i]
  <2>1. PICK h : h = [held[t] EXCEPT ![L] = q]
    OBVIOUS
  <2>2. /\ h \in Seq(Rentals) /\ Len(h) = L
        /\ \A j \in 1 .. L : h[j] = IF j = L THEN q ELSE held[t][j]
    BY <1>1, <1>5, <2>1, ExceptSeq DEF L
  <2>3. held' = [held EXCEPT ![t] = h]
    BY <1>4, <2>1
  <2>4. /\ held' \in Stacks(Tasks, Rentals) /\ held'[t] = h
        /\ \A u \in Tasks : u # t => held'[u] = held[u]
    BY <2>2, <2>3, StacksTyped DEF Stacks
  <2> QED
    BY <1>1, <2>2, <2>4
<1>7. \A u \in Tasks : Len(held'[u]) = Len(held[u])
  BY <1>6 DEF L
<1>8. ASSUME NEW W, q \in W <=> r \in W
      PROVE  Count(held', Tasks, MaxDepth, W) = Count(held, Tasks, MaxDepth, W)
  <2>1. ASSUME NEW u \in Tasks, NEW i \in 1 .. Len(held[u])
        PROVE  held'[u][i] \in W <=> held[u][i] \in W
    BY <1>6, <1>8 DEF L, r
  <2> QED
    BY <1>6, <1>7, <2>1, StacksTyped, CountSame, Numbers
<1>9. DOMAIN memory[r.buf] = 1 .. r.size /\ memory[r.buf] \in Seq(Tasks \cup {Stale})
      /\ r.size \in Nat /\ r.got \in Nat /\ r.want \in Nat
  BY <1>2, Sizes DEF PoolInv, PoolType, InBounds, Rentals
<1>10. PICK m : m = [i \in 1 .. r.size |->
                       IF i \in r.got + 1 .. r.got + n THEN t ELSE memory[r.buf][i]]
  OBVIOUS
<1>11. m \in Seq(Tasks \cup {Stale}) /\ Len(m) = r.size
       /\ \A i \in 1 .. r.size :
            m[i] = IF i \in r.got + 1 .. r.got + n THEN t ELSE memory[r.buf][i]
  <2>1. PICK T : T = Tasks \cup {Stale}
    OBVIOUS
  <2>2. \A i \in 1 .. r.size : memory[r.buf][i] \in T
    BY <1>2, <1>9, <2>1, ElementOfSeq DEF InBounds
  <2>3. t \in T
    BY <2>1
  <2>4. PICK g : g = memory[r.buf]
    OBVIOUS
  <2>5. PICK k \in Nat : k = r.size
    BY <1>9
  <2>6. m = [i \in 1 .. k |-> IF i \in r.got + 1 .. r.got + n THEN t ELSE g[i]]
    BY <1>10, <2>4, <2>5
  <2>7. m \in Seq(T) /\ Len(m) = k
    BY <2>2, <2>3, <2>4, <2>5, <2>6
  <2> QED
    BY <1>10, <2>1, <2>5, <2>7
<1>12. memory' = [memory EXCEPT ![r.buf] = m]
  BY <1>3, <1>9, <1>10
<1>13. /\ memory' \in [Bufs -> Seq(Tasks \cup {Stale})] /\ memory'[r.buf] = m
       /\ \A b \in Bufs : b # r.buf => memory'[b] = memory[b]
       /\ \A b \in Bufs : Len(memory'[b]) = Len(memory[b])
  BY <1>2, <1>11, <1>12 DEF PoolInv, PoolType, InBounds
<1>14. Allocated' = Allocated
  <2>1. \A b \in Bufs : memory'[b] # <<>> <=> memory[b] # <<>>
    BY <1>13, EmptySeq DEF PoolInv, PoolType
  <2> QED
    BY <2>1 DEF Allocated
<1>15. PoolType'
  BY <1>3, <1>6, <1>7, <1>13 DEF PoolInv, PoolType
<1>16. PlacesCounted'
  <2> SUFFICES ASSUME NEW b \in Bufs
               PROVE  Count(stock, Buckets, MaxCeiling, Just(b))
                        + Count(held', Tasks, MaxDepth, RentalsOf(b))
                        = IF b \in Allocated THEN 1 ELSE 0
    BY <1>3, <1>14 DEF PlacesCounted
  <2>1. q \in RentalsOf(b) <=> r \in RentalsOf(b)
    BY <1>2, <1>5 DEF RentalsOf
  <2> QED
    BY <1>8, <2>1 DEF PoolInv, PlacesCounted
<1>17. StockInBounds'
  <2> SUFFICES ASSUME NEW s \in Buckets, NEW i \in 1 .. Len(stock[s])
               PROVE  Len(memory'[stock[s][i]]) = s
    BY <1>3 DEF StockInBounds
  <2>1. stock[s][i] \in Bufs
    BY StockPlace
  <2> QED
    BY <1>13, <2>1 DEF PoolInv, StockInBounds
<1>18. RentalsInBounds'
  <2> SUFFICES ASSUME NEW u \in Tasks, NEW i \in 1 .. Len(held[u])
               PROVE  InBounds(memory', u, held'[u][i])
    BY <1>7 DEF RentalsInBounds
  <2>1. CASE u = t /\ i = L
    <3>1. q.len = q.want /\ q.got <= q.want /\ q.want <= q.size /\ q.got = r.got + n
      BY <1>2, <1>3, <1>5 DEF InBounds, r, L
    <3>2. \A k \in 1 .. q.got : m[k] = t
      <4> SUFFICES ASSUME NEW k \in 1 .. q.got PROVE m[k] = t
        OBVIOUS
      <4>1. k \in 1 .. r.size /\ (k \in r.got + 1 .. r.got + n \/ k \in 1 .. r.got)
        BY <1>5, <1>9, <3>1
      <4>2. k \in 1 .. r.got => memory[r.buf][k] = t
        BY <1>2 DEF InBounds
      <4> QED
        BY <1>11, <4>1, <4>2
    <3> QED
      BY <1>5, <1>6, <1>11, <1>13, <2>1, <3>1, <3>2 DEF InBounds
  <2>2. CASE ~(u = t /\ i = L)
    <3>1. held'[u][i] = held[u][i]
      BY <1>6, <2>2 DEF L
    <3>2. held[u][i].buf \in Bufs
      BY HeldPlace
    <3>3. held[u][i].buf # r.buf
      BY <1>1, <2>2, HeldOwner DEF r, L
    <3>4. InBounds(memory, u, held[u][i])
      BY DEF PoolInv, RentalsInBounds
    <3> QED
      BY <1>13, <3>1, <3>2, <3>3, <3>4 DEF InBounds
  <2> QED
    BY <2>1, <2>2
<1>19. BucketsKept'
  <2> SUFFICES ASSUME NEW s \in Buckets
               PROVE  /\ Len(stock[s]) <= ceiling[s]
                      /\ Len(stock[s]) + Count(held', Tasks, MaxDepth, RentalsIn(s)) >= PreAlloc
    BY <1>3 DEF BucketsKept
  <2>1. q \in RentalsIn(s) <=> r \in RentalsIn(s)
    BY <1>2, <1>5 DEF RentalsIn
  <2> QED
    BY <1>8, <2>1 DEF PoolInv, BucketsKept
<1>20. NoPanic'
  BY <1>3 DEF PoolInv, NoPanic
<1> QED
  BY <1>15, <1>16, <1>17, <1>18, <1>19, <1>20 DEF PoolInv
-----------------------------------------------------------------------------
(* The pool that new() makes. *)

Below(size) == Cardinality({b \in Buckets : b < size})

\* Buckets are numbered in the order of their sizes.
LEMMA BelowGrows ==
  /\ Cardinality(Buckets) \in Nat
  /\ \A size \in Buckets : Below(size) \in Nat /\ Below(size) < Cardinality(Buckets)
  /\ \A s, u \in Buckets : s < u => Below(s) < Below(u)
<1> DEFINE Less(size) == {b \in Buckets : b < size}
<1>1. Cardinality(Buckets) \in Nat
  BY Sizes, FS_CardinalityType
<1>2. ASSUME NEW size \in Buckets
      PROVE  IsFiniteSet(Less(size)) /\ Cardinality(Less(size)) \in Nat
  BY Sizes, FS_Subset, FS_CardinalityType
<1>3. ASSUME NEW size \in Buckets PROVE Cardinality(Less(size)) < Cardinality(Buckets)
  <2>1. Less(size) \in SUBSET Buckets /\ size \notin Less(size)
    BY Sizes
  <2> HIDE DEF Less
  <2> QED
    BY <1>1, <1>2, <2>1, Sizes, FS_Subset
<1>4. ASSUME NEW s \in Buckets, NEW u \in Buckets, s < u
      PROVE  Cardinality(Less(s)) < Cardinality(Less(u))
  <2>1. Less(s) \in SUBSET Less(u) /\ s \in Less(u) /\ s \notin Less(s)
    BY <1>4, Sizes
  <2> HIDE DEF Less
  <2> QED
    BY <1>2, <2>1, FS_Subset
<1> QED
  BY <1>1, <1>2, <1>3, <1>4 DEF Below

\* Blocks of p numbers do not overlap.
LEMMA Blocks ==
  ASSUME NEW a \in Nat, NEW b \in Nat, NEW p \in Nat, a < b
  PROVE  a * p \in Nat /\ b * p \in Nat /\ a * p + p <= b * p
<1>1. PICK k \in Nat : b = a + 1 + k
  <2>1. b - a - 1 \in Nat /\ b = a + 1 + (b - a - 1)
    OBVIOUS
  <2> QED
    BY <2>1
<1>2. b * p = a * p + p + k * p
  BY <1>1
<1>3. a * p \in Nat /\ k * p \in Nat
  OBVIOUS
<1> QED
  BY <1>2, <1>3

\* The buffers of a bucket.
LEMMA InitialBufs ==
  ASSUME NEW size \in Buckets
  PROVE  /\ Initial(size) \in Seq(Bufs) /\ Len(Initial(size)) = PreAlloc
         /\ \A i \in 1 .. PreAlloc : Initial(size)[i] = Below(size) * PreAlloc + i
<1>1. Initial(size) = [i \in 1 .. PreAlloc |-> Below(size) * PreAlloc + i]
  BY DEF Initial, Below
<1>2. PICK x \in Nat : x = Below(size) * PreAlloc /\ x + PreAlloc <= MaxBufs
  <2>1. /\ Below(size) * PreAlloc \in Nat /\ Cardinality(Buckets) * PreAlloc \in Nat
        /\ Below(size) * PreAlloc + PreAlloc <= Cardinality(Buckets) * PreAlloc
    BY BelowGrows, Blocks, Numbers
  <2> QED
    BY <2>1, PoolFits, Numbers
<1>3. Initial(size) = [i \in 1 .. PreAlloc |-> x + i]
  BY <1>1, <1>2
<1>4. \A i \in 1 .. PreAlloc : x + i \in Bufs
  BY <1>2, Numbers DEF Bufs
<1> QED
  BY <1>2, <1>3, <1>4, Numbers

\* No buffer is in two places.
LEMMA InitialDistinct ==
  ASSUME NEW s \in Buckets, NEW u \in Buckets, NEW i \in 1 .. PreAlloc, NEW j \in 1 .. PreAlloc,
         Initial(s)[i] = Initial(u)[j]
  PROVE  s = u /\ i = j
<1>0. \A size \in Buckets : Below(size) \in Nat
  BY BelowGrows
<1>1. PICK x, y \in Nat : x = Below(s) * PreAlloc /\ y = Below(u) * PreAlloc
  <2>1. Below(s) * PreAlloc \in Nat /\ Below(u) * PreAlloc \in Nat
    BY <1>0, Numbers
  <2> QED
    BY <2>1
<1>2. x + i = y + j
  <2>1. Initial(s)[i] = Below(s) * PreAlloc + i /\ Initial(u)[j] = Below(u) * PreAlloc + j
    BY InitialBufs
  <2> QED
    BY <1>1, <2>1
<1>3. s < u => x + PreAlloc <= y
  BY <1>0, <1>1, BelowGrows, Blocks, Numbers
<1>4. u < s => y + PreAlloc <= x
  BY <1>0, <1>1, BelowGrows, Blocks, Numbers
<1>5. i \in Nat /\ j \in Nat /\ 1 <= i /\ i <= PreAlloc /\ 1 <= j /\ j <= PreAlloc
  BY Numbers
<1>6. ~(s < u) /\ ~(u < s)
  <2>1. ~(x + PreAlloc <= y) /\ ~(y + PreAlloc <= x)
    BY <1>2, <1>5, Numbers
  <2> QED
    BY <1>3, <1>4, <2>1
<1>7. s = u
  BY <1>6, Sizes
<1>8. x = y
  BY <1>1, <1>7
<1> QED
  BY <1>2, <1>5, <1>7, <1>8

\* The invariant holds of a new pool and of tasks without rentals.
LEMMA InitPool == Init => PoolInv
<1> SUFFICES ASSUME Init PROVE PoolInv
  OBVIOUS
<1>1. /\ stock \in Stacks(Buckets, Bufs)
      /\ \A size \in Buckets : /\ stock[size] = Initial(size) /\ Len(stock[size]) = PreAlloc
                               /\ DOMAIN stock[size] = 1 .. PreAlloc
  <2>1. ASSUME NEW size \in Buckets
        PROVE  Initial(size) \in Seq(Bufs) /\ Len(Initial(size)) = PreAlloc
               /\ DOMAIN Initial(size) = 1 .. PreAlloc
    BY InitialBufs, LenProperties
  <2> QED
    BY <2>1 DEF Init, Stacks
<1>2. /\ held \in Stacks(Tasks, Rentals) /\ \A t \in Tasks : held[t] = <<>> /\ Len(held[t]) = 0
  BY EmptySeq DEF Init, Stacks
<1>3. ASSUME NEW size \in Buckets, NEW i \in 1 .. PreAlloc
      PROVE  /\ Initial(size)[i] \in Bufs
             /\ memory[Initial(size)[i]] = Fresh(size)
  <2>1. Initial(size)[i] \in Bufs
    BY InitialBufs, ElementOfSeq
  <2>2. \A s \in Buckets : Contains(Initial(s), Initial(size)[i]) <=> s = size
    <3>1. Contains(Initial(size), Initial(size)[i])
      BY InitialBufs DEF Contains
    <3>2. ASSUME NEW s \in Buckets, Contains(Initial(s), Initial(size)[i]) PROVE s = size
      <4>1. PICK j \in 1 .. PreAlloc : Initial(s)[j] = Initial(size)[i]
        BY <3>2, InitialBufs DEF Contains
      <4> QED
        BY <4>1, InitialDistinct
    <3> QED
      BY <3>1, <3>2
  <2>3. (CHOOSE s \in Buckets : Contains(Initial(s), Initial(size)[i])) = size
    BY <2>2
  <2> QED
    BY <2>1, <2>2, <2>3 DEF Init
<1>4. ASSUME NEW b \in Bufs, \A size \in Buckets : \A i \in 1 .. PreAlloc : Initial(size)[i] # b
      PROVE  memory[b] = <<>>
  <2>1. \A size \in Buckets : ~Contains(Initial(size), b)
    BY <1>4, InitialBufs DEF Contains
  <2> QED
    BY <2>1 DEF Init
<1>5. ASSUME NEW size \in Buckets
      PROVE  Fresh(size) \in Seq(Tasks \cup {Stale}) /\ Len(Fresh(size)) = size
             /\ Fresh(size) # <<>>
  <2>1. size \in Nat /\ size > 0
    BY Sizes
  <2>2. Fresh(size) \in Seq({Stale}) /\ Len(Fresh(size)) = size /\ Fresh(size) # <<>>
    BY <2>1, FreshBytes
  <2> QED
    BY <2>2, SeqMonotonic
<1>6. memory \in [Bufs -> Seq(Tasks \cup {Stale})]
  <2>1. ASSUME NEW b \in Bufs PROVE memory[b] \in Seq(Tasks \cup {Stale})
    <3>1. CASE \E size \in Buckets : \E i \in 1 .. PreAlloc : Initial(size)[i] = b
      BY <1>3, <1>5, <3>1
    <3>2. CASE \A size \in Buckets : \A i \in 1 .. PreAlloc : Initial(size)[i] # b
      BY <1>4, <3>2, EmptySeq
    <3> QED
      BY <3>1, <3>2
  <2>2. memory = [b \in Bufs |-> memory[b]]
    BY DEF Init
  <2> QED
    BY <2>1, <2>2
<1>7. PoolType
  BY <1>1, <1>2, <1>6, Numbers DEF Init, PoolType
<1>8. \A W : Count(held, Tasks, MaxDepth, W) = 0
  <2>1. \A W : PlacesOf(held, Tasks, MaxDepth, W) = {}
    BY <1>2 DEF PlacesOf
  <2> QED
    BY <2>1, FS_EmptySet DEF Count
<1>9. PlacesCounted
  <2> SUFFICES ASSUME NEW b \in Bufs
               PROVE  Count(stock, Buckets, MaxCeiling, Just(b))
                        = IF b \in Allocated THEN 1 ELSE 0
    BY <1>8, CountTypes DEF PlacesCounted
  <2>1. CASE \E size \in Buckets : \E i \in 1 .. PreAlloc : Initial(size)[i] = b
    <3>1. PICK size \in Buckets, i \in 1 .. PreAlloc : Initial(size)[i] = b
      BY <2>1
    <3>2. b \in Allocated
      BY <1>3, <1>5, <3>1 DEF Allocated
    <3>3. ASSUME NEW s \in Buckets, NEW j \in 1 .. MaxCeiling
          PROVE  j \in DOMAIN stock[s] /\ stock[s][j] \in Just(b) <=> s = size /\ j = i
      BY <1>1, <3>1, InitialDistinct DEF Just
    <3>4. i \in 1 .. MaxCeiling
      BY Numbers, PoolConstants
    <3>5. PlacesOf(stock, Buckets, MaxCeiling, Just(b)) = {<<size, i>>}
      BY <3>3, <3>4 DEF PlacesOf
    <3> QED
      BY <3>2, <3>5, FS_Singleton DEF Count
  <2>2. CASE \A size \in Buckets : \A i \in 1 .. PreAlloc : Initial(size)[i] # b
    <3>1. b \notin Allocated
      BY <1>4, <2>2 DEF Allocated
    <3>2. PlacesOf(stock, Buckets, MaxCeiling, Just(b)) = {}
      BY <1>1, <2>2 DEF PlacesOf, Just
    <3> QED
      BY <3>1, <3>2, FS_EmptySet DEF Count
  <2> QED
    BY <2>1, <2>2
<1>10. StockInBounds
  BY <1>1, <1>3, <1>5 DEF StockInBounds
<1>11. RentalsInBounds
  BY <1>2 DEF RentalsInBounds
<1>12. BucketsKept
  <2>1. \A size \in Buckets : ceiling[size] \in Nat /\ PreAlloc <= ceiling[size]
    BY Numbers DEF Init
  <2> QED
    BY <1>1, <1>8, <2>1, Numbers DEF BucketsKept
<1>13. NoPanic
  BY DEF Init, NoPanic
<1> QED
  BY <1>7, <1>9, <1>10, <1>11, <1>12, <1>13 DEF PoolInv
-----------------------------------------------------------------------------
(* The theorems. *)

\* Only the status of tasks changes, and nobody panics.
LEMMA StatusKeeps ==
  ASSUME PoolInv, NEW t \in Tasks, NEW s \in {"running", "ending"},
         status' = [status EXCEPT ![t] = s], UNCHANGED <<stock, ceiling, memory, held>>
  PROVE  PoolInv'
<1>1. status' \in [Tasks -> {"running", "ending", "panicked"}]
  BY DEF PoolInv, PoolType
<1>2. PoolType'
  BY <1>1 DEF PoolInv, PoolType
<1>3. PlacesCounted' /\ StockInBounds' /\ RentalsInBounds' /\ BucketsKept'
  BY DEF PoolInv, PlacesCounted, Allocated, StockInBounds, RentalsInBounds, BucketsKept
<1>4. NoPanic'
  BY DEF PoolInv, PoolType, NoPanic
<1> QED
  BY <1>2, <1>3, <1>4 DEF PoolInv

\* What a reader lets through has a bucket: there is no length between the
\* largest bucket and the limit the readers compare with.
LEMMA ServableFits ==
  ASSUME PoolInv, NEW t \in Tasks, NEW site \in SitesOf(t), NEW n \in Nat, Servable(site, n)
  PROVE  Fitting(n) # {}
<1>1. CASE Buckets # {}
  BY <1>1, Sizes DEF Servable, Fitting
<1>2. CASE Buckets = {}
  <2>1. MaxCapacity = 0
    <3>1. Max({0}) = 0
      BY MaxIsGreatest
    <3> QED
      BY <1>2, <3>1 DEF MaxCapacity
  <2>2. held[t] = <<>>
    <3> SUFFICES ASSUME held[t] # <<>> PROVE FALSE
      OBVIOUS
    <3>1. held[t] \in Seq(Rentals)
      BY DEF PoolInv, PoolType, Stacks
    <3>2. Last(held[t]) \in Rentals
      BY <3>1, FrontKeeps
    <3> QED
      BY <1>2, <3>2 DEF Rentals
  <2> QED
    BY <2>1, <2>2 DEF SitesOf, Servable
<1> QED
  BY <1>1, <1>2

\* The invariant: every allocation is in exactly one place (a position of a
\* bucket or of a task's rentals), has its bucket's size there and holds in a
\* rental the bytes its task has read; buckets stay between PreAlloc, counting
\* what is out, and their ceiling; no task has panicked.
THEOREM PoolInvariant == Spec => []PoolInv
<1>1. Init => PoolInv
  BY InitPool
<1>2. PoolInv /\ [Next]_vars => PoolInv'
  <2> SUFFICES ASSUME PoolInv, [Next]_vars PROVE PoolInv'
    OBVIOUS
  <2>1. CASE UNCHANGED vars
    BY <2>1 DEF vars, PoolInv, PoolType, PlacesCounted, Allocated, StockInBounds,
                RentalsInBounds, BucketsKept, NoPanic
  <2>2. ASSUME NEW t \in Tasks, NEW site \in {"startup", "sasl", "backend"},
               NEW n \in Lengths, BeginRead(t, site, n)
        PROVE  PoolInv'
    <3>1. n \in Nat
      BY PoolConstants
    <3>2. CASE Servable(site, n) /\ Fitting(n) # {}
      <4>1. Get(t, n) /\ Len(held[t]) < MaxDepth /\ UNCHANGED <<ceiling, status>>
        BY <2>2, <3>2 DEF BeginRead
      <4>2. CASE stock[Min(Fitting(n))] # <<>>
        BY <3>1, <3>2, <4>1, <4>2, TakeKeeps
      <4>3. CASE stock[Min(Fitting(n))] = <<>>
        BY <3>1, <3>2, <4>1, <4>3, AllocKeeps
      <4> QED
        BY <4>2, <4>3
    <3>3. CASE ~(Servable(site, n) /\ Fitting(n) # {})
      <4>1. ~Servable(site, n)
        <5>1. site \in SitesOf(t)
          BY <2>2 DEF BeginRead
        <5> QED
          BY <3>1, <3>3, <5>1, ServableFits
      <4>2. status' = [status EXCEPT ![t] = "ending"] /\ UNCHANGED <<stock, ceiling, memory, held>>
        BY <2>2, <3>3, <4>1 DEF BeginRead
      <4> QED
        BY <4>2, StatusKeeps
    <3> QED
      BY <3>2, <3>3
  <2>3. ASSUME NEW t \in Tasks, NEW n \in 1 .. MaxCapacity, Fill(t, n) PROVE PoolInv'
    <3>1. n \in Nat
      BY Sizes
    <3> QED
      BY <2>3, <3>1, FillKeeps
  <2>4. ASSUME NEW t \in Tasks, DropMessage(t) \/ Unwind(t) PROVE PoolInv'
    <3>1. held[t] # <<>> /\ Return(t) /\ UNCHANGED status
      BY <2>4 DEF DropMessage, Unwind
    <3>2. CASE HasRoom(Last(held[t]).size)
      BY <3>1, <3>2, RetainKeeps
    <3>3. CASE ~HasRoom(Last(held[t]).size)
      BY <3>1, <3>3, FreeKeeps
    <3> QED
      BY <3>2, <3>3
  <2>5. ASSUME NEW t \in Tasks, Abandon(t) PROVE PoolInv'
    <3>1. status' = [status EXCEPT ![t] = "ending"] /\ UNCHANGED <<stock, ceiling, memory, held>>
      BY <2>5 DEF Abandon
    <3> QED
      BY <3>1, StatusKeeps
  <2>6. ASSUME NEW t \in Tasks, NextConnection(t) PROVE PoolInv'
    <3>1. status' = [status EXCEPT ![t] = "running"] /\ UNCHANGED <<stock, ceiling, memory, held>>
      BY <2>6 DEF NextConnection
    <3> QED
      BY <3>1, StatusKeeps
  <2> QED
    BY <2>1, <2>2, <2>3, <2>4, <2>5, <2>6 DEF Next
<1> QED
  BY <1>1, <1>2, PTL DEF Spec

\* No length a peer announces makes get panic (buffer_pool.rs get and the
\* checks of its callers).
THEOREM NoPanicCorrect == Spec => []NoPanic
<1>1. PoolInv => NoPanic
  BY DEF PoolInv
<1> QED
  BY <1>1, PoolInvariant, PTL

\* The positions the properties count are those of the invariant.
LEMMA SamePlaces ==
  ASSUME PoolInv
  PROVE  /\ \A b \in Bufs : StockPlaces(b) = PlacesOf(stock, Buckets, MaxCeiling, Just(b))
         /\ \A b \in Bufs : HeldPlaces(b) = PlacesOf(held, Tasks, MaxDepth, RentalsOf(b))
         /\ \A size \in Buckets : Rented(size) = PlacesOf(held, Tasks, MaxDepth, RentalsIn(size))
<1>1. \A t \in Tasks : \A i \in DOMAIN held[t] : held[t][i] \in Rentals
  BY LenProperties, ElementOfSeq DEF PoolInv, PoolType, Stacks
<1>2. ASSUME NEW b \in Bufs
      PROVE  StockPlaces(b) = PlacesOf(stock, Buckets, MaxCeiling, Just(b))
  BY DEF StockPlaces, PlacesOf, Just
<1>3. ASSUME NEW b \in Bufs
      PROVE  HeldPlaces(b) = PlacesOf(held, Tasks, MaxDepth, RentalsOf(b))
  <2>1. \A t \in Tasks : \A i \in DOMAIN held[t] :
          held[t][i] \in RentalsOf(b) <=> held[t][i].buf = b
    BY <1>1 DEF RentalsOf
  <2> QED
    BY <2>1 DEF HeldPlaces, PlacesOf
<1>4. ASSUME NEW size \in Buckets
      PROVE  Rented(size) = PlacesOf(held, Tasks, MaxDepth, RentalsIn(size))
  <2>1. \A t \in Tasks : \A i \in DOMAIN held[t] :
          held[t][i] \in RentalsIn(size) <=> held[t][i].size = size
    BY <1>1 DEF RentalsIn
  <2> QED
    BY <2>1 DEF Rented, PlacesOf
<1> QED
  BY <1>2, <1>3, <1>4

\* A buffer is in a bucket or with one task, never in both and never lost
\* while it is allocated, and both set_len stay within the allocation
\* (buffer_pool.rs get, drop, return_buffer).
THEOREM OwnersCorrect == Spec => []OneOwnerInBounds
<1>1. PoolInv => OneOwnerInBounds
  <2> SUFFICES ASSUME PoolInv PROVE OneOwnerInBounds
    OBVIOUS
  <2>1. ASSUME NEW b \in Bufs PROVE Places(b) = IF b \in Allocated THEN 1 ELSE 0
    <3>1. Places(b) = Count(stock, Buckets, MaxCeiling, Just(b))
                        + Count(held, Tasks, MaxDepth, RentalsOf(b))
      BY SamePlaces DEF Places, Count
    <3> QED
      BY <3>1 DEF PoolInv, PlacesCounted
  <2>2. ASSUME NEW size \in Buckets, NEW i \in DOMAIN stock[size]
        PROVE  Len(memory[stock[size][i]]) = size
    <3>1. i \in 1 .. Len(stock[size])
      BY LenProperties DEF PoolInv, PoolType, Stacks
    <3> QED
      BY <3>1 DEF PoolInv, StockInBounds
  <2>3. ASSUME NEW t \in Tasks, NEW i \in DOMAIN held[t]
        PROVE  /\ held[t][i].got <= held[t][i].want /\ held[t][i].len <= held[t][i].size
               /\ Len(memory[held[t][i].buf]) = held[t][i].size
    <3>1. i \in 1 .. Len(held[t])
      BY LenProperties DEF PoolInv, PoolType, Stacks
    <3> QED
      BY <3>1 DEF PoolInv, RentalsInBounds, InBounds
  <2> QED
    BY <2>1, <2>2, <2>3 DEF OneOwnerInBounds
<1> QED
  BY <1>1, PoolInvariant, PTL

\* Buffers are not zeroed, and still a message that has been read consists of
\* bytes its own task has read (buffer_pool.rs get, conn.rs read_message_body).
THEOREM OwnBytesCorrect == Spec => []OnlyOwnBytes
<1>1. PoolInv => OnlyOwnBytes
  <2> SUFFICES ASSUME PoolInv, NEW t \in Tasks, NEW i \in DOMAIN held[t],
                      held[t][i].got = held[t][i].want, NEW k \in 1 .. held[t][i].len
               PROVE  memory[held[t][i].buf][k] = t
    BY DEF OnlyOwnBytes
  <2>1. i \in 1 .. Len(held[t])
    BY LenProperties DEF PoolInv, PoolType, Stacks
  <2> QED
    BY <2>1 DEF PoolInv, RentalsInBounds, InBounds
<1> QED
  BY <1>1, PoolInvariant, PTL

\* A bucket does not grow beyond its ceiling, and the buffers new() put there
\* are still in it or out with a task (buffer_pool.rs return_buffer).
THEOREM StockCorrect == Spec => []StockKept
<1>1. PoolInv => StockKept
  <2> SUFFICES ASSUME PoolInv, NEW size \in Buckets
               PROVE  /\ Len(stock[size]) <= ceiling[size]
                      /\ Len(stock[size]) + Cardinality(Rented(size)) >= PreAlloc
    BY DEF StockKept
  <2>1. Cardinality(Rented(size)) = Count(held, Tasks, MaxDepth, RentalsIn(size))
    BY SamePlaces DEF Count
  <2> QED
    BY <2>1 DEF PoolInv, BucketsKept
<1> QED
  BY <1>1, PoolInvariant, PTL
=============================================================================
