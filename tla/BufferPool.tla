----------------------------- MODULE BufferPool -----------------------------
(***************************************************************************)
(* The pool of message buffers (buffer_pool.rs) and the reads that rent    *)
(* from it: Conn::read_startup_packet, Conn::read_message_body and         *)
(* PgClient::read_message_body.  A connection task keeps the buffer of its *)
(* startup packet while it reads the messages of the login and of the      *)
(* backend, and the authentication deadline may drop it in the middle of a *)
(* read.                                                                   *)
(*                                                                         *)
(* Memory is modelled byte by byte, a byte being who wrote it.  Each use   *)
(* of a bucket is one critical section.                                    *)
(***************************************************************************)
EXTENDS Naturals, Sequences, FiniteSets, FiniteSetsExt, SequencesExt

CONSTANTS
  Tasks,       \* connection tasks
  MinLen,      \* smallest bucket
  MaxLen,      \* limit for the largest bucket
  PreAlloc,    \* buffers each bucket starts with
  MaxCeiling,  \* bound: what Vec::with_capacity(PreAlloc) may round up to
  MaxStartup,  \* max_startup_bytes
  Lengths,     \* bound: the body lengths peers announce
  MaxDepth,    \* bound: buffers one task holds at a time
  MaxBufs      \* bound: allocations that exist at a time

ASSUME PoolConstants ==
  /\ IsFiniteSet(Tasks)
  /\ {MinLen, MaxLen, PreAlloc, MaxCeiling, MaxStartup, MaxDepth, MaxBufs} \subseteq Nat
  /\ Lengths \subseteq Nat
  /\ MinLen > 0          \* new() would not come to an end otherwise
  /\ PreAlloc <= MaxCeiling

\* new(): sizes double from min_len while they do not exceed max_len.
Buckets == {size \in MinLen .. MaxLen : \E i \in 0 .. MaxLen : size = MinLen * 2^i}

\* The bound leaves room for the allocations new() makes.
ASSUME PoolFits == Cardinality(Buckets) * PreAlloc <= MaxBufs

\* max_capacity(), 0 for a pool without buckets.
MaxCapacity == Max(Buckets \cup {0})

Bufs == 1 .. MaxBufs
Stale == "stale"   \* a byte nobody wrote, or an earlier renter

VARIABLES
  stock,    \* the buffers each bucket retains, a stack
  ceiling,  \* the capacity of that Vec
  memory,   \* the bytes of each allocation; empty when it is not allocated
  held,     \* what each task has rented, innermost last
  status    \* running, ending (everything is dropped), panicked

vars == <<stock, ceiling, memory, held, status>>

\* Nothing of what is in an allocation is its next renter's.
Fresh(size) == [i \in 1 .. size |-> Stale]

\* The allocations new() makes: PreAlloc for each bucket, numbered from the
\* smallest bucket on.
Initial(size) ==
  LET below == Cardinality({b \in Buckets : b < size})
  IN [i \in 1 .. PreAlloc |-> below * PreAlloc + i]

Init ==
  /\ stock = [size \in Buckets |-> Initial(size)]
  /\ ceiling \in [Buckets -> PreAlloc .. MaxCeiling]
  /\ memory = [b \in Bufs |->
       IF \E size \in Buckets : Contains(Initial(size), b)
       THEN Fresh(CHOOSE size \in Buckets : Contains(Initial(size), b)) ELSE <<>>]
  /\ held = [t \in Tasks |-> <<>>]
  /\ status = [t \in Tasks |-> "running"]
-----------------------------------------------------------------------------
(* get and the reads around it. *)

\* Variant for mutation: the length is compared with the configured maximum.
ServableByConfig(site, n) ==
  /\ n <= MaxLen
  /\ site = "startup" => n > 0 /\ n + 4 <= MaxStartup
  /\ site = "sasl" => n >= 4

\* What the readers let through: read_startup_packet, read_sasl_response with
\* read_message_body, and PgClient::read_message_body, which takes empty ones.
Servable(site, n) ==
  /\ n <= MaxCapacity
  /\ site = "startup" => n > 0 /\ n + 4 <= MaxStartup
  /\ site = "sasl" => n >= 4

\* The smallest bucket that fits; get panics when there is none.
Fitting(n) == {size \in Buckets : size >= n}

Allocated == {b \in Bufs : memory[b] # <<>>}

\* Variant for mutation: the buffer is not taken out of the bucket.
PoppedKept(bufs) == bufs

\* The bucket after Vec::pop.
Popped(bufs) == Front(bufs)

\* Variant for mutation: the whole allocation is exposed.
ExposedAll(n, size) == size

\* set_len(requested_size).
Exposed(n, size) == n

Rental(buf, size, n) == [buf |-> buf, size |-> size, len |-> Exposed(n, size), want |-> n, got |-> 0]

\* get: take a buffer out of the bucket, or allocate one.
Get(t, n) ==
  LET size == Min(Fitting(n))
      bufs == stock[size]
      buf  == IF bufs # <<>> THEN Last(bufs) ELSE Min(Bufs \ Allocated)
  IN /\ bufs = <<>> => Allocated # Bufs   \* the bound MaxBufs
     /\ stock' = IF bufs # <<>> THEN [stock EXCEPT ![size] = Popped(bufs)] ELSE stock
     /\ memory' = IF bufs # <<>> THEN memory ELSE [memory EXCEPT ![buf] = Fresh(size)]
     /\ held' = [held EXCEPT ![t] = Append(@, Rental(buf, size, n))]

\* The innermost read is complete: its read_exact has filled what was asked.
ReadDone(t) == held[t] # <<>> => Last(held[t]).got = Last(held[t]).want

\* Where a task reads: the startup packet first, with it in hand the rest.
SitesOf(t) == IF held[t] = <<>> THEN {"startup"} ELSE {"sasl", "backend"}

\* A length prefix has been read and either refused, which ends the connection,
\* or a buffer is rented for the body.
BeginRead(t, site, n) ==
  /\ status[t] = "running" /\ ReadDone(t)
  /\ Len(held[t]) < MaxDepth
  /\ site \in SitesOf(t)
  /\ IF Servable(site, n) /\ Fitting(n) # {}
     THEN Get(t, n) /\ UNCHANGED status
     ELSE /\ status' = [status EXCEPT ![t] = IF Servable(site, n) THEN "panicked" ELSE "ending"]
          /\ UNCHANGED <<stock, memory, held>>
  /\ UNCHANGED ceiling

\* Variant for mutation: a read may take more than what is left of the body.
FitsPlus1(r, n) == r.got + n <= r.want + 1

\* read_exact is given the rest of the body.
Fits(r, n) == r.got + n <= r.want

\* read_exact writes what has arrived of the body into the exposed bytes.
Fill(t, n) ==
  /\ status[t] = "running" /\ ~ReadDone(t)
  /\ LET r == Last(held[t])
     IN /\ Fits(r, n)
        /\ memory' = [memory EXCEPT ![r.buf] =
             [i \in DOMAIN @ |-> IF i \in r.got + 1 .. r.got + n THEN t ELSE @[i]]]
        /\ held' = [held EXCEPT ![t][Len(held[t])].got = @ + n]
  /\ UNCHANGED <<stock, ceiling, status>>
-----------------------------------------------------------------------------
(* Drop. *)

\* Variant for mutation: one place is always kept free.
HasRoomBut1(size) == Len(stock[size]) + 1 < ceiling[size]

\* return_buffer keeps the buffer while the Vec does not have to grow.
HasRoom(size) == Len(stock[size]) < ceiling[size]

\* PooledBytes::drop: back to the bucket, or freed.
Return(t) ==
  LET r    == Last(held[t])
      size == r.size         \* the bucket the buffer came from
  IN /\ held' = [held EXCEPT ![t] = Front(@)]
     /\ IF HasRoom(size)
        THEN /\ stock' = [stock EXCEPT ![size] = Append(@, r.buf)]
             /\ memory' = [memory EXCEPT ![r.buf] = Fresh(Len(@))]
        ELSE /\ memory' = [memory EXCEPT ![r.buf] = <<>>]
             /\ UNCHANGED stock
     /\ UNCHANGED ceiling

\* A message has been handled.
DropMessage(t) ==
  /\ status[t] = "running" /\ held[t] # <<>> /\ ReadDone(t)
  /\ Return(t)
  /\ UNCHANGED status

\* The deadline, or an error of the read: the future is dropped.
Abandon(t) ==
  /\ status[t] = "running" /\ held[t] # <<>>
  /\ status' = [status EXCEPT ![t] = "ending"]
  /\ UNCHANGED <<stock, ceiling, memory, held>>

\* Its buffers go back one after the other.
Unwind(t) ==
  /\ status[t] = "ending" /\ held[t] # <<>>
  /\ Return(t)
  /\ UNCHANGED status

\* The slot is used by the next connection.
NextConnection(t) ==
  /\ status[t] = "ending" /\ held[t] = <<>>
  /\ status' = [status EXCEPT ![t] = "running"]
  /\ UNCHANGED <<stock, ceiling, memory, held>>

Next ==
  \E t \in Tasks :
    \/ \E site \in {"startup", "sasl", "backend"}, n \in Lengths : BeginRead(t, site, n)
    \/ \E n \in 1 .. MaxCapacity : Fill(t, n)
    \/ DropMessage(t) \/ Abandon(t) \/ Unwind(t) \/ NextConnection(t)

Spec == Init /\ [][Next]_vars
-----------------------------------------------------------------------------
(* Properties. *)

\* "Callers handling peer-supplied lengths MUST check that first, so that a
\* hostile length prefix becomes a protocol error rather than a panic"
\* (buffer_pool.rs get): whatever length a peer sends, no reader reaches the
\* panic, also when the configured maximum is not a bucket size.
NoPanic == \A t \in Tasks : status[t] # "panicked"

\* The places a buffer is in: positions of buckets and of tasks' rentals.
StockPlaces(b) ==
  {p \in Buckets \X (1 .. MaxCeiling) :
     p[2] \in DOMAIN stock[p[1]] /\ stock[p[1]][p[2]] = b}

HeldPlaces(b) ==
  {p \in Tasks \X (1 .. MaxDepth) :
     p[2] \in DOMAIN held[p[1]] /\ held[p[1]][p[2]].buf = b}

Places(b) == Cardinality(StockPlaces(b)) + Cardinality(HeldPlaces(b))

\* A buffer has one owner, and neither of its two set_len goes beyond the
\* allocation: what a bucket holds has the bucket's capacity, what is exposed
\* fits (the SAFETY arguments of buffer_pool.rs get and drop).
OneOwnerInBounds ==
  /\ \A b \in Bufs : Places(b) = IF b \in Allocated THEN 1 ELSE 0
  /\ \A size \in Buckets : \A i \in DOMAIN stock[size] : Len(memory[stock[size][i]]) = size
  /\ \A t \in Tasks : \A i \in DOMAIN held[t] :
       /\ held[t][i].got <= held[t][i].want /\ held[t][i].len <= held[t][i].size
       /\ Len(memory[held[t][i].buf]) = held[t][i].size

\* "Contents are not zeroed ... the next renter is expected to write the bytes
\* it reads" (buffer_pool.rs): a message that is handed to its parser consists
\* of bytes read for it, never of bytes an earlier message left behind.
OnlyOwnBytes ==
  \A t \in Tasks : \A i \in DOMAIN held[t] :
    held[t][i].got = held[t][i].want =>
      \A k \in 1 .. held[t][i].len : memory[held[t][i].buf][k] = t

\* What is out of a bucket.
Rented(size) ==
  {p \in Tasks \X (1 .. MaxDepth) :
     p[2] \in DOMAIN held[p[1]] /\ held[p[1]][p[2]].size = size}

\* The pool neither grows beyond the ceiling of a bucket nor runs down below
\* what new() put there, on whatever path buffers come back
\* (buffer_pool.rs drop, return_buffer).
StockKept ==
  \A size \in Buckets :
    /\ Len(stock[size]) <= ceiling[size]
    /\ Len(stock[size]) + Cardinality(Rented(size)) >= PreAlloc
=============================================================================
