------------------------ MODULE StartupParamsProofs ------------------------
(***************************************************************************)
(* Proofs about module StartupParams, for every packet and every options   *)
(* string: first what becomes of the recorded user, database and           *)
(* replication mode, whatever settings the options yield; then the two     *)
(* loops of startup_config_parse_util.rs, followed lexeme by lexeme and    *)
(* token by token; last the parameters the backend is sent.                *)
(***************************************************************************)
EXTENDS StartupParams, FiniteSetTheorems, SequenceTheorems, WellFoundedInduction, TLAPS

\* The parameter `replication` of the packet itself, empty when there is none.
OwnReplication == Get(Decoded, <<"replication">>, NoText)

\* Once the packet is accepted, what the proxy goes by is what it sends on.
Recorded ==
  phase \in {"login", "linking", "sent"} =>
    /\ user # NoText
    /\ user = Get(params, <<"user">>, NoText)
    /\ database = DatabaseOf(params, user)
    /\ OwnReplication = Get(params, <<"replication">>, NoText)
    /\ replication_mode = ReplicationMode(OwnReplication)

\* The packet to the backend has every parameter, and a default for three.
SentOn ==
  phase = "sent" =>
    /\ \A n \in DOMAIN params : n \in DOMAIN sent /\ sent[n] = params[n]
    /\ <<"database">> \in DOMAIN sent
    /\ <<"database">> \notin DOMAIN params => sent[<<"database">>] = database
    /\ <<"replication">> \notin DOMAIN params => <<"replication">> \notin DOMAIN sent

ParamsInv == Recorded /\ SentOn

\* The names the argument distinguishes.
LEMMA NamesDiffer ==
  /\ <<"replication">> # <<"options">> /\ <<"replication">> # <<"user">>
  /\ <<"replication">> # <<"database">> /\ <<"replication">> # <<"application_name">>
  /\ <<"user">> # <<"database">>
OBVIOUS

\* Neither merging the options nor removing `options` touches the packet's own
\* `replication`, whatever the options set.
LEMMA MergeKeepsReplication ==
  ASSUME NEW map, NEW parsed
  PROVE  Get(Merged(map, parsed), <<"replication">>, NoText)
           = Get(map, <<"replication">>, NoText)
<1> DEFINE r == <<"replication">>
           o == <<"options">>
           rest == Without(parsed, r)
           both == Extend(map, rest)
           merged == Without(both, o)
<1>1. DOMAIN rest = DOMAIN parsed \ {r} /\ r \notin DOMAIN rest
  BY DEF Without
<1>2. /\ DOMAIN both = DOMAIN map \cup DOMAIN rest
      /\ r \in DOMAIN map => both[r] = map[r]
  <2> HIDE DEF rest
  <2> QED
    BY <1>1 DEF Extend
<1>3. /\ DOMAIN merged = DOMAIN both \ {o}
      /\ r \in DOMAIN both => merged[r] = both[r]
  <2> HIDE DEF rest, both
  <2> QED
    BY NamesDiffer DEF Without
<1>4. r # o
  BY NamesDiffer
<1>5. Get(merged, r, NoText) = Get(map, r, NoText)
  <2> HIDE DEF rest, both, merged, r, o
  <2> QED
    BY <1>1, <1>2, <1>3, <1>4 DEF Get
<1> QED
  BY <1>5 DEF Merged

\* The packet is not read again.
LEMMA DecodedKept ==
  ASSUME UNCHANGED strings
  PROVE  OwnReplication' = OwnReplication
<1>1. Terminators' = Terminators
  BY DEF Terminators
<1>2. Decoded' = Decoded
  BY <1>1 DEF Decoded
<1> QED
  BY <1>2 DEF OwnReplication, Get

\* An accepted packet is recorded as it will be sent on.
LEMMA DecodeRecords ==
  ASSUME Decode
  PROVE  Recorded'
<1>1. OwnReplication' = OwnReplication /\ phase' \in {"login", "refused"}
  BY DecodedKept DEF Decode, Refuse
<1>2. CASE phase' = "login"
  <2>1. PICK opts :
          /\ params' = Merged(Decoded, opts.parsed)
          /\ user' = LoginUser(Decoded, params') /\ user' # NoText
          /\ database' = DatabaseOf(params', user')
          /\ replication_mode' = ReplicationMode(Get(params', <<"replication">>, NoText))
    BY <1>2 DEF Decode, Refuse
  <2>2. OwnReplication = Get(params', <<"replication">>, NoText)
    BY <2>1, MergeKeepsReplication DEF OwnReplication
  <2> QED
    BY <1>1, <2>1, <2>2 DEF Recorded, LoginUser
<1>3. CASE phase' = "refused"
  BY <1>3 DEF Recorded
<1> QED
  BY <1>1, <1>2, <1>3

\* write_startup_message keeps the parameters and adds no replication.
LEMMA WriteSendsOn ==
  ASSUME WriteStartup
  PROVE  SentOn'
<1> DEFINE u == <<"user">>
           d == <<"database">>
           a == <<"application_name">>
<1>1. DOMAIN Defaults = {u, d, a} /\ Defaults[d] = database
  <2>1. PICK one : one = Insert(Empty, u, user)
    OBVIOUS
  <2>2. PICK two : two = Insert(one, d, database)
    OBVIOUS
  <2>3. d # a
    OBVIOUS
  <2>4. Defaults = Insert(two, a, <<"wirechaos">>)
    BY <2>1, <2>2 DEF Defaults
  <2> HIDE DEF u, d, a
  <2>5. DOMAIN one = {u}
    BY <2>1 DEF Empty, Insert
  <2>6. DOMAIN two = {u, d} /\ two[d] = database
    BY <2>2, <2>5 DEF Insert
  <2> QED
    BY <2>3, <2>4, <2>6 DEF Insert
<1>2. sent' = Extend(Defaults, params) /\ params' = params /\ database' = database
  BY DEF WriteStartup
<1>3. /\ DOMAIN sent' = {u, d, a} \cup DOMAIN params
      /\ \A n \in DOMAIN params : sent'[n] = params[n]
      /\ d \notin DOMAIN params => sent'[d] = database
  BY <1>1, <1>2 DEF Extend
<1> QED
  BY <1>2, <1>3, NamesDiffer DEF SentOn

\* The inductive invariant: the recorded user, database and replication mode
\* are those of the merged parameters, and these are what is sent.
THEOREM ParamsInvariant == Spec => []ParamsInv
<1>1. Init => ParamsInv
  BY DEF Init, ParamsInv, Recorded, SentOn
<1>2. ParamsInv /\ [Next]_vars => ParamsInv'
  <2> SUFFICES ASSUME ParamsInv, [Next]_vars PROVE ParamsInv'
    OBVIOUS
  <2>1. CASE UNCHANGED vars
    <3>1. OwnReplication' = OwnReplication
      BY <2>1, DecodedKept DEF vars
    <3> QED
      BY <2>1, <3>1 DEF vars, ParamsInv, Recorded, SentOn
  <2>2. CASE Decode
    <3>1. SentOn'
      BY <2>2 DEF Decode, Refuse, SentOn
    <3> QED
      BY <2>2, <3>1, DecodeRecords DEF ParamsInv
  <2>3. CASE LoginAccepted \/ LoginRejected
    <3>1. OwnReplication' = OwnReplication
      BY <2>3, DecodedKept DEF LoginAccepted, LoginRejected
    <3> QED
      BY <2>3, <3>1 DEF LoginAccepted, LoginRejected, ParamsInv, Recorded, SentOn
  <2>4. CASE WriteStartup
    <3>1. OwnReplication' = OwnReplication
      BY <2>4, DecodedKept DEF WriteStartup
    <3>2. Recorded'
      BY <2>4, <3>1 DEF WriteStartup, ParamsInv, Recorded
    <3> QED
      BY <2>4, <3>2, WriteSendsOn DEF ParamsInv
  <2> QED
    BY <2>1, <2>2, <2>3, <2>4 DEF Next
<1> QED
  BY <1>1, <1>2, PTL DEF Spec

\* The backend session is opened for the user whose password was checked and
\* for the database the proxy recorded, whatever the packet and its options
\* say (conn.rs handle_startup_packet, pg_client.rs write_startup_message).
THEOREM IdentityCorrect == Spec => []OneIdentity
<1>1. ParamsInv => OneIdentity
  <2> SUFFICES ASSUME ParamsInv, phase = "sent" PROVE  /\ sent[<<"user">>] = user
                      /\ (IF sent[<<"database">>] = NoText THEN sent[<<"user">>] ELSE sent[<<"database">>]) = database
    BY DEF OneIdentity
  <2>1. /\ user # NoText /\ user = Get(params, <<"user">>, NoText)
        /\ database = DatabaseOf(params, user)
    BY DEF ParamsInv, Recorded
  <2>2. <<"user">> \in DOMAIN params /\ sent[<<"user">>] = user
    BY <2>1 DEF Get, ParamsInv, SentOn
  <2>3. CASE <<"database">> \in DOMAIN params
    BY <2>1, <2>2, <2>3 DEF ParamsInv, SentOn, DatabaseOf, Get
  <2>4. CASE <<"database">> \notin DOMAIN params
    BY <2>1, <2>2, <2>4 DEF ParamsInv, SentOn, DatabaseOf, Get
  <2> QED
    BY <2>2, <2>3, <2>4
<1> QED
  BY <1>1, ParamsInvariant, PTL

\* Replication is asked of the backend exactly as the packet's own parameter
\* asks for it, whatever the options hold (conn.rs handle_startup_packet).
THEOREM ReplicationCorrect == Spec => []ReplicationExplicit
<1>1. ParamsInv => ReplicationExplicit
  <2> SUFFICES ASSUME ParamsInv, phase = "sent"
               PROVE  /\ Get(sent, <<"replication">>, NoText) = OwnReplication
                      /\ replication_mode = ReplicationMode(OwnReplication)
    BY DEF ReplicationExplicit, OwnReplication
  <2>1. Get(sent, <<"replication">>, NoText) = Get(params, <<"replication">>, NoText)
    BY DEF ParamsInv, SentOn, Get
  <2> QED
    BY <2>1 DEF ParamsInv, Recorded
<1> QED
  BY <1>1, ParamsInvariant, PTL
-----------------------------------------------------------------------------
(* Induction and extremal elements, from the well-foundedness of < on Nat. *)

\* Every set of positions has a smallest one.
LEMMA LeastExists ==
  ASSUME NEW T \in SUBSET Nat, T # {}
  PROVE  \E x \in T : \A y \in T : x <= y
<1> DEFINE R == {p \in Nat \X Nat : p[1] < p[2]}
<1>1. IsWellFoundedOn(R, Nat)
  BY NatLessThanWellFounded DEF OpToRel
<1>2. PICK x \in T : \A y \in T : <<y, x>> \notin R
  <2> HIDE DEF R
  <2> QED
    BY <1>1, WFMin
<1>3. ASSUME NEW y \in T PROVE x <= y
  <2>1. x \in Nat /\ y \in Nat /\ (y < x => <<y, x>> \in R)
    OBVIOUS
  <2> HIDE DEF R
  <2> QED
    BY <1>2, <2>1
<1> QED
  BY <1>3

\* A set that has 0 and the successor of each of its numbers below m has all
\* numbers up to m: the loops below are followed with it.
LEMMA LoopInduction ==
  ASSUME NEW m \in Nat, NEW H, 0 \in H, \A n \in 0 .. m - 1 : n \in H => n + 1 \in H
  PROVE  \A n \in 0 .. m : n \in H
<1> SUFFICES ASSUME NEW n \in 0 .. m, n \notin H PROVE FALSE
  OBVIOUS
<1> DEFINE T == {i \in 0 .. m : i \notin H}
<1>1. T \in SUBSET Nat /\ n \in T
  OBVIOUS
<1>2. PICK x \in T : \A y \in T : x <= y
  <2> HIDE DEF T
  <2> QED
    BY <1>1, LeastExists
<1>3. x \in 0 .. m /\ x \notin H /\ x # 0
  OBVIOUS
<1>4. x - 1 \in 0 .. m - 1 /\ x - 1 \in 0 .. m /\ ~(x <= x - 1)
  BY <1>3
<1>5. x - 1 \in H
  BY <1>2, <1>4
<1>6. (x - 1) + 1 \in H
  BY <1>4, <1>5
<1> QED
  BY <1>3, <1>6

\* split_once finds the first equals sign.
LEMMA MinIsLeast ==
  ASSUME NEW T \in SUBSET Nat, T # {}
  PROVE  Min(T) \in T /\ \A y \in T : Min(T) <= y
BY LeastExists DEF Min

\* The last of several settings, and the longest run of backslashes.
LEMMA MaxIsGreatest ==
  ASSUME NEW T \in SUBSET Nat, T # {}, NEW n \in Nat, \A x \in T : x <= n
  PROVE  Max(T) \in T /\ \A y \in T : y <= Max(T)
<1> DEFINE D == {n - x : x \in T}
<1>1. D \in SUBSET Nat /\ D # {}
  OBVIOUS
<1>2. PICK d \in D : \A y \in D : d <= y
  <2> HIDE DEF D
  <2> QED
    BY <1>1, LeastExists
<1>3. PICK x \in T : d = n - x
  OBVIOUS
<1>4. \A y \in T : x >= y
  BY <1>2, <1>3
<1> QED
  BY <1>4 DEF Max
-----------------------------------------------------------------------------
(* The splitting loop. *)

SplitInit == [tokens |-> <<>>, curr |-> NoText, escaped |-> FALSE]

\* f is what the loop does up to lexeme m.
FollowsSplit(f, text, m) ==
  f = [n \in 0 .. m |-> IF n = 0 THEN SplitInit ELSE SplitLexeme(f[n - 1], text[n])]

\* The loop has a state after every lexeme.
LEMMA SplitStatesAre ==
  ASSUME NEW text, NEW m \in Nat, Len(text) = m
  PROVE  /\ SplitStates(text)[0] = SplitInit
         /\ \A n \in 1 .. m :
              SplitStates(text)[n] = SplitLexeme(SplitStates(text)[n - 1], text[n])
<1> DEFINE H == {n \in 0 .. m : \E f : FollowsSplit(f, text, n)}
<1>1. 0 \in H
  <2> DEFINE f == [n \in 0 .. 0 |-> SplitInit]
  <2>1. FollowsSplit(f, text, 0)
    BY DEF FollowsSplit
  <2> QED
    BY <2>1
<1>2. ASSUME NEW n \in 0 .. m - 1, n \in H PROVE n + 1 \in H
  <2>1. PICK f : FollowsSplit(f, text, n)
    BY <1>2
  <2> DEFINE step(g, i) == SplitLexeme(g[i - 1], text[i])
             g == [i \in 0 .. n + 1 |-> IF i = n + 1 THEN step(f, n + 1) ELSE f[i]]
  <2>2. \A i \in 0 .. n : f[i] = IF i = 0 THEN SplitInit ELSE step(f, i)
    BY <2>1 DEF FollowsSplit
  <2>3. ASSUME NEW i \in 0 .. n + 1, i # 0 PROVE step(g, i) = step(f, i)
    BY <2>3
  <2>4. \A i \in 0 .. n + 1 : g[i] = IF i = 0 THEN SplitInit ELSE step(g, i)
    <3> HIDE DEF step
    <3> SUFFICES ASSUME NEW i \in 0 .. n + 1
                 PROVE  g[i] = IF i = 0 THEN SplitInit ELSE step(g, i)
      OBVIOUS
    <3>1. CASE i = n + 1
      BY <2>3, <3>1
    <3>2. CASE i \in 0 .. n
      BY <2>2, <2>3, <3>2
    <3> QED
      BY <3>1, <3>2
  <2>5. FollowsSplit(g, text, n + 1)
    BY <2>4 DEF FollowsSplit
  <2> QED
    BY <2>5
<1>3. m \in H
  <2> HIDE DEF H
  <2>1. \A n \in 0 .. m : n \in H
    BY <1>1, <1>2, LoopInduction
  <2> QED
    BY <2>1
<1>4. \E f : FollowsSplit(f, text, m)
  BY <1>3
<1>5. SplitStates(text) = CHOOSE f : FollowsSplit(f, text, m)
  BY DEF SplitStates, FollowsSplit, SplitInit
<1>6. FollowsSplit(SplitStates(text), text, m)
  BY <1>4, <1>5
<1> QED
  BY <1>6 DEF FollowsSplit
-----------------------------------------------------------------------------
(* Escaping, one position at a time. *)

\* The lengths of the runs of backslashes that end before p.
RunsBefore(text, p) == {k \in 0 .. p - 1 : \A j \in p - k .. p - 1 : text[j] = Backslash}

\* The longest run of backslashes grows with each of them.
LEMMA RunStep ==
  ASSUME NEW text, NEW p \in Nat \ {0}
  PROVE  /\ Max(RunsBefore(text, p)) \in Nat
         /\ Max(RunsBefore(text, p + 1)) =
              IF text[p] = Backslash THEN Max(RunsBefore(text, p)) + 1 ELSE 0
<1> DEFINE T == RunsBefore(text, p)
           U == RunsBefore(text, p + 1)
<1>1. /\ T \in SUBSET Nat /\ T # {} /\ \A x \in T : x <= p
      /\ U \in SUBSET Nat /\ U # {} /\ \A x \in U : x <= p
  <2>1. 0 \in T /\ 0 \in U
    BY DEF RunsBefore
  <2>2. T \subseteq 0 .. p - 1 /\ U \subseteq 0 .. p
    BY DEF RunsBefore
  <2> HIDE DEF T, U
  <2> QED
    BY <2>1, <2>2
<1>2. Max(T) \in T /\ \A y \in T : y <= Max(T)
  <2> HIDE DEF T, U
  <2> QED
    BY <1>1, MaxIsGreatest
<1>3. Max(U) \in U /\ \A y \in U : y <= Max(U)
  <2> HIDE DEF T, U
  <2> QED
    BY <1>1, MaxIsGreatest
<1>4. PICK a \in Nat, b \in Nat : a = Max(T) /\ b = Max(U)
  BY <1>1, <1>2, <1>3
<1>5. CASE text[p] = Backslash
  <2>1. a + 1 \in U
    <3>1. a \in T
      BY <1>2, <1>4
    <3>2. a \in 0 .. p - 1 /\ \A j \in p - a .. p - 1 : text[j] = Backslash
      BY <3>1 DEF RunsBefore
    <3>3. \A j \in (p + 1) - (a + 1) .. (p + 1) - 1 : text[j] = Backslash
      BY <1>5, <3>2
    <3> QED
      BY <3>2, <3>3 DEF RunsBefore
  <2>2. b >= 1 /\ b - 1 \in T
    <3>1. b \in U /\ b >= a + 1
      BY <1>3, <1>4, <2>1
    <3>2. b \in 0 .. p /\ \A j \in (p + 1) - b .. (p + 1) - 1 : text[j] = Backslash
      BY <3>1 DEF RunsBefore
    <3>3. \A j \in p - (b - 1) .. p - 1 : text[j] = Backslash
      BY <3>1, <3>2
    <3> QED
      BY <3>1, <3>2, <3>3 DEF RunsBefore
  <2>3. b - 1 <= a /\ a + 1 <= b
    BY <1>2, <1>3, <1>4, <2>1, <2>2
  <2> QED
    BY <1>4, <1>5, <2>2, <2>3
<1>6. CASE text[p] # Backslash
  <2>1. ASSUME NEW k \in U PROVE k = 0
    <3>1. k \in 0 .. p /\ \A j \in (p + 1) - k .. (p + 1) - 1 : text[j] = Backslash
      BY DEF RunsBefore
    <3>2. p \notin (p + 1) - k .. (p + 1) - 1
      BY <1>6, <3>1
    <3> QED
      BY <3>1, <3>2
  <2>2. b = 0
    BY <1>3, <1>4, <2>1
  <2> QED
    BY <1>4, <1>6, <2>2
<1> QED
  BY <1>5, <1>6

\* The first position is not escaped, and a position is escaped by a
\* backslash before it that is not.
LEMMA EscapedStep ==
  ASSUME NEW text
  PROVE  /\ ~Escaped(text, 1)
         /\ \A p \in Nat \ {0} :
              Escaped(text, p + 1) <=> text[p] = Backslash /\ ~Escaped(text, p)
<1>1. \A p : Escaped(text, p) <=> Max(RunsBefore(text, p)) % 2 = 1
  BY DEF Escaped, RunsBefore
<1>2. Max(RunsBefore(text, 1)) = 0
  <2> DEFINE T == RunsBefore(text, 1)
  <2>1. T = {0}
    BY DEF RunsBefore
  <2>2. Max(T) \in T
    <3>1. T \in SUBSET Nat /\ T # {} /\ \A x \in T : x <= 0
      BY <2>1
    <3> HIDE DEF T
    <3> QED
      BY <3>1, MaxIsGreatest
  <2> QED
    BY <2>1, <2>2
<1>3. ASSUME NEW p \in Nat \ {0}
      PROVE  Escaped(text, p + 1) <=> text[p] = Backslash /\ ~Escaped(text, p)
  <2>1. PICK a \in Nat : a = Max(RunsBefore(text, p))
    BY RunStep
  <2>2. PICK b : b = Max(RunsBefore(text, p + 1))
    OBVIOUS
  <2>3. b = IF text[p] = Backslash THEN a + 1 ELSE 0
    BY <2>1, <2>2, RunStep
  <2>4. (a % 2 = 1 <=> (a + 1) % 2 # 1) /\ 0 % 2 # 1
    OBVIOUS
  <2>5. (Escaped(text, p) <=> a % 2 = 1) /\ (Escaped(text, p + 1) <=> b % 2 = 1)
    BY <1>1, <2>1, <2>2
  <2>6. CASE text[p] = Backslash
    BY <2>3, <2>4, <2>5, <2>6
  <2>7. CASE text[p] # Backslash
    BY <2>3, <2>4, <2>5, <2>7
  <2> QED
    BY <2>6, <2>7
<1>4. ~Escaped(text, 1)
  BY <1>1, <1>2
<1> QED
  BY <1>3, <1>4
-----------------------------------------------------------------------------
(* What the reference says of the first n positions of a text. *)

KeptTo(text, n) == {p \in Kept(text) : p <= n}
FirstsTo(text, n) == {p \in Firsts(text) : p <= n}
KeptIn(text, n, k) == {p \in KeptTo(text, n) : TokenOf(text)[p] = k}

\* A kept position has no cut behind it.
Open(text, n) ==
  \E q \in KeptTo(text, n) : \A r \in Cuts(text) : ~(q < r /\ r <= n)

\* The positions of interest are positions of the text.
LEMMA Positions ==
  ASSUME NEW text \in Seq(Lexemes)
  PROVE  /\ Kept(text) \subseteq 1 .. Len(text) /\ Cuts(text) \subseteq 1 .. Len(text)
         /\ Firsts(text) \subseteq Kept(text)
         /\ Len(text) \in Nat /\ DOMAIN text = 1 .. Len(text)
         /\ \A n : FirstsTo(text, n) \subseteq 1 .. Len(text)
         /\ \A n : KeptTo(text, n) \subseteq 1 .. Len(text)
         /\ \A n, k : KeptIn(text, n, k) \subseteq 1 .. Len(text)
<1>1. Len(text) \in Nat /\ DOMAIN text = 1 .. Len(text)
  OBVIOUS
<1>2. Kept(text) \subseteq 1 .. Len(text) /\ Cuts(text) \subseteq 1 .. Len(text)
  BY <1>1 DEF Kept, Cuts
<1>3. Firsts(text) \subseteq Kept(text)
  BY DEF Firsts
<1> QED
  BY <1>1, <1>2, <1>3 DEF FirstsTo, KeptTo, KeptIn

\* Sets of positions are finite.
LEMMA CountOf ==
  ASSUME NEW m \in Nat, NEW S, S \subseteq 1 .. m
  PROVE  IsFiniteSet(S) /\ Cardinality(S) \in Nat
<1>1. IsFiniteSet(1 .. m)
  BY FS_Interval
<1>2. IsFiniteSet(S)
  BY <1>1, FS_Subset
<1> QED
  BY <1>2, FS_CardinalityType

\* One more position counts one more.
LEMMA CountAdd ==
  ASSUME NEW m \in Nat, NEW S, S \subseteq 1 .. m, NEW x, x \notin S
  PROVE  Cardinality(S \cup {x}) = Cardinality(S) + 1
<1>1. IsFiniteSet(S)
  BY CountOf
<1> QED
  BY <1>1, FS_AddElement

\* The number of the token a position is in.
LEMMA TokenIs ==
  ASSUME NEW text, NEW p \in Kept(text)
  PROVE  TokenOf(text)[p] = Cardinality(FirstsTo(text, p))
BY DEF TokenOf, FirstsTo

\* Its place in the token.
LEMMA PlaceIs ==
  ASSUME NEW text, NEW p \in Kept(text)
  PROVE  PlaceOf(text)[p] = Cardinality(KeptIn(text, p, TokenOf(text)[p]))
<1>1. DOMAIN TokenOf(text) = Kept(text)
  BY DEF TokenOf
<1>2. PlaceOf(text)[p] =
        Cardinality({q \in Kept(text) : q <= p /\ TokenOf(text)[q] = TokenOf(text)[p]})
  BY <1>1 DEF PlaceOf
<1>3. {q \in Kept(text) : q <= p /\ TokenOf(text)[q] = TokenOf(text)[p]}
        = KeptIn(text, p, TokenOf(text)[p])
  BY DEF KeptIn, KeptTo
<1> QED
  BY <1>2, <1>3

\* What is kept up to the next position.
LEMMA KeptStep ==
  ASSUME NEW text \in Seq(Lexemes), NEW n \in 0 .. Len(text) - 1
  PROVE  /\ KeptTo(text, n + 1) =
              IF n + 1 \in Kept(text) THEN KeptTo(text, n) \cup {n + 1} ELSE KeptTo(text, n)
         /\ FirstsTo(text, n + 1) =
              IF n + 1 \in Firsts(text) THEN FirstsTo(text, n) \cup {n + 1} ELSE FirstsTo(text, n)
         /\ n + 1 \notin KeptTo(text, n) /\ n + 1 \notin FirstsTo(text, n)
<1>1. Len(text) \in Nat /\ Kept(text) \subseteq 1 .. Len(text) /\ Firsts(text) \subseteq 1 .. Len(text)
  BY Positions
<1>2. \A p \in 1 .. Len(text) : p <= n + 1 <=> p <= n \/ p = n + 1
  BY <1>1
<1>3. ~(n + 1 <= n)
  BY <1>1
<1> QED
  BY <1>1, <1>2, <1>3 DEF KeptTo, FirstsTo

\* A position that is kept begins a token when none is open.
LEMMA FirstStep ==
  ASSUME NEW text \in Seq(Lexemes), NEW n \in 0 .. Len(text) - 1, n + 1 \in Kept(text)
  PROVE  n + 1 \in Firsts(text) <=> ~Open(text, n)
<1>1. Len(text) \in Nat /\ Kept(text) \subseteq 1 .. Len(text) /\ Cuts(text) \subseteq 1 .. Len(text)
  BY Positions
<1>2. n + 1 \in Firsts(text) <=>
        \A q \in Kept(text) : q < n + 1 => \E r \in Cuts(text) : q < r /\ r < n + 1
  BY DEF Firsts
<1>3. \A q \in 1 .. Len(text) : q < n + 1 <=> q <= n
  BY <1>1
<1>4. Open(text, n) <=>
        \E q \in Kept(text) : q < n + 1 /\ \A r \in Cuts(text) : ~(q < r /\ r < n + 1)
  BY <1>1, <1>3 DEF Open, KeptTo
<1> QED
  BY <1>2, <1>4

\* A token is open after a position that is kept, and until a cut.
LEMMA OpenStep ==
  ASSUME NEW text \in Seq(Lexemes), NEW n \in 0 .. Len(text) - 1
  PROVE  /\ ~Open(text, 0)
         /\ n + 1 \in Kept(text) => Open(text, n + 1)
         /\ n + 1 \notin Kept(text) /\ n + 1 \in Cuts(text) => ~Open(text, n + 1)
         /\ n + 1 \notin Kept(text) /\ n + 1 \notin Cuts(text) =>
              (Open(text, n + 1) <=> Open(text, n))
<1>1. Len(text) \in Nat /\ Kept(text) \subseteq 1 .. Len(text) /\ Cuts(text) \subseteq 1 .. Len(text)
  BY Positions
<1>2. KeptTo(text, 0) = {}
  BY <1>1 DEF KeptTo
<1>3. n + 1 \in Kept(text) => Open(text, n + 1)
  BY <1>1 DEF Open, KeptTo
<1>4. n + 1 \notin Kept(text) => KeptTo(text, n + 1) = KeptTo(text, n)
  BY KeptStep
<1>5. n + 1 \notin Kept(text) /\ n + 1 \in Cuts(text) => ~Open(text, n + 1)
  <2> SUFFICES ASSUME n + 1 \notin Kept(text), n + 1 \in Cuts(text),
                      NEW q \in KeptTo(text, n)
               PROVE  q < n + 1 /\ n + 1 <= n + 1
    BY <1>4 DEF Open
  <2> QED
    BY <1>1 DEF KeptTo
<1>6. n + 1 \notin Cuts(text) => \A r \in Cuts(text) : r <= n + 1 <=> r <= n
  BY <1>1
<1>7. n + 1 \notin Kept(text) /\ n + 1 \notin Cuts(text) =>
        (Open(text, n + 1) <=> Open(text, n))
  BY <1>4, <1>6 DEF Open
<1> QED
  BY <1>2, <1>3, <1>5, <1>7 DEF Open
-----------------------------------------------------------------------------
(* The tokens of the first n positions. *)

Laid(text, n, full) ==
  /\ full \in Seq(Seq(Lexemes))
  /\ Len(full) = Cardinality(FirstsTo(text, n))
  /\ \A k \in 1 .. Len(full) : Len(full[k]) = Cardinality(KeptIn(text, n, k))
  /\ \A q \in KeptTo(text, n) :
       /\ TokenOf(text)[q] \in 1 .. Len(full)
       /\ PlaceOf(text)[q] \in 1 .. Len(full[TokenOf(text)[q]])
       /\ full[TokenOf(text)[q]][PlaceOf(text)[q]] = text[q]

\* What Append does to a sequence.
LEMMA Appended ==
  ASSUME NEW S, NEW seq \in Seq(S), NEW x \in S
  PROVE  /\ Append(seq, x) \in Seq(S)
         /\ Len(Append(seq, x)) = Len(seq) + 1
         /\ Append(seq, x)[Len(seq) + 1] = x
         /\ \A i \in 1 .. Len(seq) : Append(seq, x)[i] = seq[i]
BY AppendProperties

\* No position, no token.
LEMMA LaidNone ==
  ASSUME NEW text \in Seq(Lexemes)
  PROVE  Laid(text, 0, <<>>)
<1>1. KeptTo(text, 0) = {} /\ FirstsTo(text, 0) = {}
  BY Positions DEF KeptTo, FirstsTo
<1>2. Cardinality({}) = 0
  BY FS_EmptySet
<1>3. <<>> \in Seq(Seq(Lexemes)) /\ Len(<<>>) = 0
  OBVIOUS
<1>4. Len(<<>>) = Cardinality(FirstsTo(text, 0))
  BY <1>1, <1>2, <1>3
<1>5. \A k \in 1 .. Len(<<>>) : FALSE
  BY <1>3
<1> QED
  BY <1>1, <1>3, <1>4, <1>5 DEF Laid

\* A position that is not kept changes nothing.
LEMMA LaidDrop ==
  ASSUME NEW text \in Seq(Lexemes), NEW n \in 0 .. Len(text) - 1, n + 1 \notin Kept(text),
         NEW full, Laid(text, n, full)
  PROVE  Laid(text, n + 1, full)
<1>1. n + 1 \notin Firsts(text)
  BY Positions
<1>2. KeptTo(text, n + 1) = KeptTo(text, n) /\ FirstsTo(text, n + 1) = FirstsTo(text, n)
  BY <1>1, KeptStep
<1>3. \A k : KeptIn(text, n + 1, k) = KeptIn(text, n, k)
  BY <1>2 DEF KeptIn
<1> QED
  BY <1>2, <1>3 DEF Laid

\* What is counted anew when a position is kept in token k.
LEMMA KeptInStep ==
  ASSUME NEW text \in Seq(Lexemes), NEW n \in 0 .. Len(text) - 1, n + 1 \in Kept(text), NEW k
  PROVE  IF TokenOf(text)[n + 1] = k
         THEN Cardinality(KeptIn(text, n + 1, k)) = Cardinality(KeptIn(text, n, k)) + 1
         ELSE KeptIn(text, n + 1, k) = KeptIn(text, n, k)
<1>1. KeptTo(text, n + 1) = KeptTo(text, n) \cup {n + 1} /\ n + 1 \notin KeptTo(text, n)
  BY KeptStep
<1>2. CASE TokenOf(text)[n + 1] = k
  <2>1. KeptIn(text, n + 1, k) = KeptIn(text, n, k) \cup {n + 1} /\ n + 1 \notin KeptIn(text, n, k)
    BY <1>1, <1>2 DEF KeptIn
  <2>2. KeptIn(text, n, k) \subseteq 1 .. Len(text) /\ Len(text) \in Nat
    BY Positions
  <2>3. Cardinality(KeptIn(text, n, k) \cup {n + 1}) = Cardinality(KeptIn(text, n, k)) + 1
    BY <2>1, <2>2, CountAdd
  <2> QED
    BY <1>2, <2>1, <2>3
<1>3. CASE TokenOf(text)[n + 1] # k
  BY <1>1, <1>3 DEF KeptIn
<1> QED
  BY <1>2, <1>3

\* The first position of a token begins a sequence of its own.
LEMMA LaidNew ==
  ASSUME NEW text \in Seq(Lexemes), NEW n \in 0 .. Len(text) - 1, n + 1 \in Kept(text),
         ~Open(text, n), NEW full \in Seq(Seq(Lexemes)), Laid(text, n, full)
  PROVE  Laid(text, n + 1, Append(full, <<text[n + 1]>>))
<1>1. PICK l \in Nat : l = Len(full) /\ l = Cardinality(FirstsTo(text, n))
  BY DEF Laid
<1>2. PICK c \in Lexemes : c = text[n + 1]
  BY Positions
<1>3. PICK d : d = <<c>>
  OBVIOUS
<1>4. d \in Seq(Lexemes)
  BY <1>3
<1>5. 1 \in 1 .. Len(d) /\ Len(d) = 1 /\ d[1] = c
  BY <1>3
<1>6. PICK g : g = Append(full, d)
  OBVIOUS
<1>7. /\ g \in Seq(Seq(Lexemes))
      /\ Len(g) = l + 1 /\ g[l + 1] = d /\ \A k \in 1 .. l : g[k] = full[k]
  <2>1. /\ Append(full, d) \in Seq(Seq(Lexemes))
        /\ Len(Append(full, d)) = Len(full) + 1
        /\ Append(full, d)[Len(full) + 1] = d
        /\ \A i \in 1 .. Len(full) : Append(full, d)[i] = full[i]
    BY <1>4, Appended
  <2> QED
    BY <1>1, <1>6, <2>1, Zenon
<1>8. Cardinality(FirstsTo(text, n + 1)) = l + 1
  <2>1. n + 1 \in Firsts(text)
    BY FirstStep
  <2>2. FirstsTo(text, n + 1) = FirstsTo(text, n) \cup {n + 1} /\ n + 1 \notin FirstsTo(text, n)
    BY <2>1, KeptStep
  <2>3. FirstsTo(text, n) \subseteq 1 .. Len(text) /\ Len(text) \in Nat
    BY Positions
  <2>4. Cardinality(FirstsTo(text, n) \cup {n + 1}) = Cardinality(FirstsTo(text, n)) + 1
    BY <2>2, <2>3, CountAdd
  <2> QED
    BY <1>1, <2>2, <2>4
<1>9. TokenOf(text)[n + 1] = l + 1
  BY <1>8, TokenIs
<1>10. KeptIn(text, n, l + 1) = {}
  <2>1. \A q \in KeptTo(text, n) : TokenOf(text)[q] \in 1 .. l
    BY <1>1 DEF Laid
  <2> QED
    BY <2>1 DEF KeptIn
<1>11. Cardinality(KeptIn(text, n + 1, l + 1)) = 1
  <2>1. Cardinality(KeptIn(text, n + 1, l + 1)) = Cardinality(KeptIn(text, n, l + 1)) + 1
    BY <1>9, KeptInStep
  <2>2. Cardinality(KeptIn(text, n, l + 1)) = 0
    BY <1>10, FS_EmptySet
  <2> QED
    BY <2>1, <2>2
<1>12. \A k \in 1 .. l + 1 : Len(g[k]) = Cardinality(KeptIn(text, n + 1, k))
  <2>1. ASSUME NEW k \in 1 .. l PROVE Len(g[k]) = Cardinality(KeptIn(text, n + 1, k))
    <3>1. KeptIn(text, n + 1, k) = KeptIn(text, n, k)
      BY <1>9, KeptInStep
    <3>2. Len(full[k]) = Cardinality(KeptIn(text, n, k))
      BY <1>1 DEF Laid
    <3> QED
      BY <1>7, <3>1, <3>2
  <2>2. Len(g[l + 1]) = 1
    BY <1>5, <1>7
  <2>3. \A k \in 1 .. l + 1 : k \in 1 .. l \/ k = l + 1
    OBVIOUS
  <2> QED
    BY <1>11, <2>1, <2>2, <2>3
<1>13. PlaceOf(text)[n + 1] = 1
  BY <1>9, <1>11, PlaceIs
<1>14. ASSUME NEW q \in KeptTo(text, n + 1)
       PROVE  /\ TokenOf(text)[q] \in 1 .. l + 1
              /\ PlaceOf(text)[q] \in 1 .. Len(g[TokenOf(text)[q]])
              /\ g[TokenOf(text)[q]][PlaceOf(text)[q]] = text[q]
  <2>1. CASE q = n + 1
    <3>1. l + 1 \in 1 .. l + 1
      OBVIOUS
    <3> QED
      BY <1>2, <1>5, <1>7, <1>9, <1>13, <2>1, <3>1, Zenon
  <2>2. CASE q \in KeptTo(text, n)
    <3>1. PICK t, p : t = TokenOf(text)[q] /\ p = PlaceOf(text)[q]
      OBVIOUS
    <3>2. t \in 1 .. l /\ p \in 1 .. Len(full[t]) /\ full[t][p] = text[q]
      BY <1>1, <2>2, <3>1 DEF Laid
    <3>3. t \in 1 .. l + 1 /\ g[t] = full[t]
      BY <1>7, <3>2
    <3> QED
      BY <3>1, <3>2, <3>3
  <2> QED
    BY <2>1, <2>2, KeptStep
<1>15. Laid(text, n + 1, g)
  BY <1>7, <1>8, <1>12, <1>14 DEF Laid
<1> QED
  BY <1>2, <1>3, <1>6, <1>15

\* Any other position that is kept goes to the end of the last token.
LEMMA LaidMore ==
  ASSUME NEW text \in Seq(Lexemes), NEW n \in 0 .. Len(text) - 1, n + 1 \in Kept(text),
         Open(text, n), NEW tokens \in Seq(Seq(Lexemes)), NEW curr \in Seq(Lexemes),
         Laid(text, n, Append(tokens, curr))
  PROVE  Laid(text, n + 1, Append(tokens, Append(curr, text[n + 1])))
<1>1. PICK l \in Nat, m \in Nat : l = Len(tokens) /\ m = Len(curr)
  OBVIOUS
<1>2. PICK c \in Lexemes : c = text[n + 1]
  BY Positions
<1>3. PICK d : d = Append(curr, c)
  OBVIOUS
<1>4. d \in Seq(Lexemes) /\ Len(d) = m + 1 /\ d[m + 1] = c /\ \A i \in 1 .. m : d[i] = curr[i]
  BY <1>1, <1>3, Appended
<1>5. PICK f : f = Append(tokens, curr)
  OBVIOUS
<1>6. PICK g : g = Append(tokens, d)
  OBVIOUS
<1>7. Len(f) = l + 1 /\ f[l + 1] = curr /\ \A k \in 1 .. l : f[k] = tokens[k]
  BY <1>1, <1>5, Appended
<1>8. /\ g \in Seq(Seq(Lexemes))
      /\ Len(g) = l + 1 /\ g[l + 1] = d /\ \A k \in 1 .. l : g[k] = f[k]
  BY <1>1, <1>4, <1>6, <1>7, Appended
<1>9. Laid(text, n, f)
  BY <1>5
<1>10. Cardinality(FirstsTo(text, n + 1)) = l + 1
  <2>1. n + 1 \notin Firsts(text)
    BY FirstStep
  <2>2. FirstsTo(text, n + 1) = FirstsTo(text, n)
    BY <2>1, KeptStep
  <2> QED
    BY <1>7, <1>9, <2>2 DEF Laid
<1>11. TokenOf(text)[n + 1] = l + 1
  BY <1>10, TokenIs
<1>12. Cardinality(KeptIn(text, n, l + 1)) = m
  BY <1>1, <1>7, <1>9 DEF Laid
<1>13. Cardinality(KeptIn(text, n + 1, l + 1)) = m + 1
  <2>1. Cardinality(KeptIn(text, n + 1, l + 1)) = Cardinality(KeptIn(text, n, l + 1)) + 1
    BY <1>11, KeptInStep
  <2> QED
    BY <1>12, <2>1
<1>14. \A k \in 1 .. l + 1 : Len(g[k]) = Cardinality(KeptIn(text, n + 1, k))
  <2>1. ASSUME NEW k \in 1 .. l PROVE Len(g[k]) = Cardinality(KeptIn(text, n + 1, k))
    <3>1. KeptIn(text, n + 1, k) = KeptIn(text, n, k)
      BY <1>11, KeptInStep
    <3>2. Len(f[k]) = Cardinality(KeptIn(text, n, k))
      BY <1>7, <1>9 DEF Laid
    <3> QED
      BY <1>8, <3>1, <3>2
  <2>2. Len(g[l + 1]) = m + 1
    BY <1>4, <1>8
  <2> QED
    BY <1>13, <2>1, <2>2
<1>15. PlaceOf(text)[n + 1] = m + 1
  BY <1>11, <1>13, PlaceIs
<1>16. ASSUME NEW q \in KeptTo(text, n + 1)
       PROVE  /\ TokenOf(text)[q] \in 1 .. l + 1
              /\ PlaceOf(text)[q] \in 1 .. Len(g[TokenOf(text)[q]])
              /\ g[TokenOf(text)[q]][PlaceOf(text)[q]] = text[q]
  <2>1. CASE q = n + 1
    BY <1>2, <1>4, <1>8, <1>11, <1>15, <2>1
  <2>2. CASE q \in KeptTo(text, n)
    <3>1. PICK t, p : t = TokenOf(text)[q] /\ p = PlaceOf(text)[q]
      OBVIOUS
    <3>2. t \in 1 .. l + 1 /\ p \in 1 .. Len(f[t]) /\ f[t][p] = text[q]
      BY <1>7, <1>9, <2>2, <3>1 DEF Laid
    <3>3. CASE t = l + 1
      <4>1. p \in 1 .. m /\ curr[p] = text[q]
        BY <1>1, <1>7, <3>2, <3>3
      <4>2. p \in 1 .. Len(d) /\ d[p] = text[q]
        BY <1>4, <4>1
      <4> QED
        BY <1>8, <3>1, <3>2, <3>3, <4>2
    <3>4. CASE t \in 1 .. l
      <4>1. g[t] = f[t]
        BY <1>8, <3>4
      <4> QED
        BY <3>1, <3>2, <4>1
    <3> QED
      BY <3>2, <3>3, <3>4
  <2> QED
    BY <2>1, <2>2, KeptStep
<1>17. Laid(text, n + 1, g)
  BY <1>8, <1>10, <1>14, <1>16 DEF Laid
<1> QED
  BY <1>2, <1>3, <1>6, <1>17
-----------------------------------------------------------------------------
(* The loop keeps the tokens of the positions it has passed. *)

FullOf(tokens, curr) == IF curr = NoText THEN tokens ELSE Append(tokens, curr)

SplitState(tokens, curr, escaped) == [tokens |-> tokens, curr |-> curr, escaped |-> escaped]

NoneEmpty(tokens) == \A k \in 1 .. Len(tokens) : tokens[k] # NoText

\* What holds after lexeme n, with s the locals.
SplitInv(text, n, s) ==
  \E tokens \in Seq(Seq(Lexemes)), curr \in Seq(Lexemes), escaped \in BOOLEAN :
    /\ s = SplitState(tokens, curr, escaped)
    /\ escaped <=> Escaped(text, n + 1)
    /\ curr # NoText <=> Open(text, n)
    /\ Laid(text, n, FullOf(tokens, curr))
    /\ NoneEmpty(tokens)

\* An empty curr does not become a token.
LEMMA FullNoneEmpty ==
  ASSUME NEW tokens \in Seq(Seq(Lexemes)), NEW curr \in Seq(Lexemes), NoneEmpty(tokens)
  PROVE  NoneEmpty(FullOf(tokens, curr))
<1>1. CASE curr = NoText
  BY <1>1 DEF FullOf
<1>2. CASE curr # NoText
  <2>1. PICK l \in Nat : l = Len(tokens)
    OBVIOUS
  <2>2. PICK f : f = Append(tokens, curr)
    OBVIOUS
  <2>3. Len(f) = l + 1 /\ f[l + 1] = curr /\ \A k \in 1 .. l : f[k] = tokens[k]
    BY <2>1, <2>2, Appended
  <2>4. \A k \in 1 .. l + 1 : k \in 1 .. l \/ k = l + 1
    OBVIOUS
  <2>5. \A k \in 1 .. l : tokens[k] # NoText
    BY <2>1 DEF NoneEmpty
  <2>6. \A k \in 1 .. Len(f) : f[k] # NoText
    BY <1>2, <2>3, <2>4, <2>5
  <2> QED
    BY <1>2, <2>2, <2>6 DEF NoneEmpty, FullOf
<1> QED
  BY <1>1, <1>2

\* A lexeme that is kept goes to the end of curr.
LEMMA KeepStep ==
  ASSUME NEW text \in Seq(Lexemes), NEW n \in 0 .. Len(text) - 1, n + 1 \in Kept(text),
         NEW tokens \in Seq(Seq(Lexemes)), NEW curr \in Seq(Lexemes),
         curr # NoText <=> Open(text, n), Laid(text, n, FullOf(tokens, curr))
  PROVE  /\ Append(curr, text[n + 1]) \in Seq(Lexemes)
         /\ Append(curr, text[n + 1]) # NoText <=> Open(text, n + 1)
         /\ Laid(text, n + 1, FullOf(tokens, Append(curr, text[n + 1])))
<1>1. PICK c \in Lexemes : c = text[n + 1]
  BY Positions
<1>2. Append(curr, c) \in Seq(Lexemes) /\ Append(curr, c) # NoText
  <2>1. Append(curr, c) \in Seq(Lexemes) /\ Len(Append(curr, c)) = Len(curr) + 1
    BY Appended
  <2>2. Len(curr) + 1 # 0 /\ Len(NoText) = 0
    BY DEF NoText
  <2> QED
    BY <2>1, <2>2
<1>3. Open(text, n + 1)
  BY OpenStep
<1>4. FullOf(tokens, Append(curr, c)) = Append(tokens, Append(curr, c))
  BY <1>2 DEF FullOf
<1>5. CASE curr = NoText
  <2>1. Append(curr, c) = <<c>>
    BY <1>5 DEF NoText
  <2>2. Laid(text, n, tokens)
    BY <1>5 DEF FullOf
  <2>3. Laid(text, n + 1, Append(tokens, <<c>>))
    BY <1>1, <1>5, <2>2, LaidNew
  <2> QED
    BY <1>1, <1>2, <1>3, <1>4, <2>1, <2>3
<1>6. CASE curr # NoText
  <2>1. Laid(text, n, Append(tokens, curr))
    BY <1>6 DEF FullOf
  <2>2. Laid(text, n + 1, Append(tokens, Append(curr, c)))
    BY <1>1, <1>6, <2>1, LaidMore
  <2> QED
    BY <1>1, <1>2, <1>3, <1>4, <2>2
<1> QED
  BY <1>5, <1>6

\* The two special lexemes differ.
LEMMA BackslashNotSpace == Backslash # " "
BY DEF Backslash

\* Before the first lexeme.
LEMMA SplitInvInit ==
  ASSUME NEW text \in Seq(Lexemes)
  PROVE  SplitInv(text, 0, SplitInit)
<1>1. SplitInit = SplitState(<<>>, NoText, FALSE)
  BY DEF SplitInit, SplitState
<1>2. ~Escaped(text, 0 + 1)
  BY EscapedStep
<1>3. ~Open(text, 0)
  BY Positions DEF Open, KeptTo
<1>4. Laid(text, 0, FullOf(<<>>, NoText))
  BY LaidNone DEF FullOf
<1>5. <<>> \in Seq(Seq(Lexemes)) /\ NoText \in Seq(Lexemes)
  BY DEF NoText
<1>6. NoneEmpty(<<>>)
  BY DEF NoneEmpty
<1> QED
  BY <1>1, <1>2, <1>3, <1>4, <1>5, <1>6 DEF SplitInv

\* Each lexeme is kept, cuts or is dropped as the escaping rule says.
LEMMA SplitInvStep ==
  ASSUME NEW text \in Seq(Lexemes), NEW n \in 0 .. Len(text) - 1, NEW s, SplitInv(text, n, s)
  PROVE  SplitInv(text, n + 1, SplitLexeme(s, text[n + 1]))
<1>1. PICK tokens \in Seq(Seq(Lexemes)), curr \in Seq(Lexemes), escaped \in BOOLEAN :
        /\ s = SplitState(tokens, curr, escaped)
        /\ escaped <=> Escaped(text, n + 1)
        /\ curr # NoText <=> Open(text, n)
        /\ Laid(text, n, FullOf(tokens, curr))
        /\ NoneEmpty(tokens)
  BY DEF SplitInv
<1>2. n + 1 \in DOMAIN text /\ n + 1 \in Nat \ {0} /\ n \in Nat
  BY Positions
<1>3. PICK c \in Lexemes : c = text[n + 1]
  BY Positions
<1>4. Escaped(text, (n + 1) + 1) <=> c = Backslash /\ ~escaped
  BY <1>1, <1>2, <1>3, EscapedStep
<1>5. n + 1 \in Kept(text) <=> (c \in {" ", Backslash} => escaped)
  BY <1>1, <1>2, <1>3 DEF Kept
<1>6. n + 1 \in Cuts(text) <=> c = " " /\ ~escaped
  BY <1>1, <1>2, <1>3 DEF Cuts
<1>7. CASE n + 1 \in Kept(text)
  <2>1. SplitLexeme(s, c) = SplitState(tokens, Append(curr, c), FALSE)
    <3>1. CASE escaped
      BY <1>1, <3>1 DEF SplitLexeme, SplitState
    <3>2. CASE ~escaped /\ c # Backslash /\ c # " "
      BY <1>1, <3>2 DEF SplitLexeme, SplitState
    <3> QED
      BY <1>5, <1>7, <3>1, <3>2
  <2>2. /\ Append(curr, c) \in Seq(Lexemes)
        /\ Append(curr, c) # NoText <=> Open(text, n + 1)
        /\ Laid(text, n + 1, FullOf(tokens, Append(curr, c)))
    BY <1>1, <1>3, <1>7, KeepStep
  <2>3. ~Escaped(text, (n + 1) + 1)
    BY <1>4, <1>5, <1>7
  <2> QED
    BY <1>1, <1>3, <2>1, <2>2, <2>3 DEF SplitInv
<1>8. CASE ~escaped /\ c = Backslash
  <2>1. SplitLexeme(s, c) = SplitState(tokens, curr, TRUE)
    BY <1>1, <1>8 DEF SplitLexeme, SplitState
  <2>2. n + 1 \notin Kept(text) /\ n + 1 \notin Cuts(text)
    BY <1>5, <1>6, <1>8, BackslashNotSpace
  <2>3. Laid(text, n + 1, FullOf(tokens, curr)) /\ (Open(text, n + 1) <=> Open(text, n))
    BY <1>1, <2>2, LaidDrop, OpenStep
  <2> QED
    BY <1>1, <1>3, <1>4, <1>8, <2>1, <2>3 DEF SplitInv
<1>9. CASE ~escaped /\ c = " "
  <2>1. SplitLexeme(s, c) = SplitState(FullOf(tokens, curr), NoText, FALSE)
    BY <1>1, <1>9, BackslashNotSpace DEF SplitLexeme, SplitState, FullOf
  <2>2. n + 1 \notin Kept(text) /\ n + 1 \in Cuts(text)
    BY <1>5, <1>6, <1>9
  <2>3. Laid(text, n + 1, FullOf(tokens, curr)) /\ ~Open(text, n + 1)
    BY <1>1, <2>2, LaidDrop, OpenStep
  <2>4. FullOf(FullOf(tokens, curr), NoText) = FullOf(tokens, curr)
    BY DEF FullOf
  <2>5. FullOf(tokens, curr) \in Seq(Seq(Lexemes)) /\ NoText \in Seq(Lexemes)
    BY <2>3 DEF Laid, NoText
  <2>6. ~Escaped(text, (n + 1) + 1)
    BY <1>4, <1>9, BackslashNotSpace
  <2>7. NoneEmpty(FullOf(tokens, curr))
    BY <1>1, FullNoneEmpty
  <2> QED
    BY <1>3, <2>1, <2>3, <2>4, <2>5, <2>6, <2>7 DEF SplitInv
<1> QED
  BY <1>5, <1>7, <1>8, <1>9

\* split_option_tokens yields the tokens the escaping rule defines, none of
\* them empty, whatever the options string: separators and backslashes, escaped
\* and not, in any order and number (startup_config_parse_util.rs
\* split_option_tokens).
THEOREM SplitCorrect ==
  ASSUME NEW text \in Seq(Lexemes)
  PROVE  /\ split_option_tokens(text) \in Seq(Seq(Lexemes) \ {NoText})
         /\ IsSplit(text, split_option_tokens(text))
<1> DEFINE H == {n \in 0 .. Len(text) : SplitInv(text, n, SplitStates(text)[n])}
<1>1. Len(text) \in Nat
  BY Positions
<1>2. 0 \in H
  <2>1. SplitStates(text)[0] = SplitInit
    BY <1>1, SplitStatesAre
  <2> QED
    BY <1>1, <2>1, SplitInvInit
<1>3. ASSUME NEW n \in 0 .. Len(text) - 1, n \in H PROVE n + 1 \in H
  <2>1. n + 1 \in 1 .. Len(text) /\ (n + 1) - 1 = n /\ n + 1 \in 0 .. Len(text)
    BY <1>1
  <2>2. SplitStates(text)[n + 1] = SplitLexeme(SplitStates(text)[n], text[n + 1])
    BY <1>1, <2>1, SplitStatesAre
  <2>3. SplitInv(text, n, SplitStates(text)[n])
    BY <1>3
  <2>4. SplitInv(text, n + 1, SplitLexeme(SplitStates(text)[n], text[n + 1]))
    BY <2>3, SplitInvStep
  <2> QED
    BY <2>1, <2>2, <2>4
<1>4. SplitInv(text, Len(text), SplitStates(text)[Len(text)])
  <2>1. \A n \in 0 .. Len(text) : n \in H
    <3> HIDE DEF H
    <3> QED
      BY <1>1, <1>2, <1>3, LoopInduction
  <2> QED
    BY <1>1, <2>1
<1>5. PICK tokens \in Seq(Seq(Lexemes)), curr \in Seq(Lexemes), escaped \in BOOLEAN :
        /\ SplitStates(text)[Len(text)] = SplitState(tokens, curr, escaped)
        /\ Laid(text, Len(text), FullOf(tokens, curr))
        /\ NoneEmpty(tokens)
  BY <1>4 DEF SplitInv
<1>6. PICK full : full = FullOf(tokens, curr)
  OBVIOUS
<1>7. split_option_tokens(text) = full
  BY <1>5, <1>6 DEF split_option_tokens, SplitState, FullOf
<1>8. full \in Seq(Seq(Lexemes)) /\ NoneEmpty(full) /\ Laid(text, Len(text), full)
  BY <1>5, <1>6, FullNoneEmpty DEF Laid
<1>9. full \in Seq(Seq(Lexemes) \ {NoText})
  <2>1. \A k \in 1 .. Len(full) : full[k] \in Seq(Lexemes) \ {NoText}
    BY <1>8 DEF NoneEmpty
  <2>2. full = [k \in 1 .. Len(full) |-> full[k]] /\ Len(full) \in Nat
    BY <1>8
  <2>3. full \in [1 .. Len(full) -> Seq(Lexemes) \ {NoText}]
    BY <2>1, <2>2
  <2> QED
    <3> DEFINE S == Seq(Lexemes) \ {NoText}
    <3>1. Seq(S) = UNION {[1 .. n -> S] : n \in Nat}
      BY SeqDef
    <3>2. Len(full) \in Nat /\ full \in [1 .. Len(full) -> S]
      BY <2>2, <2>3
    <3> HIDE DEF S
    <3>3. full \in Seq(S)
      BY <3>1, <3>2
    <3> QED
      BY <3>3 DEF S
<1>10. KeptTo(text, Len(text)) = Kept(text) /\ FirstsTo(text, Len(text)) = Firsts(text)
  <2>1. \A p \in 1 .. Len(text) : p <= Len(text)
    BY <1>1
  <2>2. Kept(text) \subseteq 1 .. Len(text) /\ Firsts(text) \subseteq 1 .. Len(text)
    BY Positions
  <2> QED
    BY <2>1, <2>2 DEF KeptTo, FirstsTo
<1>11. DOMAIN TokenOf(text) = Kept(text)
  BY DEF TokenOf
<1>12. \A k : KeptIn(text, Len(text), k) = {p \in DOMAIN TokenOf(text) : TokenOf(text)[p] = k}
  BY <1>10, <1>11 DEF KeptIn
<1>13. DOMAIN full = 1 .. Len(full)
  BY <1>8
<1>14. /\ Len(full) = Cardinality(Firsts(text))
       /\ \A k \in DOMAIN full :
            Len(full[k]) = Cardinality({p \in DOMAIN TokenOf(text) : TokenOf(text)[p] = k})
       /\ \A p \in DOMAIN TokenOf(text) :
            full[TokenOf(text)[p]][PlaceOf(text)[p]] = text[p]
  <2>1. Len(full) = Cardinality(Firsts(text))
    BY <1>8, <1>10 DEF Laid
  <2>2. ASSUME NEW k \in DOMAIN full
        PROVE  Len(full[k]) = Cardinality({p \in DOMAIN TokenOf(text) : TokenOf(text)[p] = k})
    <3>1. Len(full[k]) = Cardinality(KeptIn(text, Len(text), k))
      BY <1>8, <1>13 DEF Laid
    <3> QED
      BY <1>12, <3>1
  <2>3. \A p \in DOMAIN TokenOf(text) : full[TokenOf(text)[p]][PlaceOf(text)[p]] = text[p]
    BY <1>8, <1>10, <1>11 DEF Laid
  <2> QED
    BY <2>1, <2>2, <2>3
<1>15. IsSplit(text, full)
  BY <1>14 DEF IsSplit
<1> QED
  BY <1>7, <1>9, <1>15
-----------------------------------------------------------------------------
(* A setting and its first equals sign. *)

\* split_key_value accepts a text with its first equals sign inside, and
\* splits it there.
LEMMA KeyValueAt ==
  ASSUME NEW text \in Seq(Lexemes)
  PROVE  /\ IsKeyValue(text) <=> \E e \in 2 .. Len(text) - 1 : IsFirstEquals(text, e)
         /\ IsKeyValue(text) => SplitAt(text) = FirstEquals(text)
<1>1. PICK l \in Nat : l = Len(text) /\ DOMAIN text = 1 .. l
  OBVIOUS
<1>2. EqualSigns(text) \in SUBSET Nat /\ EqualSigns(text) \subseteq 1 .. l
  BY <1>1 DEF EqualSigns
<1>3. ASSUME NEW e \in 1 .. l, IsFirstEquals(text, e)
      PROVE  EqualSigns(text) # {} /\ SplitAt(text) = e
  <2>1. e \in EqualSigns(text)
    BY <1>1, <1>3 DEF EqualSigns, IsFirstEquals
  <2>2. \A i \in EqualSigns(text) : e <= i
    BY <1>1, <1>3 DEF EqualSigns, IsFirstEquals
  <2>3. Min(EqualSigns(text)) \in EqualSigns(text) /\ Min(EqualSigns(text)) <= e
    BY <1>2, <2>1, MinIsLeast
  <2>4. e <= Min(EqualSigns(text))
    BY <2>2, <2>3
  <2> QED
    BY <1>2, <2>1, <2>3, <2>4 DEF SplitAt
<1>4. ASSUME EqualSigns(text) # {}
      PROVE  SplitAt(text) \in 1 .. l /\ IsFirstEquals(text, SplitAt(text))
  <2>1. PICK m : m = Min(EqualSigns(text))
    OBVIOUS
  <2>2. m \in EqualSigns(text) /\ \A i \in EqualSigns(text) : m <= i
    BY <1>2, <1>4, <2>1, MinIsLeast
  <2>3. m \in 1 .. l /\ text[m] = "="
    BY <1>1, <2>2 DEF EqualSigns
  <2>4. ASSUME NEW i \in 1 .. m - 1 PROVE text[i] # "="
    <3>1. i \in 1 .. l /\ ~(m <= i)
      BY <2>3
    <3> QED
      BY <1>1, <2>2, <3>1 DEF EqualSigns
  <2> QED
    BY <2>1, <2>3, <2>4 DEF SplitAt, IsFirstEquals
<1>5. ASSUME EqualSigns(text) # {} PROVE SplitAt(text) = FirstEquals(text)
  <2>1. \E e \in DOMAIN text : IsFirstEquals(text, e)
    BY <1>1, <1>4, <1>5
  <2>2. FirstEquals(text) \in DOMAIN text /\ IsFirstEquals(text, FirstEquals(text))
    BY <2>1 DEF FirstEquals
  <2> QED
    BY <1>1, <1>3, <2>2
<1>6. ASSUME NEW m \in 1 .. l, m = SplitAt(text)
      PROVE  (Key(text) # NoText <=> m >= 2) /\ (Value(text) # NoText <=> m <= l - 1)
  <2>1. Key(text) = SubSeq(text, 1, m - 1) /\ Value(text) = SubSeq(text, m + 1, l)
    BY <1>1, <1>6 DEF Key, Value
  <2>2. /\ Len(SubSeq(text, 1, m - 1)) = IF 1 <= m - 1 THEN (m - 1) - 1 + 1 ELSE 0
        /\ SubSeq(text, 1, m - 1) \in Seq(Lexemes)
    BY <1>1, SubSeqProperties
  <2>3. /\ Len(SubSeq(text, m + 1, l)) = IF m + 1 <= l THEN l - (m + 1) + 1 ELSE 0
        /\ SubSeq(text, m + 1, l) \in Seq(Lexemes)
    BY <1>1, SubSeqProperties
  <2>4. \A s \in Seq(Lexemes) : s # NoText <=> Len(s) # 0
    BY EmptySeq DEF NoText
  <2>5. Key(text) # NoText <=> Len(SubSeq(text, 1, m - 1)) # 0
    BY <2>1, <2>2, <2>4
  <2>6. Value(text) # NoText <=> Len(SubSeq(text, m + 1, l)) # 0
    BY <2>1, <2>3, <2>4
  <2>7. Key(text) # NoText <=> m >= 2
    BY <2>2, <2>5
  <2>8. Value(text) # NoText <=> m <= l - 1
    BY <2>3, <2>6
  <2> QED
    BY <2>7, <2>8
<1>7. ASSUME IsKeyValue(text) PROVE \E e \in 2 .. l - 1 : IsFirstEquals(text, e)
  <2>1. EqualSigns(text) # {} /\ Key(text) # NoText /\ Value(text) # NoText
    BY <1>7 DEF IsKeyValue
  <2>2. PICK m \in 1 .. l : m = SplitAt(text) /\ IsFirstEquals(text, m)
    BY <1>4, <2>1
  <2>3. m >= 2 /\ m <= l - 1
    BY <1>6, <2>1, <2>2
  <2> QED
    BY <2>2, <2>3
<1>8. ASSUME NEW e \in 2 .. l - 1, IsFirstEquals(text, e) PROVE IsKeyValue(text)
  <2>1. e \in 1 .. l /\ e >= 2 /\ e <= l - 1
    OBVIOUS
  <2>2. EqualSigns(text) # {} /\ SplitAt(text) = e
    BY <1>3, <1>8, <2>1
  <2>3. Key(text) # NoText /\ Value(text) # NoText
    BY <1>6, <2>1, <2>2
  <2> QED
    BY <2>2, <2>3 DEF IsKeyValue
<1> QED
  BY <1>1, <1>5, <1>7, <1>8 DEF IsKeyValue
-----------------------------------------------------------------------------
(* The loop over the tokens. *)

ParseState(awaiting, ok, parsed) == [awaiting |-> awaiting, ok |-> ok, parsed |-> parsed]
ParseInit == ParseState(FALSE, TRUE, Empty)

\* f is what the loop does up to token m.
FollowsParse(f, tokens, m) ==
  f = [n \in 0 .. m |-> IF n = 0 THEN ParseInit ELSE ParseToken(f[n - 1], tokens[n])]

\* The loop has a state after every token.
LEMMA ParseStatesAre ==
  ASSUME NEW tokens, NEW m \in Nat, Len(tokens) = m
  PROVE  /\ ParseStates(tokens)[0] = ParseInit
         /\ \A n \in 1 .. m :
              ParseStates(tokens)[n] = ParseToken(ParseStates(tokens)[n - 1], tokens[n])
<1> DEFINE H == {n \in 0 .. m : \E f : FollowsParse(f, tokens, n)}
<1>1. 0 \in H
  <2> DEFINE f == [n \in 0 .. 0 |-> ParseInit]
  <2>1. FollowsParse(f, tokens, 0)
    BY DEF FollowsParse
  <2> QED
    BY <2>1
<1>2. ASSUME NEW n \in 0 .. m - 1, n \in H PROVE n + 1 \in H
  <2>1. PICK f : FollowsParse(f, tokens, n)
    BY <1>2
  <2> DEFINE step(g, i) == ParseToken(g[i - 1], tokens[i])
             g == [i \in 0 .. n + 1 |-> IF i = n + 1 THEN step(f, n + 1) ELSE f[i]]
  <2>2. \A i \in 0 .. n : f[i] = IF i = 0 THEN ParseInit ELSE step(f, i)
    BY <2>1 DEF FollowsParse
  <2>3. ASSUME NEW i \in 0 .. n + 1, i # 0 PROVE step(g, i) = step(f, i)
    BY <2>3
  <2>4. \A i \in 0 .. n + 1 : g[i] = IF i = 0 THEN ParseInit ELSE step(g, i)
    <3> HIDE DEF step
    <3> SUFFICES ASSUME NEW i \in 0 .. n + 1
                 PROVE  g[i] = IF i = 0 THEN ParseInit ELSE step(g, i)
      OBVIOUS
    <3>1. CASE i = n + 1
      BY <2>3, <3>1
    <3>2. CASE i \in 0 .. n
      BY <2>2, <2>3, <3>2
    <3> QED
      BY <3>1, <3>2
  <2>5. FollowsParse(g, tokens, n + 1)
    BY <2>4 DEF FollowsParse
  <2> QED
    BY <2>5
<1>3. m \in H
  <2> HIDE DEF H
  <2>1. \A n \in 0 .. m : n \in H
    BY <1>1, <1>2, LoopInduction
  <2> QED
    BY <2>1
<1>4. \E f : FollowsParse(f, tokens, m)
  BY <1>3
<1>5. ParseStates(tokens) = CHOOSE f : FollowsParse(f, tokens, m)
  BY DEF ParseStates, FollowsParse, ParseInit, ParseState
<1>6. FollowsParse(ParseStates(tokens), tokens, m)
  BY <1>4, <1>5
<1> QED
  BY <1>6 DEF FollowsParse

\* The tokens so far are flags or settings.
FineTo(tokens, k) == \A j \in 1 .. k : IsFlag(tokens, j) \/ IsSetting(tokens, j)

\* The settings among the first k tokens.
SettingsTo(tokens, k) == {j \in 1 .. k : ~IsFlag(tokens, j)}

\* The map holds the last of the settings with each name.
Holds(parsed, tokens, k) ==
  /\ DOMAIN parsed = {SettingName(tokens, j) : j \in SettingsTo(tokens, k)}
  /\ \A j \in SettingsTo(tokens, k) :
       \/ parsed[SettingName(tokens, j)] = SettingValue(tokens, j)
       \/ \E i \in SettingsTo(tokens, k) : j < i /\ SettingName(tokens, i) = SettingName(tokens, j)

\* What holds after token k, with s the locals.
ParseInv(tokens, k, s) ==
  \E awaiting, ok, parsed :
    /\ awaiting \in BOOLEAN /\ ok \in BOOLEAN
    /\ s = ParseState(awaiting, ok, parsed)
    /\ ok <=> FineTo(tokens, k)
    /\ ok => (awaiting <=> k > 0 /\ IsFlag(tokens, k)) /\ Holds(parsed, tokens, k)

Tokens == Seq(Seq(Lexemes) \ {NoText})

\* The parts of a token.
LEMMA TokenParts ==
  ASSUME NEW tokens \in Tokens, NEW k \in 1 .. Len(tokens)
  PROVE  tokens[k] \in Seq(Lexemes) /\ Tail(tokens[k]) \in Seq(Lexemes)
<1>1. PICK t : t = tokens[k]
  OBVIOUS
<1>2. t \in Seq(Lexemes) /\ t # <<>>
  <2> DEFINE S == Seq(Lexemes) \ {NoText}
  <2>1. tokens \in Seq(S)
    BY DEF Tokens
  <2>2. t \in S
    <3> HIDE DEF S
    <3> QED
      BY <1>1, <2>1
  <2> QED
    BY <2>2 DEF NoText
<1>3. Tail(t) \in Seq(Lexemes)
  BY <1>2
<1> QED
  BY <1>1, <1>2, <1>3

\* After tokens that are fine, a "-c" is a flag: as an argument it would lack
\* an equals sign.
LEMMA FlagBefore ==
  ASSUME NEW tokens \in Tokens, NEW k \in 0 .. Len(tokens) - 1, FineTo(tokens, k)
  PROVE  IsArgument(tokens, k + 1) <=> k > 0 /\ IsFlag(tokens, k)
<1>1. Len(tokens) \in Nat /\ k \in Nat
  BY DEF Tokens
<1>2. IsArgument(tokens, k + 1) <=> k > 0 /\ tokens[k] = <<"-c">>
  <2>1. (k + 1) - 1 = k /\ (k + 1 > 1 <=> k > 0)
    BY <1>1
  <2> QED
    BY <2>1 DEF IsArgument
<1>3. ASSUME k > 0, tokens[k] = <<"-c">>, ~IsFlag(tokens, k) PROVE FALSE
  <2>1. IsSetting(tokens, k)
    BY <1>1, <1>3 DEF FineTo
  <2>2. Setting(tokens, k) = <<"-c">>
    BY <1>3 DEF IsFlag, Setting
  <2>3. Len(<<"-c">>) = 1 /\ 2 .. 1 - 1 = {}
    OBVIOUS
  <2>4. PICK e \in 2 .. Len(Setting(tokens, k)) - 1 : IsFirstEquals(Setting(tokens, k), e)
    BY <2>1 DEF IsSetting
  <2> QED
    BY <2>2, <2>3, <2>4
<1> QED
  BY <1>2, <1>3 DEF IsFlag

\* One more setting.
LEMMA HoldsInsert ==
  ASSUME NEW tokens \in Tokens, NEW k \in 0 .. Len(tokens) - 1, ~IsFlag(tokens, k + 1),
         NEW parsed, Holds(parsed, tokens, k)
  PROVE  Holds(Insert(parsed, SettingName(tokens, k + 1), SettingValue(tokens, k + 1)),
               tokens, k + 1)
<1>1. Len(tokens) \in Nat /\ k \in Nat
  BY DEF Tokens
<1>2. PICK name, value, map :
        /\ name = SettingName(tokens, k + 1) /\ value = SettingValue(tokens, k + 1)
        /\ map = Insert(parsed, name, value)
  OBVIOUS
<1>3. DOMAIN map = DOMAIN parsed \cup {name} /\ map[name] = value
      /\ \A n \in DOMAIN parsed : n # name => map[n] = parsed[n]
  BY <1>2 DEF Insert
<1>4. SettingsTo(tokens, k + 1) = SettingsTo(tokens, k) \cup {k + 1}
      /\ \A j \in SettingsTo(tokens, k) : j < k + 1
  BY <1>1 DEF SettingsTo
<1>5. DOMAIN map = {SettingName(tokens, j) : j \in SettingsTo(tokens, k + 1)}
  <2>1. DOMAIN parsed = {SettingName(tokens, j) : j \in SettingsTo(tokens, k)}
    BY DEF Holds
  <2> QED
    BY <1>2, <1>3, <1>4, <2>1
<1>6. ASSUME NEW j \in SettingsTo(tokens, k + 1)
      PROVE  \/ map[SettingName(tokens, j)] = SettingValue(tokens, j)
             \/ \E i \in SettingsTo(tokens, k + 1) :
                  j < i /\ SettingName(tokens, i) = SettingName(tokens, j)
  <2>1. CASE j = k + 1
    BY <1>2, <1>3, <2>1
  <2>2. CASE j \in SettingsTo(tokens, k) /\ SettingName(tokens, j) = name
    BY <1>2, <1>4, <2>2
  <2>3. CASE j \in SettingsTo(tokens, k) /\ SettingName(tokens, j) # name
    <3>1. SettingName(tokens, j) \in DOMAIN parsed
      BY <2>3 DEF Holds
    <3>2. map[SettingName(tokens, j)] = parsed[SettingName(tokens, j)]
      BY <1>3, <2>3, <3>1
    <3>3. \/ parsed[SettingName(tokens, j)] = SettingValue(tokens, j)
          \/ \E i \in SettingsTo(tokens, k) :
               j < i /\ SettingName(tokens, i) = SettingName(tokens, j)
      BY <2>3 DEF Holds
    <3> QED
      BY <1>4, <3>2, <3>3
  <2> QED
    BY <1>4, <2>1, <2>2, <2>3
<1>7. Holds(map, tokens, k + 1)
  BY <1>5, <1>6 DEF Holds
<1> QED
  BY <1>2, <1>7

\* A flag is no setting.
LEMMA HoldsFlag ==
  ASSUME NEW tokens \in Tokens, NEW k \in 0 .. Len(tokens) - 1, IsFlag(tokens, k + 1),
         NEW parsed, Holds(parsed, tokens, k)
  PROVE  Holds(parsed, tokens, k + 1)
<1>1. Len(tokens) \in Nat /\ k \in Nat
  BY DEF Tokens
<1>2. SettingsTo(tokens, k + 1) = SettingsTo(tokens, k)
  BY <1>1 DEF SettingsTo
<1> QED
  BY <1>2 DEF Holds

\* What the loop does with a token that is no flag, after tokens that are fine.
LEMMA SettingStep ==
  ASSUME NEW tokens \in Tokens, NEW k \in 0 .. Len(tokens) - 1,
         NEW awaiting \in BOOLEAN, awaiting <=> IsArgument(tokens, k + 1),
         ~IsFlag(tokens, k + 1), NEW parsed
  PROVE  ParseToken(ParseState(awaiting, TRUE, parsed), tokens[k + 1]) =
           IF IsSetting(tokens, k + 1)
           THEN ParseState(FALSE, TRUE,
                           Insert(parsed, SettingName(tokens, k + 1), SettingValue(tokens, k + 1)))
           ELSE ParseState(FALSE, FALSE, parsed)
<1>1. Len(tokens) \in Nat /\ k + 1 \in 1 .. Len(tokens)
  BY DEF Tokens
<1>2. PICK token : token = tokens[k + 1]
  OBVIOUS
<1>3. PICK body : body = IF awaiting THEN token ELSE Tail(token)
  OBVIOUS
<1>4. body \in Seq(Lexemes) /\ body = Setting(tokens, k + 1)
  <2>1. token \in Seq(Lexemes) /\ Tail(token) \in Seq(Lexemes)
    BY <1>1, <1>2, TokenParts
  <2> QED
    BY <1>2, <1>3, <2>1 DEF Setting
<1>5. ~(~awaiting /\ token = <<"-c">>)
  BY <1>2 DEF IsFlag
<1>6. (awaiting \/ token[1] \in {"-c", "--"}) /\ IsKeyValue(body) <=> IsSetting(tokens, k + 1)
  BY <1>2, <1>4, KeyValueAt DEF IsSetting
<1> DEFINE key == IF ~awaiting /\ token[1] = "--" THEN Underscored(Key(body)) ELSE Key(body)
<1>7. ASSUME IsKeyValue(body)
      PROVE  key = SettingName(tokens, k + 1) /\ Value(body) = SettingValue(tokens, k + 1)
  <2>1. SplitAt(body) = FirstEquals(body)
    BY <1>4, <1>7, KeyValueAt
  <2>2. /\ Key(body) = SubSeq(body, 1, FirstEquals(body) - 1)
        /\ Value(body) = SubSeq(body, FirstEquals(body) + 1, Len(body))
    BY <2>1 DEF Key, Value
  <2>3. Value(body) = SettingValue(tokens, k + 1)
    BY <1>4, <2>2 DEF SettingValue
  <2>4. key = SettingName(tokens, k + 1)
    BY <1>2, <1>4, <2>2 DEF SettingName
  <2> QED
    BY <2>3, <2>4
<1>8. ParseToken(ParseState(awaiting, TRUE, parsed), token) =
        IF (awaiting \/ token[1] \in {"-c", "--"}) /\ IsKeyValue(body)
        THEN ParseState(FALSE, TRUE, Insert(parsed, key, Value(body)))
        ELSE ParseState(FALSE, FALSE, parsed)
  <2>1. PICK s : s = ParseState(awaiting, TRUE, parsed)
    OBVIOUS
  <2>2. s.awaiting = awaiting /\ s.ok = TRUE /\ s.parsed = parsed
    BY <2>1 DEF ParseState
  <2>3. PICK map : map = Insert(parsed, key, Value(body))
    OBVIOUS
  <2>4. /\ [s EXCEPT !.ok = FALSE, !.awaiting = FALSE] = ParseState(FALSE, FALSE, parsed)
        /\ [s EXCEPT !.awaiting = FALSE, !.parsed = map] = ParseState(FALSE, TRUE, map)
    <3>1. PICK yes, no : yes = TRUE /\ no = FALSE
      OBVIOUS
    <3>2. s = [awaiting |-> awaiting, ok |-> yes, parsed |-> parsed]
      BY <2>1, <3>1 DEF ParseState
    <3>3. [s EXCEPT !.ok = no, !.awaiting = no] = [awaiting |-> no, ok |-> no, parsed |-> parsed]
      <4>1. PICK r : r = [s EXCEPT !.ok = no]
        OBVIOUS
      <4>2. r = [awaiting |-> awaiting, ok |-> no, parsed |-> parsed]
        BY <3>2, <4>1
      <4>3. [r EXCEPT !.awaiting = no] = [awaiting |-> no, ok |-> no, parsed |-> parsed]
        BY <4>2
      <4>4. [s EXCEPT !.ok = no, !.awaiting = no] = [r EXCEPT !.awaiting = no]
        BY <4>1
      <4> QED
        BY <4>3, <4>4
    <3>4. [s EXCEPT !.awaiting = no, !.parsed = map] = [awaiting |-> no, ok |-> yes, parsed |-> map]
      <4>1. PICK r : r = [s EXCEPT !.awaiting = no]
        OBVIOUS
      <4>2. r = [awaiting |-> no, ok |-> yes, parsed |-> parsed]
        BY <3>2, <4>1
      <4>3. [r EXCEPT !.parsed = map] = [awaiting |-> no, ok |-> yes, parsed |-> map]
        BY <4>2
      <4>4. [s EXCEPT !.awaiting = no, !.parsed = map] = [r EXCEPT !.parsed = map]
        BY <4>1
      <4> QED
        BY <4>3, <4>4
    <3> QED
      BY <3>1, <3>3, <3>4 DEF ParseState
  <2>5. ParseToken(s, token) =
          IF ~s.awaiting /\ token = <<"-c">> THEN [s EXCEPT !.awaiting = TRUE]
          ELSE IF ~s.ok \/ ~(s.awaiting \/ token[1] \in {"-c", "--"}) \/ ~IsKeyValue(body)
          THEN [s EXCEPT !.ok = FALSE, !.awaiting = FALSE]
          ELSE [s EXCEPT !.awaiting = FALSE, !.parsed = Insert(s.parsed, key, Value(body))]
    BY <1>3, <2>2 DEF ParseToken
  <2> HIDE DEF key
  <2>6. CASE (awaiting \/ token[1] \in {"-c", "--"}) /\ IsKeyValue(body)
    <3>1. ParseToken(s, token) = [s EXCEPT !.awaiting = FALSE, !.parsed = map]
      BY <1>5, <2>2, <2>3, <2>5, <2>6
    <3> QED
      BY <2>1, <2>3, <2>4, <2>6, <3>1
  <2>7. CASE ~((awaiting \/ token[1] \in {"-c", "--"}) /\ IsKeyValue(body))
    <3>1. ParseToken(s, token) = [s EXCEPT !.ok = FALSE, !.awaiting = FALSE]
      BY <1>5, <2>2, <2>5, <2>7
    <3> QED
      BY <2>1, <2>4, <2>7, <3>1
  <2> QED
    BY <2>6, <2>7
<1> HIDE DEF key
<1> QED
  BY <1>2, <1>6, <1>7, <1>8

\* Before the first token.
LEMMA ParseInvInit ==
  ASSUME NEW tokens \in Tokens
  PROVE  ParseInv(tokens, 0, ParseInit)
<1>1. FineTo(tokens, 0)
  BY DEF FineTo
<1>2. SettingsTo(tokens, 0) = {}
  BY DEF SettingsTo
<1>3. DOMAIN Empty = {}
  BY DEF Empty
<1>4. Holds(Empty, tokens, 0)
  BY <1>2, <1>3 DEF Holds
<1>5. ~(0 > 0)
  OBVIOUS
<1>6. PICK yes \in BOOLEAN, no \in BOOLEAN : yes = TRUE /\ no = FALSE
  OBVIOUS
<1>7. ParseInit = ParseState(no, yes, Empty)
  BY <1>6 DEF ParseInit
<1> QED
  BY <1>1, <1>4, <1>5, <1>6, <1>7 DEF ParseInv

\* Each token is taken for what the reference says it is.
LEMMA ParseInvStep ==
  ASSUME NEW tokens \in Tokens, NEW k \in 0 .. Len(tokens) - 1, NEW s, ParseInv(tokens, k, s)
  PROVE  ParseInv(tokens, k + 1, ParseToken(s, tokens[k + 1]))
<1>1. PICK awaiting, ok, parsed :
        /\ awaiting \in BOOLEAN /\ ok \in BOOLEAN
        /\ s = ParseState(awaiting, ok, parsed)
        /\ ok <=> FineTo(tokens, k)
        /\ ok => (awaiting <=> k > 0 /\ IsFlag(tokens, k)) /\ Holds(parsed, tokens, k)
  BY DEF ParseInv
<1>2. Len(tokens) \in Nat /\ k \in Nat
  BY DEF Tokens
<1>3. FineTo(tokens, k + 1) <=>
        FineTo(tokens, k) /\ (IsFlag(tokens, k + 1) \/ IsSetting(tokens, k + 1))
  BY <1>2 DEF FineTo
<1>4. k + 1 > 0
  BY <1>2
<1>5. PICK yes \in BOOLEAN, no \in BOOLEAN : yes = TRUE /\ no = FALSE
  OBVIOUS
<1>6. PICK t : t = ParseToken(s, tokens[k + 1])
  OBVIOUS
<1>7. CASE ~ok
  <2>1. \E a, p : a \in BOOLEAN /\ t = ParseState(a, no, p)
    <3>1. s.ok = FALSE /\ s.awaiting = awaiting /\ s.parsed = parsed
      BY <1>1, <1>7 DEF ParseState
    <3>2. \/ t = [s EXCEPT !.awaiting = yes]
          \/ t = [s EXCEPT !.ok = no, !.awaiting = no]
      BY <1>5, <1>6, <3>1 DEF ParseToken
    <3>3. s = [awaiting |-> awaiting, ok |-> no, parsed |-> parsed]
      BY <1>1, <1>5, <1>7 DEF ParseState
    <3>4. [s EXCEPT !.awaiting = yes] = [awaiting |-> yes, ok |-> no, parsed |-> parsed]
      BY <3>3
    <3>5. [s EXCEPT !.ok = no, !.awaiting = no] = [awaiting |-> no, ok |-> no, parsed |-> parsed]
      <4>1. PICK r : r = [s EXCEPT !.ok = no]
        OBVIOUS
      <4>2. r = [awaiting |-> awaiting, ok |-> no, parsed |-> parsed]
        BY <3>3, <4>1
      <4>3. [r EXCEPT !.awaiting = no] = [awaiting |-> no, ok |-> no, parsed |-> parsed]
        BY <4>2
      <4>4. [s EXCEPT !.ok = no, !.awaiting = no] = [r EXCEPT !.awaiting = no]
        BY <4>1
      <4> QED
        BY <4>3, <4>4
    <3>6. t = ParseState(yes, no, parsed) \/ t = ParseState(no, no, parsed)
      BY <3>2, <3>4, <3>5 DEF ParseState
    <3> QED
      BY <3>6
  <2>2. PICK a, p : a \in BOOLEAN /\ t = ParseState(a, no, p)
    BY <2>1
  <2>3. ~FineTo(tokens, k + 1)
    BY <1>1, <1>3, <1>7
  <2>4. ParseInv(tokens, k + 1, t)
    BY <1>5, <2>2, <2>3 DEF ParseInv
  <2> QED
    BY <1>6, <2>4
<1>8. CASE ok /\ IsFlag(tokens, k + 1)
  <2>1. ~awaiting /\ tokens[k + 1] = <<"-c">>
    BY <1>1, <1>8, FlagBefore DEF IsFlag
  <2>2. t = ParseState(yes, yes, parsed)
    <3>1. s = [awaiting |-> awaiting, ok |-> yes, parsed |-> parsed] /\ s.awaiting = awaiting
      BY <1>1, <1>5, <1>8 DEF ParseState
    <3>2. t = [s EXCEPT !.awaiting = yes]
      BY <1>5, <1>6, <2>1, <3>1 DEF ParseToken
    <3>3. [s EXCEPT !.awaiting = yes] = [awaiting |-> yes, ok |-> yes, parsed |-> parsed]
      BY <3>1
    <3> QED
      BY <3>2, <3>3 DEF ParseState
  <2>3. Holds(parsed, tokens, k + 1)
    BY <1>1, <1>8, HoldsFlag
  <2>4. FineTo(tokens, k + 1)
    BY <1>1, <1>3, <1>8
  <2>5. ParseInv(tokens, k + 1, t)
    BY <1>4, <1>5, <1>8, <2>2, <2>3, <2>4 DEF ParseInv
  <2> QED
    BY <1>6, <2>5
<1>9. CASE ok /\ ~IsFlag(tokens, k + 1)
  <2>1. awaiting <=> IsArgument(tokens, k + 1)
    BY <1>1, <1>9, FlagBefore
  <2>2. s = ParseState(awaiting, TRUE, parsed)
    BY <1>1, <1>9
  <2>3. PICK map : map = Insert(parsed, SettingName(tokens, k + 1), SettingValue(tokens, k + 1))
    OBVIOUS
  <2>4. t = IF IsSetting(tokens, k + 1) THEN ParseState(no, yes, map)
            ELSE ParseState(no, no, parsed)
    <3>1. awaiting \in BOOLEAN
      BY <1>1
    <3> QED
      BY <1>5, <1>6, <1>9, <2>1, <2>2, <2>3, <3>1, SettingStep
  <2>5. Holds(map, tokens, k + 1)
    BY <1>1, <1>9, <2>3, HoldsInsert
  <2>6. FineTo(tokens, k + 1) <=> IsSetting(tokens, k + 1)
    BY <1>1, <1>3, <1>9
  <2>7. CASE IsSetting(tokens, k + 1)
    <3>1. ParseInv(tokens, k + 1, t)
      BY <1>5, <1>9, <2>4, <2>5, <2>6, <2>7 DEF ParseInv
    <3> QED
      BY <1>6, <3>1
  <2>8. CASE ~IsSetting(tokens, k + 1)
    <3>1. ParseInv(tokens, k + 1, t)
      BY <1>5, <2>4, <2>6, <2>8 DEF ParseInv
    <3> QED
      BY <1>6, <3>1
  <2> QED
    BY <2>7, <2>8
<1> QED
  BY <1>7, <1>8, <1>9

\* The names the settings have, with the value of the last one of each.
LastSettings(parsed, tokens) ==
  /\ DOMAIN parsed = {SettingName(tokens, k) : k \in SettingsOf(tokens)}
  /\ \A n \in DOMAIN parsed :
       parsed[n] = SettingValue(tokens, Max({k \in SettingsOf(tokens) : SettingName(tokens, k) = n}))

\* For every options string, parse_options accepts exactly the token lists that
\* are well-formed, and gives every name the value of the last setting of it:
\* "-c name=value", "-cname=value" and "--name=value" in any order and number,
\* a "-c" at the end, a "-c" as the argument of another
\* (startup_config_parse_util.rs parse_options).
THEOREM ParseCorrect ==
  ASSUME NEW text \in Seq(Lexemes), NEW tokens, tokens = split_option_tokens(text)
  PROVE  /\ parse_options(text).ok <=> OptionsOk(tokens)
         /\ parse_options(text).ok => LastSettings(parse_options(text).parsed, tokens)
<1>1. tokens \in Tokens
  BY SplitCorrect DEF Tokens
<1>2. PICK l \in Nat : l = Len(tokens) /\ DOMAIN tokens = 1 .. l
  BY <1>1 DEF Tokens
<1> DEFINE H == {k \in 0 .. l : ParseInv(tokens, k, ParseStates(tokens)[k])}
<1>3. 0 \in H
  <2>1. ParseStates(tokens)[0] = ParseInit
    BY <1>2, ParseStatesAre
  <2> QED
    BY <1>1, <2>1, ParseInvInit
<1>4. ASSUME NEW k \in 0 .. l - 1, k \in H PROVE k + 1 \in H
  <2>1. k + 1 \in 1 .. l /\ (k + 1) - 1 = k /\ k + 1 \in 0 .. l
    OBVIOUS
  <2>2. ParseStates(tokens)[k + 1] = ParseToken(ParseStates(tokens)[k], tokens[k + 1])
    BY <1>2, <2>1, ParseStatesAre
  <2>3. ParseInv(tokens, k, ParseStates(tokens)[k])
    BY <1>4
  <2>4. ParseInv(tokens, k + 1, ParseToken(ParseStates(tokens)[k], tokens[k + 1]))
    BY <1>1, <1>2, <2>3, ParseInvStep
  <2> QED
    BY <2>1, <2>2, <2>4
<1>5. ParseInv(tokens, l, ParseStates(tokens)[l])
  <2>1. \A k \in 0 .. l : k \in H
    <3> HIDE DEF H
    <3> QED
      BY <1>3, <1>4, LoopInduction
  <2> QED
    BY <2>1
<1>6. PICK awaiting, ok, parsed :
        /\ awaiting \in BOOLEAN /\ ok \in BOOLEAN
        /\ ParseStates(tokens)[l] = ParseState(awaiting, ok, parsed)
        /\ ok <=> FineTo(tokens, l)
        /\ ok => (awaiting <=> l > 0 /\ IsFlag(tokens, l)) /\ Holds(parsed, tokens, l)
  BY <1>5 DEF ParseInv
<1>7. (parse_options(text).ok <=> ok /\ ~awaiting) /\ parse_options(text).parsed = parsed
  <2>1. PICK s : s = ParseStates(tokens)[l]
    OBVIOUS
  <2>2. parse_options(text) = [ok |-> s.ok /\ ~s.awaiting, parsed |-> s.parsed]
    BY <1>2, <2>1 DEF parse_options
  <2>3. s.ok = ok /\ s.awaiting = awaiting /\ s.parsed = parsed
    BY <1>6, <2>1 DEF ParseState
  <2>4. PICK b \in BOOLEAN : b = (s.ok /\ ~s.awaiting)
    OBVIOUS
  <2>5. parse_options(text).ok = b /\ parse_options(text).parsed = s.parsed
    BY <2>2, <2>4
  <2> QED
    BY <2>3, <2>4, <2>5
<1>8. OptionsOk(tokens) <=> ok /\ ~awaiting
  <2>1. OptionsOk(tokens) <=>
          \A k \in 1 .. l : IF IsFlag(tokens, k) THEN k < l ELSE IsSetting(tokens, k)
    BY <1>2 DEF OptionsOk
  <2>2. ASSUME OptionsOk(tokens) PROVE ok /\ ~awaiting
    <3>1. ok
      BY <1>6, <2>1, <2>2 DEF FineTo
    <3>2. ~(l > 0 /\ IsFlag(tokens, l))
      BY <2>1, <2>2
    <3> QED
      BY <1>6, <3>1, <3>2
  <2>3. ASSUME ok, ~awaiting PROVE OptionsOk(tokens)
    <3>1. \A k \in 1 .. l : IsFlag(tokens, k) \/ IsSetting(tokens, k)
      BY <1>6, <2>3 DEF FineTo
    <3>2. ~IsFlag(tokens, l) \/ ~(l > 0)
      BY <1>6, <2>3
    <3>3. \A k \in 1 .. l : k < l \/ (k = l /\ l > 0)
      OBVIOUS
    <3> QED
      BY <2>1, <3>1, <3>2, <3>3
  <2> QED
    BY <2>2, <2>3
<1>9. SettingsTo(tokens, l) = SettingsOf(tokens)
  BY <1>2 DEF SettingsTo, SettingsOf
<1>10. ASSUME ok PROVE LastSettings(parsed, tokens)
  <2>1. /\ DOMAIN parsed = {SettingName(tokens, j) : j \in SettingsOf(tokens)}
        /\ \A j \in SettingsOf(tokens) :
             \/ parsed[SettingName(tokens, j)] = SettingValue(tokens, j)
             \/ \E i \in SettingsOf(tokens) : j < i /\ SettingName(tokens, i) = SettingName(tokens, j)
    BY <1>6, <1>9, <1>10 DEF Holds
  <2>2. ASSUME NEW n \in DOMAIN parsed
        PROVE  parsed[n] =
                 SettingValue(tokens, Max({k \in SettingsOf(tokens) : SettingName(tokens, k) = n}))
    <3> DEFINE T == {k \in SettingsOf(tokens) : SettingName(tokens, k) = n}
    <3>1. T # {} /\ T \subseteq 1 .. l
      BY <1>2, <2>1 DEF SettingsOf
    <3>2. Max(T) \in T /\ \A y \in T : y <= Max(T)
      <4> HIDE DEF T
      <4>1. T \in SUBSET Nat /\ \A x \in T : x <= l
        BY <3>1
      <4> QED
        BY <3>1, <4>1, MaxIsGreatest
    <3>3. PICK m \in T : m = Max(T) /\ \A y \in T : y <= m
      BY <3>2
    <3>4. ~\E i \in SettingsOf(tokens) : m < i /\ SettingName(tokens, i) = SettingName(tokens, m)
      <4>1. \A i \in T : ~(m < i)
        <5> HIDE DEF T
        <5> QED
          BY <3>1, <3>3
      <4> QED
        BY <4>1
    <3> QED
      BY <2>1, <3>3, <3>4
  <2> QED
    BY <2>1, <2>2 DEF LastSettings
<1> QED
  BY <1>7, <1>8, <1>10
-----------------------------------------------------------------------------
(* From the options string to the packet for the backend. *)

\* What parse_options made of the packet's options.
OptionsRead ==
  IF <<"options">> \in DOMAIN Decoded THEN parse_options(Decoded[<<"options">>])
  ELSE [ok |-> TRUE, parsed |-> Empty]

\* Once the packet is accepted, the parameters are its own merged with the
\* settings of well-formed options; `options` is not among those sent on.
AcceptedInv ==
  /\ strings \in Seq(Seq(Lexemes))
  /\ phase \in {"packet", "login", "linking", "sent", "refused"}
  /\ phase \in {"login", "linking", "sent"} =>
       LayoutOk /\ OptionsRead.ok /\ params = Merged(Decoded, OptionsRead.parsed)
  /\ phase = "sent" => <<"options">> \notin DOMAIN sent

\* What the loop of handle_startup_packet reads is a string of the packet.
LEMMA DecodedTyped ==
  ASSUME strings \in Seq(Seq(Lexemes)), LayoutOk, NEW n \in DOMAIN Decoded
  PROVE  Decoded[n] \in Seq(Lexemes)
<1>1. PICK l \in Nat : l = Len(strings) /\ l = Min(Terminators) /\ l > 0
  <2>1. Len(strings) \in Nat /\ DOMAIN strings = 1 .. Len(strings)
    OBVIOUS
  <2>2. Terminators \in SUBSET Nat /\ Terminators # {} /\ Terminators \subseteq 1 .. Len(strings)
    <3>1. Terminators # {}
      BY DEF LayoutOk
    <3>2. Terminators \subseteq 1 .. Len(strings)
      BY <2>1 DEF Terminators
    <3> QED
      BY <2>1, <3>1, <3>2
  <2>3. Min(Terminators) \in Terminators
    BY <2>2, MinIsLeast
  <2> QED
    BY <2>1, <2>2, <2>3 DEF LayoutOk
<1> DEFINE names == {i \in 1 .. l - 1 : i % 2 = 1}
           T == {i \in names : strings[i] = n}
<1>2. /\ DOMAIN Decoded = {strings[i] : i \in names}
      /\ Decoded[n] = strings[Max(T) + 1]
  BY <1>1 DEF Decoded
<1>3. T # {} /\ T \subseteq 1 .. l - 1
  BY <1>2
<1>4. Max(T) \in T
  <2> HIDE DEF T
  <2>1. T \in SUBSET Nat /\ \A x \in T : x <= l
    BY <1>3
  <2> QED
    BY <1>3, <2>1, MaxIsGreatest
<1>5. PICK m \in 1 .. l - 1 : m = Max(T)
  BY <1>3, <1>4
<1>6. m + 1 \in 1 .. Len(strings)
  BY <1>1, <1>5
<1>7. strings[m + 1] \in Seq(Lexemes)
  BY <1>6
<1> QED
  BY <1>2, <1>5, <1>7

\* The packet is not read again.
LEMMA OptionsKept ==
  ASSUME UNCHANGED <<strings, fragment>>
  PROVE  OptionsRead' = OptionsRead /\ LayoutOk' = LayoutOk /\ Decoded' = Decoded
<1>1. Terminators' = Terminators
  BY DEF Terminators
<1>2. Decoded' = Decoded
  BY <1>1 DEF Decoded
<1>3. LayoutOk' = LayoutOk
  BY <1>1 DEF LayoutOk
<1> QED
  BY <1>2, <1>3 DEF OptionsRead, parse_options

\* Merging drops `options`, and a setting overrides the packet's own parameter.
LEMMA MergeOverrides ==
  ASSUME NEW map, NEW parsed
  PROVE  /\ <<"options">> \notin DOMAIN Merged(map, parsed)
         /\ \A n \in DOMAIN map \cup DOMAIN parsed :
              n \notin {<<"options">>, <<"replication">>} =>
                /\ n \in DOMAIN Merged(map, parsed)
                /\ Merged(map, parsed)[n] = IF n \in DOMAIN parsed THEN parsed[n] ELSE map[n]
<1> DEFINE r == <<"replication">>
           o == <<"options">>
<1> HIDE DEF r, o
<1>1. PICK rest : rest = Without(parsed, r)
  OBVIOUS
<1>2. PICK both : both = Extend(map, rest)
  OBVIOUS
<1>3. PICK merged : merged = Without(both, o)
  OBVIOUS
<1>4. DOMAIN rest = DOMAIN parsed \ {r} /\ \A n \in DOMAIN rest : rest[n] = parsed[n]
  BY <1>1 DEF Without
<1>5. /\ DOMAIN both = DOMAIN map \cup DOMAIN rest
      /\ \A n \in DOMAIN both : both[n] = IF n \in DOMAIN rest THEN rest[n] ELSE map[n]
  BY <1>2 DEF Extend
<1>6. DOMAIN merged = DOMAIN both \ {o} /\ \A n \in DOMAIN merged : merged[n] = both[n]
  BY <1>3 DEF Without
<1>7. /\ o \notin DOMAIN merged
      /\ \A n \in DOMAIN map \cup DOMAIN parsed :
           n \notin {o, r} =>
             /\ n \in DOMAIN merged
             /\ merged[n] = IF n \in DOMAIN parsed THEN parsed[n] ELSE map[n]
  BY <1>4, <1>5, <1>6
<1>8. Merged(map, parsed) = merged
  BY <1>1, <1>2, <1>3 DEF Merged, r, o
<1> QED
  BY <1>7, <1>8 DEF r, o

\* AcceptedInv holds of every packet a client may send.
THEOREM AcceptedInvariant == Spec => []AcceptedInv
<1>1. Init => AcceptedInv
  <2> SUFFICES ASSUME Init PROVE AcceptedInv
    OBVIOUS
  <2>1. PICK lay \in Layouts, o \in OptionTexts :
          strings = [i \in DOMAIN lay.strings |->
                       IF lay.strings[i] = OptionsHere THEN o ELSE lay.strings[i]]
    BY DEF Init
  <2>2. PICK s \in Seq(Seq(Lexemes)) : s = lay.strings
    <3>1. lay \in [strings : Seq(Seq(Lexemes)), fragment : BOOLEAN]
      BY ParamsConstants
    <3> QED
      BY <3>1
  <2>3. o \in Seq(Lexemes)
    BY ParamsConstants
  <2>4. strings = [i \in 1 .. Len(s) |-> IF s[i] = OptionsHere THEN o ELSE s[i]]
    BY <2>1, <2>2
  <2>5. \A i \in 1 .. Len(s) : s[i] \in Seq(Lexemes)
    OBVIOUS
  <2>6. strings \in [1 .. Len(s) -> Seq(Lexemes)] /\ Len(s) \in Nat
    BY <2>3, <2>4, <2>5
  <2>7. strings \in Seq(Seq(Lexemes))
    <3> DEFINE S == Seq(Lexemes)
    <3>1. Seq(S) = UNION {[1 .. n -> S] : n \in Nat}
      BY SeqDef
    <3>2. strings \in [1 .. Len(s) -> S] /\ Len(s) \in Nat
      BY <2>6
    <3> HIDE DEF S
    <3>3. strings \in Seq(S)
      BY <3>1, <3>2
    <3> QED
      BY <3>3 DEF S
  <2> QED
    BY <2>7 DEF Init, AcceptedInv
<1>2. AcceptedInv /\ [Next]_vars => AcceptedInv'
  <2> SUFFICES ASSUME AcceptedInv, [Next]_vars PROVE AcceptedInv'
    OBVIOUS
  <2>1. UNCHANGED <<strings, fragment>>
    BY DEF Next, Decode, LoginAccepted, LoginRejected, WriteStartup, vars
  <2>2. OptionsRead' = OptionsRead /\ LayoutOk' = LayoutOk /\ Decoded' = Decoded
    BY <2>1, OptionsKept
  <2>3. CASE UNCHANGED vars
    BY <2>2, <2>3 DEF vars, AcceptedInv
  <2>4. CASE Decode
    <3>1. CASE phase' = "refused"
      BY <2>1, <3>1 DEF AcceptedInv
    <3>2. CASE phase' # "refused"
      <4>1. LayoutOk
        BY <2>4, <3>2 DEF Decode, Refuse
      <4>2. OptionsRead.ok /\ params' = Merged(Decoded, OptionsRead.parsed) /\ phase' = "login"
        BY <2>4, <3>2, <4>1 DEF Decode, Refuse, OptionsRead
      <4> QED
        BY <2>1, <2>2, <4>1, <4>2 DEF AcceptedInv
    <3> QED
      BY <3>1, <3>2
  <2>5. CASE LoginAccepted \/ LoginRejected
    BY <2>2, <2>5 DEF LoginAccepted, LoginRejected, AcceptedInv
  <2>6. CASE WriteStartup
    <3> DEFINE o == <<"options">>
    <3>1. o \notin DOMAIN params
      BY <2>6, MergeOverrides DEF WriteStartup, AcceptedInv
    <3>2. o \notin DOMAIN Defaults
      <4>1. PICK one : one = Insert(Empty, <<"user">>, user)
        OBVIOUS
      <4>2. PICK two : two = Insert(one, <<"database">>, database)
        OBVIOUS
      <4>3. Defaults = Insert(two, <<"application_name">>, <<"wirechaos">>)
        BY <4>1, <4>2 DEF Defaults
      <4>4. o # <<"user">> /\ o # <<"database">> /\ o # <<"application_name">>
        OBVIOUS
      <4> HIDE DEF o
      <4>5. o \notin DOMAIN one
        BY <4>1, <4>4 DEF Insert, Empty
      <4>6. o \notin DOMAIN two
        BY <4>2, <4>4, <4>5 DEF Insert
      <4> QED
        BY <4>3, <4>4, <4>6 DEF Insert
    <3>3. sent' = Extend(Defaults, params) /\ params' = params
      BY <2>6 DEF WriteStartup
    <3>4. o \notin DOMAIN sent'
      <4> HIDE DEF o
      <4> QED
        BY <3>1, <3>2, <3>3 DEF Extend
    <3> QED
      BY <2>2, <2>6, <3>4 DEF WriteStartup, AcceptedInv
  <2> QED
    BY <2>3, <2>4, <2>5, <2>6 DEF Next
<1> QED
  BY <1>1, <1>2, PTL DEF Spec

\* What an accepted packet's options amount to.
LEMMA OptionsReadCorrect ==
  ASSUME strings \in Seq(Seq(Lexemes)), LayoutOk, OptionsRead.ok
  PROVE  OptionsOk(OptionTokens) /\ LastSettings(OptionsRead.parsed, OptionTokens)
<1>1. CASE <<"options">> \in DOMAIN Decoded
  <2>1. PICK text \in Seq(Lexemes) : text = Decoded[<<"options">>]
    BY <1>1, DecodedTyped
  <2>2. PICK tokens : tokens = split_option_tokens(text)
    OBVIOUS
  <2>3. OptionTokens = tokens /\ OptionsRead = parse_options(text)
    BY <1>1, <2>1, <2>2 DEF OptionTokens, HasOptions, OptionsRead
  <2>4. parse_options(text).ok
    BY <2>3
  <2>5. OptionsOk(tokens)
    BY <2>2, <2>4, ParseCorrect
  <2>6. LastSettings(parse_options(text).parsed, tokens)
    BY <2>2, <2>4, ParseCorrect
  <2> QED
    BY <2>3, <2>5, <2>6
<1>2. CASE <<"options">> \notin DOMAIN Decoded
  <2>1. PICK tokens : tokens = <<>> /\ DOMAIN tokens = {}
    OBVIOUS
  <2>2. OptionTokens = tokens /\ OptionsRead.parsed = Empty
    BY <1>2, <2>1 DEF OptionTokens, HasOptions, OptionsRead
  <2>3. OptionsOk(tokens) /\ SettingsOf(tokens) = {}
    BY <2>1 DEF OptionsOk, SettingsOf
  <2>4. DOMAIN Empty = {}
    BY DEF Empty
  <2> QED
    BY <2>2, <2>3, <2>4 DEF LastSettings
<1> QED
  BY <1>1, <1>2

\* For every packet and every options string: the options are split as the
\* escaping rule says, a packet with malformed options is refused, and every
\* parameter sent to the backend has the value of the last option that sets
\* it, or else of the packet's last pair; `options` is never sent on (conn.rs
\* handle_startup_packet, startup_config_parse_util.rs parse_options).
THEOREM SettingsCorrect == Spec => []SettingsMatch
<1>1. ParamsInv /\ AcceptedInv => SettingsMatch
  <2> SUFFICES ASSUME ParamsInv, AcceptedInv PROVE SettingsMatch
    OBVIOUS
  <2> DEFINE tokens == OptionTokens
             set(n) == {k \in SettingsOf(tokens) : SettingName(tokens, k) = n}
  <2>1. strings \in Seq(Seq(Lexemes))
    BY DEF AcceptedInv
  <2>2. ASSUME HasOptions PROVE IsSplit(Decoded[<<"options">>], tokens)
    <3>1. PICK text \in Seq(Lexemes) : text = Decoded[<<"options">>]
      BY <2>1, <2>2, DecodedTyped DEF HasOptions
    <3>2. tokens = split_option_tokens(text)
      BY <2>2, <3>1 DEF OptionTokens
    <3> QED
      BY <3>1, <3>2, SplitCorrect
  <2>3. ASSUME phase \notin {"packet", "refused"}
        PROVE  /\ OptionsOk(tokens) /\ LastSettings(OptionsRead.parsed, tokens)
               /\ params = Merged(Decoded, OptionsRead.parsed)
    <3>1. LayoutOk /\ OptionsRead.ok /\ params = Merged(Decoded, OptionsRead.parsed)
      BY <2>3 DEF AcceptedInv
    <3> QED
      BY <2>1, <3>1, OptionsReadCorrect
  <2>4. ASSUME phase = "sent",
               NEW n \in DOMAIN Decoded \cup {SettingName(tokens, k) : k \in SettingsOf(tokens)},
               n \notin {<<"options">>, <<"replication">>}
        PROVE  /\ n \in DOMAIN sent
               /\ sent[n] = IF set(n) = {} THEN Decoded[n] ELSE SettingValue(tokens, Max(set(n)))
    <3>1. PICK parsed : parsed = OptionsRead.parsed
      OBVIOUS
    <3>2. params = Merged(Decoded, parsed) /\ LastSettings(parsed, tokens)
      BY <2>3, <2>4, <3>1
    <3>3. n \in DOMAIN Decoded \cup DOMAIN parsed
      BY <3>2 DEF LastSettings
    <3>4. n \in DOMAIN params /\ params[n] = IF n \in DOMAIN parsed THEN parsed[n] ELSE Decoded[n]
      BY <2>4, <3>2, <3>3, MergeOverrides
    <3>5. n \in DOMAIN sent /\ sent[n] = params[n]
      BY <2>4, <3>4 DEF ParamsInv, SentOn
    <3>6. n \in DOMAIN parsed <=> set(n) # {}
      BY <3>2 DEF LastSettings
    <3>7. n \in DOMAIN parsed => parsed[n] = SettingValue(tokens, Max(set(n)))
      BY <3>2 DEF LastSettings
    <3> QED
      BY <3>4, <3>5, <3>6, <3>7
  <2>5. phase = "sent" => <<"options">> \notin DOMAIN sent
    BY DEF AcceptedInv
  <2> HIDE DEF tokens
  <2>6. phase = "sent" =>
          \A n \in DOMAIN Decoded \cup {SettingName(tokens, k) : k \in SettingsOf(tokens)} :
            n \notin {<<"options">>, <<"replication">>} =>
              /\ n \in DOMAIN sent
              /\ sent[n] = IF set(n) = {} THEN Decoded[n] ELSE SettingValue(tokens, Max(set(n)))
    <3> HIDE DEF set
    <3> QED
      BY <2>4
  <2>7. phase \notin {"packet", "refused"} => OptionsOk(tokens)
    BY <2>3
  <2> QED
    BY <2>2, <2>5, <2>6, <2>7 DEF SettingsMatch, tokens
<1> QED
  BY <1>1, ParamsInvariant, AcceptedInvariant, PTL
=============================================================================
