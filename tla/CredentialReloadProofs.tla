----------------------- MODULE CredentialReloadProofs -----------------------
(***************************************************************************)
(* Theorems about CredentialReload, for any number of reloaders and any    *)
(* interleaving of them: type correctness, and that a reload nobody        *)
(* overlaps puts the store and its reports right.                          *)
(***************************************************************************)
EXTENDS CredentialReload, FiniteSetTheorems, TLAPS

\* Reloads that have begun and not stored yet: each may still raise the
\* generation by one.
InFlight == {r \in Reloaders : pc[r] \in {"read", "store"}}

\* Generations cannot outrun the reloads that were started, also when several
\* reloaders overtake each other between load_full and store.
GenerationsBounded ==
  /\ snapshot.generation + Cardinality(InFlight) <= started + 1
  /\ \A r \in Reloaders : pc[r] = "store" =>
       previous_generation[r] + Cardinality(InFlight) <= started + 1

\* What a reload carries past snapshot_from_yaml has validated.
TextsValid == \A r \in Reloaders : pc[r] = "store" => text[r] \in Maps

TypeInv == TypeOK /\ GenerationsBounded /\ TextsValid

\* The reloads under way can be counted.
LEMMA InFlightFinite == IsFiniteSet(InFlight) /\ Cardinality(InFlight) \in Nat
  BY ReloadConstants, FS_Subset, FS_CardinalityType DEF InFlight

\* from_file leaves every variable in its type.
LEMMA InitTypeInv == Init => TypeInv
<1> USE ReloadConstants DEF Generations
<1> SUFFICES ASSUME Init PROVE TypeInv
  OBVIOUS
<1>1. InFlight = {} /\ Cardinality(InFlight) = 0
  BY FS_EmptySet DEF Init, InFlight
<1>2. snapshot \in [generation : Generations, users : Maps]
  BY DEF Init
<1>b. {last_error, reloaded, alone} \subseteq BOOLEAN
  BY DEF Init
<1>3. TypeOK
  BY <1>2, <1>b DEF Init, TypeOK
<1> QED
  BY <1>1, <1>3 DEF Init, TypeInv, GenerationsBounded, TextsValid

\* reload_inner's steps from read_file to snapshot.store keep every variable in
\* its type, with any number of callers in between each other.
THEOREM TypeInvariant == Spec => []TypeInv
<1> USE ReloadConstants DEF Generations
<1>1. Init => TypeInv
  BY InitTypeInv
<1>2. TypeInv /\ [Next]_vars => TypeInv'
  <2> SUFFICES ASSUME TypeInv, [Next]_vars PROVE TypeInv'
    OBVIOUS
  <2> USE DEF TypeInv
  <2>f. IsFiniteSet(InFlight) /\ Cardinality(InFlight) \in Nat
    BY InFlightFinite
  <2>k. ASSUME InFlight' = InFlight,
               UNCHANGED <<snapshot, started, previous_generation>>,
               \A r \in Reloaders : pc'[r] = "store" => pc[r] = "store"
        PROVE  GenerationsBounded'
    BY <2>k DEF GenerationsBounded
  <2>1. CASE UNCHANGED vars
    BY <2>1, <2>k DEF vars, localVars, overlapVars, TypeOK, TextsValid, InFlight
  <2>2. ASSUME NEW r \in Reloaders, ReadFile(r) PROVE TypeInv'
    <3>1. r \notin InFlight /\ InFlight' = InFlight \cup {r}
      BY <2>2 DEF ReadFile, Goto, InFlight, TypeOK
    <3>2. Cardinality(InFlight') = Cardinality(InFlight) + 1
      BY <2>f, <3>1, FS_AddElement
    <3>3. GenerationsBounded'
      BY <2>2, <2>f, <3>2 DEF ReadFile, Goto, GenerationsBounded, TypeOK
    <3>4. {last_error, reloaded, alone}' \subseteq BOOLEAN
      BY <2>2 DEF ReadFile, Quiet, TypeOK
    <3> QED
      BY <2>2, <3>3, <3>4 DEF ReadFile, Goto, TypeOK, TextsValid
  <2>3. ASSUME NEW r \in Reloaders, RecordError(r) PROVE TypeInv'
    <3>1. r \in InFlight /\ InFlight' = InFlight \ {r}
      BY <2>3 DEF RecordError, Goto, InFlight, TypeOK
    <3>2. Cardinality(InFlight') = Cardinality(InFlight) - 1
      BY <2>f, <3>1, FS_RemoveElement
    <3>3. GenerationsBounded'
      BY <2>3, <2>f, <3>2 DEF RecordError, Goto, GenerationsBounded, TypeOK
    <3>4. {last_error, reloaded, alone}' \subseteq BOOLEAN
          /\ settled' \in {"no", "ok", "failed"}
      BY <2>3 DEF RecordError, Settle, TypeOK
    <3> QED
      BY <2>3, <3>3, <3>4 DEF RecordError, Goto, TypeOK, TextsValid
  <2>4. ASSUME NEW r \in Reloaders, LoadPrevious(r) PROVE TypeInv'
    <3>1. r \in InFlight /\ InFlight' = InFlight
      BY <2>4 DEF LoadPrevious, Goto, InFlight, TypeOK
    <3>2. Cardinality(InFlight) >= 1
      <4>1. Cardinality(InFlight) # 0
        BY <2>f, <3>1, FS_EmptySet
      <4> QED BY <2>f, <4>1
    <3>3. snapshot.generation \in 0 .. MaxReloads
      BY <2>f, <3>2 DEF GenerationsBounded, TypeOK
    <3>4. GenerationsBounded'
      BY <2>4, <2>f, <3>1 DEF LoadPrevious, Goto, GenerationsBounded, TypeOK
    <3> QED
      BY <2>4, <3>3, <3>4 DEF LoadPrevious, Valid, Goto, overlapVars, TypeOK, TextsValid
  <2>5. ASSUME NEW r \in Reloaders, StoreSnapshot(r) PROVE TypeInv'
    <3>1. r \in InFlight /\ InFlight' = InFlight \ {r}
      BY <2>5 DEF StoreSnapshot, Goto, InFlight, TypeOK
    <3>2. Cardinality(InFlight') = Cardinality(InFlight) - 1
      BY <2>f, <3>1, FS_RemoveElement
    <3>3. GenerationsBounded'
      BY <2>5, <2>f, <3>2 DEF StoreSnapshot, Installed, NextGeneration, Goto,
                              GenerationsBounded, TypeOK
    <3>4. text[r] \in Maps /\ NextGeneration(r) \in Generations
      BY <2>5 DEF StoreSnapshot, TextsValid, NextGeneration, TypeOK
    <3>5. snapshot' \in [generation : Generations, users : Maps]
      BY <2>5, <3>4 DEF StoreSnapshot, Installed
    <3>6. reloaded' \in BOOLEAN
      BY <2>5 DEF StoreSnapshot
    <3> QED
      BY <2>5, <3>3, <3>5, <3>6 DEF StoreSnapshot, Goto, overlapVars, TypeOK, TextsValid
  <2>6. ASSUME NEW r \in Reloaders, ClearError(r) \/ SetGauge(r) PROVE TypeInv'
    <3>1. InFlight' = InFlight
      BY <2>6 DEF ClearError, SetGauge, Goto, InFlight, TypeOK
    <3>2. GenerationsBounded'
      BY <2>6, <2>k, <3>1 DEF ClearError, SetGauge, Goto, TypeOK
    <3>3. {last_error, reloaded, alone}' \subseteq BOOLEAN
          /\ settled' \in {"no", "ok", "failed"}
      BY <2>6 DEF ClearError, SetGauge, Settle, overlapVars, TypeOK
    <3>4. NextGeneration(r) \in Generations
      BY DEF NextGeneration, TypeOK
    <3> QED
      BY <2>6, <3>2, <3>3, <3>4 DEF ClearError, SetGauge, Goto, TypeOK, TextsValid
  <2>7. ASSUME NEW c \in Maps \cup {Broken}, Edit(c) PROVE TypeInv'
    <3>1. InFlight' = InFlight
      BY <2>7 DEF Edit, localVars, InFlight
    <3>2. {last_error, reloaded, alone}' \subseteq BOOLEAN
      BY <2>7 DEF Edit, overlapVars, TypeOK
    <3> QED
      BY <2>7, <2>k, <3>1, <3>2 DEF Edit, localVars, overlapVars, TypeOK, TextsValid
  <2> QED
    BY <2>1, <2>2, <2>3, <2>4, <2>5, <2>6, <2>7 DEF Next
<1> QED
  BY <1>1, <1>2, PTL DEF Spec

\* Type correctness (store.rs Inner, Snapshot), for any number of reloaders.
THEOREM TypeCorrect == Spec => []TypeOK
  BY TypeInvariant, PTL DEF TypeInv
-----------------------------------------------------------------------------
(* A reload that no other overlaps. *)

\* While `alone` holds, at most one reload is under way, and nobody has changed
\* what it depends on since it began.
AloneInv ==
  alone => \A r \in Reloaders :
    /\ pc[r] # "idle" => \A q \in Reloaders \ {r} : pc[q] = "idle"
    /\ pc[r] \in {"read", "store"} /\ reloaded /\ text[r] # Broken => text[r] = file
    /\ pc[r] = "store" => previous_generation[r] = snapshot.generation
    /\ pc[r] \in {"clear", "count"} =>
         /\ snapshot.generation = previous_generation[r] + 1
         /\ reloaded => snapshot.users = file
    /\ pc[r] = "count" => last_error = FALSE

\* Nothing is under way once a reload has settled.
SettledInv == settled # "no" => Quiet

UndisturbedInv ==
  /\ TypeInv /\ AloneInv /\ SettledInv
  /\ UndisturbedServed /\ UndisturbedReported

\* The inductive invariant of reload_inner for callers that may overlap: what an
\* undisturbed reload reads, stores, clears and publishes fits together.
THEOREM UndisturbedInvariant == Spec => []UndisturbedInv
<1> USE ReloadConstants
<1>1. Init => UndisturbedInv
  <2> SUFFICES ASSUME Init, TypeInv PROVE UndisturbedInv
    BY InitTypeInv
  <2> QED
    BY DEF Init, UndisturbedInv, AloneInv, SettledInv, Quiet, UndisturbedServed,
           UndisturbedReported
<1>2. UndisturbedInv /\ TypeInv' /\ [Next]_vars => UndisturbedInv'
  <2> SUFFICES ASSUME UndisturbedInv, TypeInv', [Next]_vars PROVE UndisturbedInv'
    OBVIOUS
  <2> USE DEF UndisturbedInv
  <2>t. TypeOK /\ TextsValid
    BY DEF TypeInv
  <2>1. CASE UNCHANGED vars
    BY <2>1 DEF vars, localVars, overlapVars, AloneInv, SettledInv, Quiet, UndisturbedServed,
                UndisturbedReported
  <2>2. ASSUME NEW r \in Reloaders, ReadFile(r) PROVE UndisturbedInv'
    <3>1. SettledInv' /\ UndisturbedServed' /\ UndisturbedReported'
      BY <2>2 DEF ReadFile, SettledInv, UndisturbedServed, UndisturbedReported
    <3>2. AloneInv'
      BY <2>2, <2>t DEF ReadFile, Goto, Quiet, TypeOK, AloneInv
    <3> QED
      BY <3>1, <3>2
  <2>3. ASSUME NEW r \in Reloaders, RecordError(r) PROVE UndisturbedInv'
    <3>1. alone => Quiet'
      BY <2>3, <2>t DEF RecordError, Goto, TypeOK, AloneInv, Quiet
    <3>2. SettledInv' /\ UndisturbedServed' /\ UndisturbedReported'
      BY <2>3, <3>1 DEF RecordError, Settle, SettledInv, UndisturbedServed, UndisturbedReported
    <3>3. AloneInv'
      BY <2>3, <2>t DEF RecordError, Settle, Goto, TypeOK, AloneInv
    <3> QED
      BY <3>2, <3>3
  <2>4. ASSUME NEW r \in Reloaders, LoadPrevious(r) PROVE UndisturbedInv'
    <3>1. settled = "no"
      BY <2>4 DEF LoadPrevious, SettledInv, Quiet
    <3>2. AloneInv'
      BY <2>4, <2>t DEF LoadPrevious, Goto, overlapVars, TypeOK, AloneInv
    <3> QED
      BY <2>4, <3>1, <3>2 DEF LoadPrevious, overlapVars, SettledInv, UndisturbedServed,
                              UndisturbedReported
  <2>5. ASSUME NEW r \in Reloaders, StoreSnapshot(r) PROVE UndisturbedInv'
    <3>1. settled = "no"
      BY <2>5 DEF StoreSnapshot, SettledInv, Quiet
    <3>2. /\ snapshot'.generation = previous_generation[r] + 1
          /\ snapshot'.users = text[r] /\ text[r] # Broken
      BY <2>5, <2>t DEF StoreSnapshot, Installed, NextGeneration, TextsValid
    <3>3. alone /\ reloaded' => text[r] = file
      BY <2>5, <3>2 DEF StoreSnapshot, AloneInv
    <3>4. AloneInv'
      BY <2>5, <2>t, <3>2, <3>3 DEF StoreSnapshot, Goto, overlapVars, TypeOK, AloneInv
    <3> QED
      BY <2>5, <3>1, <3>4 DEF StoreSnapshot, overlapVars, SettledInv, UndisturbedServed,
                              UndisturbedReported
  <2>6. ASSUME NEW r \in Reloaders, ClearError(r) PROVE UndisturbedInv'
    <3>1. settled = "no"
      BY <2>6 DEF ClearError, SettledInv, Quiet
    <3>2. AloneInv'
      BY <2>6, <2>t DEF ClearError, Goto, overlapVars, TypeOK, AloneInv
    <3> QED
      BY <2>6, <3>1, <3>2 DEF ClearError, overlapVars, SettledInv, UndisturbedServed,
                              UndisturbedReported
  <2>7. ASSUME NEW r \in Reloaders, SetGauge(r) PROVE UndisturbedInv'
    <3>1. alone => /\ Quiet' /\ last_error = FALSE
                   /\ snapshot.generation = NextGeneration(r)
                   /\ reloaded => snapshot.users = file
      BY <2>7, <2>t DEF SetGauge, Goto, NextGeneration, TypeOK, AloneInv, Quiet
    <3>2. SettledInv' /\ UndisturbedServed' /\ UndisturbedReported'
      BY <2>7, <3>1 DEF SetGauge, Settle, SettledInv, UndisturbedServed, UndisturbedReported
    <3>3. AloneInv'
      BY <2>7, <2>t DEF SetGauge, Settle, Goto, TypeOK, AloneInv
    <3> QED
      BY <3>2, <3>3
  <2>8. ASSUME NEW c \in Maps \cup {Broken}, Edit(c) PROVE UndisturbedInv'
    BY <2>8, <2>t DEF Edit, localVars, overlapVars, AloneInv, SettledInv, Quiet,
                      UndisturbedServed, UndisturbedReported
  <2> QED
    BY <2>1, <2>2, <2>3, <2>4, <2>5, <2>6, <2>7, <2>8 DEF Next
<1> QED
  BY <1>1, <1>2, TypeInvariant, PTL DEF Spec

\* A reload that no other overlaps leaves the store serving the file, whatever
\* earlier overlapping reloads have installed (store.rs reload_file).
THEOREM UndisturbedServedCorrect == Spec => []UndisturbedServed
  BY UndisturbedInvariant, PTL DEF UndisturbedInv

\* It also leaves last_reload_error and the generation gauge right, whatever
\* earlier overlapping reloads have reported (store.rs reload_inner,
\* record_load_error).
THEOREM UndisturbedReportedCorrect == Spec => []UndisturbedReported
  BY UndisturbedInvariant, PTL DEF UndisturbedInv
=============================================================================
