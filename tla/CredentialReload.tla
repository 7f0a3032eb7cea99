-------------------------- MODULE CredentialReload --------------------------
(***************************************************************************)
(* The file-backed credential store and its reload                         *)
(* (auth/credentials/store.rs): the snapshot behind an ArcSwap, the last   *)
(* load error behind a mutex and the generation gauge are three separate   *)
(* pieces of shared state, and reload takes no lock across them.  A        *)
(* reloader is one caller of reload, the owner of the store or of one of   *)
(* the cloned ReloadHandles; the file changes underneath.                  *)
(***************************************************************************)
EXTENDS Naturals, FiniteSets

CONSTANTS
  Reloaders,   \* callers of reload that can be under way at once
  Maps,        \* user maps a valid file can hold
  Broken,      \* a file that is unreadable or does not validate
  MaxEdits,    \* bound: changes of the file in one behaviour
  MaxReloads   \* bound: reloads started in one behaviour

ASSUME ReloadConstants ==
  /\ IsFiniteSet(Reloaders)
  /\ Maps # {} /\ Broken \notin Maps
  /\ MaxEdits \in Nat /\ MaxReloads \in Nat

VARIABLES
  file, edits,     \* the backing file; how often it changed
  snapshot,        \* Inner.snapshot: a generation and its users
  last_error,      \* Inner.last_loading_error is Some
  gauge,           \* metrics.generation
  started,         \* how many reloads were started (bounds the model)
  pc, text, previous_generation,   \* a reload's locals
  reloaded,        \* history: a successful reload has read the present file
  alone,           \* history: no two reloads have overlapped since the one
                   \* under way began
  settled          \* history: how the last reload ended, when no other has
                   \* overlapped it or begun since

localVars == <<pc, text, previous_generation>>
overlapVars == <<alone, settled>>
vars == <<file, edits, snapshot, last_error, gauge, started, localVars,
          reloaded, overlapVars>>

Generations == 1 .. MaxReloads + 1

\* from_file: the first snapshot gets generation 1, and the gauge with it.
Init ==
  /\ file \in Maps
  /\ edits = 0
  /\ snapshot = [generation |-> 1, users |-> file]
  /\ last_error = FALSE
  /\ gauge = 1
  /\ started = 0
  /\ pc = [r \in Reloaders |-> "idle"]
  /\ text = [r \in Reloaders |-> Broken]
  /\ previous_generation = [r \in Reloaders |-> 0]
  /\ reloaded = TRUE
  /\ alone = TRUE /\ settled = "ok"
-----------------------------------------------------------------------------
Goto(r, step) == pc' = [pc EXCEPT ![r] = step]

Quiet == \A r \in Reloaders : pc[r] = "idle"

\* History: reload_inner returns.
Settle(outcome) ==
  /\ settled' = IF alone THEN outcome ELSE "no"
  /\ UNCHANGED alone

\* Variant for mutation: a file that does not validate is taken as it is.
ValidAnyway(c) == TRUE

\* read_file and snapshot_from_yaml succeed.
Valid(c) == c # Broken

ReadFile(r) ==
  /\ pc[r] = "idle"
  /\ started < MaxReloads
  /\ started' = started + 1
  /\ text' = [text EXCEPT ![r] = file]
  /\ Goto(r, "read")
  /\ alone' = Quiet /\ settled' = "no"
  /\ UNCHANGED <<file, edits, snapshot, last_error, gauge, previous_generation,
                 reloaded>>

\* The file cannot be read or does not validate: record_load_error, and the
\* snapshot stays.
RecordError(r) ==
  /\ pc[r] = "read"
  /\ ~Valid(text[r])
  /\ last_error' = TRUE
  /\ Goto(r, "idle")
  /\ Settle("failed")
  /\ UNCHANGED <<file, edits, snapshot, gauge, started, text, previous_generation,
                 reloaded>>

\* load_full
LoadPrevious(r) ==
  /\ pc[r] = "read"
  /\ Valid(text[r])
  /\ previous_generation' = [previous_generation EXCEPT ![r] = snapshot.generation]
  /\ Goto(r, "store")
  /\ UNCHANGED <<file, edits, snapshot, last_error, gauge, started, text,
                 reloaded, overlapVars>>

\* set_generation(previous.generation() + 1)
NextGeneration(r) == previous_generation[r] + 1

\* Variant for mutation: only the generation is replaced.
InstalledOldUsers(r) == [generation |-> NextGeneration(r), users |-> snapshot.users]

\* What snapshot.store puts in place.
Installed(r) == [generation |-> NextGeneration(r), users |-> text[r]]

StoreSnapshot(r) ==
  /\ pc[r] = "store"
  /\ snapshot' = Installed(r)
  /\ reloaded' = (reloaded \/ text[r] = file)
  /\ Goto(r, "clear")
  /\ UNCHANGED <<file, edits, last_error, gauge, started, text, previous_generation,
                 overlapVars>>

\* Variant for mutation: an old error is never cleared.
ClearNothing(r) ==
  /\ pc[r] = "clear"
  /\ Goto(r, "count")
  /\ UNCHANGED <<file, edits, snapshot, last_error, gauge, started, text,
                 previous_generation, reloaded, overlapVars>>

ClearError(r) ==
  /\ pc[r] = "clear"
  /\ last_error' = FALSE
  /\ Goto(r, "count")
  /\ UNCHANGED <<file, edits, snapshot, gauge, started, text, previous_generation,
                 reloaded, overlapVars>>

\* reload_inner publishes the generation it believes it has installed.
SetGauge(r) ==
  /\ pc[r] = "count"
  /\ gauge' = NextGeneration(r)
  /\ Goto(r, "idle")
  /\ Settle("ok")
  /\ UNCHANGED <<file, edits, snapshot, last_error, started, text,
                 previous_generation, reloaded>>

\* Environment: an operator rewrites the file.
Edit(c) ==
  /\ edits < MaxEdits
  /\ edits' = edits + 1
  /\ c # file
  /\ file' = c
  /\ reloaded' = FALSE
  /\ UNCHANGED <<snapshot, last_error, gauge, started, localVars, overlapVars>>

Next ==
  \/ \E r \in Reloaders :
       \/ ReadFile(r) \/ RecordError(r) \/ LoadPrevious(r)
       \/ StoreSnapshot(r) \/ ClearError(r) \/ SetGauge(r)
  \/ \E c \in Maps \cup {Broken} : Edit(c)

Spec == Init /\ [][Next]_vars
-----------------------------------------------------------------------------
(* Properties. *)

TypeOK ==
  /\ file \in Maps \cup {Broken}
  /\ edits \in 0 .. MaxEdits
  /\ snapshot \in [generation : Generations, users : Maps]
  /\ {last_error, reloaded, alone} \subseteq BOOLEAN
  /\ settled \in {"no", "ok", "failed"}
  /\ gauge \in Generations
  /\ started \in 0 .. MaxReloads
  /\ pc \in [Reloaders -> {"idle", "read", "store", "clear", "count"}]
  /\ text \in [Reloaders -> Maps \cup {Broken}]
  /\ previous_generation \in [Reloaders -> 0 .. MaxReloads]

\* A reload that no other overlaps puts the store right, whatever map and
\* whatever generation earlier overlapping reloads have left in it: until the
\* next reload begins or the file is edited, the store serves the file
\* (store.rs reload_file).
UndisturbedServed == settled = "ok" /\ reloaded => snapshot.users = file

\* Such a reload puts the reports right too, whatever overlapping reloads have
\* left in them: last_reload_error says how it ended, and after a success the
\* gauge is the served generation (store.rs reload_inner, record_load_error).
UndisturbedReported ==
  /\ settled # "no" => last_error = (settled = "failed")
  /\ settled = "ok" => gauge = snapshot.generation
=============================================================================
