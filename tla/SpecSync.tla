------------------------------ MODULE SpecSync -------------------------------
(***************************************************************************)
(* The protocol spec and its overrides: spec.Load (internal/spec/spec.go), *)
(* which layers the embedded spec, the overrides file and the environment, *)
(* and pplx spec sync (cmd/pplx/commands_spec.go), which compares upstream *)
(* with the embedded spec and rewrites the overrides file.                 *)
(*                                                                         *)
(* A spec is a function from keys to values.  Upstream publishes a value   *)
(* for some keys (Empty for the others) and changes at will; the user      *)
(* edits the file by hand; a sync can be killed at any point, also between *)
(* the truncation of the file and the write.                               *)
(***************************************************************************)
EXTENDS Naturals

CONSTANTS Keys,         \* the keys a sync and the file know
          UnsyncedKeys, \* those of Keys that parseUpstream never sets
          EnvKeys,      \* those of Keys that a PPLX_ variable overrides
          Values,       \* their values
          Embedded,     \* the embedded spec
          Env,          \* the environment, Empty where unset
          Empty, Absent, Invalid,
          MaxEdits      \* bound on the changes of upstream and of the file by hand

Published == [Keys \ UnsyncedKeys -> Values \cup {Empty}]
Overrides == UNION {[K -> Values] : K \in SUBSET Keys}

ASSUME SpecAssumption ==
  /\ Embedded \in [Keys -> Values] /\ Env \in [EnvKeys -> Values \cup {Empty}]
  /\ EnvKeys \subseteq Keys /\ UnsyncedKeys \subseteq Keys
  /\ MaxEdits \in Nat /\ Empty \notin Values
  /\ Absent \notin Overrides /\ Invalid \notin Overrides /\ Absent # Invalid

VARIABLES
  upstream,   \* what upstream publishes
  file,       \* Absent, Invalid, or a partial function from keys to values
  pc, patch,  \* a sync: where it is, and what it fetched
  ov,         \* the overrides it is about to write
  byHand,     \* what the user last put into the file by hand
  edits

vars == <<upstream, file, pc, patch, ov, byHand, edits>>

Init ==
  /\ upstream = [k \in Keys \ UnsyncedKeys |-> Embedded[k]]
  /\ file = Absent /\ pc = "idle" /\ edits = 0
  /\ patch = [k \in Keys \ UnsyncedKeys |-> Empty]
  /\ ov = <<>> /\ byHand = <<>>

-----------------------------------------------------------------------------
(* Load: embedded, then the file, then the environment.                     *)

\* The values of top, and those of base for the keys top does not have.
over(top, base) == [k \in DOMAIN top \cup DOMAIN base |-> IF k \in DOMAIN top THEN top[k] ELSE base[k]]

applyFileOverrides(s) == IF file = Absent THEN s ELSE over(file, s)

applyEnvOverrides(s) ==
  [k \in Keys |-> IF k \in EnvKeys /\ Env[k] # Empty THEN Env[k] ELSE s[k]]

\* Defined when the file is not Invalid; with an invalid one every command fails.
Load == applyEnvOverrides(applyFileOverrides(Embedded))

-----------------------------------------------------------------------------
(* pplx spec sync.                                                          *)

\* The keys for which upstream has a value other than the embedded one.
diffPatch(base, p) == {k \in DOMAIN p : p[k] # Empty /\ p[k] # base[k]}

End(how) == pc' = how

\* Both sources are fetched; the models are only listed.
fetchUpstream ==
  /\ pc = "idle"
  /\ patch' = upstream /\ pc' = "load"
  /\ UNCHANGED <<upstream, file, ov, byHand, edits>>

fetchFails ==
  /\ pc = "idle" /\ End("fetch failed")
  /\ UNCHANGED <<upstream, file, patch, ov, byHand, edits>>

\* Load, then the comparison, which is with the embedded spec.
Compare ==
  /\ pc = "load"
  /\ IF file = Invalid THEN End("load failed")
     ELSE IF diffPatch(Embedded, patch) = {} THEN End("in sync")
     ELSE pc' = "prompt"
  /\ UNCHANGED <<upstream, file, patch, ov, byHand, edits>>

\* --yes answers for the user.
Prompt(yes) ==
  /\ pc = "prompt"
  /\ IF yes THEN pc' = "read" ELSE End("declined")
  /\ UNCHANGED <<upstream, file, patch, ov, byHand, edits>>

\* Mutant: only the changes are written, the rest of the file is dropped.
readOverrides_fresh ==
  /\ pc = "read" /\ pc' = "open"
  /\ ov' = [k \in diffPatch(Embedded, patch) |-> patch[k]]
  /\ UNCHANGED <<upstream, file, patch, byHand, edits>>

\* Mutant: what the file holds wins over the changes.
readOverrides_oldWins ==
  LET base == IF file \in {Absent, Invalid} THEN <<>> ELSE file
  IN  /\ pc = "read" /\ pc' = "open"
      /\ ov' = over(base, [k \in diffPatch(Embedded, patch) |-> patch[k]])
      /\ UNCHANGED <<upstream, file, patch, byHand, edits>>

\* writeOverrides up to the write: the changed keys over what the file holds.
readOverrides ==
  LET base == IF file \in {Absent, Invalid} THEN <<>> ELSE file
  IN  /\ pc = "read" /\ pc' = "open"
      /\ ov' = over([k \in diffPatch(Embedded, patch) |-> patch[k]], base)
      /\ UNCHANGED <<upstream, file, patch, byHand, edits>>

\* os.WriteFile: truncate, then write.
Open ==
  /\ pc = "open" /\ file' = Invalid /\ pc' = "write"
  /\ UNCHANGED <<upstream, patch, ov, byHand, edits>>

Write ==
  /\ pc = "write" /\ file' = ov /\ End("wrote")
  /\ UNCHANGED <<upstream, patch, ov, byHand, edits>>

\* The process is killed, or the disk is full.
Crash ==
  /\ pc \in {"load", "prompt", "read", "open", "write"} /\ End("crashed")
  /\ UNCHANGED <<upstream, file, patch, ov, byHand, edits>>

Again ==   \* the user runs spec sync once more
  /\ pc \in {"fetch failed", "load failed", "in sync", "declined", "wrote", "crashed"}
  /\ pc' = "idle"
  /\ UNCHANGED <<upstream, file, patch, ov, byHand, edits>>

-----------------------------------------------------------------------------
(* The world around it.                                                     *)

UpstreamChanges ==
  /\ edits < MaxEdits /\ edits' = edits + 1
  /\ upstream' \in Published
  /\ UNCHANGED <<file, pc, patch, ov, byHand>>

\* The user edits the file by hand, but not in the moment between the read and
\* the write of one writeOverrides, where an edit would be lost.
Edit(f) ==
  /\ edits < MaxEdits /\ edits' = edits + 1
  /\ pc \notin {"open", "write"}
  /\ file' = f /\ byHand' = f
  /\ UNCHANGED <<upstream, pc, patch, ov>>

Next ==
  \/ fetchUpstream \/ fetchFails \/ Compare \/ readOverrides \/ Open \/ Write \/ Crash \/ Again
  \/ UpstreamChanges
  \/ \E yes \in BOOLEAN : Prompt(yes)
  \/ \E f \in Overrides : Edit(f)

Spec == Init /\ [][Next]_vars

-----------------------------------------------------------------------------
\* commands_spec.go:279 "so unrelated manual overrides survive a sync": what
\* the user set by hand is still in the file after any number of syncs, except
\* where a sync took a value from upstream.
ManualOverridesSurvive ==
  file \notin {Absent, Invalid} =>
    \A k \in DOMAIN byHand :
      k \in DOMAIN file /\ (file[k] = byHand[k] \/ (k \notin UnsyncedKeys /\ file[k] # Embedded[k]))

\* The key is back at its embedded value upstream, which the comparison does not
\* take for a change, and an override of before stays in the file.
Shadowed(k) == patch[k] = Embedded[k] /\ k \in DOMAIN file

\* A sync that wrote the file has made every value it fetched effective, of the
\* keys it changed and of those it left alone, with two exceptions: the
\* environment says otherwise, or the value is Shadowed, which is the known
\* fault of the comparison (commands_spec.go:212, 281-320, spec.go:74-84).
WroteMeansEffective ==
  pc = "wrote" /\ file = ov =>
    \A k \in DOMAIN patch :
      \/ patch[k] = Empty \/ Load[k] = patch[k]
      \/ k \in EnvKeys /\ Env[k] # Empty
      \/ Shadowed(k)

\* commands_spec.go:214 "Spec is in sync with upstream.": the effective spec,
\* environment apart, agrees with what was fetched.
InSyncMeansEqual ==
  pc = "in sync" /\ file # Invalid /\ byHand = <<>> =>
    \A k \in DOMAIN patch : patch[k] = Empty \/ Load[k] = patch[k] \/ (k \in EnvKeys /\ Env[k] # Empty)

\* commands_spec.go:288 "best effort; invalid file is replaced": a sync does
\* not end with an error because of an invalid file.
InvalidFileIsReplaced == pc # "load failed"
=============================================================================
