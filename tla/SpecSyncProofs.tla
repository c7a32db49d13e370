---------------------------- MODULE SpecSyncProofs ----------------------------
(***************************************************************************)
(* Proofs about SpecSync, for any keys, values and environment, any number *)
(* of syncs, and any changes of upstream and of the file.                  *)
(***************************************************************************)
EXTENDS SpecSync, TLAPS

TypeOK ==
  /\ upstream \in Published /\ patch \in Published
  /\ file \in Overrides \cup {Absent, Invalid}
  /\ ov \in Overrides /\ byHand \in Overrides

\* The overrides f keep what the user put in by hand, but for what upstream set.
Keeps(f) ==
  \A k \in DOMAIN byHand :
    k \in DOMAIN f /\ (f[k] = byHand[k] \/ (k \notin UnsyncedKeys /\ f[k] # Embedded[k]))

\* The overrides f have the values that were fetched.
Brings(f) == \A k \in diffPatch(Embedded, patch) : k \in DOMAIN f /\ f[k] = patch[k]

\* The file keeps them whenever it can be read, also while a sync is under way;
\* the sync has found it readable and holds what will keep them.
KeepInv ==
  /\ file = Absent => byHand = <<>>
  /\ file \notin {Absent, Invalid} => Keeps(file)
  /\ pc \in {"prompt", "read"} => file # Invalid
  /\ pc \in {"open", "write"} => Keeps(ov)

BringInv == pc \in {"open", "write", "wrote"} => Brings(ov)

Inv == TypeOK /\ KeepInv /\ BringInv

-----------------------------------------------------------------------------
(* The operators.                                                           *)

LEMMA OverridesType ==
  ASSUME NEW f
  PROVE  f \in Overrides <=> \E K \in SUBSET Keys : f \in [K -> Values]
BY DEF Overrides

LEMMA NoOverrides == <<>> \in Overrides /\ DOMAIN <<>> = {}
<1>1. <<>> \in [{} -> Values] /\ DOMAIN <<>> = {}
  OBVIOUS
<1>2. QED
  BY <1>1, OverridesType

LEMMA DiffType ==
  ASSUME TypeOK
  PROVE  /\ diffPatch(Embedded, patch) \subseteq Keys \ UnsyncedKeys
         /\ \A k \in diffPatch(Embedded, patch) : patch[k] \in Values /\ patch[k] # Embedded[k]
BY SpecAssumption DEF TypeOK, Published, diffPatch

LEMMA OverType ==
  ASSUME NEW top \in Overrides, NEW base \in Overrides
  PROVE  /\ over(top, base) \in Overrides
         /\ DOMAIN over(top, base) = DOMAIN top \cup DOMAIN base
         /\ \A k \in DOMAIN top : over(top, base)[k] = top[k]
         /\ \A k \in DOMAIN base \ DOMAIN top : over(top, base)[k] = base[k]
<1>1. PICK K \in SUBSET Keys : top \in [K -> Values]
  BY OverridesType
<1>2. PICK L \in SUBSET Keys : base \in [L -> Values]
  BY OverridesType
<1>3. over(top, base) \in [K \cup L -> Values] /\ K \cup L \in SUBSET Keys
  BY <1>1, <1>2 DEF over
<1>4. QED
  BY <1>1, <1>2, <1>3, OverridesType DEF over

-----------------------------------------------------------------------------
(* The steps.                                                               *)

\* What the sync is about to write keeps the manual overrides and brings the
\* changes, whatever the file held.
LEMMA ReadStep == Inv /\ readOverrides => Inv'
<1> SUFFICES ASSUME Inv, readOverrides PROVE Inv'
  OBVIOUS
<1> DEFINE D == diffPatch(Embedded, patch)
           new == [k \in D |-> patch[k]]
           base == IF file \in {Absent, Invalid} THEN <<>> ELSE file
<1>1. TypeOK /\ file # Invalid /\ ov' = over(new, base) /\ pc' = "open" /\ UNCHANGED <<upstream, file, patch, byHand, edits>>
  BY DEF Inv, KeepInv, readOverrides
<1>2. base \in Overrides
  BY <1>1, NoOverrides DEF TypeOK
<1>3. D \subseteq Keys \ UnsyncedKeys /\ \A k \in D : patch[k] \in Values /\ patch[k] # Embedded[k]
  BY <1>1, DiffType
<1> HIDE DEF D
<1>4. new \in Overrides /\ DOMAIN new = D /\ \A k \in D : new[k] = patch[k]
  <2>1. new \in [D -> Values] /\ D \in SUBSET Keys
    BY <1>3
  <2>2. QED
    BY <2>1, OverridesType
<1> HIDE DEF new
<1>5. Keeps(base)
  <2>1. CASE file = Absent
    BY <2>1, NoOverrides DEF Inv, KeepInv, Keeps
  <2>2. CASE file # Absent
    BY <1>1, <2>2 DEF Inv, KeepInv
  <2>3. QED
    BY <2>1, <2>2
<1> HIDE DEF base
<1>6. /\ ov' \in Overrides /\ DOMAIN ov' = D \cup DOMAIN base
      /\ \A k \in D : ov'[k] = patch[k]
      /\ \A k \in DOMAIN base \ D : ov'[k] = base[k]
  BY <1>1, <1>2, <1>4, OverType
<1>7. Keeps(ov')
  <2>1. SUFFICES ASSUME NEW k \in DOMAIN byHand
                 PROVE  k \in DOMAIN ov' /\ (ov'[k] = byHand[k] \/ (k \notin UnsyncedKeys /\ ov'[k] # Embedded[k]))
    BY DEF Keeps
  <2>2. k \in DOMAIN base /\ (base[k] = byHand[k] \/ (k \notin UnsyncedKeys /\ base[k] # Embedded[k]))
    BY <1>5 DEF Keeps
  <2>3. CASE k \in D
    BY <1>3, <1>6, <2>3
  <2>4. CASE k \notin D
    BY <1>6, <2>2, <2>4
  <2>5. QED
    BY <2>3, <2>4
<1>8. Keeps(ov)'
  BY <1>1, <1>7 DEF Keeps
<1>9. Brings(ov)'
  BY <1>1, <1>6 DEF Brings, diffPatch, D
<1>10. TypeOK'
  BY <1>1, <1>6 DEF TypeOK
<1>11. KeepInv'
  BY <1>1, <1>8 DEF Inv, KeepInv, Keeps
<1>12. QED
  BY <1>1, <1>9, <1>10, <1>11 DEF Inv, BringInv

LEMMA SyncStep == Inv /\ [Next]_vars => Inv'
<1> SUFFICES ASSUME Inv, [Next]_vars PROVE Inv'
  OBVIOUS
<1>1. CASE fetchUpstream \/ fetchFails \/ Compare \/ Crash \/ Again \/ \E yes \in BOOLEAN : Prompt(yes)
  <2>1. /\ file' = file /\ ov' = ov /\ byHand' = byHand /\ upstream' = upstream
        /\ pc' \in {"load", "fetch failed", "load failed", "in sync", "prompt", "read", "declined", "crashed", "idle"}
        /\ pc' \in {"prompt", "read"} => file # Invalid
        /\ patch' \in {patch, upstream}
    BY <1>1 DEF fetchUpstream, fetchFails, Compare, Crash, Again, Prompt, End, Inv, KeepInv
  <2>2. TypeOK'
    BY <2>1 DEF Inv, TypeOK
  <2>3. KeepInv' /\ BringInv'
    BY <2>1 DEF Inv, KeepInv, Keeps, BringInv
  <2>4. QED
    BY <2>2, <2>3 DEF Inv
<1>2. CASE readOverrides
  BY <1>2, ReadStep
<1>3. CASE Open
  BY <1>3, SpecAssumption DEF Open, Inv, TypeOK, KeepInv, Keeps, BringInv, Brings, diffPatch
<1>4. CASE Write
  <2>1. file' = ov /\ pc' = "wrote" /\ UNCHANGED <<upstream, patch, ov, byHand>> /\ pc = "write"
    BY <1>4 DEF Write, End
  <2>2. ov \in Overrides /\ ov \notin {Absent, Invalid} /\ Keeps(ov) /\ Brings(ov)
    BY <2>1, SpecAssumption DEF Inv, TypeOK, KeepInv, BringInv
  <2>3. QED
    BY <2>1, <2>2 DEF Inv, TypeOK, KeepInv, Keeps, BringInv, Brings, diffPatch
<1>5. CASE UpstreamChanges
  BY <1>5 DEF UpstreamChanges, Inv, TypeOK, KeepInv, Keeps, BringInv, Brings, diffPatch
<1>6. ASSUME NEW f \in Overrides, Edit(f) PROVE Inv'
  <2>1. /\ file' = f /\ byHand' = f /\ UNCHANGED <<upstream, pc, patch, ov>> /\ pc \notin {"open", "write"}
        /\ f \notin {Absent, Invalid}
    BY <1>6, SpecAssumption DEF Edit
  <2>2. QED
    BY <2>1 DEF Inv, TypeOK, KeepInv, Keeps, BringInv, Brings, diffPatch
<1>7. CASE UNCHANGED vars
  BY <1>7 DEF vars, Inv, TypeOK, KeepInv, Keeps, BringInv, Brings, diffPatch
<1>8. QED
  BY <1>1, <1>2, <1>3, <1>4, <1>5, <1>6, <1>7 DEF Next

LEMMA SyncStart == Init => Inv
<1> SUFFICES ASSUME Init PROVE Inv
  OBVIOUS
<1>1. upstream \in Published /\ patch \in Published
  BY SpecAssumption DEF Init, Published
<1>2. TypeOK
  BY <1>1, NoOverrides DEF Init, TypeOK
<1>3. QED
  BY <1>2, SpecAssumption DEF Init, Inv, KeepInv, BringInv

-----------------------------------------------------------------------------
\* However often spec sync runs, is declined, fails or is killed, and whatever
\* upstream publishes, every override the user set by hand is in the file
\* whenever it can be read, except where a sync took a value from upstream
\* (commands_spec.go:279).
THEOREM OverridesSurvive == Spec => []ManualOverridesSurvive
<1>1. Inv => ManualOverridesSurvive
  BY DEF Inv, KeepInv, Keeps, ManualOverridesSurvive
<1>2. QED
  BY <1>1, SyncStart, SyncStep, PTL DEF Spec

\* A sync that wrote the file has made everything it fetched effective through
\* the three layers of Load, also what it found unchanged; except for what the
\* environment sets, and for a value that is back at the embedded one under an
\* override left in the file (spec.go:74-84, commands_spec.go:212).
THEOREM SyncTakesEffect == Spec => []WroteMeansEffective
<1>1. ASSUME Inv, pc = "wrote", file = ov, NEW k \in DOMAIN patch, patch[k] # Empty, ~Shadowed(k)
      PROVE  Load[k] = patch[k] \/ (k \in EnvKeys /\ Env[k] # Empty)
  <2>1. k \in Keys /\ file \in Overrides /\ file # Absent /\ DOMAIN Embedded = Keys
    BY <1>1, SpecAssumption DEF Inv, TypeOK, Published
  <2>2. applyFileOverrides(Embedded) = over(file, Embedded)
    BY <2>1 DEF applyFileOverrides
  <2>3. over(file, Embedded)[k] = patch[k]
    <3>1. CASE k \in diffPatch(Embedded, patch)
      <4>1. k \in DOMAIN file /\ file[k] = patch[k]
        BY <1>1, <3>1 DEF Inv, BringInv, Brings
      <4>2. QED
        BY <4>1 DEF over
    <3>2. CASE k \notin diffPatch(Embedded, patch)
      <4>1. patch[k] = Embedded[k] /\ k \notin DOMAIN file
        BY <1>1, <3>2 DEF diffPatch, Shadowed
      <4>2. QED
        BY <2>1, <4>1 DEF over
    <3>3. QED
      BY <3>1, <3>2
  <2>4. QED
    BY <2>1, <2>2, <2>3 DEF Load, applyEnvOverrides
<1>2. Inv => WroteMeansEffective
  BY <1>1 DEF WroteMeansEffective
<1>3. QED
  BY <1>2, SyncStart, SyncStep, PTL DEF Spec
=============================================================================
