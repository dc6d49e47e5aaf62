-------------------------- MODULE SupervisorProofs --------------------------
(***************************************************************************)
(* The watchdog, proved for every set of artifacts, every threshold and    *)
(* window and every way cores live and die.                                *)
(***************************************************************************)
EXTENDS Supervisor, FiniteSetTheorems, WellFoundedInduction, TLAPS

\* The exits in the window are exits of the present target.
OwnExits == IsFiniteSet(crashes) /\ Cardinality(crashes) <= exits

SupInv == TypeOK /\ OwnExits

\* A finite set of versions has a newest one, which Newest finds.
LEMMA NewestExists ==
  ASSUME NEW V \in SUBSET Nat, IsFiniteSet(V), V # {}
  PROVE  Newest(V) \in V /\ \A w \in V : w <= Newest(V)
<1> DEFINE above(v) == {w \in V : w > v}
           N == {Cardinality(above(v)) : v \in V}
<1>1. \A v \in V : IsFiniteSet(above(v)) /\ Cardinality(above(v)) \in Nat
  BY FS_Subset, FS_CardinalityType
<1>2. N \subseteq Nat /\ N # {}
  BY <1>1
<1>3. PICK x \in N : \A y \in N : ~ (<<y, x>> \in OpToRel(<, Nat))
  BY <1>2, WFMin, NatLessThanWellFounded, Zenon
<1>4. \A y \in N : ~ (y < x)
  BY <1>2, <1>3, Zenon DEF OpToRel
<1>5. PICK v \in V : Cardinality(above(v)) = x
  BY <1>3
<1>6. ASSUME NEW w \in V, w > v PROVE FALSE
  <2>1. above(w) \in SUBSET above(v)
    <3>1. v \in Nat /\ w \in Nat /\ \A y \in V : y \in Nat
      OBVIOUS
    <3>2. \A y \in above(w) : y \in V /\ y > v
      BY <1>6, <3>1
    <3>3. QED
      BY <3>2
  <2>2. w \in above(v) /\ w \notin above(w)
    BY <1>6
  <2>3. above(w) # above(v)
    BY <2>2
  <2> HIDE DEF above
  <2>4. Cardinality(above(w)) <= Cardinality(above(v)) /\ Cardinality(above(w)) # Cardinality(above(v))
    BY <1>1, <2>1, <2>3, FS_Subset
  <2>5. Cardinality(above(w)) < Cardinality(above(v))
    BY <1>1, <2>4
  <2>6. Cardinality(above(w)) \in N
    OBVIOUS
  <2>7. QED
    BY <1>4, <1>5, <2>5, <2>6
<1>7. v \in V /\ \A w \in V : w <= v
  BY <1>6
<1>8. QED
  BY <1>7, Zenon DEF Newest

\* A demotion goes down.
LEMMA DemoteDown ==
  ASSUME TypeOK
  PROVE  /\ SelectTarget \in Target
         /\ Demote(tgt) \in Target /\ (tgt # Shell => Demote(tgt) < tgt)
<1> DEFINE B == {v \in valid : v < tgt}
<1>1. valid \in SUBSET Nat /\ IsFiniteSet(valid) /\ B \in SUBSET Nat /\ IsFiniteSet(B)
  BY SupervisorAssumption, FS_Subset DEF TypeOK
<1>2. tgt \in Nat /\ (tgt # Shell => Shell < tgt)
  BY SupervisorAssumption DEF TypeOK, Target, Shell
<1>3. valid = {} => SelectTarget = Shell
  BY DEF SelectTarget, Newest
<1>4. valid # {} => SelectTarget \in valid
  BY <1>1, NewestExists DEF SelectTarget
<1>5. B = {} => Demote(tgt) = Shell
  BY DEF Demote, Newest
<1>6. B # {} => Demote(tgt) \in B
  BY <1>1, NewestExists DEF Demote
<1>7. QED
  BY <1>2, <1>3, <1>4, <1>5, <1>6 DEF TypeOK, Target

\* Waiting takes exits out of the window and puts none into it.
LEMMA AgedFewer ==
  ASSUME TypeOK, IsFiniteSet(crashes), NEW d \in Nat
  PROVE  /\ Aged(d) \subseteq 0 .. Window - 1
         /\ IsFiniteSet(Aged(d)) /\ Cardinality(Aged(d)) <= Cardinality(crashes)
         /\ Cardinality(Aged(d)) \in Nat /\ Cardinality(crashes) \in Nat
<1> DEFINE S == {x \in crashes : x + d < Window}
           f == [x \in S |-> x + d]
<1>1. IsFiniteSet(S) /\ Cardinality(S) <= Cardinality(crashes)
  BY FS_Subset
<1>2. Aged(d) = {a + d : a \in S}
  BY DEF Aged
<1>3. f \in Surjection(S, Aged(d))
  BY <1>2 DEF Surjection
<1>4. IsFiniteSet(Aged(d)) /\ Cardinality(Aged(d)) <= Cardinality(S)
  BY <1>1, <1>3, FS_Surjection
<1>5. Aged(d) \subseteq 0 .. Window - 1
  BY <1>2, SupervisorAssumption DEF TypeOK
<1>6. /\ Cardinality(S) \in Nat /\ Cardinality(Aged(d)) \in Nat
      /\ Cardinality(crashes) \in Nat
  BY <1>1, <1>4, FS_CardinalityType
<1>7. QED
  BY <1>1, <1>4, <1>5, <1>6

\* An exit of the core: the window is the target's own, and a target is left only
\* downwards and only after Threshold exits of its own.
LEMMA ExitStep ==
  ASSUME SupInv, NEW d \in Nat, CoreExits(d)
  PROVE  SupInv' /\ (tgt' # tgt => tgt' < tgt /\ exits + 1 >= Threshold)
<1> DEFINE recent == Aged(d) \cup {0}
<1>1. /\ TypeOK /\ exits \in Nat /\ Threshold \in Nat /\ Window \in Nat \ {0}
      /\ exits <= Threshold
  BY SupervisorAssumption DEF SupInv, TypeOK
<1>2. /\ IsFiniteSet(recent) /\ Cardinality(recent) \in Nat
      /\ Cardinality(recent) <= exits + 1 /\ recent \subseteq 0 .. Window - 1
  <2>1. /\ IsFiniteSet(Aged(d)) /\ Cardinality(Aged(d)) <= exits
        /\ Cardinality(Aged(d)) \in Nat /\ Aged(d) \subseteq 0 .. Window - 1
    BY <1>1, AgedFewer DEF SupInv, OwnExits
  <2>2. IsFiniteSet(recent) /\ Cardinality(recent) <= Cardinality(Aged(d)) + 1
    BY <2>1, FS_AddElement
  <2>3. QED
    BY <1>1, <2>1, <2>2, FS_CardinalityType
<1>3. IsFiniteSet({}) /\ Cardinality({}) = 0
  BY FS_EmptySet
<1> HIDE DEF recent
<1>4. CASE Cardinality(recent) < Threshold
  <2>1. /\ pc' = "wait" /\ crashes' = recent
        /\ exits' = IF exits < Threshold THEN exits + 1 ELSE exits
        /\ UNCHANGED <<valid, sick, asked, tgt, backoff, late>>
    BY <1>4 DEF CoreExits, recent, world
  <2>2. exits' \in 0 .. Threshold /\ Cardinality(recent) <= exits'
    BY <1>1, <1>2, <1>4, <2>1
  <2>3. QED
    BY <1>2, <2>1, <2>2 DEF SupInv, TypeOK, OwnExits
<1>5. CASE ~ (Cardinality(recent) < Threshold) /\ tgt # Shell
  <2>1. /\ pc' = "head" /\ crashes' = {} /\ exits' = 0 /\ tgt' = Demote(tgt)
        /\ backoff' = Base /\ late' = FALSE /\ UNCHANGED <<valid, sick, asked>>
    BY <1>5 DEF CoreExits, recent, world
  <2>2. exits + 1 >= Threshold
    BY <1>1, <1>2, <1>5
  <2>3. tgt' \in Target /\ tgt' < tgt
    BY <1>1, <1>5, <2>1, DemoteDown
  <2>4. backoff' \in Nat \ {0} /\ exits' \in 0 .. Threshold
    BY <1>1, <2>1, SupervisorAssumption
  <2>5. TypeOK'
    BY <1>1, <2>1, <2>3, <2>4 DEF TypeOK
  <2>6. OwnExits'
    BY <1>1, <1>3, <2>1 DEF OwnExits
  <2>7. QED
    BY <2>2, <2>3, <2>5, <2>6 DEF SupInv
<1>6. CASE ~ (Cardinality(recent) < Threshold) /\ tgt = Shell
  <2>1. /\ pc' = "wait" /\ crashes' = {} /\ exits' = 0
        /\ backoff' = MaxBackoff /\ UNCHANGED <<valid, sick, asked, tgt, late>>
    BY <1>6 DEF CoreExits, recent, world
  <2>2. MaxBackoff \in Nat \ {0}
    BY SupervisorAssumption
  <2>3. QED
    BY <1>1, <1>3, <2>1, <2>2 DEF SupInv, TypeOK, OwnExits
<1>7. QED
  BY <1>4, <1>5, <1>6

\* Every other step leaves the target of a running supervisor alone.
LEMMA OtherStep ==
  ASSUME SupInv,
         \/ Boot \/ Head \/ Launch \/ LaunchFails \/ Wake \/ Leave
         \/ Cancel \/ Promote \/ Rot \/ FallSick \/ UNCHANGED vars
  PROVE  SupInv' /\ (pc # "down" => tgt' = tgt)
<1> USE DEF world
<1>1. CASE Boot
  <2>1. Cardinality({}) = 0 /\ IsFiniteSet({}) /\ SelectTarget \in Target
    BY FS_EmptySet, DemoteDown DEF SupInv
  <2>2. QED
    <3>1. /\ pc = "down" /\ pc' = "head" /\ asked' = FALSE /\ tgt' \in Target /\ backoff' \in Nat \ {0}
          /\ crashes' = {} /\ exits' = 0 /\ late' = FALSE /\ UNCHANGED <<valid, sick>>
      BY <1>1, <2>1, SupervisorAssumption DEF Boot
    <3>2. exits' \in 0 .. Threshold /\ crashes' \subseteq 0 .. Window - 1
      BY <3>1, SupervisorAssumption
    <3>3. TypeOK'
      BY <3>1, <3>2 DEF SupInv, TypeOK
    <3>4. QED
      BY <2>1, <3>1, <3>3 DEF SupInv, OwnExits
<1>2. CASE Wake
  <2>1. /\ crashes' = Aged(backoff) /\ backoff' \in Grow(backoff) /\ pc' = "head"
        /\ UNCHANGED <<valid, sick, asked, tgt, exits, late>>
    BY <1>2 DEF Wake
  <2>2. backoff' \in Nat \ {0}
    BY <2>1, SupervisorAssumption DEF Grow, SupInv, TypeOK
  <2>3. /\ Aged(backoff) \subseteq 0 .. Window - 1 /\ IsFiniteSet(Aged(backoff))
        /\ Cardinality(Aged(backoff)) <= Cardinality(crashes)
        /\ Cardinality(Aged(backoff)) \in Nat /\ Cardinality(crashes) \in Nat
    BY AgedFewer DEF SupInv, TypeOK, OwnExits
  <2>4. Cardinality(Aged(backoff)) <= exits
    BY <2>3 DEF SupInv, TypeOK, OwnExits
  <2>5. QED
    BY <2>1, <2>2, <2>3, <2>4 DEF SupInv, TypeOK, OwnExits
<1>3. CASE Head \/ Launch \/ LaunchFails \/ Leave \/ Cancel
  BY <1>3 DEF Head, Launch, LaunchFails, Leave, Cancel, SupInv, TypeOK, OwnExits
<1>4. CASE Promote \/ Rot \/ FallSick
  BY <1>4 DEF Promote, Rot, FallSick, SupInv, TypeOK, OwnExits
<1>5. CASE UNCHANGED vars
  BY <1>5 DEF vars, SupInv, TypeOK, OwnExits
<1>6. QED
  BY <1>1, <1>2, <1>3, <1>4, <1>5

LEMMA SupervisorStep ==
  ASSUME SupInv, [Next]_vars
  PROVE  /\ SupInv'
         /\ pc # "down" /\ tgt' # tgt => tgt' < tgt /\ exits + 1 >= Threshold
<1>1. CASE SickExit
  BY <1>1, ExitStep DEF SickExit
<1>2. CASE Exit
  BY <1>2, ExitStep, SupervisorAssumption DEF Exit
<1>3. CASE ~SickExit /\ ~Exit
  BY <1>3, OtherStep DEF Next
<1>4. QED
  BY <1>1, <1>2, <1>3

LEMMA SupervisorInv == Spec => []SupInv
<1>1. Init => SupInv
  <2> SUFFICES ASSUME Init PROVE SupInv
    OBVIOUS
  <2>1. OwnExits
    BY FS_EmptySet DEF Init, OwnExits
  <2>2. backoff \in Nat \ {0} /\ exits \in 0 .. Threshold
    BY SupervisorAssumption DEF Init
  <2>3. QED
    BY <2>1, <2>2 DEF Init, SupInv, TypeOK, Target
<1>2. SupInv /\ [Next]_vars => SupInv'
  BY SupervisorStep
<1>3. QED
  BY <1>1, <1>2, PTL DEF Spec

\* The types; the exits that are remembered are those still in the window.
THEOREM SupervisorTypes == Spec => []TypeOK
<1>1. SupInv => TypeOK
  BY DEF SupInv
<1>2. QED
  BY <1>1, SupervisorInv, PTL

\* A running supervisor leaves its target only for an older one, and only after
\* the target itself has died Threshold times.
THEOREM DemotionsAreEarned == Spec => DemotionEarned
<1>1. SupInv /\ [Next]_vars =>
        [pc # "down" /\ tgt' # tgt => tgt' < tgt /\ exits + 1 >= Threshold]_vars
  BY SupervisorStep
<1>2. QED
  BY <1>1, SupervisorInv, PTL DEF Spec, DemotionEarned
=============================================================================
