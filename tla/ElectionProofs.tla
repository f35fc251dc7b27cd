--------------------------- MODULE ElectionProofs ---------------------------
(***************************************************************************)
(* Proofs, for any finite electorate, that at most one peer ever leads     *)
(* until somebody is expelled.                                             *)
(***************************************************************************)
EXTENDS Election, FiniteSetTheorems, TLAPS

Inv == Electorate /\ TypeOK /\ PromisesKept

\* Two majorities of a finite electorate share a peer.
LEMMA MajoritiesMeet ==
  ASSUME Electorate, NEW A \in SUBSET Peers, NEW B \in SUBSET Peers,
         2 * Cardinality(A) > Cardinality(Peers), 2 * Cardinality(B) > Cardinality(Peers)
  PROVE  A \cap B # {}
<1> SUFFICES ASSUME A \cap B = {} PROVE FALSE
  OBVIOUS
<1>1. IsFiniteSet(A) /\ IsFiniteSet(B) /\ IsFiniteSet(A \cup B)
  BY FS_Subset DEF Electorate
<1>2. Cardinality(A \cup B) = Cardinality(A) + Cardinality(B) - Cardinality(A \cap B)
  BY <1>1, FS_Union
<1>3. Cardinality(A \cup B) <= Cardinality(Peers)
  BY FS_Subset DEF Electorate
<1>4. /\ Cardinality(A) \in Nat /\ Cardinality(B) \in Nat /\ Cardinality(Peers) \in Nat
      /\ Cardinality(A \cup B) \in Nat
  BY <1>1, FS_CardinalityType DEF Electorate
<1>5. Cardinality(A \cap B) = 0
  BY FS_EmptySet
<1> QED  BY <1>2, <1>3, <1>4, <1>5

\* More voters are still a majority.
LEMMA MajorityGrows ==
  ASSUME Electorate, NEW A \in SUBSET Peers, NEW B \in SUBSET Peers, A \subseteq B,
         2 * Cardinality(A) > Cardinality(Peers)
  PROVE  2 * Cardinality(B) > Cardinality(Peers)
<1>1. IsFiniteSet(B) /\ IsFiniteSet(A)
  BY FS_Subset DEF Electorate
<1>2. Cardinality(A) <= Cardinality(B)
  BY <1>1, FS_Subset
<1>3. Cardinality(A) \in Nat /\ Cardinality(B) \in Nat /\ Cardinality(Peers) \in Nat
  BY <1>1, FS_CardinalityType DEF Electorate
<1> QED  BY <1>2, <1>3

\* While the membership is intact, the promises leave room for one leader only.
LEMMA OnlyOne == Inv => OneEverLeads
<1> SUFFICES ASSUME Inv, Intact, NEW i \in led, NEW k \in led PROVE i = k
  BY DEF OneEverLeads
<1>1. 2 * Cardinality(Voters(i)) > Cardinality(Peers) /\ 2 * Cardinality(Voters(k)) > Cardinality(Peers)
  BY DEF Inv, PromisesKept
<1>2. Voters(i) \cap Voters(k) # {}
  BY <1>1, MajoritiesMeet DEF Inv, Voters
<1> QED  BY <1>2 DEF Voters

\* No step mends a membership, so what held while it was intact held before the step.
LEMMA DamageIsForGood == TypeOK /\ [Next]_vars => (Intact' => Intact /\ view' = view)
<1> SUFFICES ASSUME TypeOK, [Next]_vars, Intact' PROVE Intact /\ view' = view
  OBVIOUS
<1>1. ASSUME NEW i \in Peers, Expel(i) PROVE FALSE
  BY <1>1 DEF Expel, Intact, TypeOK
<1>2. view' = view
  BY <1>1 DEF Next, Stand, Nominate, Elect, Lose, Retire, Die, Grant, Follow, vars
<1> QED  BY <1>2 DEF Intact

\* Every step keeps the types.
LEMMA TypeStep == TypeOK /\ [Next]_vars => TypeOK'
<1> SUFFICES ASSUME TypeOK, [Next]_vars PROVE TypeOK'
  OBVIOUS
<1> USE DEF TypeOK, Roles
<1>1. ASSUME NEW i \in Peers, Stand(i) \/ Nominate(i) \/ Elect(i) \/ Lose(i) PROVE TypeOK'
  BY <1>1 DEF Stand, Nominate, Elect, Lose
<1>2. ASSUME NEW i \in Peers, Retire(i) \/ Expel(i) \/ Die(i) PROVE TypeOK'
  BY <1>2 DEF Retire, Expel, Die
<1>3. ASSUME NEW i \in Peers, NEW j \in Peers, Grant(j, i) \/ Follow(j, i) PROVE TypeOK'
  BY <1>3 DEF Grant, Follow
<1> QED  BY <1>1, <1>2, <1>3 DEF Next, vars

\* A winner has a majority of the whole electorate behind it.
LEMMA WinnerHasMajority ==
  ASSUME Inv, Intact, NEW i \in Peers, Elect(i)
  PROVE  2 * Cardinality(Voters(i)) > Cardinality(Peers)
<1>1. PICK S \in SUBSET (Peers \ {i}) : Majority(S, i) /\ \A j \in S : StandsBy(j, i)
  BY DEF Elect
<1>2. S \cup {i} \subseteq Voters(i)
  BY <1>1 DEF Elect, StandsBy, Intact, Voters
<1>3. IsFiniteSet(S) /\ Cardinality(S) \in Nat /\ Cardinality(Peers) \in Nat
  BY FS_Subset, FS_CardinalityType DEF Inv, Electorate
<1>4. Cardinality(S \cup {i}) = Cardinality(S) + 1
  BY <1>3, FS_AddElement
<1>5. 2 * Cardinality(S \cup {i}) > Cardinality(Peers)
  BY <1>1, <1>3, <1>4 DEF Majority, Intact
<1>6. S \cup {i} \in SUBSET Peers /\ Voters(i) \in SUBSET Peers
  BY DEF Voters
<1> QED  BY <1>2, <1>5, <1>6, MajorityGrows DEF Inv

\* Every step keeps the promises.
LEMMA PromiseStep == Inv /\ [Next]_vars => PromisesKept'
<1> SUFFICES ASSUME Inv, [Next]_vars PROVE PromisesKept'
  OBVIOUS
<1> USE DEF Inv
<1>0. TypeOK'
  BY TypeStep
<1> DEFINE RolesFit ==
             \A i \in Peers :
               /\ role'[i] = "LEADER" => i \in led'
               /\ role'[i] = "CANDIDATE" => choice'[i] \in {i, Nobody}
<1>1. RolesFit
  <2> USE DEF TypeOK, PromisesKept
  <2>1. ASSUME NEW x \in Peers, Stand(x) \/ Nominate(x) \/ Elect(x) \/ Lose(x) PROVE RolesFit
    BY <2>1 DEF Stand, Nominate, Elect, Lose
  <2>2. ASSUME NEW x \in Peers, Retire(x) \/ Expel(x) \/ Die(x) PROVE RolesFit
    BY <2>2 DEF Retire, Expel, Die
  <2>3. ASSUME NEW x \in Peers, NEW j \in Peers, Grant(j, x) \/ Follow(j, x) PROVE RolesFit
    BY <2>3 DEF Grant, Free, Follow
  <2> QED  BY <2>1, <2>2, <2>3 DEF Next, vars
<1>2. ASSUME Intact', NEW i \in led
      PROVE  choice'[i] = i /\ role'[i] # "CANDIDATE" /\ Voters(i) \subseteq Voters(i)'
  <2> DEFINE Kept == choice'[i] = i /\ role'[i] # "CANDIDATE" /\ Voters(i) \subseteq Voters(i)'
  <2>1. Intact /\ view' = view
    BY <1>2, DamageIsForGood
  <2>2. i \in Peers /\ i # Nobody /\ choice[i] = i /\ role[i] # "CANDIDATE"
    BY <2>1 DEF Electorate, TypeOK, PromisesKept
  <2> USE <2>2 DEF TypeOK, Voters
  <2>3. ASSUME NEW x \in Peers, Stand(x) \/ Retire(x) \/ Die(x) PROVE Kept
    BY <2>3 DEF Stand, Retire, Die
  <2>4. ASSUME NEW x \in Peers, Nominate(x) \/ Lose(x) PROVE Kept
    BY <2>4 DEF Nominate, Lose, PromisesKept
  <2>5. ASSUME NEW x \in Peers, Elect(x) PROVE Kept
    BY <2>5 DEF Elect
  <2>6. ASSUME NEW x \in Peers, Expel(x) PROVE Kept
    BY <2>1, <2>6 DEF Expel, Intact
  <2>7. ASSUME NEW x \in Peers, NEW j \in Peers, Grant(j, x) PROVE Kept
    BY <2>7 DEF Grant, Free
  <2>8. ASSUME NEW x \in Peers, NEW j \in Peers, Follow(j, x) PROVE Kept
    <3>1. role[j] = "CANDIDATE"
      BY <2>1, <2>8, OnlyOne DEF Follow, OneEverLeads, PromisesKept
    <3> QED  BY <2>8, <3>1 DEF Follow, PromisesKept
  <2> QED  BY <2>3, <2>4, <2>5, <2>6, <2>7, <2>8 DEF Next, vars
<1>3. ASSUME Intact', NEW i \in led'
      PROVE  /\ choice'[i] = i /\ role'[i] # "CANDIDATE"
             /\ 2 * Cardinality(Voters(i)') > Cardinality(Peers)
  <2>1. Intact
    BY <1>3, DamageIsForGood
  <2>2. Voters(i) \in SUBSET Peers /\ Voters(i)' \in SUBSET Peers
    BY DEF Voters
  <2>3. CASE i \in led
    <3>1. 2 * Cardinality(Voters(i)) > Cardinality(Peers)
      BY <2>1, <2>3 DEF PromisesKept
    <3>2. 2 * Cardinality(Voters(i)') > Cardinality(Peers)
      BY <1>2, <1>3, <2>2, <2>3, <3>1, MajorityGrows
    <3> QED  BY <1>2, <1>3, <2>3, <3>2
  <2>4. CASE i \notin led
    <3>1. i \in Peers /\ Elect(i)
      BY <1>3, <2>4 DEF Next, Stand, Nominate, Elect, Lose, Retire, Expel, Die, Grant, Follow, vars, TypeOK
    <3>2. 2 * Cardinality(Voters(i)) > Cardinality(Peers)
      BY <2>1, <3>1, WinnerHasMajority
    <3>3. Voters(i)' = Voters(i) /\ choice'[i] = i /\ role'[i] = "LEADER"
      BY <3>1 DEF Elect, Voters, TypeOK
    <3> QED  BY <3>2, <3>3
  <2> QED  BY <2>3, <2>4
<1>4. PromisesKept' <=> RolesFit /\ (Intact' => \A i \in led' :
                          /\ choice'[i] = i /\ role'[i] # "CANDIDATE"
                          /\ 2 * Cardinality(Voters(i)') > Cardinality(Peers))
  BY Zenon DEF PromisesKept
<1> QED  BY <1>1, <1>3, <1>4, Zenon

\* In any finite electorate, until somebody is expelled at most one peer has ever led.
THEOREM OneLeaderEver == Electorate /\ Spec => []OneEverLeads
<1>1. Electorate /\ Init => Inv
  BY DEF Init, Inv, Electorate, TypeOK, Roles, PromisesKept
<1>2. Inv /\ [Next]_vars => Inv'
  BY TypeStep, PromiseStep DEF Inv
<1> QED  BY <1>1, <1>2, OnlyOne, PTL DEF Spec
=============================================================================
