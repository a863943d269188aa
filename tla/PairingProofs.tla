--------------------------- MODULE PairingProofs ---------------------------
(***************************************************************************)
(* What the promise of a call implies, for any number of connections.      *)
(* CallsProofs shows that the browsers keep the promise, and inherits both *)
(* theorems.                                                               *)
(***************************************************************************)
EXTENDS Pairing, SequenceTheorems, TLAPS

Ends == [own : Users, peer : Users, role : Roles, with : Nat, up : BOOLEAN]

\* A description is that of an opposite connection, and what is up is paired.
PairingInv ==
    /\ ends \in Seq(Ends)
    /\ \A i \in DOMAIN ends :
           /\ ends[i].with # No => ends[i].with \in DOMAIN ends /\ Opposite(i, ends[i].with)
           /\ ends[i].up => Paired(i)

\* What a step keeps of each connection: everything but its description, if it
\* has none, and whether it is up.
Kept ==
    /\ DOMAIN ends \subseteq DOMAIN ends'
    /\ \A i \in DOMAIN ends :
           /\ ends'[i].own = ends[i].own /\ ends'[i].peer = ends[i].peer
           /\ ends'[i].role = ends[i].role
           /\ ends[i].with # No => ends'[i].with = ends[i].with

LEMMA EndsAre ==
    ASSUME PairingInv
    PROVE  DOMAIN ends = 1..Len(ends) /\ Len(ends) \in Nat /\ No \notin DOMAIN ends
           /\ \A i \in DOMAIN ends : ends[i] \in Ends
<1>1. ends \in Seq(Ends)
      BY DEF PairingInv
<1>2. Len(ends) \in Nat /\ DOMAIN ends = 1..Len(ends)
      BY <1>1, LenProperties
<1>3. \A i \in 1..Len(ends) : ends[i] \in Ends
      BY <1>1, ElementOfSeq
<1> QED BY <1>2, <1>3 DEF No

\* Making a connection adds one that is not described.
LEMMA MakeAdds ==
    ASSUME PairingInv, NEW u \in Users, NEW p \in Users, NEW role \in Roles, Make(u, p, role)
    PROVE  /\ Kept /\ ends' \in Seq(Ends)
           /\ \A i \in DOMAIN ends' :
                  (i \in DOMAIN ends /\ ends'[i] = ends[i]) \/ (ends'[i].with = No /\ ~ends'[i].up)
<1> DEFINE new == [own |-> u, peer |-> p, role |-> role, with |-> No, up |-> FALSE]
<1>1. new \in Ends /\ new.with = No /\ ~new.up
      BY DEF Ends, No
<1>2. ends \in Seq(Ends) /\ ends' = Append(ends, new)
      BY DEF PairingInv, Make
<1> HIDE DEF new
<1>3. /\ ends' \in Seq(Ends) /\ Len(ends') = Len(ends) + 1
      /\ \A i \in 1..Len(ends) : ends'[i] = ends[i]
      /\ ends'[Len(ends) + 1] = new
      /\ DOMAIN ends' = 1..Len(ends')
      BY <1>1, <1>2, AppendProperties, LenProperties
<1>4. DOMAIN ends = 1..Len(ends) /\ Len(ends) \in Nat
      BY EndsAre
<1>5. Kept
      BY <1>3, <1>4 DEF Kept
<1>6. \A i \in DOMAIN ends' : i \in DOMAIN ends \/ i = Len(ends) + 1
      BY <1>3, <1>4
<1> QED BY <1>1, <1>3, <1>4, <1>5, <1>6

\* A step on one connection replaces it.
LEMMA Replaces ==
    ASSUME PairingInv, NEW i \in DOMAIN ends, NEW r \in Ends, ends' = [ends EXCEPT ![i] = r],
           r.own = ends[i].own, r.peer = ends[i].peer, r.role = ends[i].role,
           ends[i].with # No => r.with = ends[i].with
    PROVE  /\ Kept /\ ends' \in Seq(Ends) /\ DOMAIN ends' = DOMAIN ends
           /\ ends'[i] = r /\ \A j \in DOMAIN ends : j # i => ends'[j] = ends[j]
<1>1. DOMAIN ends = 1..Len(ends) /\ ends \in Seq(Ends)
      BY EndsAre DEF PairingInv
<1>2. ends' \in Seq(Ends)
      BY <1>1, ExceptSeq
<1>3. DOMAIN ends' = DOMAIN ends /\ ends'[i] = r /\ \A j \in DOMAIN ends : j # i => ends'[j] = ends[j]
      OBVIOUS
<1> QED BY <1>2, <1>3 DEF Kept

\* Every step keeps the connections.
LEMMA StepKeeps == PairingInv /\ [Next]_ends => Kept /\ PairingInv'
<1> SUFFICES ASSUME PairingInv, [Next]_ends PROVE Kept /\ PairingInv'
    OBVIOUS
<1>0. /\ \A i \in DOMAIN ends : ends[i] \in Ends
      /\ No \notin DOMAIN ends /\ DOMAIN ends \subseteq Nat
      BY EndsAre
<1>1. ASSUME NEW u \in Users, NEW p \in Users, NEW role \in Roles, Make(u, p, role)
      PROVE  Kept /\ PairingInv'
      <2>1. /\ Kept /\ ends' \in Seq(Ends)
            /\ \A i \in DOMAIN ends' :
                  (i \in DOMAIN ends /\ ends'[i] = ends[i]) \/ (ends'[i].with = No /\ ~ends'[i].up)
            BY <1>1, MakeAdds
      <2>2. ASSUME NEW i \in DOMAIN ends'
            PROVE  /\ ends'[i].with # No => ends'[i].with \in DOMAIN ends' /\ Opposite(i, ends[i].with)'
                   /\ ends'[i].up => Paired(i)'
            BY <2>1, <2>2, <1>0 DEF PairingInv, Kept, Opposite, Paired
      <2> QED BY <2>1, <2>2 DEF PairingInv
<1>2. ASSUME NEW i \in DOMAIN ends, NEW j \in DOMAIN ends, Describe(i, j)
      PROVE  Kept /\ PairingInv'
      <2> DEFINE r == [ends[i] EXCEPT !.with = j]
      <2>1. r \in Ends /\ ends' = [ends EXCEPT ![i] = r] /\ ends[i].with = No /\ r.with = j
            BY <1>0, <1>2 DEF Describe, Ends
      <2>2. /\ r.own = ends[i].own /\ r.peer = ends[i].peer /\ r.role = ends[i].role
            /\ r.up = ends[i].up
            BY <1>0 DEF Ends
      <2> HIDE DEF r
      <2>3. /\ Kept /\ ends' \in Seq(Ends) /\ DOMAIN ends' = DOMAIN ends
            /\ ends'[i] = r /\ \A k \in DOMAIN ends : k # i => ends'[k] = ends[k]
            BY <2>1, <2>2, Replaces
      <2>4. ASSUME NEW k \in DOMAIN ends
            PROVE  /\ ends'[k].with # No => ends'[k].with \in DOMAIN ends' /\ Opposite(k, ends[k].with)'
                   /\ ends'[k].up => Paired(k)'
            <3>1. CASE k = i
                  <4>1. ~ends[i].up
                        BY <1>0, <2>1 DEF PairingInv, Paired
                  <4> QED BY <1>2, <2>1, <2>2, <2>3, <3>1, <4>1 DEF Opposite, Describe, Kept
            <3>2. CASE k # i
                  BY <1>0, <2>3, <3>2 DEF PairingInv, Kept, Opposite, Paired
            <3> QED BY <3>1, <3>2
      <2> QED BY <2>3, <2>4 DEF PairingInv
<1>3. ASSUME NEW i \in DOMAIN ends, ComeUp(i) \/ GoDown(i)
      PROVE  Kept /\ PairingInv'
      <2>1. PICK b \in BOOLEAN : ends' = [ends EXCEPT ![i] = [ends[i] EXCEPT !.up = b]]
                                 /\ (b => Paired(i))
            <3>1. CASE ComeUp(i)
                  BY <3>1 DEF ComeUp
            <3>2. CASE GoDown(i)
                  BY <3>2 DEF GoDown
            <3> QED BY <1>3, <3>1, <3>2
      <2> DEFINE r == [ends[i] EXCEPT !.up = b]
      <2>2. r \in Ends /\ r.with = ends[i].with /\ r.up = b
            BY <1>0 DEF Ends
      <2>3. r.own = ends[i].own /\ r.peer = ends[i].peer /\ r.role = ends[i].role
            BY <1>0 DEF Ends
      <2>4. ends' = [ends EXCEPT ![i] = r]
            BY <2>1
      <2> HIDE DEF r
      <2>5. /\ Kept /\ ends' \in Seq(Ends) /\ DOMAIN ends' = DOMAIN ends
            /\ ends'[i] = r /\ \A k \in DOMAIN ends : k # i => ends'[k] = ends[k]
            BY <2>2, <2>3, <2>4, Replaces
      <2>6. ASSUME NEW k \in DOMAIN ends
            PROVE  /\ ends'[k].with # No => ends'[k].with \in DOMAIN ends' /\ Opposite(k, ends[k].with)'
                   /\ ends'[k].up => Paired(k)'
            <3>1. ends'[k].with = ends[k].with
                  BY <2>2, <2>5
            <3>2. ends'[k].up => Paired(k)
                  BY <2>1, <2>2, <2>5 DEF PairingInv
            <3> QED BY <2>2, <2>5, <3>1, <3>2 DEF PairingInv, Kept, Opposite, Paired
      <2> QED BY <2>5, <2>6 DEF PairingInv
<1>4. CASE UNCHANGED ends
      BY <1>4 DEF Kept, PairingInv, Opposite, Paired
<1> QED BY <1>1, <1>2, <1>3, <1>4 DEF Next

LEMMA PairingAlways == Spec => []PairingInv
<1>1. Init => PairingInv
      BY EmptySeq DEF Init, PairingInv
<1> QED BY <1>1, StepKeeps, PTL DEF Spec

\* A call that is up connects the two users who called and answered each
\* other, and no connection serves two calls.
THEOREM CallsArePairs == Spec => []UpInPairs
<1>1. PairingInv => UpInPairs
      <2> SUFFICES ASSUME PairingInv, NEW i \in DOMAIN ends, ends[i].up
                   PROVE  /\ Paired(i) /\ Opposite(i, ends[i].with)
                          /\ \A j \in DOMAIN ends :
                                 ends[j].up /\ ends[j].with = ends[i].with => j = i
          BY DEF UpInPairs
      <2>1. Paired(i) /\ ends[i].with # No
            BY EndsAre DEF PairingInv, Paired
      <2>2. Opposite(i, ends[i].with)
            BY <2>1 DEF PairingInv
      <2>3. \A j \in DOMAIN ends : ends[j].up /\ ends[j].with = ends[i].with => j = i
            BY <2>1 DEF PairingInv, Paired
      <2> QED BY <2>1, <2>2, <2>3
<1> QED BY <1>1, PairingAlways, PTL

\* No connection is described a second time.
THEOREM DescriptionsStay == Spec => DescribedOnce
<1>1. PairingInv /\ [Next]_ends =>
          [\A i \in DOMAIN ends : ends[i].with # No =>
               i \in DOMAIN ends' /\ ends'[i].with = ends[i].with]_ends
      BY StepKeeps DEF Kept
<1> QED BY <1>1, PairingAlways, PTL DEF Spec, DescribedOnce
=============================================================================
