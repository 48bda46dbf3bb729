-------------------------- MODULE PeerPolicyProofs --------------------------
(***************************************************************************)
(* What PeerPolicy is for follows from it.                                 *)
(***************************************************************************)
EXTENDS PeerPolicy, TLAPS

(* A strike count that is a number is what PolicySafe needs besides itself. *)
PolicyInv == PolicySafe /\ row \in 0..Strikes /\ (fresh => ~live)

(* Whoever keeps the policy runs no tunnel through an excluded address, nor *)
(* through a far end whose strikes are used up; as both run loops implement *)
(* it, both have this.                                                      *)
THEOREM PolicyIsSafe ==
    ASSUME Strikes \in Nat \ {0}
    PROVE  Spec => []PolicySafe
<1>1. Init => PolicyInv
  BY DEF Init, PolicyInv, PolicySafe
<1>2. PolicyInv /\ [Next]_pvars => PolicyInv'
  <2>. SUFFICES ASSUME PolicyInv, [Next]_pvars PROVE PolicyInv'
    OBVIOUS
  <2>. USE DEF PolicyInv, PolicySafe
  <2>1. CASE \E p \in Peers : Begin(p)
    BY <2>1 DEF Begin
  <2>2. CASE EndSoon \/ EndLate
    BY <2>2 DEF EndSoon, EndLate
  <2>3. CASE GiveUp
    BY <2>3 DEF GiveUp
  <2>4. CASE Recover
    BY <2>4 DEF Recover
  <2>5. CASE Start
    BY <2>5 DEF Start
  <2>6. CASE Restart
    BY <2>6 DEF Restart
  <2>7. CASE UNCHANGED pvars
    BY <2>7 DEF pvars
  <2>. QED
    BY <2>1, <2>2, <2>3, <2>4, <2>5, <2>6, <2>7 DEF Next
<1>3. PolicyInv => PolicySafe
  BY DEF PolicyInv
<1>. QED
  BY <1>1, <1>2, <1>3, PTL DEF Spec
=============================================================================
