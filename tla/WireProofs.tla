----------------------------- MODULE WireProofs -----------------------------
(* Messages survive the wire when both copies agree about their fields. *)
EXTENDS Wire, TLAPS

(***************************************************************************)
(* A message arrives as it was sent: zero values that were left out are    *)
(* put back, and nothing ends up in another field, provided that the       *)
(* sender gives different fields different tags and the receiver knows the *)
(* same tags (the generated copies of payment.pb.go and order.pb.go).      *)
(***************************************************************************)
THEOREM RoundTrip ==
  ASSUME NEW zero, NEW from, NEW to, NEW m,
         \A f, g \in DOMAIN zero : from[f] = from[g] => f = g,
         \A f \in DOMAIN zero : f \in DOMAIN to /\ to[f] = from[f]
  PROVE  Unmarshal(to, zero, Marshal(from, zero, m)) = [f \in DOMAIN zero |-> m[f]]
<1> DEFINE written == {f \in DOMAIN zero : m[f] # zero[f]}
           w == Marshal(from, zero, m)
<1>1. DOMAIN w = {from[f] : f \in written}
  BY DEF Marshal
<1>2. ASSUME NEW f \in written
      PROVE  from[f] \in DOMAIN w /\ w[from[f]] = m[f]
  <2>1. (CHOOSE g \in written : from[g] = from[f]) = f
    OBVIOUS
  <2> QED BY <1>1, <2>1 DEF Marshal
<1>3. ASSUME NEW f \in DOMAIN zero, f \notin written
      PROVE  from[f] \notin DOMAIN w /\ zero[f] = m[f]
  BY <1>1, <1>3
<1> QED BY <1>2, <1>3 DEF Unmarshal
=============================================================================
