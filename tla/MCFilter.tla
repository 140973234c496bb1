------------------------------ MODULE MCFilter -------------------------------
(* Small instances of the filter for TLC. *)
EXTENDS FilterProps, TLC

CONSTANTS s1, s2, s3, r1, r2, m1, m2, m3, p1, rt, free

mcStreams == {s1, s2, s3}
mcReplicaOf == s1 :> r1 @@ s2 :> r2 @@ s3 :> r2
mcReplicaOfTwo == s1 :> r1 @@ s2 :> r2
mcSkew == r1 :> 1 @@ r2 :> 0
mcNoSkew == r1 :> 0 @@ r2 :> 0

A(payer, amount, value, after, before) ==
    [payer |-> payer, accepted |-> amount, value |-> value, validAfter |-> after,
     validBefore |-> before]

\* Three alike payments of one payer, whose clamped balance covers two of them; one payment.
mcAuth == [m \in {m1, m2, m3} |-> A(p1, 2, 3, 0, 3)]
mcOnePayment == m1 :> A(p1, 2, 2, 0, 2)

\* A priced route, and one without a price.
mcTables == {rt :> 2 @@ free :> 0}
mcOneTable == {rt :> 2}
mcBalance == p1 :> 6

\* The two streams of r2 are alike, and so are the three payments.
mcSymmetry == Permutations({s2, s3}) \cup Permutations({m1, m2, m3})

==============================================================================
