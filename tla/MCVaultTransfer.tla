---------------------------- MODULE MCVaultTransfer ----------------------------
(* Two projects; the first one has a row of every table.                   *)
EXTENDS VaultTransfer, TLC

CONSTANTS A, B, s1, t1, t2, d1, d2, k1, k2, r1, f1, f2, g1, x1, c1, u1, i1, p1, p2

MCOwner ==
    [r \in {s1, t1, d1, k1, k2, r1, f1, f2, g1, c1, u1, i1, d2} |-> A] @@ (t2 :> B)

\* An item of a project that is set up while the export goes on.
MCLateOwner == [MCOwner EXCEPT ![i1] = B]

MCUses ==
    (k1 :> {t1}) @@ (k2 :> {d2}) @@ (f1 :> {r1, t1}) @@ (f2 :> {r1}) @@ (g1 :> {t1})

MCNames == (u1 :> c1)

CallSymmetry == Permutations(Restores)
=============================================================================
