----------------------------- MODULE MCIdentity -----------------------------
(* Small instances of Identity for TLC: n1 and n2 are one nick under the   *)
(* mapping "rfc1459" and two under "ascii".                                *)
EXTENDS Identity, TLC

CONSTANTS n1, n2, ascii, rfc1459

FoldNicks ==
  [m \in Mappings |-> [n \in Nicks |-> IF m = rfc1459 /\ n = n2 THEN n1 ELSE n]]

IdSymmetry == Permutations(Ids) \cup Permutations(Accounts)

=============================================================================
