------------------------------- MODULE Lists -------------------------------
(***************************************************************************)
(* The lists of the app: what ORDER BY and sort make of a set, and what    *)
(* filter leaves of a list.  Each is defined by what it is, not by how it  *)
(* is computed, so that it can be reasoned about: the prover has no        *)
(* definition of SortSeq and SelectSeq.                                    *)
(***************************************************************************)
EXTENDS Integers, FiniteSets

(* Before is a strict total order of S. *)
Sorted(S, Before(_, _)) ==
    CHOOSE s \in [1 .. Cardinality(S) -> S] : \A i, j \in DOMAIN s : i < j => Before(s[i], s[j])

(* The elements of s at the positions of K, in their order *)
Those(s, K) == LET at == Sorted(K, <) IN [j \in DOMAIN at |-> s[at[j]]]

Filter(s, Test(_)) == Those(s, {k \in DOMAIN s : Test(s[k])})
=============================================================================
