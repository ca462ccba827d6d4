---------------------------- MODULE MCSafeFile ------------------------------
(* Three writers over two staging names: two of them share one.            *)
EXTENDS SafeFile, TLC
CONSTANTS w1, w2, w3, s1, s2, t1, t2, e, d1

MCStageOf == w1 :> s1 @@ w2 :> s1 @@ w3 :> s2
=============================================================================
