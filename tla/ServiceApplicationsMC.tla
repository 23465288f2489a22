----------------------- MODULE ServiceApplicationsMC -----------------------
(***************************************************************************)
(* A small instance of ServiceApplications: two submits, for one service or *)
(* two, under one key or two.                                               *)
(***************************************************************************)
EXTENDS ServiceApplications, TLC

AnyNames == Permutations(Services) \cup Permutations(Keys) \cup Permutations(Calls)
=============================================================================
