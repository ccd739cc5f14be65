----------------------------- MODULE MCBootstrap -----------------------------
(* Three incidents of one key, the two newest updated in the same second and *)
(* the oldest with the greatest id, and one incident of another key.         *)
EXTENDS Bootstrap, TLC

MCRowKey == 1 :> "k" @@ 2 :> "k" @@ 3 :> "k" @@ 4 :> "l"

MCRowUpdated == 1 :> 2 @@ 2 :> 2 @@ 3 :> 1 @@ 4 :> 1

=============================================================================
