--------------------------- MODULE MCJobLifecycle ---------------------------
(* Instances of JobLifecycle for TLC: two jobs of chosen kinds.             *)
EXTENDS JobLifecycle, TLC

CONSTANTS j1, j2

MCTrainGen == j1 :> "train" @@ j2 :> "gen_mlx"
MCTrainApi == j1 :> "train" @@ j2 :> "gen_api"
MCGenEval == j1 :> "gen_mlx" @@ j2 :> "eval"
MCTwoApi == j1 :> "gen_api" @@ j2 :> "gen_api"
MCOneGen == j1 :> "gen_api"

\* Threads differ in nothing, and safety does not tell them apart.
Symmetry == Permutations(Thread)
=============================================================================
