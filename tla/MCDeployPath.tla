----------------------------- MODULE MCDeployPath -----------------------------
(* Commits for the runs of DeployPath, the first two sharing a prefix, what    *)
(* callers ask for, and the GitHub tokens users have.                          *)
EXTENDS DeployPath, TLC

Commits == << <<1, 1>>, <<1, 2>>, <<2, 1>> >>
Asked == {<<1>>, <<1, 2>>}
Found == [env : {"none", "workflow"}, stored : {"none"}]
Sym == Permutations(Clients)
=============================================================================
