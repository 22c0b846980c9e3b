------------------------------- MODULE Loops -------------------------------
(***************************************************************************)
(* Loops over lists and sets as values.  What a turn does is a function,   *)
(* not an operator, so that one lemma serves all loops.                    *)
(***************************************************************************)
EXTENDS Sequences, SequencesExt

\* A loop over f: Add[x][K] is what the turn of x makes of K.
Through(f, L, Add) == FoldLeft(LAMBDA K, x : Add[x][K], L, f)

\* A loop over a set, in an order of its own.
Over(S, v, Do) == FoldSet(LAMBDA x, u : Do[x][u], v, S)

\* A loop whose turns make choices, from any of S: Step[x][v] are the outcomes
\* of the turn of x at v.
Outcomes(f, S, Step) ==
  Through(f, S, [x \in DOMAIN Step |-> [T \in SUBSET DOMAIN Step[x] |-> UNION {Step[x][v] : v \in T}]])
=============================================================================
