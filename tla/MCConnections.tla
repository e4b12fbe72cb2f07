---------------------------- MODULE MCConnections ----------------------------
(* Connections with two connection ids. Telegram reports c1 for either of    *)
(* two holders (the owner conflict) and c2 for the first one only, so o1 has *)
(* two connections.                                                          *)
EXTENDS Connections, TLC
CONSTANTS c1, c2, o1, o2

MCClaims == (c1 :> {o1, o2}) @@ (c2 :> {o1})

\* Open onboarding, or only the second holder.
MCAllowlists == {{}, {o2}}

\* The goroutines are interchangeable.
MCSymmetry == Permutations(Procs)
==============================================================================
