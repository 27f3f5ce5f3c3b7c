-------------------------- MODULE CredentialVaultMC --------------------------
(* Instances of CredentialVault for TLC. *)
EXTENDS CredentialVault, TLC

Symmetry == Permutations(Sessions) \cup Permutations(Calls)

\* Of a credential that was contended for the invariants say nothing any more,
\* in that state and in all that come after it.  A run goes on with one that is
\* kept for emergencies, to see that the others come to no harm.
SomethingToCheck == contended \subseteq BreakGlass
=============================================================================
