---------------------------- MODULE MCOnboarding ----------------------------
(* Onboarding with two accounts that may log in, one token page each.       *)
EXTENDS Onboarding, TLC

Symmetry == Permutations(Details) \cup Permutations(JiraTokens) \cup Permutations(TempoTokens)
            \cup Permutations(Accounts)
=============================================================================
