----------------------------- MODULE MCAccounts -----------------------------
EXTENDS Accounts, TLC
Symmetry ==
    Permutations(Users) \cup Permutations(Workers) \cup Permutations(Slots) \cup Permutations(Commands)
=============================================================================
