------------------------------ MODULE MCAdmission ------------------------------
EXTENDS Admission, TLC

Symmetry == Permutations(Clients)
===============================================================================
