----------------------------- MODULE MCMainPage -----------------------------
EXTENDS MainPage

MCItems == Items
Interchangeable == Permutations(Groups) \cup Permutations(Businesses)
=============================================================================
