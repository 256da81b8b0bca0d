---------------------------- MODULE MC_RestQueue ----------------------------
EXTENDS RestQueue

\* Endpoints 1 and 2 share queue 1; endpoint 3, where there is one, has its own.
MCQueueOf(e) == IF e <= 2 THEN 1 ELSE 2

\* Requests are interchangeable until they are posted.
MCSymmetry == Permutations(Requests)

=============================================================================
