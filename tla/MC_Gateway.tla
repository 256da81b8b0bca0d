----------------------------- MODULE MC_Gateway -----------------------------
EXTENDS Gateway

\* Shard 0 receives events after READY, the others only READY.
MCMaxSeq(s) == IF s = 0 THEN 2 ELSE 1

=============================================================================
