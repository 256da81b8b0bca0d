--------------------------- MODULE MC_HttpsClient ---------------------------
EXTENDS HttpsClient

\* A response of every framing; bodies of up to three bytes in two chunks.
MCResponses ==
    {[framing |-> "length", chunks |-> <<3>>],
     [framing |-> "chunked", chunks |-> <<1, 2>>],
     [framing |-> "chunked", chunks |-> <<>>],
     [framing |-> "unknown", chunks |-> <<2>>],
     [framing |-> "none", chunks |-> <<>>],
     [framing |-> "malformed", chunks |-> <<>>],
     [framing |-> "bad_chunk", chunks |-> <<2>>]}

=============================================================================
