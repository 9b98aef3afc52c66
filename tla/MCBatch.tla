------------------------------- MODULE MCBatch --------------------------------
EXTENDS EngineBatch

CONSTANTS r1, r2, r3, a, b

Of(f) == [r \in Requests |-> f[r]]

\* Three requests that share prefixes, one of them all of another.  The first two together
\* outgrow a pool of 12 slots, though there was room for each when it came, and still is when
\* it comes back; what the third one finds cached is most of what could be evicted for it.
TightPrompts == Of((r1 :> <<a, b, a, b>>) @@ (r2 :> <<a, a, b, b, a>>) @@ (r3 :> <<a, b, a, b, a, b, a>>))
TightLengths == Of((r1 :> 4) @@ (r2 :> 4) @@ (r3 :> 1))

\* Two short requests that generate, and a prompt of two chunks and the next one's.
LongPrompts == Of((r1 :> <<a, a>>) @@ (r2 :> <<a, a>>) @@ (r3 :> <<b, b, b, b, b, b, b, b>>))
LongLengths == Of((r1 :> 4) @@ (r2 :> 4) @@ (r3 :> 0))
===============================================================================
