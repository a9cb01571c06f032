--------------------------- MODULE MCNegotiation ---------------------------
EXTENDS Negotiation

Key(d, target, contract) ==
    [digest |-> d, adapter |-> "app", target |-> target, contract |-> contract]
Sync(d) == Key(d, "mirrorecma-v1", "mirrors.state-computer/v1")
Async(d) == Key(d, "mirrorecma-async-v1", "mirrors.async-state-computer/v1")

(* Two of the descriptors fill the entries, two others the bytes, and one   *)
(* is too large.                                                           *)
MCSize == [d \in Digests |-> CASE d = "d1" -> 1 [] d = "d4" -> 4 [] OTHER -> 2]

MCRegistrations == <<Sync("d1"), Async("d2"), Async("d2"), Sync("d3")>>

Select(kind, async, key, policy, fallback) ==
    [kind |-> kind, async |-> async, key |-> key, policy |-> policy, fallback |-> fallback]

MCSelections ==
    {Select("compiled", FALSE, Sync("d1"), "prefer", TRUE),
     Select("compiled", FALSE, Async("d2"), "require", FALSE),
     Select("compiled", FALSE, Async("d3"), "require", FALSE),
     Select("compiled", FALSE, Key("d1", "mirrorecma-v2", "mirrors.state-computer/v1"), "require", FALSE),
     Select("registry", FALSE, Sync("d4"), "require", FALSE),
     Select("registry", FALSE, Sync("d1"), "require", FALSE),
     Select("scope", TRUE, Sync("d2"), "prefer", FALSE)}

Symmetry == Permutations(Runs)
=============================================================================
