--------------------------- MODULE MCMemoryContext ---------------------------
(***************************************************************************)
(* An instance of MemoryContext for TLC: two memories from before revision *)
(* 0008, a private observation, and one from an untrusted source.          *)
(***************************************************************************)
EXTENDS MemoryContext, TLC

CONSTANTS m1, m2, m3, m4, r1

Observation(content, keys, provenance, trust, class, pii) ==
    [tenant |-> "t", content |-> content, keys |-> keys, provenance |-> provenance,
     confidence |-> 6, trust |-> trust, class |-> class, pii |-> pii, created |-> 0, expires |-> 2,
     status |-> "proposed", roles |-> {}, purposes |-> {}]

Observations ==
    m1 :> Observation("old", {"email"}, "crm", "advisory", "restricted", TRUE)
        @@ m2 :> Observation("new", {"email"}, "run", "advisory", "internal", TRUE)
        @@ m3 :> Observation("older", {}, "run", "advisory", "internal", FALSE)
        @@ m4 :> Observation("other", {"email"}, "web", "untrusted", "public", FALSE)

Fact(id, value, until, policy, injected) ==
    [tenant |-> "t", id |-> id, subject |-> "s", value |-> value, observed |-> 0, until |-> until,
     trust |-> "authoritative", class |-> "internal", policy |-> policy, injected |-> injected,
     roles |-> {}, purposes |-> {}]

Command(facts, memories) ==
    [tenant |-> "t", roles |-> {"operator"}, purpose |-> "run_context", clearance |-> "internal",
     subjects |-> {}, facts |-> facts, refs |-> {}, memories |-> memories, conflicts |-> {},
     history |-> "h", tools |-> {}]

Requests ==
    {Command(<<>>, {m4}),
     Command(<<Fact("stock", 1, 0, "warn", FALSE), Fact("price", 7, 2, "strict", TRUE),
               Fact("stock", 2, 0, "lax", FALSE), Fact("owner", 3, 0, "strict", FALSE)>>, {m2})}

Chain == {<<m1, m3>>, <<m3, m2>>}

OneTenant == [r \in Run |-> "t"]
\* Callers are interchangeable.
Callers == Permutations(Caller)
Roles == {{"privacy_reviewer"}}
=============================================================================
