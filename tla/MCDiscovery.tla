----------------------------- MODULE MCDiscovery -----------------------------
(* Discovery for TLC: two listings under one link, a search that finds them, a *)
(* search by location at another provider, and a battery of both.              *)
EXTENDS Discovery, TLC

CONSTANTS h1, h2, slug, link

MCProviderOf == h1 :> "himalayas" @@ h2 :> "himalayas"
MCLinkOf == h1 :> link @@ h2 :> link
MCExpiryOf == h1 :> 2 @@ h2 :> None

Query(p, term, geo) ==
    [provider |-> p, query |-> term, geo |-> geo, filters |-> {}, page |-> 1]

One == Query("himalayas", "one", None)
Two == Query("himalayas", "two", None)
Local == Query("jobicy", "one", slug)

MCRequests == {One, Local}
MCSearches == {One}
MCAnywhere == {Query("jobicy", "one", None)}
MCBatteries == {<<One, Two>>}

Symmetry == Permutations(Calls)

=============================================================================
