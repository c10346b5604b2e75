---------------------------- MODULE MCProfileEdits ----------------------------
(* ProfileEdits for TLC: a change that replaces the preferences by a value     *)
(* that is no object after it has set the headline, one that removes them, one *)
(* that brings lists of which a part is hidden, and one the allow-list refuses.*)
EXTENDS ProfileEdits, TLC

CONSTANTS broken, removal, longer, refused, text, k1, k2

Op(op, path, value) == [op |-> op, path |-> path, value |-> value]

Long ==
    [NoPreferences EXCEPT
        !.saved = [job_search_presets |-> [shown |-> {k1}, hidden |-> {k2}],
                   job_search_batteries |-> [shown |-> {}, hidden |-> {k1}]]]

MCOperations ==
    broken :> <<Op("add", "headline", text), Op("replace", "preferences", Malformed)>>
    @@ removal :> <<Op("remove", "preferences", None)>>
    @@ longer :> <<Op("add", "preferences", Long)>>
    @@ refused :> <<Op("add", "headline", text), Op("add", "other", text)>>

Symmetry == Permutations(Requests) \cup Permutations(Items \ {k1, k2})

=============================================================================
