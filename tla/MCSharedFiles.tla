--------------------------- MODULE MCSharedFiles ---------------------------
(* Small instances of SharedFiles.  The catalog: "openai" is packaged and     *)
(* withdraws m2 and a level of m1 in its second release; "local" is the       *)
(* user's own and has no levels.                                              *)
EXTENDS SharedFiles

Offers(m1, m2) == [m1 |-> m1, m2 |-> m2]

MCOpenAI == [models |-> {"m1", "m2"}, default |-> "m1", removed |-> {},
             levels |-> Offers({"low", "medium"}, {"low"})]
MCBundled == << [openai |-> MCOpenAI],
                [openai |-> [MCOpenAI EXCEPT !.removed = {"m2"},
                                             !.levels = Offers({"low"}, {"low"})]] >>
MCLocal == [models |-> {"m1"}, default |-> "m1", removed |-> {}, levels |-> Offers({}, {})]

MCLegacy ==
    [default |-> "local", scoped |-> << <<"openai", "m2">>, <<"local", "m1">> >>,
     providers |-> [openai |-> [ConfigOf(MCOpenAI) EXCEPT !.chosen["m1"] = "medium"],
                    local  |-> ConfigOf(MCLocal)]]
MCNoMedium == [MCOpenAI EXCEPT !.levels = Offers({"low"}, {"low"})]
MCCatalogEdits == [openai |-> {Withdrawal({"m2"}), MCNoMedium}, local |-> {MCLocal}]
MCNameOrder == <<"local", "openai">>
MCLevelOrder == <<"low", "medium">>
=============================================================================
