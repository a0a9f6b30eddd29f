---------------------------- MODULE MCCalibration ----------------------------
(* A small lexicon, drawn from the lists of text.py, and texts that bring   *)
(* every signal to its boundary.                                            *)
EXTENDS Calibration, SequencesExt

MCStopwords == {"what", "is", "the", "of", "and", "how", "do", "i", "my", "s", "t",
                "you", "when", "on"}
MCNumbers == "two" :> "2" @@ "three" :> "3"
MCDigits == {"2", "3"}
MCFactTypes == {"capital", "population"}
MCNegations == {"not", "never"}
MCAntonyms == {{"open", "close"}, {"open", "closed"}}
Content == {"don", "captial", "cloze", "france", "spain", "history", "reset", "change",
            "password", "cache", "tips", "give", "later", "soon", "see", "hello", "hi"}
MCClose == {<<"capital", "captial">>, <<"captial", "capital">>,
            <<"captial", "cloze">>}
MCWords == MCStopwords \cup DOMAIN MCNumbers \cup MCDigits \cup MCFactTypes
             \cup MCNegations \cup UNION MCAntonyms \cup Content

lo(ws) == [i \in DOMAIN ws |-> [word |-> ws[i], form |-> "lower", after |-> "gap"]]
Up(w) == <<[word |-> w, form |-> "upper", after |-> "gap"]>>
S == <<[word |-> "s", form |-> "lower", after |-> "apostrophe"]>>
NT == lo(<<"don">>) \o <<[word |-> "t", form |-> "lower", after |-> "contraction"]>>
Quote == <<[form |-> "quote"]>>
Tag == <<[form |-> "tag"]>>
Stop == <<[form |-> "stop"]>>

\* "[user] What is the capital of France" and its relatives.
WhatIsThe == Tag \o Up("what") \o lo(<<"is", "the">>)
About(fact, place) == WhatIsThe \o lo(<<fact, "of">>) \o place

MCTexts == {
  About("capital", Up("france")),
  About("capital", Up("spain")),
  About("capital", Up("france")) \o Stop \o Up("hello"),
  About("capital", Up("france")) \o S \o lo(<<"history">>),
  WhatIsThe \o Up("france") \o Quote,
  About("capital", Up("france")) \o lo(<<"not">>),
  About("population", Up("france")),
  About("captial", lo(<<"france">>)),
  WhatIsThe \o lo(<<"capital">>),
  WhatIsThe \o lo(<<"capital", "of", "france", "and", "history">>),
  lo(<<"how", "do", "i", "change", "my", "password">>),
  lo(<<"how", "do", "i", "reset", "my", "password">>),
  lo(<<"how", "do", "i">>) \o NT \o lo(<<"reset", "my", "password">>),
  lo(<<"open", "my", "cache">>),
  lo(<<"close", "my", "cache">>),
  lo(<<"give", "two", "tips">>),
  lo(<<"give", "2", "tips">>),
  lo(<<"give", "3", "tips">>),
  lo(<<"give", "2", "tips", "2">>),
  Tag \o Stop
}

Width(a) == Cardinality(WordsAt(a))

\* Every text is nearest to itself; the others are near or far, with ties.
MCScore ==
  [ab \in MCTexts \X MCTexts |->
     IF ab[1] = ab[2] THEN 3 ELSE 1 + ((Width(ab[1]) + Width(ab[2])) % 3)]

MCOpposite == -1

MCRows == [text : MCTexts, sound : BOOLEAN]

Relatives == {t \in MCTexts : Width(t) = 6} \cup {Tag \o Stop}

\* One row per text: the key of store().
MCStored ==
  {<<>>} \cup {<<row>> : row \in MCRows}
    \cup {rr \in MCRows \X MCRows : /\ rr[1].text # rr[2].text
                                   /\ {rr[1].text, rr[2].text} \subseteq Relatives}

MCThresholds == 1 .. 3
MCPairs == [similarity : MCThresholds, should_match : BOOLEAN]
MCPairLists == BoundedSeq(MCPairs, 3)
MCGrids == BoundedSeq(MCThresholds, 2)

=============================================================================
