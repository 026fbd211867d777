---------------------------- MODULE MCAnswering ----------------------------
(* Texts that set off each rule and nearly do, and four chunks.            *)
EXTENDS Answering

MCTexts ==
    {<<"arduino", "price">>, <<"and", "warranty">>, <<"it", "price">>, <<"merci">>,
     <<"hello">>, <<"how", "much">>, <<"number">>, <<"my", "number">>, <<"daman">>,
     <<"n7eb", "arduino">>, <<"want", "human", "sensor">>, <<"want", "human">>,
     <<"service", "awful">>, <<"arduino", "awful">>}

MCDocs == {"uno", "nano", "kit", "policy"}
MCWordsOf ==
    [uno |-> {"arduino", "uno"}, nano |-> {"arduino", "nano"},
     kit |-> {"arduino", "it"}, policy |-> {"warranty"}]
=============================================================================
