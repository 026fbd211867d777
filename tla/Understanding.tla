---------------------------- MODULE Understanding ----------------------------
(***************************************************************************)
(* What the rules make of a message: its category (intent_classifier), its *)
(* language (language_detector), and whether it makes no sense without the *)
(* question before it (dialogue_manager).  A text is a sequence of words,  *)
(* a word stands for all those that the same entry of a table, or the same *)
(* group of a regular expression, accepts in the four languages.           *)
(***************************************************************************)
EXTENDS Naturals, Sequences

CONSTANTS
    SmallTalkWords,    \* _SMALL_TALK_MAX_WORDS (5)
    FollowUpWords      \* _FOLLOW_UP_MAX_WORDS (6)

Says(t, w) == \E i \in DOMAIN t : t[i] = w

\* The words of p in a row.
Phrase(t, p) ==
    \E i \in 0..Len(t) : i + Len(p) <= Len(t) /\ \A j \in DOMAIN p : t[i + j] = p[j]

Ending(t, p) == Len(p) <= Len(t) /\ \A j \in DOMAIN p : t[Len(t) - Len(p) + j] = p[j]

---------------------------------------------------------------------------
(* intent_classifier                                                       *)

\* A wish to talk and a human role, a wish for a role that ends the request
\* ("un agent electronique" is a product), or the role alone.
Explicit(t) == Phrase(t, <<"speak", "human">>) \/ Ending(t, <<"want", "human">>) \/ t = <<"human">>

\* Discontent and the service, or a fixed expression; "le produit est nul"
\* is none.
Frustrated(t) == Phrase(t, <<"service", "awful">>) \/ Says(t, "fedup")

\* extract_order_number, or a phrase about the customer's own order.
AboutOrder(t) == Says(t, "number") \/ Phrase(t, <<"where", "my", "order">>)

\* _SMALL_TALK_WORDS: kind and language, "any" for a word of no language.
Courtesy ==
    [hello |-> <<"greeting", "en">>, how |-> <<"greeting", "en">>, merci |-> <<"thanks", "fr">>,
     thanks |-> <<"thanks", "en">>, much |-> <<"thanks", "any">>, aslema |-> <<"greeting", "tn">>,
     alsalam |-> <<"greeting", "ar">>, bye |-> <<"goodbye", "en">>]

\* Nothing but words of courtesy, few of them, one of a language.
SmallTalk(t) ==
    /\ Len(t) \in 1..SmallTalkWords
    /\ \A i \in DOMAIN t : t[i] \in DOMAIN Courtesy
    /\ \E i \in DOMAIN t : Courtesy[t[i]][2] # "any"

\* language_hint: the language of the first word that has one.
Hint(t) ==
    Courtesy[t[CHOOSE i \in DOMAIN t : /\ Courtesy[t[i]][2] # "any"
                                       /\ \A j \in 1..(i - 1) : Courtesy[t[j]][2] = "any"]][2]

\* The rules in their order: a customer who asks for a human or complains is
\* transferred, whatever the message is about.
classify(t) ==
    IF Explicit(t) THEN "explicit"
    ELSE IF Frustrated(t) THEN "frustration"
    ELSE IF AboutOrder(t) THEN "order_tracking"
    ELSE IF SmallTalk(t) THEN "small_talk"
    ELSE "general"

---------------------------------------------------------------------------
(* language_detector                                                       *)

ArabicScript == {"alsalam", "daman", "barsha"}
TunisianArabic == {"barsha"}
Arabizi == {"mochkla", "n7eb"}      \* "5v" is a unit
EnglishHints == {"how", "where", "my", "want", "thanks", "it"}
FrenchHints == {"merci", "le"}

Marked(t, words) == \E i \in DOMAIN t : t[i] \in words

\* A word of less than MIN_CHARS_FOR_STATISTICAL_DETECTION letters, alone.
TooShort(t) == t \in {<<>>, <<"5v">>, <<"et">>, <<"my">>, <<"it">>}

\* guess: what langdetect makes of a text in Latin letters.
detect_language(t, guess) ==
    IF Marked(t, ArabicScript) THEN IF Marked(t, TunisianArabic) THEN "tn" ELSE "ar"
    ELSE IF Marked(t, Arabizi) THEN "tn"
    ELSE IF TooShort(t) THEN "fr"
    ELSE IF guess \in {"fr", "en", "ar"} THEN guess
    ELSE IF Marked(t, EnglishHints) /\ ~Marked(t, FrenchHints) THEN "en"
    ELSE "fr"

---------------------------------------------------------------------------
(* dialogue_manager                                                        *)

OnlyNumber(t) == \A i \in DOMAIN t : t[i] = "number"

\* Variant: only the message just before.
ConversationLanguage_Last(past, t, guess) ==
    IF OnlyNumber(t) /\ past # <<>> THEN detect_language(past[Len(past)], guess)
    ELSE detect_language(t, guess)

\* _conversation_language: a message reduced to an order number is answered
\* in the language of the customer's last text.
ConversationLanguage(past, t, guess) ==
    LET texts == {i \in DOMAIN past : ~OnlyNumber(past[i])} IN
    IF OnlyNumber(t) /\ texts # {}
    THEN detect_language(past[CHOOSE i \in texts : \A j \in texts : j <= i], guess)
    ELSE detect_language(t, guess)

\* The language of the reply to t after the messages past.
ReplyLanguage(past, t, guess) ==
    CASE classify(t) = "order_tracking" -> ConversationLanguage(past, t, guess)
      [] classify(t) = "small_talk" -> Hint(t)
      [] OTHER -> detect_language(t, guess)

Connectors == {"et", "and"}
Pronouns == {"it", "hedha"}

\* _is_follow_up: a connector first, or a pronoun in a short question.
FollowUp(t) ==
    /\ t # <<>>
    /\ t[1] \in Connectors \/ (Len(t) <= FollowUpWords /\ Marked(t, Pronouns))

\* Variant: the message just before, a follow-up as well.
RetrievalQuery_Last(past, t) ==
    IF FollowUp(t) /\ past # <<>> THEN past[Len(past)] \o t ELSE t

\* _build_retrieval_query: a follow-up is searched behind the customer's last
\* message that is none.
RetrievalQuery(past, t) ==
    LET alone == {i \in DOMAIN past : ~FollowUp(past[i])} IN
    IF FollowUp(t) /\ alone # {}
    THEN past[CHOOSE i \in alone : \A j \in alone : j <= i] \o t
    ELSE t
=============================================================================
