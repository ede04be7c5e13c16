----------------------------- MODULE KieGateway -----------------------------
(***************************************************************************)
(* What the gateway to the language model answers: the model writes what   *)
(* it likes, and the gateway parses and filters it before a handler sees   *)
(* it.  Every operator is the set of answers that can come out; a call     *)
(* that fails or times out is the handlers' matter.  Prompts and texts are *)
(* left out: no handler decides anything by them.                          *)
(***************************************************************************)
EXTENDS Integers

CONSTANTS
    MaxItems,   \* bound: articles the model names in one answer
    Nobody      \* no article

\* The model may name an article twice; nothing removes the repetition.
Lists(S) == UNION {[1 .. n -> S] : n \in 1 .. MaxItems}

\* Orders of articles that were asked for; without any, it is no order.  Those
\* without a price are dropped by the handler, and left out here: there may be none
\* but them.
OrderAnswers(nm_ids) == [is_order : BOOLEAN, nm_ids : Lists(nm_ids) \cup {<<>>}]

FeedbackAnswers(nm_ids) ==
    [is_feedback : BOOLEAN, nm_ids : Lists(nm_ids)]
        \cup {[is_feedback |-> FALSE, nm_ids |-> <<>>]}

\* The photo of labels is judged as a whole, whatever was asked for.
CutLabelsAnswers == [is_cut_labels : BOOLEAN]

\* Commands in the text, of which several may occur; the article to switch to
\* is any number, the handler has to check it.
QuestionAnswers(articles) ==
    [wants_to_stop : BOOLEAN, wants_manager : BOOLEAN,
     switch_to_article_id : articles \cup {Nobody}]

\* Before the dialog: articles from the list that was offered.
ChatAnswers(articles) ==
    [article_ids : Lists(articles) \cup {<<>>}, wants_manager : BOOLEAN]
=============================================================================
