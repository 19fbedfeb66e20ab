---------------------------- MODULE TermProtection -----------------------------
(***************************************************************************)
(* Names that a translation must not touch: before a text is sent to the   *)
(* service, each protected term in it is replaced by a token, and the      *)
(* tokens of the answer by the terms again.  DeepL gets XML, a dozen lines *)
(* at a time (deepl.rs); a chat model gets all the lines at once and must  *)
(* keep every token exactly once (openai_compatible.rs).                   *)
(*                                                                         *)
(* A text is a sequence of characters.  A token is one character, and so   *)
(* is the rest of an entity: <<"&", "lt;">> is what "<" is escaped to.     *)
(***************************************************************************)
EXTENDS Naturals, Sequences, FiniteSets, SequencesExt

CONSTANTS
    None,
    Texts,         \* lines to translate
    Protections,   \* sets of protected terms
    Tags, Spaced,  \* the token of each number, and as DeepL may write it
    Names,         \* of each special character the rest of its entity, without "&"
    Foreign,       \* of each letter: its translation
    LineLimit,     \* lines of a request to DeepL
    MaxLines, MaxLapses    \* bounds

VARIABLES
    asked,         \* [service, lines, terms], or None
    answers,       \* the lines that are translated
    tries,         \* failed requests to a chat model
    outcome,       \* None, "translated" or "failed"
    lapses         \* failed requests, and answers that do not keep the tokens

termVars == <<asked, answers, tries, outcome, lapses>>

TermInit == asked = None /\ answers = <<>> /\ tries = 0 /\ outcome = None /\ lapses = 0

(***************************************************************************)
(* Terms and tokens.                                                       *)
(***************************************************************************)
Matches(text, k, term) ==
    k + Len(term) - 1 <= Len(text) /\ SubSeq(text, k, k + Len(term) - 1) = term

\* From left to right, of the terms that begin at one place the longest.
Pieces(text, terms) ==
    LET from[k \in 1..Len(text) + 1] ==
            LET here == {t \in terms : Matches(text, k, t)}
                longest == CHOOSE t \in here : \A o \in here : Len(o) <= Len(t) IN
            IF k > Len(text) THEN <<>>
            ELSE IF here = {} THEN <<[term |-> FALSE, text |-> <<text[k]>>]>> \o from[k + 1]
            ELSE <<[term |-> TRUE, text |-> longest]>> \o from[k + Len(longest)]
    IN  from[1]
TermsOf(pieces) == SelectSeq(pieces, LAMBDA p : p.term)

Replaced(text, old, new) ==
    LET from[k \in 1..Len(text) + 1] ==
            IF k > Len(text) THEN <<>>
            ELSE IF Matches(text, k, old) THEN new \o from[k + Len(old)]
            ELSE <<text[k]>> \o from[k + 1]
    IN  from[1]

Escape(text) ==
    FlattenSeq([k \in DOMAIN text |->
        IF text[k] \in DOMAIN Names THEN <<"&", Names[text[k]]>> ELSE <<text[k]>>])
\* Mutant of Unescape: the ampersand first.
UnescapeAmpersand(text) ==
    Replaced(Replaced(text, <<"&", "amp;">>, <<"&">>), <<"&", "lt;">>, <<"<">>)
Unescape(text) ==
    Replaced(Replaced(text, <<"&", "lt;">>, <<"<">>), <<"&", "amp;">>, <<"&">>)

\* protect_translation_terms, protect_terms: without terms nothing is escaped.
Protected(service, text, terms) ==
    LET pieces == Pieces(text, terms)
        Number(j) == Len(TermsOf(SubSeq(pieces, 1, j))) IN
    FlattenSeq([j \in DOMAIN pieces |->
        IF pieces[j].term THEN <<Tags[Number(j)]>>
        ELSE IF service = "deepl" /\ terms # {} THEN Escape(pieces[j].text)
        ELSE pieces[j].text])

KeepsTokens(text, kept) ==
    \A id \in DOMAIN kept : Cardinality({k \in DOMAIN text : text[k] = Tags[id]}) = 1

\* restore_translation_terms, restore_terms.
Restored(service, text, kept) ==
    LET named == FoldLeft(LAMBDA done, id :
                    Replaced(Replaced(done, <<Tags[id]>>, kept[id].text),
                             <<Spaced[id]>>, kept[id].text),
                    text, [id \in DOMAIN kept |-> id]) IN
    IF service = "deepl" THEN Unescape(named) ELSE named

(***************************************************************************)
(* The service: it translates letters, may move what it translates, and    *)
(* may lose or double a token.                                             *)
(***************************************************************************)
\* An entity of XML is one unit.
Units(text, xml) ==
    LET from[k \in 1..Len(text) + 1] ==
            IF k > Len(text) THEN <<>>
            ELSE IF xml /\ text[k] = "&" /\ k < Len(text)
                 THEN <<SubSeq(text, k, k + 1)>> \o from[k + 2]
            ELSE <<<<text[k]>>>> \o from[k + 1]
    IN  from[1]
Translated(unit, spaced) ==
    IF unit[1] \in DOMAIN Foreign THEN <<Foreign[unit[1]]>>
    ELSE IF spaced /\ \E id \in DOMAIN Tags : unit = <<Tags[id]>>
         THEN <<Spaced[CHOOSE id \in DOMAIN Tags : unit = <<Tags[id]>>]>>
    ELSE unit
IsToken(unit) == \E id \in DOMAIN Tags : unit \in {<<Tags[id]>>, <<Spaced[id]>>}
Reply(text, xml, manner, spaced) ==
    LET units == Units(text, xml)
        out == [k \in DOMAIN units |-> Translated(units[k], spaced /\ xml)] IN
    FlattenSeq(CASE manner = "forward" -> out
                 [] manner = "backward" -> Reverse(out)
                 [] manner = "lost" -> SelectSeq(out, LAMBDA u : ~IsToken(u))
                 [] manner = "doubled" -> FlattenSeq([k \in DOMAIN out |->
                        IF IsToken(out[k]) THEN <<out[k], out[k]>> ELSE <<out[k]>>]))

(***************************************************************************)
(* The actions.                                                            *)
(***************************************************************************)
Ask(service, lines, terms) ==
    /\ asked = None
    /\ asked' = [service |-> service, lines |-> lines, terms |-> terms]
    /\ UNCHANGED <<answers, tries, outcome, lapses>>

\* The lines of the next request.
Batch ==
    LET left == Len(asked.lines) - Len(answers) IN
    SubSeq(asked.lines, Len(answers) + 1,
           Len(answers) + (IF asked.service = "deepl" /\ left > LineLimit
                           THEN LineLimit ELSE left))
Kept(line) == TermsOf(Pieces(line, asked.terms))

\* A chat model is asked once more, DeepL is not.
RequestFails ==
    /\ IF asked.service = "deepl" \/ tries = 1
       THEN outcome' = "failed" /\ UNCHANGED tries
       ELSE tries' = 1 /\ UNCHANGED outcome
    /\ UNCHANGED <<asked, answers>>

Answer(manner, spaced) ==
    /\ asked # None /\ outcome = None
    /\ manner \in {"lost", "doubled"} => lapses < MaxLapses
    /\ lapses' = IF manner \in {"lost", "doubled"} THEN lapses + 1 ELSE lapses
    /\ LET xml == asked.service = "deepl" /\ asked.terms # {}
           said == [k \in DOMAIN Batch |->
                      Reply(Protected(asked.service, Batch[k], asked.terms), xml,
                            manner, spaced)]
           good == asked.service = "deepl"
                     \/ \A k \in DOMAIN Batch : KeepsTokens(said[k], Kept(Batch[k])) IN
       IF ~good THEN RequestFails
       ELSE /\ answers' = answers \o [k \in DOMAIN Batch |->
                            Restored(asked.service, said[k], Kept(Batch[k]))]
            /\ outcome' = IF Len(answers') = Len(asked.lines) THEN "translated" ELSE None
            /\ UNCHANGED <<asked, tries>>

\* An error of the service, or an answer with more or fewer lines.
NoAnswer ==
    /\ asked # None /\ outcome = None
    /\ lapses < MaxLapses /\ lapses' = lapses + 1
    /\ RequestFails

TermNext ==
    \/ \E service \in {"deepl", "chat"}, n \in 1..MaxLines, terms \in Protections :
          \E lines \in [1..n -> Texts] : Ask(service, lines, terms)
    \/ \E manner \in {"forward", "backward", "lost", "doubled"}, spaced \in BOOLEAN :
          Answer(manner, spaced)
    \/ NoAnswer

TermSpec == TermInit /\ [][TermNext]_termVars

\* A text that spells an entity.
Spells(text) == \E k \in DOMAIN text : text[k] = "&" /\ k < Len(text)

\* What a line means: its terms as they are, the rest translated.
Meant(line, terms) ==
    LET pieces == Pieces(line, terms) IN
    [j \in DOMAIN pieces |-> IF pieces[j].term THEN pieces[j].text
                             ELSE Translated(pieces[j].text, FALSE)]

\* A line is answered in its place with every protected term in it, letter by letter, and
\* the rest translated, however the service moves it; a chat model that loses or doubles
\* a token is not believed, DeepL is.  Entities that a line spells come back as they
\* were, unless a term has an ampersand or nothing is protected (deepl.rs:307).
TermsSurvive ==
    outcome = "translated" /\ (asked.service = "chat" \/ lapses = 0) =>
        /\ Len(answers) = Len(asked.lines)
        /\ \A k \in DOMAIN answers :
              LET meant == Meant(asked.lines[k], asked.terms) IN
              \/ answers[k] \in {FlattenSeq(meant), FlattenSeq(Reverse(meant))}
              \/ /\ asked.service = "deepl"
                 /\ IF asked.terms = {} THEN Spells(asked.lines[k])
                    ELSE \E t \in asked.terms : Contains(t, "&")
=============================================================================
