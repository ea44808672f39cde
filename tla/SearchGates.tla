------------------------------ MODULE SearchGates ------------------------------
(***************************************************************************)
(* What the five gates of the StackStack scenario "vibe-build" ask of the     *)
(* participant's search (scenarios/vibe-build.mjs, "the requirements" and      *)
(* "probes").  A gate lays entries of its own into the archive, sends its      *)
(* requests through the running application and judges the answers; meanwhile *)
(* the importer rotates its lots and people post.  A function is given here by *)
(* its deviations from rules R1 to R9: a list of likely ones, not of all.      *)
(* The child that runs it is VibeBuild.                                       *)
(***************************************************************************)
EXTENDS Integers, Sequences, FiniteSets

CONSTANTS
    Most,      \* MAX_RESULTS
    MaxLots,   \* bound: rotations of the importer's lots
    MaxSaid    \* bound: posts while the gates are measured

SearchBounds == Most \in 3..10 /\ MaxLots \in 0..2 /\ MaxSaid \in Nat

\* A text is a set of words and a word the set of the terms it has in it, so that a term
\* is a substring of a text and need not be a word of it.  A word that is written in
\* capitals has "capitals" in it besides.
By(author, id, title, body, visibility) ==
    [author |-> author, id |-> id, title |-> title, body |-> body, visibility |-> visibility]
Entry(id, title, body, visibility) == By({{"importer"}}, id, title, body, visibility)

ARCHIVE ==
    {Entry(50, {{"weekly"}}, {{"lots"}}, "public"), Entry(51, {{"cause"}}, {{"draft"}}, "internal")}

\* The importer's lots change every ROTATION_MS, and one of them is not public yet.
Lots == <<"first", "second", "third">>
Rotation(n) ==
    {Entry(20, {{"import"}}, {{Lots[n + 1]}}, "public"),
     Entry(21, {{"import"}}, {{Lots[n + 1]}}, "internal")}

VARIABLES
    impl,     \* how the function deviates from the rules
    gate,     \* the gate that is measured, by its place in GATE_NAMES
    request,  \* requests of this gate sent so far
    batch,    \* activeBatches: what the gate laid into the archive
    lot,
    said,     \* what people posted, one text after the other
    verdicts, \* gates: measured so far
    crowded   \* history: the word of the drafts' probe was in a post while it was asked

searchVars == <<impl, gate, request, batch, lot, said, verdicts, crowded>>

\* People post what they like: a tag of eight random bytes is not in it, a pair of WORDS
\* may be.
Texts == {{{"hello"}}, {{"word"}}}
Posts(texts) == {By({{"visitor"}}, i, {{"post"}}, texts[i], "public") : i \in DOMAIN texts}

\* corpus: what the function is handed.
Corpus == Posts(said) \cup ARCHIVE \cup Rotation(lot) \cup batch

-----------------------------------------------------------------------------
(* The function.  A query is a term in a form: plain, in capitals, with signs *)
(* that mean something in a regular expression, of exactly the greatest       *)
(* length or one more, with blanks around it, absent, empty, blank.           *)

Query(term, form) == [term |-> term, form |-> form]
Blank == {"missing", "empty", "spaces"}

\* A term of exactly the greatest length in blanks is "wide".
Padded == {"padded", "wide"}
Trimmed(q) ==
    IF q.form = "padded" THEN Query(q.term, "plain")
    ELSE IF q.form = "wide" THEN Query(q.term, "limit") ELSE q

\* What goes wrong in functions that were written for these rules.
Slips ==
    {"emptyAllowed", "spacesAllowed", "otherName",                        \* R1
     "noLimit", "shortLimit", "countsBlanks",                             \* R2
     "noEcho", "foldsEcho", "echoesBlanks", "moreFields",                 \* R3
     "extraKey", "rewrites",                                              \* R4
     "oneCase", "entryCase", "titleOnly", "bodyOnly", "anyField",         \* R5
     "twice", "words", "regex", "blanksMatter",
     "showsDrafts", "debug",                                              \* R6
     "ascending", "textOrder", "cutFirst", "noCut",                       \* R7
     "noHitFails",                                                        \* R8
     "raw", "rawTerm", "rawAmpersand", "rawApostrophe", "drops",          \* R9
     "hidesTerm", "hidesTermOfHits"}

\* What a function does that was not written for them at all.
Shortcuts == {"nothing", "everything", "refuses"}

Refused(D, q) ==
    \/ "refuses" \in D
    \/ q.form \in (Blank \ (IF "emptyAllowed" \in D THEN Blank ELSE {}))
                        \ (IF "spacesAllowed" \in D THEN {"spaces"} ELSE {})
    \/ q.form = "long" /\ "noLimit" \notin D
    \/ Trimmed(q).form = "limit" /\ "shortLimit" \in D
    \/ q.form = "wide" /\ "countsBlanks" \in D

ErrorOf(D, q) ==
    IF "otherName" \in D THEN "query_required"
    ELSE IF q.form \in {"long", "limit", "wide"} THEN "q_too_long" ELSE "q_required"

HasWord(D, word, q) ==
    /\ q.term \in word
    /\ "words" \in D => word \ {"capitals"} = {q.term}
    /\ "oneCase" \in D => ("capitals" \in word <=> q.form = "upper")
    /\ "entryCase" \in D => "capitals" \notin word

Has(D, text, q) ==
    /\ "regex" \in D => q.form # "signs"
    /\ "blanksMatter" \in D => q.form \notin Padded
    /\ \E word \in text : HasWord(D, word, q)

InTitle(D, e, q) == "bodyOnly" \notin D /\ Has(D, e.title, q)
InBody(D, e, q) == "titleOnly" \notin D /\ Has(D, e.body, q)
InAuthor(D, e, q) == "anyField" \in D /\ Has(D, e.author, q)

\* R5 and R6.
Found(D, q, posts) ==
    IF "nothing" \in D THEN {}
    ELSE {e \in posts :
            /\ e.visibility = "public" \/ "showsDrafts" \in D
            /\ "everything" \in D \/ InTitle(D, e, q) \/ InBody(D, e, q) \/ InAuthor(D, e, q)}

\* R7: the entries in the order of their ids, the newest first; ids sorted as texts compare
\* digit by digit.
FirstDigits(id) == IF id < 10 THEN 100 * id ELSE IF id < 100 THEN 10 * id ELSE id
Before(D, e, f) ==
    IF "textOrder" \in D /\ FirstDigits(e.id) # FirstDigits(f.id)
    THEN FirstDigits(e.id) > FirstDigits(f.id)
    ELSE e.id > f.id
Descending(D, S) ==
    [i \in 1..Cardinality(S) |->
        CHOOSE e \in S : Cardinality({f \in S : Before(D, f, e)}) = i - 1]
Reversed(s) == [i \in DOMAIN s |-> s[Len(s) + 1 - i]]
FirstOf(s) == SubSeq(s, 1, IF Len(s) < Most THEN Len(s) ELSE Most)

Listed(D, found) ==
    LET all == Descending(D, found)
        cut == IF "noCut" \in D THEN all
               ELSE IF "cutFirst" \in D THEN Reversed(FirstOf(Reversed(all))) ELSE FirstOf(all)
    IN  IF "ascending" \in D THEN Reversed(cut) ELSE cut

\* A search through titles and then through bodies shows an entry of both twice.
Repeated(D, q, list) ==
    IF "twice" \in D THEN list \o SelectSeq(list, LAMBDA e : InTitle(D, e, q) /\ InBody(D, e, q))
    ELSE list

\* What a client finds in the text of the response besides the entries.
Shown(D, q, posts, list) ==
    {list[i].id : i \in DOMAIN list}
        \cup (IF "debug" \in D
              THEN {e.id : e \in {p \in posts : InTitle(D, p, q) \/ InBody(D, p, q)}} ELSE {})

Search(D, q, posts) ==
    IF Refused(D, q) THEN [status |-> 400, error |-> ErrorOf(D, q)]
    ELSE LET found == Found(D, q, posts)
             list == Repeated(D, q, Listed(D, found))
         IN  [status |-> IF found = {} /\ "noHitFails" \in D THEN 404 ELSE 200, error |-> "none",
              query |-> IF "noEcho" \in D THEN Query("none", "missing")
                        ELSE IF "foldsEcho" \in D /\ q.form = "upper" THEN Query(q.term, "plain")
                        ELSE IF "echoesBlanks" \in D THEN q ELSE Trimmed(q),
              list |-> list, keys |-> IF "extraKey" \in D THEN 5 ELSE 4,
              values |-> IF "rewrites" \in D THEN "other" ELSE "archive",
              text |-> Shown(D, q, posts, list)]

Fields(D) ==
    {"query", "matches"} \cup (IF {"debug", "moreFields"} \cap D = {} THEN {} ELSE {"more"})

\* Terms with a character in them that a page must not show as it is.
Special == {"<img>", "<b>", "<query>", "R&D", "it's"}
AsItIs(D) ==
    {term \in Special : \/ term = "R&D" /\ "rawAmpersand" \in D
                        \/ term = "it's" /\ "rawApostrophe" \in D}
Kind(terms, unescaped) == IF terms \cap unescaped = {} THEN "text" ELSE "markup"

\* GET /search: the page around what renderResults makes of the matches, as pieces of text
\* or of markup: those of the entries by id, and the term.
Rendered(D, list) ==
    {<<piece, list[i].id,
       Kind(UNION (IF piece = "title" THEN list[i].title ELSE list[i].author),
            IF "raw" \in D THEN Special ELSE AsItIs(D))>> :
        piece \in IF "drops" \in D THEN {"author"} ELSE {"title", "author"}, i \in DOMAIN list}

Term(D, q, list) ==
    IF (IF list = <<>> THEN "hidesTerm" ELSE "hidesTermOfHits") \in D THEN {}
    ELSE {<<"term", 0, Kind({q.term}, IF "rawTerm" \in D THEN Special ELSE AsItIs(D))>>}

Page(D, q, posts) ==
    LET r == Search(D, q, posts)
    IN  IF r.status # 200 THEN [status |-> r.status, pieces |-> {}]
        ELSE [status |-> 200, pieces |-> Rendered(D, r.list) \cup Term(D, q, r.list)]

-----------------------------------------------------------------------------
(* The judge.                                                               *)

Ids(S) == {e.id : e \in S}

MutSameSet(list, S) == {list[i].id : i \in DOMAIN list} = Ids(S)
SameSet(list, S) == Len(list) = Cardinality(S) /\ {list[i].id : i \in DOMAIN list} = Ids(S)

ReadSearch(r, q) == r.status = 200 /\ r.query = q
CheckEntryShape(r) == r.list # <<>> => r.keys = 4
CheckEntryValues(r, laid) ==
    (\E i \in DOMAIN r.list : r.list[i] \in laid) => r.values = "archive"

Plain(term) == Query(term, "plain")
Public(laid) == {e \in laid : e.visibility = "public"}
About(laid, term) == {e \in Public(laid) : \E word \in e.title \cup e.body : term \in word}

\* search_answers: three entries carry the tag, three another.
AnswersLaid ==
    {Entry(100 + i, {{"tag"}}, {{"tag"}}, "public") : i \in 1..3}
        \cup {Entry(103 + i, {{"other"}}, {{"other"}}, "public") : i \in 1..3}

ProbeAnswers(D, posts, i) ==
    LET r == Search(D, Plain("tag"), posts)
    IN  /\ ReadSearch(r, Plain("tag")) /\ CheckEntryShape(r) /\ CheckEntryValues(r, AnswersLaid)
        /\ SameSet(r.list, About(AnswersLaid, "tag"))

\* search_order: more than the page holds, then capitals, then a term of nobody.
OrderLaid ==
    {Entry(110 + i, {{"many"}}, {{"many"}}, "public") : i \in 1..(Most + 1)}
        \cup {Entry(130 + i, {{"cased"}}, {{"cased"}}, "public") : i \in 1..3}

ProbeOrder(D, posts, i) ==
    LET q == <<Plain("many"), Query("cased", "upper"), Plain("absent")>>[i]
        r == Search(D, q, posts)
    IN  /\ ReadSearch(r, q)
        /\ i = 1 => /\ Len(r.list) = Most
                    /\ [k \in 1..Most |-> r.list[k].id] =
                         [k \in 1..Most |-> FirstOf(Descending({}, About(OrderLaid, "many")))[k].id]
        /\ i = 2 => SameSet(r.list, About(OrderLaid, "cased"))
        /\ i = 3 => r.list = <<>>

\* search_bad_queries: what is allowed at the boundary first, then what is not.
BadQueriesLaid ==
    {Entry(140 + i, {{"tag"}}, {{"tag"}}, "public") : i \in 1..3}
        \cup {Entry(144, {{"note"}}, {{"exact"}}, "public")}

BadQueries ==
    <<Query("exact", "limit"), Plain("tag"), Query("none", "missing"), Query("none", "empty"),
      Query("none", "spaces"), Query("exact", "long")>>

ProbeBadQueries(D, posts, i) ==
    LET q == BadQueries[i]
        r == Search(D, q, posts)
    IN  IF i <= 2 THEN ReadSearch(r, q) /\ SameSet(r.list, About(BadQueriesLaid, q.term))
        ELSE r.status = 400 /\ r.error = (IF q.form = "long" THEN "q_too_long" ELSE "q_required")

\* drafts_withheld: a draft has the title of a public entry with a suffix on its last word.
DraftsLaid ==
    {Entry(150, {{"report"}, {"word"}}, {{"tag"}}, "public"),
     Entry(151, {{"tag"}}, {{"restored"}}, "public"), Entry(152, {{"tag"}}, {{"checked"}}, "public"),
     Entry(153, {{"report"}, {"word", "suffix"}}, {{"tag"}, {"marker"}}, "internal"),
     Entry(154, {{"tag"}}, {{"marker"}}, "internal")}

ProbeDrafts(D, posts, i) ==
    LET q == <<Plain("tag"), Plain("word")>>[i]
        r == Search(D, q, posts)
    IN  /\ ReadSearch(r, q) /\ SameSet(r.list, About(DraftsLaid, q.term))
        /\ i = 1 => CheckEntryShape(r) /\ CheckEntryValues(r, DraftsLaid)
        /\ r.text \cap Ids(DraftsLaid \ Public(DraftsLaid)) = {}

\* results_are_text: an entry whose title and author are markup, and a term that is.
TextLaid == {By({{"<b>"}}, 160, {{"<img>"}}, {{"tag"}}, "public")}

ProbeText(D, posts, i) ==
    LET q == <<Plain("tag"), Plain("<query>")>>[i]
        page == Page(D, q, posts)
    IN  /\ page.status = 200
        /\ i = 1 => {<<"title", 160, "text">>, <<"author", 160, "text">>} \subseteq page.pieces
        /\ i = 2 => <<"term", 0, "text">> \in page.pieces
        /\ \A piece \in page.pieces : piece[2] \in {0, 160} => piece[3] = "text"

GATE_NAMES ==
    <<"search_answers", "search_order", "search_bad_queries", "drafts_withheld",
      "results_are_text">>
Laid == <<AnswersLaid, OrderLaid, BadQueriesLaid, DraftsLaid, TextLaid>>
Requests == <<1, 3, 6, 2, 2>>

Judged(D, g, posts, i) ==
    CASE g = 1 -> ProbeAnswers(D, posts, i)
      [] g = 2 -> ProbeOrder(D, posts, i)
      [] g = 3 -> ProbeBadQueries(D, posts, i)
      [] g = 4 -> ProbeDrafts(D, posts, i)
      [] g = 5 -> ProbeText(D, posts, i)

-----------------------------------------------------------------------------
(* The measurement.                                                         *)

\* A function slips in two places at most, or is a shortcut.
Functions == {{}} \cup {{a, b} : a, b \in Slips} \cup {{c} : c \in Shortcuts}

Init ==
    /\ impl \in Functions
    /\ gate = 1 /\ request = 0 /\ batch = {} /\ lot = 0 /\ said = <<>> /\ verdicts = <<>>
    /\ crowded = FALSE

Measuring == gate \in DOMAIN GATE_NAMES

\* withBatch.
Lay ==
    /\ Measuring /\ request = 0 /\ batch = {}
    /\ batch' = Laid[gate]
    /\ UNCHANGED <<impl, gate, request, lot, said, verdicts, crowded>>

\* The batch goes when the gate is settled, whichever way (finally).
Settle(ok) ==
    /\ verdicts' = Append(verdicts, ok)
    /\ gate' = gate + 1 /\ request' = 0 /\ batch' = {}
    /\ UNCHANGED <<impl, lot, said>>

\* The first answer that is wrong settles it.
Ask ==
    /\ Measuring /\ batch # {}
    /\ crowded' = (crowded \/ (gate = 4 /\ \E i \in DOMAIN said : said[i] = {{"word"}}))
    /\ LET ok == Judged(impl, gate, Corpus, request + 1)
       IN  IF ok /\ request + 1 < Requests[gate]
           THEN request' = request + 1 /\ UNCHANGED <<impl, gate, batch, lot, said, verdicts>>
           ELSE Settle(ok)

Rotate ==
    /\ lot < MaxLots /\ lot' = lot + 1
    /\ UNCHANGED <<impl, gate, request, batch, said, verdicts, crowded>>
Say(text) ==
    /\ Len(said) < MaxSaid /\ said' = Append(said, text)
    /\ UNCHANGED <<impl, gate, request, batch, lot, verdicts, crowded>>

Next == Lay \/ Ask \/ Rotate \/ \E text \in Texts : Say(text)

Spec == Init /\ [][Next]_searchVars

-----------------------------------------------------------------------------
(* Properties.                                                              *)

TypeOK ==
    /\ impl \subseteq Slips \cup Shortcuts /\ gate \in 1..6 /\ request \in 0..5
    /\ lot \in 0..MaxLots /\ said \in Seq(Texts) /\ Len(said) <= MaxSaid
    /\ verdicts \in Seq(BOOLEAN) /\ Len(verdicts) = gate - 1 /\ crowded \in BOOLEAN

\* What a gate says of a function when nothing else happens in the archive.
Grade(D, g) ==
    LET posts == ARCHIVE \cup Rotation(0) \cup Laid[g]
    IN  \A i \in 1..Requests[g] : Judged(D, g, posts, i)

\* An input is a query, what it is asked of, and what is looked at in the answer.
Input(q, posts, look) == [query |-> q, posts |-> posts, look |-> look]
Seen(D, in) ==
    LET ofTerm(piece) == piece[1] = "term"
        pieces == Page(D, in.query, in.posts).pieces
    IN  CASE in.look = "answer" -> Search(D, in.query, in.posts)
          [] in.look = "fields" -> Fields(D)
          [] in.look = "entries" -> {piece \in pieces : ~ofTerm(piece)}
          [] in.look = "term" -> {piece \in pieces : ofTerm(piece)}
RightOn(D, inputs) == \A in \in inputs : Seen(D, in) = Seen({}, in)

\* Inputs of the kinds the probes send: any of their terms, in any of their forms, asked of
\* all their batches together.
Asked ==
    LET together == ARCHIVE \cup Rotation(0) \cup UNION {Laid[g] : g \in DOMAIN Laid}
        Of(terms, form, look) == {Input(Query(t, form), together, look) : t \in terms}
    IN  Of({"tag", "other", "many", "cased", "absent", "exact", "word", "marker", "<query>"},
           "plain", "answer")
        \cup Of({"tag", "many", "cased", "absent"}, "upper", "answer")
        \cup {Input(BadQueries[i], together, "answer") : i \in DOMAIN BadQueries}
        \cup Of({"tag", "many", "absent"}, "plain", "entries")
        \cup Of({"absent", "<query>"}, "plain", "term")

\* And of kinds no probe sends, though the rules are about them.
Unasked ==
    LET Of(id, title) == {Entry(id, {title}, {{"text"}}, "public")}
    IN  {Input(Plain("note"), Of(9, {"note", "longer"}), "answer"),         \* within a word
         Input(Plain("note"), Of(9, {"note", "capitals"}), "answer"),       \* in capitals
         Input(Plain("note"), Of(9, {"note"}) \cup Of(10, {"note"}), "answer"),
         Input(Plain("importer"), Of(9, {"note"}), "answer"),               \* the author's name
         Input(Query("note", "signs"), Of(9, {"note"}), "answer"),          \* "c++"
         Input(Query("note", "padded"), Of(9, {"note"}), "answer"),
         Input(Query("note", "wide"), Of(9, {"note"}), "answer"),
         Input(Plain("R&D"), Of(9, {"R&D"}), "entries"), Input(Plain("R&D"), {}, "term"),
         Input(Plain("it's"), Of(9, {"it's"}), "entries"), Input(Plain("it's"), {}, "term"),
         Input(Plain("note"), Of(9, {"note"}), "term"),                     \* shown with its hits
         Input(Plain("note"), Of(9, {"note"}), "fields")}

\* A gate judges the function and nothing else: what else is in the archive, what is
\* imported or posted between its requests and what the gates before it laid do not change
\* its verdict (vibe-build.mjs:486-494, 550-559), but for one thing: a post with the pair of
\* words of drafts_withheld in it (vibe-build.mjs:693-698, 1046-1053), which fails whom it
\* would have passed.  A verdict is not taken back, so the last state shows them all.
VerdictOfFunction ==
    ~Measuring => \A g \in 1..5 : verdicts[g] = (Grade(impl, g) /\ ~(g = 4 /\ crowded))

\* Green everywhere is being right on inputs of the kinds the probes send, of which they
\* send a few: the other terms, forms and entries follow.
GreenMeansRules ==
    ~Measuring => ((\A g \in 1..5 : verdicts[g]) <=> RightOn(impl, Asked) /\ ~crowded)

\* Where nothing has happened yet is where facts of the gates are looked at.
Untouched == impl = {} /\ gate = 1 /\ batch = {} /\ lot = 0 /\ said = <<>>

\* It says nothing about the other kinds: each of them has a function in it that all five
\* pass and that breaks a rule there; and each function of the list breaks one somewhere.
GreenMeansNoMore ==
    Untouched =>
        /\ \A in \in Unasked : \E D \in Functions : ~RightOn(D, {in}) /\ RightOn(D, Asked)
        /\ \A D \in Functions \ {{}} : ~RightOn(D, Asked \cup Unasked)

\* "Five gates, one per checkpoint, none implied by another" (vibe-build.mjs:1671): for any
\* two there is a function that passes the one and not the other.
NoneImplied ==
    Untouched => \A g, h \in 1..5 : g # h => \E D \in Functions : Grade(D, g) /\ ~Grade(D, h)

\* A gate's entries are in the archive while it is measured and no longer.
NothingStays == batch # {} => Measuring /\ batch = Laid[gate]

GradingSound ==
    VerdictOfFunction /\ GreenMeansRules /\ GreenMeansNoMore /\ NoneImplied /\ NothingStays
================================================================================
