---------------------------- MODULE WordServices ----------------------------
(***************************************************************************)
(* The word services of play-java-starter-example: requests that read a    *)
(* list of rows, visit one web page for every row, and write what they     *)
(* collected to the tables of MySQL.  A request runs on its own thread and *)
(* blocks on every page, so requests interleave at every page and between  *)
(* their writes; one call of a repository is one transaction.              *)
(*                                                                         *)
(* The id of a row is its place in the table (auto_increment); nothing in  *)
(* the code deletes a row, ModelRepository.delete only clears its status.  *)
(***************************************************************************)
EXTENDS SequencesExt

CONSTANTS
    Req,            \* requests, each used once: the bound on their number
    Kind,           \* the calls that may be made
    DictPages,      \* what dict.cn may answer: [sounds, entries]
    ChinaPages,     \* what a page of links may hold: Seq([index, text])
    XsPages,
    Params,         \* startPage and endPage of a call: [start, end]
    Filters,        \* what links are asked for: [source, type, indexes], Null if not given
    Index631,       \* the article index updateChinaDailyArticleType names
    MaxPageSize,    \* Constant.MAX_PAGE_SIZE
    PartitionSize,  \* 100 in saveXSArticle
    MaxWords,       \* bound on the rows put into word_en
    Null            \* null of Java, and a page that cannot be read

Sources == {"china_daily", "xia_shuo"}

ASSUME WordAssumption ==
    /\ Null \notin Sources
    /\ MaxPageSize \in Nat \ {0} /\ PartitionSize \in Nat \ {0} /\ MaxWords \in Nat
    /\ \A p \in Params : /\ p.start = Null \/ p.start \in Int
                         /\ p.end = Null \/ p.end \in Int

\* A page is read from top to bottom: it lists its elements.
IsList(s) == s \in Seq(ToSet(s))

ASSUME PagesAssumption ==
    /\ \A page \in DictPages :
          /\ IsList(page.entries)
          /\ \A entry \in ToSet(page.entries) : IsList(entry.sentences)
    /\ \A page \in ChinaPages \cup XsPages : IsList(page)

VARIABLES
    words,          \* word_en: Seq([status, sound])
    extends,        \* keys of word_en_extend: <<word, type, no>>
    sentences,      \* keys of word_en_sentence: <<word, type, no, sentence>>
    links,          \* article_link: Seq([source, index, text, title, type])
    articles,       \* word_en_article: Seq([source, index, title]), and history:
                    \* the call (by), and the type its link had in the list (was)
    kind,           \* kind[r]: the call request r makes
    pc,             \* pc[r]: what r does next
    todo,           \* todo[r]: pages or rows r still has to visit
    got             \* got[r]: what r has collected

tables == <<words, extends, sentences, links, articles>>
vars   == <<words, extends, sentences, links, articles, kind, pc, todo, got>>

Running == {"fetch", "extends", "sentences", "save"}

TypeOK ==
    /\ \A i \in DOMAIN words : words[i].status \in BOOLEAN
    /\ \A i \in DOMAIN links :
          links[i].source \in Sources /\ links[i].type \in {-1, 0, 1, 2}
    /\ \A i \in DOMAIN articles :
          articles[i].source \in Sources /\ articles[i].by \in Req
    /\ pc \in [Req -> Running \cup {"idle", "done", "failed"}]
    /\ kind \in [Req -> Kind \cup {Null}]
    /\ \A r \in Req : pc[r] # "fetch" \/ kind[r] \in Kind

Init ==
    /\ words = <<>> /\ links = <<>> /\ articles = <<>>
    /\ extends = {} /\ sentences = {}
    /\ kind = [r \in Req |-> Null]
    /\ pc = [r \in Req |-> "idle"]
    /\ todo = [r \in Req |-> <<>>]
    /\ got = [r \in Req |-> <<>>]

-----------------------------------------------------------------------------
(* ModelRepository *)

\* Whether row j is listed before row i.
Before(order, j, i) == IF order = "asc" THEN j < i ELSE j > i

\* Rows with these ids in the order asked for: each has its rank.
Sorted(ids, order) ==
    [k \in 1..Cardinality(ids) |->
        CHOOSE i \in ids : Cardinality({j \in ids : Before(order, j, i)}) = k - 1]

\* No more than MAX_PAGE_SIZE of them.
List(ids, order) ==
    SubSeq(Sorted(ids, order), 1, Min({Cardinality(ids), MaxPageSize}))

\* A null status in the model asks for the valid rows: the default is set.
ListWords(status) ==
    LET ids == List({i \in DOMAIN words : words[i].status = status}, "asc")
    IN  [k \in DOMAIN ids |-> [id |-> ids[k]]]

Snapshot(ids) == [k \in DOMAIN ids |-> [id |-> ids[k], row |-> links[ids[k]]]]

\* A condition is added for each field that was given.
Matches(row, filter) ==
    /\ filter.source \in {Null, row.source}
    /\ filter.type \in {Null, row.type}
    /\ filter.indexes = Null \/ row.index \in filter.indexes

ListLinks(filter) ==
    Snapshot(List({i \in DOMAIN links : Matches(links[i], filter)}, "desc"))

\* Whether a batch of new rows breaks neither a key of the table nor its own.
Insertable(keys, table) ==
    IsInjective(keys) /\ ToSet(keys) \cap table = {}

-----------------------------------------------------------------------------
Begin(r, k, visits) ==
    /\ pc[r] = "idle" /\ k \in Kind
    /\ kind' = [kind EXCEPT ![r] = k]
    /\ pc' = [pc EXCEPT ![r] = "fetch"]
    /\ todo' = [todo EXCEPT ![r] = visits]
    /\ UNCHANGED <<tables, got>>

\* The request ends and its thread forgets what it held.
End(r, how) ==
    /\ pc' = [pc EXCEPT ![r] = how]
    /\ kind' = [kind EXCEPT ![r] = Null]
    /\ todo' = [todo EXCEPT ![r] = <<>>]
    /\ got' = [got EXCEPT ![r] = <<>>]

\* An exception leaves the request; what it wrote stays.
Throw(r) ==
    /\ End(r, "failed")
    /\ UNCHANGED tables

Visit(r, k) == pc[r] = "fetch" /\ kind[r] = k /\ todo[r] # <<>>

Visited(r, k) == pc[r] = "fetch" /\ kind[r] = k /\ todo[r] = <<>>

\* The page of the head of todo is read and adds these elements to got.
Collect(r, new) ==
    /\ todo' = [todo EXCEPT ![r] = Tail(@)]
    /\ got' = [got EXCEPT ![r] = @ \o new]
    /\ UNCHANGED <<tables, kind, pc>>

-----------------------------------------------------------------------------
(* WordEnService.dictWordEn: look up every word, then three writes *)

StartDictWordEn(r) ==
    \E status \in BOOLEAN : Begin(r, "dictWordEn", ListWords(status))

FetchWord(r) ==
    /\ Visit(r, "dictWordEn")
    /\ \E page \in DictPages \cup {Null} :
          IF page = Null THEN Throw(r)
          ELSE Collect(r, <<[word |-> Head(todo[r]).id, page |-> page]>>)

\* mutant: the whole row is written
WholeWord(i, r) ==
    IF \E k \in DOMAIN got[r] : got[r][k].word = i
    THEN [status |-> TRUE, sound |-> TRUE] ELSE words[i]

\* Only changed columns are written: a word deleted meanwhile stays deleted.
UpdatedWord(i, r) ==
    LET found == {k \in DOMAIN got[r] : got[r][k].word = i /\ got[r][k].page.sounds = 2}
    IN  IF found = {} THEN words[i] ELSE [words[i] EXCEPT !.sound = TRUE]

\* mutant: the sentences are written without the entries
SentencesFirst(r) ==
    /\ Visited(r, "dictWordEn")
    /\ words' = [i \in DOMAIN words |-> UpdatedWord(i, r)]
    /\ pc' = [pc EXCEPT ![r] = "sentences"]
    /\ UNCHANGED <<extends, sentences, links, articles, kind, todo, got>>

UpdateWords(r) ==
    /\ Visited(r, "dictWordEn")
    /\ words' = [i \in DOMAIN words |-> UpdatedWord(i, r)]
    /\ pc' = [pc EXCEPT ![r] = "extends"]
    /\ UNCHANGED <<extends, sentences, links, articles, kind, todo, got>>

\* mutant: no is not counted
UncountedKeys(word, entries) ==
    [no \in DOMAIN entries |-> <<word, entries[no].type, 1>>]

\* no counts the entries of one word.
EntryKeys(word, entries) ==
    [no \in DOMAIN entries |-> <<word, entries[no].type, no>>]

ExtendKeys(r) ==
    FlattenSeq([k \in DOMAIN got[r] |-> EntryKeys(got[r][k].word, got[r][k].page.entries)])

\* mutant: repetitions stay
AddAlways(seq, e) == Append(seq, e)

AddOnce(seq, e) == IF Contains(seq, e) THEN seq ELSE Append(seq, e)

\* sentenceSet drops the repetitions within one entry.
EntrySentences(key, entry) ==
    LET kept == FoldLeft(AddOnce, <<>>, entry.sentences)
    IN  [k \in DOMAIN kept |-> key \o <<kept[k]>>]

WordSentences(word, entries) ==
    FlattenSeq([no \in DOMAIN entries |->
                    EntrySentences(EntryKeys(word, entries)[no], entries[no])])

SentenceKeys(r) ==
    FlattenSeq([k \in DOMAIN got[r] |-> WordSentences(got[r][k].word, got[r][k].page.entries)])

SaveExtends(r) ==
    /\ pc[r] = "extends"
    /\ IF Insertable(ExtendKeys(r), extends)
       THEN /\ extends' = extends \cup ToSet(ExtendKeys(r))
            /\ pc' = [pc EXCEPT ![r] = "sentences"]
            /\ UNCHANGED <<words, sentences, links, articles, kind, todo, got>>
       ELSE Throw(r)

\* fk_word_en_sentence_wordenextend: a sentence needs its entry.
EntriesStored(r) == \A s \in ToSet(SentenceKeys(r)) : SubSeq(s, 1, 3) \in extends

SaveSentences(r) ==
    /\ pc[r] = "sentences"
    /\ IF Insertable(SentenceKeys(r), sentences) /\ EntriesStored(r)
       THEN /\ sentences' = sentences \cup ToSet(SentenceKeys(r))
            /\ End(r, "done")
            /\ UNCHANGED <<words, extends, links, articles>>
       ELSE Throw(r)

-----------------------------------------------------------------------------
(* WordServiceImpl: the links of articles *)

Clamp(page) == Max({page, 1})

\* checkParam, and the unboxing of a page nobody gave
ParamAccepted(p) ==
    p.start # Null /\ p.end # Null /\ Clamp(p.start) <= Clamp(p.end)

StartLinks(r, k) ==
    \E p \in Params :
        IF ParamAccepted(p)
        THEN Begin(r, k, [i \in 1..(Clamp(p.end) - Clamp(p.start) + 1) |-> [id |-> Clamp(p.start) + i - 1]])
        ELSE /\ pc[r] = "idle" /\ k \in Kind
             /\ Throw(r)

ChinaLink(e) ==
    [source |-> "china_daily", index |-> e.index, text |-> e.text, title |-> "", type |-> 0]

XsLink(e) ==
    [source |-> "xia_shuo", index |-> e.index, text |-> e.text, title |-> e.text.trail, type |-> 1]

FetchChinaLinks(r) ==
    /\ Visit(r, "saveChinaDailyArticleLink")
    /\ \E page \in ChinaPages \cup {Null} :
          IF page = Null THEN Throw(r)
          ELSE Collect(r, [i \in DOMAIN page |-> ChinaLink(page[i])])

\* mutant: only the line before is compared
LastHasTitle(rows, title) == rows # <<>> /\ Last(rows).title = title

HasTitle(rows, title) == \E i \in DOMAIN rows : rows[i].title = title

\* Advertisements are skipped, and titles seen on this or an earlier page.
AddXsLink(rows, e) ==
    IF e.text.lead = "skip" \/ HasTitle(rows, e.text.trail) THEN rows
    ELSE Append(rows, XsLink(e))

FetchXsLinks(r) ==
    /\ Visit(r, "saveXSArticleLink")
    /\ \E page \in XsPages \cup {Null} :
          IF page = Null THEN Throw(r)
          ELSE /\ todo' = [todo EXCEPT ![r] = Tail(@)]
               /\ got' = [got EXCEPT ![r] = FoldLeft(AddXsLink, @, page)]
               /\ UNCHANGED <<tables, kind, pc>>

LinkKeys(rows) == [i \in DOMAIN rows |-> <<rows[i].source, rows[i].index>>]

SaveLinks(r) ==
    /\ Visited(r, "saveChinaDailyArticleLink") \/ Visited(r, "saveXSArticleLink")
    /\ IF Insertable(LinkKeys(got[r]), ToSet(LinkKeys(links)))
       THEN /\ links' = links \o got[r]
            /\ End(r, "done")
            /\ UNCHANGED <<words, extends, sentences, articles>>
       ELSE Throw(r)

\* mutant: an unknown text gets a class of its own
ArticleTypeError(row) == IF row.text.lead = "other" THEN 4 ELSE row.type

\* Classes of text before and after the colon, told by lead and trail;
\* lead "bare" is a text without a colon.  charAt(0) of an empty trail throws.
ArticleType(row) ==
    CASE row.text.lead = "morning" -> 1
      [] row.text.lead = "special" -> -1
      [] row.text.lead = "selected" -> 2
      [] row.text.lead = "news" /\ (row.text.trail = "chinese" \/ row.index = Index631) -> 2
      [] row.text.lead = "news" /\ row.text.trail = "alpha" /\ row.index # Index631 -> 1
      [] row.text.lead = "bare" /\ row.text.trail = "special" -> -1
      [] row.text.lead = "bare" /\ row.text.trail = "marked" -> 1
      [] OTHER -> row.type

\* Without a colon only a marked text gets its title.
Classified(row) ==
    IF ArticleType(row) = -1 \/ (row.text.lead = "bare" /\ row.text.trail # "marked")
    THEN [row EXCEPT !.type = ArticleType(row)]
    ELSE [row EXCEPT !.type = ArticleType(row), !.title = row.text.trail]

Unclassifiable(row) == row.text = [lead |-> "news", trail |-> "empty"]

\* Its callers ask for the links of china_daily.
StartTypes(r) ==
    \E filter \in Filters :
        /\ filter.source = "china_daily"
        /\ Begin(r, "updateChinaDailyArticleType", ListLinks(filter))

Classify(r) ==
    /\ Visit(r, "updateChinaDailyArticleType")
    /\ LET link == Head(todo[r])
       IN  IF Unclassifiable(link.row) THEN Throw(r)
           ELSE Collect(r, <<[id |-> link.id, row |-> Classified(link.row)]>>)

\* mutant: rows written back by place, not by id
UpdatedByPlace(i, r) ==
    IF i \notin DOMAIN got[r] THEN links[i]
    ELSE [links[i] EXCEPT !.type = got[r][i].row.type, !.title = got[r][i].row.title]

UpdatedLink(i, r) ==
    LET mine == {k \in DOMAIN got[r] : got[r][k].id = i}
    IN  IF mine = {} THEN links[i]
        ELSE LET row == got[r][CHOOSE k \in mine : TRUE].row
             IN  [links[i] EXCEPT !.type = row.type, !.title = row.title]

UpdateTypes(r) ==
    /\ Visited(r, "updateChinaDailyArticleType")
    /\ links' = [i \in DOMAIN links |-> UpdatedLink(i, r)]
    /\ End(r, "done")
    /\ UNCHANGED <<words, extends, sentences, articles>>

-----------------------------------------------------------------------------
(* WordServiceImpl: the articles behind the links *)

ArticleKinds == {"saveXSArticle", "saveChinaDailyArticleSingle", "saveChinaDailyArticleMulti"}

\* Each of them lists by the filter it is given, whatever it is.
StartArticles(r) ==
    \E k \in ArticleKinds, filter \in Filters : Begin(r, k, ListLinks(filter))

\* mutant: the title is what the text of the link says
ArticleOfText(row, r) ==
    [source |-> row.source, index |-> row.index, by |-> r, was |-> row.type,
     title  |-> IF kind[r] = "saveXSArticle" THEN Null ELSE row.text.trail]

\* saveXSArticle leaves the title null: the title of the link goes to titleNote.
Article(row, r) ==
    [source |-> row.source, index |-> row.index, by |-> r, was |-> row.type,
     title  |-> IF kind[r] = "saveXSArticle" THEN Null ELSE row.title]

\* The page has an article, or none, or cannot be read.
FetchArticle(r) ==
    /\ \E k \in ArticleKinds : Visit(r, k)
    /\ LET row == Head(todo[r]).row
       IN  \/ Collect(r, <<Article(row, r)>>)
           \/ Collect(r, <<>>)
           \/ Throw(r)

\* Rows with a null title never collide.
ArticleKeys(rows) ==
    LET titled == SelectSeq(rows, LAMBDA a : a.title # Null)
    IN  [i \in DOMAIN titled |-> <<titled[i].index, titled[i].title>>]

SaveSingles(r) ==
    /\ Visited(r, "saveChinaDailyArticleSingle")
    /\ IF Insertable(ArticleKeys(got[r]), ToSet(ArticleKeys(articles)))
       THEN /\ articles' = articles \o got[r]
            /\ End(r, "done")
            /\ UNCHANGED <<words, extends, sentences, links>>
       ELSE Throw(r)

Partitions(n) == [k \in 1..((n + PartitionSize - 1) \div PartitionSize) |-> [id |-> k]]

\* One round of the loop for every partition of the list ...
PartitionArticles(r) ==
    /\ Visited(r, "saveXSArticle")
    /\ todo' = [todo EXCEPT ![r] = Partitions(Len(got[r]))]
    /\ pc' = [pc EXCEPT ![r] = "save"]
    /\ UNCHANGED <<tables, kind, got>>

\* mutant: every round inserts
AllBeans(r) == got[r]

\* Ebean inserts a bean it has not seen and skips one it has loaded and
\* nobody changed: after the first round nothing in the list is new.
NewBeans(r) == IF Len(todo[r]) = Len(Partitions(Len(got[r]))) THEN got[r] ELSE <<>>

\* ... and every round saves the whole list, not the partition.
SavePartition(r) ==
    /\ pc[r] = "save" /\ todo[r] # <<>>
    /\ articles' = articles \o NewBeans(r)
    /\ todo' = [todo EXCEPT ![r] = Tail(@)]
    /\ UNCHANGED <<words, extends, sentences, links, kind, pc, got>>

Return(r) ==
    /\ Visited(r, "saveChinaDailyArticleMulti") \/ (pc[r] = "save" /\ todo[r] = <<>>)
    /\ End(r, "done")
    /\ UNCHANGED tables

-----------------------------------------------------------------------------
(* The rest of the world *)

\* Words come to word_en from outside the code.
AddWord ==
    /\ Len(words) < MaxWords
    /\ words' = Append(words, [status |-> TRUE, sound |-> FALSE])
    /\ UNCHANGED <<extends, sentences, links, articles, kind, pc, todo, got>>

DeleteWord ==
    /\ \E i \in DOMAIN words :
          /\ words[i].status
          /\ words' = [words EXCEPT ![i].status = FALSE]
    /\ UNCHANGED <<extends, sentences, links, articles, kind, pc, todo, got>>

\* The process dies: no request that was running goes on.
Crash ==
    /\ \E r \in Req : pc[r] \in Running
    /\ pc' = [r \in Req |-> IF pc[r] \in Running THEN "failed" ELSE pc[r]]
    /\ kind' = [r \in Req |-> Null]
    /\ todo' = [r \in Req |-> <<>>]
    /\ got' = [r \in Req |-> <<>>]
    /\ UNCHANGED tables

Next ==
    \/ \E r \in Req :
          \/ StartDictWordEn(r) \/ FetchWord(r) \/ UpdateWords(r)
          \/ SaveExtends(r) \/ SaveSentences(r)
          \/ StartLinks(r, "saveChinaDailyArticleLink") \/ StartLinks(r, "saveXSArticleLink")
          \/ FetchChinaLinks(r) \/ FetchXsLinks(r) \/ SaveLinks(r)
          \/ StartTypes(r) \/ Classify(r) \/ UpdateTypes(r)
          \/ StartArticles(r) \/ FetchArticle(r) \/ SaveSingles(r)
          \/ PartitionArticles(r) \/ SavePartition(r) \/ Return(r)
    \/ AddWord \/ DeleteWord \/ Crash

Spec == Init /\ [][Next]_vars

-----------------------------------------------------------------------------
(* Properties *)

(* Two calls that look up the same word compete for the keys of its        *)
(* entries.  The one that stores its entries also gets its sentences in:   *)
(* no other call can have stored a sentence that collides with them, and   *)
(* each finds the entry that the foreign key asks for.                     *)
SentencesAreNeverRefused ==
    \A r \in Req : pc[r] = "sentences" =>
        Insertable(SentenceKeys(r), sentences) /\ EntriesStored(r)

(* The entries of one call never collide with each other, whatever types   *)
(* the dictionary repeats: a call is refused only because a word it looked *)
(* up already has entries.                                                 *)
OnlyStoredWordsRefuse ==
    \A r \in Req :
        pc[r] = "extends" /\ ~Insertable(ExtendKeys(r), extends) =>
            \E key \in extends, k \in DOMAIN got[r] : key[1] = got[r][k].word

(* A word deleted while dictWordEn holds a copy of its row stays deleted   *)
(* when the copy is written back.                                          *)
DeletedStaysDeleted ==
    [][\A i \in DOMAIN words : ~words[i].status => ~words'[i].status]_vars

(* saveXSArticle saves its whole list once per partition; every article    *)
(* must come out of a finished call exactly once: they stand together, in  *)
(* the order of the list, and there is no other of this call.              *)
SavedFrom(n, r) ==
    /\ n + Len(got[r]) <= Len(articles)
    /\ SubSeq(articles, n + 1, n + Len(got[r])) = got[r]
    /\ \A i \in DOMAIN articles :
          articles[i].by = r <=> i \in (n + 1)..(n + Len(got[r]))

ArticlesSavedOnce ==
    \A r \in Req :
        pc[r] = "save" /\ todo[r] = <<>> => \E n \in 0..Len(articles) : SavedFrom(n, r)

(* Within one call of saveXSArticleLink a title is saved once, though the  *)
(* list on the site shifts between the pages the call reads.               *)
XsTitlesOnce ==
    \A r \in Req :
        kind[r] = "saveXSArticleLink" => IsInjective([i \in DOMAIN got[r] |-> got[r][i].title])

(* Articles are stored from rows listed before their pages were read,      *)
(* while links are classified again and again by calls that hold old rows  *)
(* too.  Still a stored article has the title of its link, and its link is *)
(* of the type it was listed with, unless the link was not classified yet. *)
ArticlesFollowLinks ==
    \A i \in DOMAIN articles :
        articles[i].title # Null =>
            \E k \in DOMAIN links :
                /\ links[k].source = articles[i].source /\ links[k].index = articles[i].index
                /\ articles[i].title \in {links[k].title, ""}
                /\ articles[i].was \in {links[k].type, 0}

(* updateChinaDailyArticleType may be repeated: a link once classified is  *)
(* never changed by a later or a concurrent call.                          *)
ClassifiedStay ==
    [][\A i \in DOMAIN links : links[i].type # 0 => links'[i] = links[i]]_vars

(* What is stored fits together over calls and crashes: articles and       *)
(* their links.                                                            *)
StoredTogether == TypeOK /\ ArticlesFollowLinks

(* Of two calls that look up the same word one is refused, at its entries, *)
(* and only because of words that were stored before.                      *)
RefusedForStoredWords == SentencesAreNeverRefused /\ OnlyStoredWordsRefuse

(* One call stores an article, and a title, once.                          *)
SavedOnce == ArticlesSavedOnce /\ XsTitlesOnce

(* Copies of rows that are written back undo nothing: neither a deletion   *)
(* nor a classification.                                                   *)
ChangesStay == DeletedStaysDeleted /\ ClassifiedStay
=============================================================================
