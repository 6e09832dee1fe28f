-------------------------- MODULE WordServicesMC --------------------------
(* Instances of WordServices for TLC. *)
EXTENDS WordServices

CONSTANTS r1, r2, r3

ThreeReqs == {r1, r2, r3}
Symmetry  == Permutations(Req)

AllKinds == {"dictWordEn", "saveXSArticleLink", "saveChinaDailyArticleLink", "saveXSArticle",
             "saveChinaDailyArticleSingle", "saveChinaDailyArticleMulti", "updateChinaDailyArticleType"}

(* The calls about words and the calls about articles share no table: TLC  *)
(* does not look beyond a state in which both have begun.                  *)
OneFamily == words = <<>> \/ \A r \in Req : kind[r] \in {Null, "dictWordEn"} /\ links = <<>>

Entry(type, seq) == [type |-> type, sentences |-> seq]

\* no entry; a repeated sentence and a repeated type; an entry without sentences
Dictionary ==
    {[sounds |-> 0, entries |-> <<>>],
     [sounds |-> 2, entries |-> <<Entry("n", <<"s", "t", "s">>), Entry("n", <<"s">>)>>],
     [sounds |-> 1, entries |-> <<Entry("v", <<>>), Entry("n", <<"t">>)>>]}

Line(index, lead, trail) == [index |-> index, text |-> [lead |-> lead, trail |-> trail]]

ChinaDaily ==
    {<<Line(1, "morning", "alpha"), Line(2, "news", "alpha")>>,
     <<Line(2, "news", "alpha"), Line(3, "bare", "special")>>,
     <<Line(3, "bare", "marked"), Line(4, "other", "alpha")>>,
     <<Line(4, "news", "empty"), Line(5, "selected", "chinese")>>}

XiaShuo ==
    {<<Line(1, "title", "x"), Line(2, "title", "y"), Line(3, "title", "x")>>,
     <<Line(2, "title", "y"), Line(4, "skip", "z")>>,
     <<Line(4, "title", "z")>>}

PageParams ==
    {[start |-> 1, end |-> 2], [start |-> 0, end |-> 1], [start |-> 2, end |-> 1],
     [start |-> Null, end |-> 1]}

\* every link; those of one source; those of one class; some by index, of any source
LinkFilters ==
    {[source |-> Null, type |-> Null, indexes |-> Null],
     [source |-> "china_daily", type |-> Null, indexes |-> Null],
     [source |-> "china_daily", type |-> 1, indexes |-> Null],
     [source |-> Null, type |-> Null, indexes |-> {1, 2}]}

=============================================================================
