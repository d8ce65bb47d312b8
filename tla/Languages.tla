------------------------------ MODULE Languages ------------------------------
(***************************************************************************)
(* The languages a panel's names speak of (names.rs): the codes in front   *)
(* of them, the tags behind them, what a viewer who set a language sees    *)
(* and in which order.  The tables hold a few members of each family.      *)
(***************************************************************************)

NoLang == [langs |-> {}, multi |-> FALSE, adult |-> FALSE]
Speaks(ls) == [NoLang EXCEPT !.langs = ls]
MergeLang(a, b) == [langs |-> a.langs \cup b.langs,
                    multi |-> a.multi \/ b.multi, adult |-> a.adult \/ b.adult]

\* Region and language codes; a compound code (IN:CAM) is its known parts.
CodeLangs(p) ==
  CASE p \in {"FR", "AF"} -> {"fr"} [] p = "AR" -> {"ar"} [] p = "IN" -> {"hi"}
    [] p = "IT" -> {"it"} [] p \in {"US", "EN"} -> {"en"} [] p = "CA" -> {"en", "fr"}
    [] p = "BE" -> {"fr", "nl"}
PartsOf(head) == IF head = "IN:CAM" THEN {"IN", "CAM"} ELSE {head}
IsCode(p) == p \in {"FR", "AF", "AR", "IN", "IT", "US", "EN", "CA", "BE", "XXX", "+18", "MULTI"}
CodeInfo(p) ==
  IF p \in {"XXX", "+18"} THEN [NoLang EXCEPT !.adult = TRUE]
  ELSE IF p = "MULTI" THEN [NoLang EXCEPT !.multi = TRUE]
  ELSE Speaks(CodeLangs(p))
IsPlatformTag(p) == p \in {"NF", "CAM", "4K", "UHD", "SUB", "VO"}

HeadInfo(head) ==
  LET infos == {CodeInfo(p) : p \in {q \in PartsOf(head) : IsCode(q)}}
  IN  [langs |-> UNION {i.langs : i \in infos},
       multi |-> \E i \in infos : i.multi, adult |-> \E i \in infos : i.adult]

\* What a tag at the end of a name adds: a language, several, or nothing.
ApplyTag(lang, tag) ==
  IF tag = "" THEN lang
  ELSE IF tag = "multi" THEN [lang EXCEPT !.multi = TRUE]
  ELSE [lang EXCEPT !.langs = @ \cup {tag}]

\* The viewer's language against a title's own tags, or against its category
\* when the title says nothing; and the order in which titles are listed.
IsKnown(info) == info.langs # {} \/ info.multi
Matches(info, pref) == pref \in info.langs \/ (info.langs = {} /\ info.multi)
ItemMatches(item, category, pref) ==
  IF IsKnown(item) THEN Matches(item, pref) ELSE Matches(category, pref)
\* A title with several languages is of any, even when it names them.
LangRankMulti(info, pref) ==
  IF info.adult THEN 3
  ELSE IF pref = "" THEN 1
  ELSE IF pref \in info.langs THEN 0 ELSE IF info.multi THEN 1 ELSE 2
LangRank(info, pref) ==
  IF info.adult THEN 3
  ELSE IF pref = "" THEN 1
  ELSE IF pref \in info.langs THEN 0
  ELSE IF info.langs = {} /\ info.multi THEN 1 ELSE 2

=============================================================================
