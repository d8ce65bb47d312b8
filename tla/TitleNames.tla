----------------------------- MODULE TitleNames -----------------------------
(***************************************************************************)
(* What a panel's name of a film says, read twice by two parsers that were *)
(* written apart: names.rs takes it for the tile (title, year, languages), *)
(* metadata.rs for the question asked of the film services (title, year).  *)
(*                                                                         *)
(* A name is a sequence of tokens: a word, the brackets around it and what *)
(* stands before it: nothing, a space, a dash between spaces, or a glued   *)
(* dash, underscore or dot.  The panel writes it piece by piece (the       *)
(* actions) and `told` keeps what each piece means.  The tables hold a few *)
(* members of each family of the source's tables.                          *)
(***************************************************************************)
EXTENDS Languages, Naturals, Sequences, FiniteSets, SequencesExt

CONSTANTS
  Codes,         \* codes a name starts with: "FR - "
  Titles,        \* the titles themselves, sequences of tokens
  Dates,         \* how the year is written: "(", "[", "-" or "."
  Tails,         \* tokens that follow: "_fr", " FR", " (MULTI)"
  MaxCodes, MaxTails      \* bounds on the pieces of a name

VARIABLES
  raw,           \* the name written so far
  told,          \* what its pieces mean: title, year, languages
  stage          \* "prefix", "title", "year", "tail": the last piece written

vars == <<raw, told, stage>>

None == "none"
Token(sep, word) == [sep |-> sep, br |-> "", word |-> word]
Bracketed(sep, br, word) == [sep |-> sep, br |-> br, word |-> word]
WordsOf(s) == [i \in 1..Len(s) |-> s[i].word]

\* Words that differ from their upper-case form.  Ordinary words are in none of
\* the tables, whatever their case.
UpperOf == [fr |-> "FR", vf |-> "VF", it |-> "IT", It |-> "IT", Us |-> "US", esp |-> "ESP",
            sub |-> "SUB", multi |-> "MULTI", Ar |-> "AR", Cut |-> "CUT"]
Upper(w) == IF w \in DOMAIN UpperOf THEN UpperOf[w] ELSE w
IsUpper(w) == w \notin DOMAIN UpperOf

YearWords == {"1917", "1999", "2049"}

-----------------------------------------------------------------------------
(* The tile's reading: names.rs. *)

\* A prefix is a code in capitals before the first dash.
SplitItemPrefix(s) ==
  /\ Len(s) > 1 /\ s[2].sep = " - " /\ s[1].br = ""
  /\ IsUpper(s[1].word)
  /\ \A p \in PartsOf(s[1].word) : IsCode(p) \/ IsPlatformTag(p)
StripRepeatedPrefix(s, head) ==
  IF Len(s) > 1 /\ s[2].sep = " - " /\ Upper(s[1].word) = Upper(head) THEN Tail(s) ELSE s
QualityWords == {"4K", "4KL", "UHD", "HD"}
HasSpace(s) == \E i \in 2..Len(s) : s[i].sep \in {" ", " - "}
StripLeadingQuality(s) ==
  LET Rest(n) == SubSeq(s, n, Len(s))
      gone == {n \in 1..Len(s) : \A j \in 1..n : Upper(s[j].word) \in QualityWords /\ HasSpace(Rest(j))}
  IN  Rest(Cardinality(gone) + 1)

\* At most three prefixes, a repetition of the last one skipped before each.
Prefixed(s0) ==
  LET Strip[n \in 0..3] ==
        IF n = 0 THEN [s |-> s0, head |-> None, lang |-> NoLang]
        ELSE LET p == Strip[n - 1]
                 s == IF p.head = None THEN p.s ELSE StripRepeatedPrefix(p.s, p.head)
             IN  IF SplitItemPrefix(s)
                 THEN [s |-> StripLeadingQuality(Tail(s)), head |-> s[1].word,
                       lang |-> MergeLang(p.lang, HeadInfo(s[1].word))]
                 ELSE [p EXCEPT !.s = s]
  IN  Strip[3]

\* Tags glued to the last word, bracketed ones among them, and tags that are
\* words of their own: a language's only in capitals, since a title may end so.
GluedTag(t) ==
  LET u == Upper(t.word)
  IN  IF t.br # "" THEN IF u = "MULTI" THEN "multi" ELSE IF u = "VF" THEN "fr" ELSE None
      ELSE IF t.sep \notin {"_", "-"} THEN None
      ELSE IF u \in {"FR", "VF"} THEN "fr"
      ELSE IF u = "IT" THEN "it"
      ELSE IF u = "ESP" THEN "es"
      ELSE IF u = "MULTI" THEN "multi"
      ELSE IF u = "SUB" THEN "" ELSE None
\* A language's word in any case.
TailTagAnyCase(w) ==
  IF Upper(w) = "MULTI" THEN "multi"
  ELSE IF Upper(w) \in {"4K", "UHD", "SUB", "HD"} THEN ""
  ELSE IF Upper(w) \in {"VOST", "VF", "FR"} THEN "fr" ELSE IF Upper(w) = "IT" THEN "it" ELSE None
TailTag(w) ==
  IF Upper(w) = "MULTI" THEN "multi"
  ELSE IF Upper(w) \in {"4K", "UHD", "SUB"} THEN ""
  ELSE IF w = "VOST" THEN "fr"
  ELSE IF ~IsUpper(w) THEN None
  ELSE IF w \in {"VF", "FR"} THEN "fr" ELSE IF w = "IT" THEN "it" ELSE IF w = "HD" THEN "" ELSE None
TailTagAfterYear(w) == IF w = "NO" THEN "no" ELSE IF w = "SE" THEN "sv" ELSE None

\* The tag of a token that stands apart: quality only when it is in brackets.
SpacedTag(s) ==
  LET t == Last(s)
  IN  IF t.br # "" THEN IF TailTag(t.word) = "" THEN "" ELSE None
      ELSE IF TailTag(t.word) # None THEN TailTag(t.word)
      ELSE IF s[Len(s) - 1].br = "(" THEN TailTagAfterYear(t.word) ELSE None

\* One round on the end of the name: a glued tag, a tag apart, a year in
\* brackets, a year after a dash.
PeelOnce(p) ==
  LET s == p.s
      t == Last(s)
      year == IF p.year = None THEN t.word ELSE p.year
  IN  IF Len(s) < 2 THEN p
      ELSE IF GluedTag(t) # None
      THEN [p EXCEPT !.s = Front(s), !.lang = ApplyTag(@, GluedTag(t))]
      ELSE IF t.sep \in {" ", " - "} /\ SpacedTag(s) # None
      THEN [p EXCEPT !.s = Front(s), !.lang = ApplyTag(@, SpacedTag(s))]
      ELSE IF t.word \in YearWords /\ (t.br # "" \/ t.sep = " - ")
      THEN [p EXCEPT !.s = Front(s), !.year = year]
      ELSE p
PeelTail(p0) ==
  LET Peel[n \in 0..10] == IF n = 0 THEN p0 ELSE PeelOnce(Peel[n - 1])
  IN  Peel[10]

\* Release names with dots: up to the year or the first word of a release.
SceneNoise == {"1080p", "x264"}
Undot(p) ==
  LET s == p.s
      stops == {i \in 1..Len(s) : s[i].word \in SceneNoise \/ (i > 1 /\ s[i].word \in YearWords)}
      stop == IF stops = {} THEN Len(s) + 1 ELSE CHOOSE i \in stops : \A j \in stops : i <= j
      letters == {i \in 1..(stop - 1) : s[i].word \in {"M", "I", "B"}}
  IN  IF /\ ~HasSpace(s) /\ \E i \in 2..Len(s) : s[i].sep = "."
         /\ 2 * Cardinality(letters) < stop - 1
         /\ stops # {} \/ stop > 2
      THEN PeelTail([p EXCEPT !.s = SubSeq(s, 1, stop - 1),
                              !.year = IF @ = None /\ stop <= Len(s) /\ s[stop].word \in YearWords
                                       THEN s[stop].word ELSE @])
      ELSE p

ParseItemTitle(s) ==
  LET p == Prefixed(s)
      q == Undot(PeelTail([s |-> StripLeadingQuality(p.s), lang |-> p.lang, year |-> None]))
  IN  [title |-> WordsOf(q.s), year |-> q.year, lang |-> q.lang]

-----------------------------------------------------------------------------
(* The question's reading: metadata.rs. *)

\* Any case, unlike the tile's.
IsLangTag(w) == Upper(w) \in {"FR", "AR", "IN", "IT", "US", "AF", "NF", "XXX", "NO", "SE", "VF", "MULTI", "SUB", "CAM"}

FirstYear(s, at) ==
  LET found == {i \in at : s[i].word \in YearWords}
  IN  IF found = {} THEN None ELSE s[CHOOSE i \in found : \A j \in found : i <= j].word
ExtractYear(s) ==
  LET paren == FirstYear(s, {i \in DOMAIN s : s[i].br = "("})
      brack == FirstYear(s, {i \in DOMAIN s : s[i].br = "["})
  IN  IF paren # None THEN paren
      ELSE IF brack # None THEN brack
      ELSE FirstYear(s, {i \in DOMAIN s : s[i].br = "" /\ s[i].sep = " - "})

StripLangPrefix(s) ==
  IF Len(s) > 1 /\ s[2].sep \in {" - ", "-"} /\ IsLangTag(s[1].word) THEN Tail(s) ELSE s
StripQuality(s) ==
  LET words == {i \in 1..Len(s) : \A j \in 1..i : Upper(s[j].word) \in {"4K", "4KL", "UHD", "HD", "CAM"}
                                                  /\ s[j].br = ""}
  IN  SubSeq(s, Cardinality(words) + 1, Len(s))

\* At most three tags from the end; a spaced one of three letters at most.
LocaleSuffix(t) ==
  \/ t.sep \in {"_", "-"} /\ Upper(t.word) \in {"SUB", "FR", "VF", "MULTI"}
  \/ t.sep = "-" /\ Upper(t.word) = "IT"
SpacedLang(t) ==
  /\ t.sep \in {" ", " - "} /\ t.br = ""
  /\ IsLangTag(t.word) /\ Upper(t.word) # "MULTI"
\* One tag only.
StripOneLocaleTag(s) ==
  IF Len(s) > 1 /\ (LocaleSuffix(Last(s)) \/ SpacedLang(Last(s))) THEN Front(s) ELSE s
StripTrailingLocaleTags(s0) ==
  LET Strip[n \in 0..3] ==
        IF n = 0 THEN s0
        ELSE LET s == Strip[n - 1]
             IN  IF Len(s) > 1 /\ (LocaleSuffix(Last(s)) \/ SpacedLang(Last(s))) THEN Front(s) ELSE s
  IN  Strip[3]

StripBracketBlocks(s) == SelectSeq(s, LAMBDA t : t.br = "")
\* The last dash of the name, when a year follows it, ends the title.
SplitDashedYear(s) ==
  LET dashes == {i \in 2..Len(s) : s[i].sep = " - "}
      i == CHOOSE j \in dashes : \A k \in dashes : k <= j
  IN  IF dashes # {} /\ s[i].word \in YearWords
      THEN [s |-> SubSeq(s, 1, i - 1), year |-> s[i].word] ELSE [s |-> s, year |-> None]
NoiseTokens == {"1080p", "x264", "4K", "UHD", "MULTI", "VF", "SUB", "CUT", "VOSTFR", "NF"}

ParseTitleQuery(s0) ==
  LET s1 == StripTrailingLocaleTags(StripQuality(StripLangPrefix(s0)))
      year1 == IF ExtractYear(s0) # None THEN ExtractYear(s0) ELSE ExtractYear(s1)
      d == SplitDashedYear(StripBracketBlocks(s1))
      year2 == IF year1 = None THEN d.year ELSE year1
      words == WordsOf(SelectSeq(d.s, LAMBDA t : Upper(t.word) \notin NoiseTokens))
      bare == year2 = None /\ Len(words) > 1 /\ Last(words) \in YearWords
      kept == IF bare THEN Front(words) ELSE words
  IN  [title |-> IF kept = <<>> THEN WordsOf(s0) ELSE kept,
       year |-> IF bare THEN Last(words) ELSE year2]

-----------------------------------------------------------------------------
(* The panel writes a name. *)

Init == /\ raw = <<>> /\ stage = "prefix"
        /\ told = [title |-> <<>>, year |-> None, lang |-> NoLang]

\* What a code, or a tag, says to the viewer.
Means(w) ==
  CASE w \in {"FR", "fr", "VF", "vf", "VOST"} -> Speaks({"fr"})
    [] w \in {"IT", "it"} -> Speaks({"it"})
    [] w = "esp" -> Speaks({"es"})
    [] w = "NO" -> Speaks({"no"})
    [] w \in {"AR", "Ar"} -> Speaks({"ar"})
    [] w = "IN:CAM" -> Speaks({"hi"})
    [] w = "XXX" -> [NoLang EXCEPT !.adult = TRUE]
    [] w \in {"MULTI", "multi"} -> [NoLang EXCEPT !.multi = TRUE]
    [] OTHER -> NoLang
Says(w) == [told EXCEPT !.lang = MergeLang(@, Means(w))]
\* A piece written first has nothing before it.
After(t) == IF raw = <<>> THEN [t EXCEPT !.sep = ""] ELSE t

Prefix(c) ==
  /\ stage = "prefix" /\ Len(raw) < MaxCodes
  /\ ~IsUpper(c) => raw # <<>> /\ Upper(raw[1].word) = Upper(c)      \* RU - Ru - Title
  /\ raw' = Append(raw, After(Token(" - ", c)))
  /\ told' = Says(c)
  /\ UNCHANGED stage
Title(t, quality) ==
  /\ stage = "prefix" /\ stage' = "title"
  /\ LET s == IF quality THEN <<Token(" ", "4K")>> \o t ELSE t
         sep == IF raw = <<>> THEN "" ELSE " - "
     IN  raw' = raw \o [s EXCEPT ![1].sep = sep]
  /\ told' = [told EXCEPT !.title = WordsOf(t)]
Date(d) ==
  /\ stage = "title" /\ stage' = "year"
  /\ d = "." => Len(raw) = 1
  /\ raw' = Append(raw, CASE d = "-" -> Token(" - ", "1999") [] d = "." -> Token(".", "1999")
                          [] OTHER -> Bracketed(" ", d, "1999"))
  /\ told' = [told EXCEPT !.year = "1999"]
Tag(t) ==
  /\ stage \in {"title", "year", "tail"} /\ stage' = "tail"
  /\ t.sep = " " => stage # "tail"      \* one tag apart, then the glued ones
  /\ t.sep = "." <=> Last(raw).sep = "."
  /\ t.word = "NO" => Last(raw).br = "("
  /\ Cardinality({i \in 1..Len(raw) : raw[i] \in Tails}) < MaxTails
  /\ raw' = Append(raw, t)
  /\ told' = Says(t.word)

Next ==
  \/ \E c \in Codes : Prefix(c)
  \/ \E t \in Titles, q \in BOOLEAN : Title(t, q)
  \/ \E d \in Dates : Date(d)
  \/ \E t \in Tails : Tag(t)

Spec == Init /\ [][Next]_vars

-----------------------------------------------------------------------------
(* Properties. *)

\* The tile shows the title, the year and the languages the panel meant.
ShownIsTold == stage # "prefix" => ParseItemTitle(raw) = told

\* The services are asked for the title and the year the tile shows.
AskedIsShown ==
  stage # "prefix" =>
    LET q == ParseTitleQuery(raw)
    IN  /\ q.title = ParseItemTitle(raw).title
        /\ q.year = ParseItemTitle(raw).year

\* A title listed before the others for the viewer's language is one the
\* language filter keeps, whatever its category says of it: the order and the
\* filter read the same tags.
RankedMatches ==
  \A pref \in {"fr", "ar", "it"} :
    LET lang == ParseItemTitle(raw).lang
    IN  (raw # <<>> /\ ~lang.adult /\ IsKnown(lang))
          => \A cat \in {NoLang, Speaks({"fr"})} : ItemMatches(lang, cat, pref) <=> LangRank(lang, pref) <= 1
=============================================================================
