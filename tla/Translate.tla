------------------------------ MODULE Translate ------------------------------
(***************************************************************************)
(* translate_many and translate of src/crates/fluxplay/src/translate.rs:   *)
(* the synopses of a detail page, several to a request, cut in pieces that *)
(* a service accepts, sent to Google and, when one piece fails, all over   *)
(* again to MyMemory.                                                      *)
(*                                                                         *)
(* A text is the sequence of its sentences' lengths.  A unit [text, at, by]*)
(* is a stretch of length 1, with the service that translated it ("" when  *)
(* none has); the blank line between two texts is a unit of text 0.        *)
(***************************************************************************)
EXTENDS Naturals, Sequences, SequencesExt

CONSTANTS
  Pages,       \* what is asked for: sequences of texts
  GoogleMax, MyMemoryMax     \* GOOGLE_CHUNK, MYMEMORY_CHUNK

VARIABLES
  texts,       \* texts
  batches,     \* texts joined into one request, and those that follow
  alone,       \* the batch is sent again one text at a time: those left
  by,          \* the service asked
  todo,        \* the pieces that are left
  done,        \* out: what came back
  pairs,       \* what translate_many returns
  over         \* it has returned

vars == <<texts, batches, alone, by, todo, done, pairs, over>>

Sep == [text |-> 0, at |-> 1, by |-> ""]
LengthOf(lens) == FoldSeq(+, 0, lens)

\* The units of text t, sentence by sentence.
Sentences(t) ==
  LET lens == texts[t]
      From(k) == LengthOf(SubSeq(lens, 1, k - 1))
  IN  [k \in 1..Len(lens) |-> [i \in 1..lens[k] |-> [text |-> t, at |-> From(k) + i, by |-> ""]]]

\* joined: the texts of a batch with a blank line between two.
Joined(batch) ==
  FlattenSeq([i \in 1..Len(batch) |->
    IF i = 1 THEN Sentences(batch[i]) ELSE <<<<Sep>>>> \o Sentences(batch[i])])

\* chunks: sentences together while they fit, one that never fits cut anywhere.
Cut(s, max) ==
  LET pieces == (Len(s) + max - 1) \div max
  IN  [k \in 1..pieces |-> SubSeq(s, (k - 1) * max + 1, IF k * max < Len(s) THEN k * max ELSE Len(s))]
PushPiece(acc, s, max) ==
  LET full == Len(acc.cur) + Len(s) > max /\ acc.cur # <<>>
      out == IF full THEN Append(acc.out, acc.cur) ELSE acc.out
      cur == IF full THEN <<>> ELSE acc.cur
  IN  IF Len(s) > max THEN [out |-> out \o Cut(s, max), cur |-> cur]
      ELSE [out |-> out, cur |-> cur \o s]
Chunks(sentences, max) ==
  LET last == FoldLeft(LAMBDA acc, s : PushPiece(acc, s, max), [out |-> <<>>, cur |-> <<>>], sentences)
  IN  IF last.cur = <<>> THEN last.out ELSE Append(last.out, last.cur)

\* Texts share a request while they fit in one piece of Google's.
Size(t) == LengthOf(texts[t]) + 1
Batches(n) ==
  LET Take(acc, t) ==
        IF acc.len + Size(t) > GoogleMax /\ acc.cur # <<>>
        THEN [out |-> Append(acc.out, acc.cur), cur |-> <<t>>, len |-> Size(t)]
        ELSE [acc EXCEPT !.cur = Append(@, t), !.len = @ + Size(t)]
      last == FoldLeft(Take, [out |-> <<>>, cur |-> <<>>, len |-> 0], [t \in 1..n |-> t])
  IN  IF last.cur = <<>> THEN last.out ELSE Append(last.out, last.cur)

Asked == IF alone # <<>> THEN <<Head(alone)>> ELSE Head(batches)

Init ==
  /\ texts \in Pages
  /\ batches = Batches(Len(texts)) /\ alone = <<>>
  /\ by = "google" /\ todo = Chunks(Joined(Asked), GoogleMax) /\ done = <<>>
  /\ pairs = <<>> /\ over = FALSE

-----------------------------------------------------------------------------
\* google_chunk, mymemory_chunk: the answer may have lost blank lines.
Answer(piece) == [i \in 1..Len(piece) |-> [piece[i] EXCEPT !.by = by]]
Translated ==
  /\ ~over /\ todo # <<>>
  /\ todo' = Tail(todo)
  /\ \E out \in {Answer(Head(todo)), SelectSeq(Answer(Head(todo)), LAMBDA u : u.text # 0)} :
       done' = done \o out
  /\ UNCHANGED <<texts, batches, alone, by, pairs, over>>

\* A piece fails at Google: the whole text goes to MyMemory.  A piece fails there,
\* or the text seems to be in the viewer's language: no translation.
FallBackOnce ==
  /\ ~over /\ todo # <<>>
  /\ \/ /\ by = "google" /\ by' = "mymemory"
        /\ todo' = Chunks(Joined(Asked), MyMemoryMax)
        /\ UNCHANGED <<done, over>>
     \/ over' = TRUE /\ UNCHANGED <<by, todo, done>>
  /\ UNCHANGED <<texts, batches, alone, pairs>>
FallBack ==
  /\ ~over /\ todo # <<>>
  /\ \/ /\ by = "google" /\ by' = "mymemory"
        /\ todo' = Chunks(Joined(Asked), MyMemoryMax)
        /\ done' = <<>> /\ UNCHANGED over
     \/ over' = TRUE /\ UNCHANGED <<by, todo, done>>
  /\ UNCHANGED <<texts, batches, alone, pairs>>

\* Parts of an answer between blank lines.
PartsOf(s) ==
  LET Take(acc, u) == IF u.text = 0 THEN Append(acc, <<>>)
                      ELSE Front(acc) \o <<Append(Last(acc), u)>>
  IN  SelectSeq(FoldLeft(Take, <<<<>>>>, s), LAMBDA p : p # <<>>)

Send(bs, al) ==
  /\ batches' = bs /\ alone' = al /\ by' = "google" /\ done' = <<>>
  /\ IF bs = <<>> THEN todo' = <<>> /\ over' = TRUE
     ELSE /\ todo' = Chunks(Joined(IF al # <<>> THEN <<Head(al)>> ELSE Head(bs)), GoogleMax)
          /\ UNCHANGED over

\* An answer with as many parts as texts is shared out; else one text at a time.
PairAny ==
  /\ ~over /\ todo = <<>> /\ UNCHANGED texts
  /\ LET parts == PartsOf(done)
         n == IF Len(parts) < Len(Asked) THEN Len(parts) ELSE Len(Asked)
     IN  /\ pairs' = pairs \o [i \in 1..n |-> <<Asked[i], parts[i]>>]
         /\ Send(Tail(batches), <<>>)
Pair ==
  /\ ~over /\ todo = <<>> /\ UNCHANGED texts
  /\ LET parts == PartsOf(done)
     IN  IF alone # <<>>
         THEN /\ pairs' = Append(pairs, <<Head(alone), done>>)
              /\ IF Len(alone) > 1 THEN Send(batches, Tail(alone)) ELSE Send(Tail(batches), <<>>)
         ELSE IF Len(parts) = Len(Asked)
         THEN /\ pairs' = pairs \o [i \in 1..Len(parts) |-> <<Asked[i], parts[i]>>]
              /\ Send(Tail(batches), <<>>)
         ELSE UNCHANGED pairs /\ Send(batches, Head(batches))

Next == Translated \/ FallBack \/ Pair
Spec == Init /\ [][Next]_vars

-----------------------------------------------------------------------------
\* Every translation is of its own text, whole, in order, and by one service: pieces
\* of two texts, of two services or of a text that failed half way are never put
\* together, however the texts were joined and cut.
PairsAreWhole ==
  \A i \in 1..Len(pairs) :
    LET t == pairs[i][1]
        out == pairs[i][2]
    IN  /\ \A j \in 1..Len(out) : out[j].text = t /\ out[j].at = j /\ out[j].by = out[1].by
        /\ Len(out) = LengthOf(texts[t])

\* The texts that were translated are the first ones, each once.
PairsInOrder == \A i \in 1..Len(pairs) : pairs[i][1] = i
=============================================================================
