------------------------- MODULE SegmentedFetchProofs -------------------------
(***************************************************************************)
(* Proofs about SegmentedFetch, for any file, any number of connections    *)
(* and servers and any choice of faults.  First the spans: no byte is      *)
(* fetched by two.  Then what is in the file: a byte stops being missing   *)
(* only once it is written, no crash makes an unwritten byte look written, *)
(* and a run that returns Ok has every byte.                               *)
(***************************************************************************)
EXTENDS SegmentedFetch, TLAPS

\* A span keeps to the right of where it started, is not empty, and no other
\* span reaches into what it covered since it was pushed: names stay unique.
Separate ==
  /\ \A s \in spans : s.id <= s.pos /\ s.pos < s.end
  /\ \A s, t \in spans : s # t => s.end <= t.id \/ t.end <= s.id

Holders ==
  \A c, d \in Conns :
    c # d /\ conn[c].pc \in Holding /\ conn[d].pc \in Holding
      => conn[c].id # conn[d].id

Apart(holes) ==
  \A g, h \in holes : g # h => g[2] <= h[1] \/ h[2] <= g[1]

HolesApart == Apart(todo) /\ Apart(sidecar) /\ Apart(snap)

IInv == TypeOK /\ Separate /\ OwnerInStep /\ Holders /\ HolesApart

-----------------------------------------------------------------------------
\* Moving one connection keeps the others, and the type, of all of them.
LEMMA GotoType ==
  ASSUME IInv, NEW c \in Conns, NEW r \in ConnSet, Goto(c, r)
  PROVE  /\ conn' \in [Conns -> ConnSet]
         /\ conn'[c] = r
         /\ \A d \in Conns \ {c} : conn'[d] = conn[d]
BY DEF IInv, TypeOK, Goto

LEMMA LeaveType ==
  ASSUME IInv, NEW c \in Conns,
         NEW pc \in Live \cup {"none", "detached"}, Leave(c, pc)
  PROVE  /\ conn' \in [Conns -> ConnSet]
         /\ conn'[c].pc = pc
         /\ \A d \in Conns \ {c} : conn'[d] = conn[d]
<1>1. NoConn \in ConnSet
  BY ConstantsAssumption DEF NoConn, ConnSet, Servers, ConstantsAssumption
<1>2. [NoConn EXCEPT !.pc = pc] \in ConnSet /\ [NoConn EXCEPT !.pc = pc].pc = pc
  BY <1>1 DEF ConnSet
<1>3. QED BY <1>2, GotoType DEF Leave

\* The span a holding connection works on is the one it owns.
LEMMA SpanOfHolder ==
  ASSUME IInv, NEW c \in Conns, conn[c].pc \in Holding
  PROVE  /\ SpanOf(c) \in spans
         /\ SpanOf(c).id = conn[c].id
         /\ SpanOf(c).pos = conn[c].pos
         /\ SpanOf(c).owned
<1>1. PICK s \in spans : s.id = conn[c].id /\ s.owned /\ s.pos = conn[c].pos
  BY DEF IInv, OwnerInStep
<1>2. SpanOf(c) \in spans /\ SpanOf(c).id = conn[c].id
  BY <1>1 DEF SpanOf
<1>3. SpanOf(c) = s
  BY <1>1, <1>2 DEF IInv, Separate, TypeOK, SpanSet
<1>4. QED BY <1>1, <1>2, <1>3

\* The holes of separate spans are holes of the file that do not overlap.
LEMMA HolesOfSpans ==
  ASSUME IInv
  PROVE  HolesOf(spans) \subseteq Holes /\ Apart(HolesOf(spans))
<1>1. \A s \in spans : s.id \in 0 .. Total /\ s.pos \in 0 .. Total /\ s.end \in 0 .. Total
  BY DEF IInv, TypeOK, SpanSet
<1>2. HolesOf(spans) \subseteq Holes
  BY <1>1 DEF IInv, Separate, HolesOf, Holes
<1>3. ASSUME NEW g \in HolesOf(spans), NEW h \in HolesOf(spans), g # h
      PROVE  g[2] <= h[1] \/ h[2] <= g[1]
  <2>1. PICK s \in spans : g = <<s.pos, s.end>>
    BY <1>3 DEF HolesOf
  <2>2. PICK t \in spans : h = <<t.pos, t.end>>
    BY <1>3 DEF HolesOf
  <2>3. s # t
    BY <1>3, <2>1, <2>2
  <2>4. s.end <= t.id \/ t.end <= s.id
    BY <2>3 DEF IInv, Separate
  <2>5. s.id <= s.pos /\ t.id <= t.pos
    BY DEF IInv, Separate
  <2>6. QED BY <1>1, <2>1, <2>2, <2>4, <2>5, ConstantsAssumption DEF ConstantsAssumption
<1>4. QED BY <1>2, <1>3 DEF Apart

\* Spans made from holes that do not overlap are separate.
LEMMA WorkNewSeparate ==
  ASSUME NEW holes \in SUBSET Holes, Apart(holes)
  PROVE  /\ WorkNew(holes) \subseteq SpanSet
         /\ \A s \in WorkNew(holes) : s.id <= s.pos /\ s.pos < s.end
         /\ \A s, t \in WorkNew(holes) : s # t => s.end <= t.id \/ t.end <= s.id
<1>1. \A h \in holes : h[1] \in 0 .. Total /\ h[2] \in 0 .. Total /\ h[1] < h[2]
  BY DEF Holes
<1>2. WorkNew(holes) \subseteq SpanSet
  <2>1. ASSUME NEW h \in holes PROVE Span(h[1], h[1], h[2], FALSE) \in SpanSet
    BY <1>1 DEF Span, SpanSet
  <2>2. QED BY <2>1 DEF WorkNew
<1>3. \A s \in WorkNew(holes) : s.id <= s.pos /\ s.pos < s.end
  BY <1>1, ConstantsAssumption DEF WorkNew, Span, ConstantsAssumption
<1>4. \A s, t \in WorkNew(holes) : s # t => s.end <= t.id \/ t.end <= s.id
  <2>1. ASSUME NEW s \in WorkNew(holes), NEW t \in WorkNew(holes), s # t
        PROVE  s.end <= t.id \/ t.end <= s.id
    <3>1. PICK g \in holes : s = Span(g[1], g[1], g[2], FALSE)
      BY DEF WorkNew
    <3>2. PICK h \in holes : t = Span(h[1], h[1], h[2], FALSE)
      BY DEF WorkNew
    <3>3. g # h
      BY <2>1, <3>1, <3>2
    <3>4. g[2] <= h[1] \/ h[2] <= g[1]
      BY <3>3 DEF Apart
    <3>5. QED BY <3>1, <3>2, <3>4 DEF Span
  <2>2. QED BY <2>1
<1>5. QED BY <1>2, <1>3, <1>4

-----------------------------------------------------------------------------
LEMMA InitInv == Init => IInv
<1> USE ConstantsAssumption DEF ConstantsAssumption
<1> SUFFICES ASSUME Init PROVE IInv
  OBVIOUS
<1>1. TypeOK
  <2>1. <<Offset, Total>> \in Holes
    BY DEF Holes
  <2>2. Range(0, Offset) \subseteq Bytes
    BY DEF Range, Bytes
  <2>3. NoConn \in ConnSet
    BY DEF NoConn, ConnSet, Live, Holding, Servers
  <2>4. QED BY <2>1, <2>2, <2>3 DEF Init, TypeOK, CoSet
<1>2. Separate /\ OwnerInStep /\ Holders
  BY DEF Init, Separate, OwnerInStep, Holders, NoConn, Holding
<1>3. HolesApart
  BY DEF Init, HolesApart, Apart
<1>4. QED BY <1>1, <1>2, <1>3 DEF IInv

-----------------------------------------------------------------------------
\* Claiming the head of an unowned span keeps the spans separate.
LEMMA TakeHeadSeparate ==
  ASSUME NEW sp \in SUBSET SpanSet, NEW s \in sp,
         \A t \in sp : t.id <= t.pos /\ t.pos < t.end,
         \A t, u \in sp : t # u => t.end <= u.id \/ u.end <= t.id
  PROVE  LET new == TakeHead(sp, s) IN
         /\ new \subseteq SpanSet
         /\ \A t \in new : t.id <= t.pos /\ t.pos < t.end
         /\ \A t, u \in new : t # u => t.end <= u.id \/ u.end <= t.id
         /\ \A t \in sp : t # s => t \in new
         /\ \E t \in new : t.id = s.id /\ t.pos = s.pos /\ t.owned
<1> USE ConstantsAssumption DEF ConstantsAssumption
<1> DEFINE cut == s.pos + MaxSpan
           end == IF cut < s.end THEN cut ELSE s.end
           rest == IF cut < s.end THEN {Span(cut, cut, s.end, FALSE)} ELSE {}
           head == Span(s.id, s.pos, end, TRUE)
<1>1. TakeHead(sp, s) = (sp \ {s}) \cup {head} \cup rest
  BY DEF TakeHead
<1>2. /\ s.id \in 0 .. Total /\ s.pos \in 0 .. Total /\ s.end \in 0 .. Total
      /\ s.id <= s.pos /\ s.pos < s.end
  BY DEF SpanSet
<1>3. /\ cut \in Nat /\ cut > s.pos
      /\ end \in 0 .. Total /\ s.pos < end /\ end <= s.end /\ end <= cut
  BY <1>2
<1>4. /\ head \in SpanSet /\ head.id = s.id /\ head.pos = s.pos
      /\ head.end = end /\ head.owned
  BY <1>2, <1>3 DEF Span, SpanSet
<1>5. \A r \in rest : /\ r \in SpanSet /\ r.id = cut /\ r.pos = cut
                       /\ r.end = s.end /\ cut < s.end /\ end = cut
  <2>1. CASE cut < s.end
    <3> DEFINE tail == Span(cut, cut, s.end, FALSE)
    <3>1. tail \in SpanSet /\ tail.id = cut /\ tail.pos = cut /\ tail.end = s.end
      BY <1>2, <1>3, <2>1 DEF Span, SpanSet
    <3>2. rest = {tail} /\ end = cut
      BY <2>1
    <3> HIDE DEF tail, rest, end
    <3>3. QED BY <2>1, <3>1, <3>2
  <2>2. CASE ~(cut < s.end)
    BY <2>2
  <2>3. QED BY <2>1, <2>2
<1> HIDE DEF cut, end, rest, head
<1>6. ASSUME NEW t \in sp, t # s
      PROVE  /\ t.end <= s.id \/ s.end <= t.id
             /\ t.id \in 0 .. Total /\ t.pos \in 0 .. Total /\ t.end \in 0 .. Total
             /\ t.id <= t.pos /\ t.pos < t.end
  BY <1>6 DEF SpanSet
<1>7. TakeHead(sp, s) \subseteq SpanSet
  BY <1>1, <1>4, <1>5
<1>8. \A t \in TakeHead(sp, s) : t.id <= t.pos /\ t.pos < t.end
  BY <1>1, <1>2, <1>3, <1>4, <1>5, <1>6
<1>9. ASSUME NEW t \in TakeHead(sp, s), NEW u \in TakeHead(sp, s), t # u
      PROVE  t.end <= u.id \/ u.end <= t.id
  <2>1. CASE t \in sp \ {s} /\ u \in sp \ {s}
    BY <1>9, <2>1
  <2>2. CASE t \in sp \ {s} /\ u \notin sp \ {s}
    BY <1>1, <1>2, <1>3, <1>4, <1>5, <1>6, <2>2
  <2>3. CASE t \notin sp \ {s} /\ u \in sp \ {s}
    BY <1>1, <1>2, <1>3, <1>4, <1>5, <1>6, <2>3
  <2>4. CASE t \notin sp \ {s} /\ u \notin sp \ {s}
    <3>1. rest = {} \/ \E r : rest = {r}
      BY DEF rest
    <3>2. QED BY <1>1, <1>2, <1>3, <1>4, <1>5, <1>9, <2>4, <3>1
  <2>5. QED BY <2>1, <2>2, <2>3, <2>4
<1>10. QED BY <1>1, <1>4, <1>7, <1>8, <1>9

-----------------------------------------------------------------------------
\* The steps that touch neither the spans nor who holds them.
LEMMA QuietStep ==
  ASSUME IInv, TypeOK', HolesApart', UNCHANGED spans,
         \A c \in Conns : conn'[c].pc \in Holding =>
           /\ conn[c].pc \in Holding
           /\ conn'[c].id = conn[c].id
           /\ conn'[c].pos = conn[c].pos
  PROVE  IInv'
<1>1. Separate'
  BY DEF IInv, Separate
<1>2. OwnerInStep'
  BY DEF IInv, OwnerInStep
<1>3. Holders'
  BY DEF IInv, Holders
<1>4. QED BY <1>1, <1>2, <1>3 DEF IInv

\* The steps by which a holder gives its span back.
LEMMA ReleaseStep ==
  ASSUME IInv, NEW c \in Conns, conn[c].pc \in Holding, Release(c),
         NEW pc \in {"none", "failed"}, Leave(c, pc),
         server' \in [Servers -> {"ok", "resting", "bad"}], lost' \in BOOLEAN,
         UNCHANGED <<co, snap, todo, disk>>
  PROVE  IInv'
<1>1. ASSUME NEW t \in spans'
      PROVE  \E s \in spans : /\ t.id = s.id /\ t.pos = s.pos /\ t.end = s.end
                               /\ t \in SpanSet
  <2>1. PICK s \in spans : t = IF s.id = conn[c].id THEN [s EXCEPT !.owned = FALSE] ELSE s
    BY DEF Release
  <2>2. s \in SpanSet
    BY DEF IInv, TypeOK
  <2>3. QED BY <2>1, <2>2 DEF SpanSet
<1>2. ASSUME NEW s \in spans, s.id # conn[c].id
      PROVE  s \in spans'
  BY <1>2 DEF Release
<1>3. /\ conn' \in [Conns -> ConnSet]
      /\ conn'[c].pc \notin Holding
      /\ \A d \in Conns \ {c} : conn'[d] = conn[d]
  BY LeaveType DEF Live, Holding
<1>4. TypeOK'
  <2>1. spans' \subseteq SpanSet
    BY <1>1
  <2>2. QED BY <2>1, <1>3 DEF IInv, TypeOK, disk
<1>5. Separate'
  <2>1. \A t \in spans' : t.id <= t.pos /\ t.pos < t.end
    BY <1>1 DEF IInv, Separate
  <2>2. ASSUME NEW t \in spans', NEW u \in spans', t # u
        PROVE  t.end <= u.id \/ u.end <= t.id
    <3>1. PICK t0 \in spans : t.id = t0.id /\ t.end = t0.end
      BY <1>1
    <3>2. PICK u0 \in spans : u.id = u0.id /\ u.end = u0.end
      BY <1>1
    <3>3. t0 # u0
      <4>1. SUFFICES ASSUME t0 = u0 PROVE FALSE
        OBVIOUS
      <4>2. PICK r \in spans : t = IF r.id = conn[c].id THEN [r EXCEPT !.owned = FALSE] ELSE r
        BY DEF Release
      <4>3. PICK q \in spans : u = IF q.id = conn[c].id THEN [q EXCEPT !.owned = FALSE] ELSE q
        BY DEF Release
      <4>4. r \in SpanSet /\ q \in SpanSet
        BY DEF IInv, TypeOK
      <4>5. t.id = r.id /\ u.id = q.id
        BY <4>2, <4>3, <4>4 DEF SpanSet
      <4>6. r = q
        BY <3>1, <3>2, <4>1, <4>4, <4>5 DEF IInv, Separate, SpanSet
      <4>7. QED BY <2>2, <4>2, <4>3, <4>6
    <3>4. QED BY <3>1, <3>2, <3>3 DEF IInv, Separate
  <2>3. QED BY <2>1, <2>2 DEF Separate
<1>6. \A d \in Conns : conn'[d].pc \in Holding => d # c /\ conn'[d] = conn[d]
  BY <1>3
<1>7. OwnerInStep'
  <2>1. ASSUME NEW d \in Conns, conn'[d].pc \in Holding
        PROVE  \E s \in spans' : s.id = conn'[d].id /\ s.owned /\ s.pos = conn'[d].pos
    <3>1. conn'[d] = conn[d] /\ d # c
      BY <1>6, <2>1
    <3>2. PICK s \in spans : s.id = conn[d].id /\ s.owned /\ s.pos = conn[d].pos
      BY <2>1, <3>1 DEF IInv, OwnerInStep
    <3>3. s.id # conn[c].id
      BY <2>1, <3>1, <3>2 DEF IInv, Holders
    <3>4. s \in spans'
      BY <1>2, <3>3
    <3>5. QED BY <3>1, <3>2, <3>4
  <2>2. QED BY <2>1 DEF OwnerInStep
<1>8. Holders'
  BY <1>6 DEF IInv, Holders
<1>9. HolesApart'
  BY DEF IInv, HolesApart, disk, Apart
<1>10. QED BY <1>4, <1>5, <1>7, <1>8, <1>9 DEF IInv

-----------------------------------------------------------------------------
\* Claiming: the first unowned span, or the back half of the largest one.
LEMMA ClaimHeadInv ==
  ASSUME IInv, NEW c \in Conns, ClaimHead(c)
  PROVE  IInv'
<1>1. PICK s \in Unowned :
        /\ spans' = TakeHead(spans, s)
        /\ Goto(c, [conn[c] EXCEPT !.pc = "picking", !.id = s.id, !.pos = s.pos])
  BY DEF ClaimHead
<1>2. s \in spans /\ ~s.owned /\ s \in SpanSet
  BY DEF Unowned, IInv, TypeOK
<1>3. /\ spans' \subseteq SpanSet
      /\ Separate'
      /\ \A t \in spans : t # s => t \in spans'
      /\ \E t \in spans' : t.id = s.id /\ t.pos = s.pos /\ t.owned
  BY <1>1, <1>2, TakeHeadSeparate DEF IInv, TypeOK, Separate
<1>4. /\ conn' \in [Conns -> ConnSet]
      /\ conn'[c].id = s.id /\ conn'[c].pos = s.pos
      /\ \A d \in Conns \ {c} : conn'[d] = conn[d]
  <2> DEFINE r == [conn[c] EXCEPT !.pc = "picking", !.id = s.id, !.pos = s.pos]
  <2>1. s.id \in 0 .. Total /\ s.pos \in 0 .. Total /\ conn[c] \in ConnSet
    BY <1>2 DEF IInv, TypeOK, SpanSet
  <2>2. r \in ConnSet /\ r.id = s.id /\ r.pos = s.pos
    BY <2>1 DEF ConnSet, Live, Holding
  <2>3. QED BY <1>1, <2>2, GotoType
<1>5. \A d \in Conns \ {c} : conn[d].pc \in Holding =>
        \E t \in spans : t # s /\ t.id = conn[d].id /\ t.owned /\ t.pos = conn[d].pos
  BY <1>2 DEF IInv, OwnerInStep
<1>6. TypeOK'
  BY <1>3, <1>4 DEF IInv, TypeOK, ClaimHead, disk
<1>7. OwnerInStep'
  BY <1>3, <1>4, <1>5 DEF OwnerInStep
<1>8. Holders'
  <2>1. \A d \in Conns \ {c} : conn[d].pc \in Holding => conn[d].id # s.id
    BY <1>2, <1>5 DEF IInv, Separate, TypeOK, SpanSet
  <2>2. QED BY <1>4, <2>1 DEF IInv, Holders
<1>9. HolesApart'
  BY DEF IInv, HolesApart, Apart, ClaimHead, disk
<1>10. QED BY <1>3, <1>6, <1>7, <1>8, <1>9 DEF IInv

LEMMA ClaimHalfInv ==
  ASSUME IInv, NEW c \in Conns, ClaimHalf(c)
  PROVE  IInv'
<1> DEFINE mid(s) == s.pos + Left(s) \div 2
<1>1. PICK s \in spans :
        /\ Left(s) >= 2 * MinSplit
        /\ spans' = (spans \ {s}) \cup
             {Span(s.id, s.pos, mid(s), TRUE), Span(mid(s), mid(s), s.end, TRUE)}
        /\ Goto(c, [conn[c] EXCEPT !.pc = "picking", !.id = mid(s), !.pos = mid(s)])
  BY DEF ClaimHalf
<1>2. s.owned
  BY DEF ClaimHalf, Unowned
<1>3. /\ s.id \in 0 .. Total /\ s.pos \in 0 .. Total /\ s.end \in 0 .. Total
      /\ s.id <= s.pos /\ s.pos < s.end /\ Total \in Nat
  BY ConstantsAssumption DEF IInv, TypeOK, SpanSet, Separate, ConstantsAssumption
<1>4. mid(s) \in 0 .. Total /\ s.pos < mid(s) /\ mid(s) < s.end
  BY <1>1, <1>3, ConstantsAssumption DEF Left, ConstantsAssumption
<1> DEFINE front == Span(s.id, s.pos, mid(s), TRUE)
           back == Span(mid(s), mid(s), s.end, TRUE)
<1>5. /\ front \in SpanSet /\ front.id = s.id /\ front.pos = s.pos
      /\ front.end = mid(s) /\ front.owned
  BY <1>3, <1>4 DEF Span, SpanSet
<1>6. /\ back \in SpanSet /\ back.id = mid(s) /\ back.pos = mid(s)
      /\ back.end = s.end /\ back.owned
  BY <1>3, <1>4 DEF Span, SpanSet
<1>7. spans' = (spans \ {s}) \cup {front, back}
  BY <1>1
<1> DEFINE m == mid(s)
<1>8. Goto(c, [conn[c] EXCEPT !.pc = "picking", !.id = m, !.pos = m])
  BY <1>1
<1>9. /\ m \in 0 .. Total /\ s.pos < m /\ m < s.end
      /\ front.end = m /\ back.id = m /\ back.pos = m
  BY <1>4, <1>5, <1>6
<1> HIDE DEF mid, m, front, back
<1>10. ASSUME NEW t \in spans, t # s
       PROVE  /\ t \in spans' /\ t.id \in 0 .. Total /\ t.end \in 0 .. Total
              /\ t.id <= t.pos /\ t.pos < t.end /\ t.pos \in 0 .. Total
              /\ t.end <= s.id \/ s.end <= t.id
  BY <1>7, <1>10 DEF IInv, TypeOK, SpanSet, Separate
<1>11. spans' \subseteq SpanSet
  BY <1>5, <1>6, <1>7 DEF IInv, TypeOK
<1>12. Separate'
  <2>1. \A t \in spans' : t.id <= t.pos /\ t.pos < t.end
    BY <1>3, <1>5, <1>6, <1>7, <1>9, <1>10
  <2>2. ASSUME NEW t \in spans', NEW u \in spans', t # u
        PROVE  t.end <= u.id \/ u.end <= t.id
    <3>1. CASE t \in spans \ {s} /\ u \in spans \ {s}
      BY <2>2, <3>1 DEF IInv, Separate
    <3>2. CASE t \in spans \ {s} /\ u \in {front, back}
      BY <1>3, <1>5, <1>6, <1>9, <1>10, <3>2
    <3>3. CASE t \in {front, back} /\ u \in spans \ {s}
      BY <1>3, <1>5, <1>6, <1>9, <1>10, <3>3
    <3>4. CASE t \in {front, back} /\ u \in {front, back}
      BY <1>3, <1>5, <1>6, <1>9, <2>2, <3>4
    <3>5. QED BY <1>7, <3>1, <3>2, <3>3, <3>4
  <2>3. QED BY <2>1, <2>2 DEF Separate
<1>13. /\ conn' \in [Conns -> ConnSet]
       /\ conn'[c].id = m /\ conn'[c].pos = m
       /\ \A d \in Conns \ {c} : conn'[d] = conn[d]
  <2> DEFINE r == [conn[c] EXCEPT !.pc = "picking", !.id = m, !.pos = m]
  <2>1. r \in ConnSet /\ r.id = m /\ r.pos = m
    BY <1>9 DEF IInv, TypeOK, ConnSet, Live, Holding
  <2>2. QED BY <1>8, <2>1, GotoType
<1>14. TypeOK'
  BY <1>11, <1>13 DEF IInv, TypeOK, ClaimHalf, disk
<1>15. OwnerInStep'
  <2>1. ASSUME NEW d \in Conns, conn'[d].pc \in Holding, d # c
        PROVE  \E t \in spans' : t.id = conn'[d].id /\ t.owned /\ t.pos = conn'[d].pos
    <3>1. PICK t \in spans : t.id = conn[d].id /\ t.owned /\ t.pos = conn[d].pos
      BY <1>13, <2>1 DEF IInv, OwnerInStep
    <3>2. CASE t = s
      BY <1>5, <1>7, <1>13, <2>1, <3>1, <3>2
    <3>3. CASE t # s
      BY <1>10, <1>13, <2>1, <3>1, <3>3
    <3>4. QED BY <3>2, <3>3
  <2>2. \E t \in spans' : t.id = conn'[c].id /\ t.owned /\ t.pos = conn'[c].pos
    BY <1>6, <1>7, <1>9, <1>13
  <2>3. QED BY <2>1, <2>2 DEF OwnerInStep
<1>16. Holders'
  <2>1. ASSUME NEW d \in Conns \ {c}, conn[d].pc \in Holding
        PROVE  conn[d].id # m
    <3>1. PICK t \in spans : t.id = conn[d].id
      BY <2>1 DEF IInv, OwnerInStep
    <3>2. CASE t = s
      BY <1>3, <1>9, <3>1, <3>2
    <3>3. CASE t # s
      BY <1>3, <1>9, <1>10, <3>1, <3>3
    <3>4. QED BY <3>2, <3>3
  <2>2. QED BY <1>13, <2>1 DEF IInv, Holders
<1>17. HolesApart'
  BY DEF IInv, HolesApart, Apart, ClaimHalf, disk
<1>18. QED BY <1>12, <1>14, <1>15, <1>16, <1>17 DEF IInv

\* Committing: the owner's span moves forward or is complete.
LEMMA FlushCommitInv ==
  ASSUME IInv, NEW c \in Conns, FlushCommit(c)
  PROVE  IInv'
<1> DEFINE s == SpanOf(c)
           pos == CommitPos(s, conn[c].pos + conn[c].n)
           moved == [s EXCEPT !.pos = pos]
<1>1. conn[c].pc = "written" /\ conn[c].pc \in Holding
  BY DEF FlushCommit, Holding
<1>2. /\ s \in spans /\ s.id = conn[c].id /\ s.pos = conn[c].pos /\ s.owned
      /\ s \in SpanSet
  BY <1>1, SpanOfHolder DEF IInv, TypeOK
<1>3. /\ s.id \in 0 .. Total /\ s.pos \in 0 .. Total /\ s.end \in 0 .. Total
      /\ s.id <= s.pos /\ s.pos < s.end /\ Total \in Nat
      /\ conn[c].n \in 0 .. MaxChunk /\ MaxChunk \in Nat
  BY <1>2, ConstantsAssumption
  DEF IInv, TypeOK, SpanSet, ConnSet, Separate, ConstantsAssumption
<1>4. /\ pos \in 0 .. Total /\ s.pos <= pos /\ pos <= s.end
  BY <1>2, <1>3 DEF CommitPos
<1>5. /\ moved \in SpanSet /\ moved.id = s.id /\ moved.pos = pos
      /\ moved.end = s.end /\ moved.owned
  BY <1>2, <1>4 DEF SpanSet
<1>6. \/ /\ spans' = spans \ {s}
         /\ Leave(c, "acquiring")
         /\ ServerDone(conn[c].server, "ok")
      \/ /\ pos < s.end
         /\ spans' = (spans \ {s}) \cup {moved}
         /\ Goto(c, [conn[c] EXCEPT !.pc = "fetching", !.pos = pos, !.n = 0])
         /\ UNCHANGED server
  BY <1>3, <1>4 DEF FlushCommit
<1> HIDE DEF s, pos, moved
<1>7. server' \in [Servers -> {"ok", "resting", "bad"}]
  BY <1>6 DEF IInv, TypeOK, ServerDone
<1> DEFINE r == [conn[c] EXCEPT !.pc = "fetching", !.pos = pos, !.n = 0]
<1>8. /\ conn' \in [Conns -> ConnSet]
      /\ \A d \in Conns \ {c} : conn'[d] = conn[d]
      /\ \/ Leave(c, "acquiring") /\ conn'[c].pc = "acquiring"
         \/ moved \in spans' /\ conn'[c].id = s.id /\ conn'[c].pos = pos
  <2>1. CASE Leave(c, "acquiring")
    BY <2>1, LeaveType DEF IInv, Live
  <2>2. CASE Goto(c, r) /\ moved \in spans'
    <3>1. conn[c] \in ConnSet /\ conn[c].id = s.id /\ 0 \in 0 .. MaxChunk
      BY <1>2, <1>3 DEF IInv, TypeOK
    <3>2. r \in ConnSet /\ r.id = s.id /\ r.pos = pos
      BY <1>4, <3>1 DEF ConnSet, Live, Holding
    <3>3. QED BY <2>2, <3>2, GotoType
  <2>3. QED BY <1>6, <2>1, <2>2
<1>9. TypeOK'
  <2>1. spans' \subseteq SpanSet
    BY <1>5, <1>6 DEF IInv, TypeOK
  <2>2. QED BY <1>7, <1>8, <2>1 DEF IInv, TypeOK, FlushCommit, disk
<1>10. Separate'
  BY <1>2, <1>3, <1>4, <1>5, <1>6 DEF IInv, Separate
<1>11. ASSUME NEW d \in Conns \ {c}, conn[d].pc \in Holding
       PROVE  \E t \in spans' : t.id = conn[d].id /\ t.owned /\ t.pos = conn[d].pos
  <2>1. PICK t \in spans : t.id = conn[d].id /\ t.owned /\ t.pos = conn[d].pos
    BY <1>11 DEF IInv, OwnerInStep
  <2>2. t # s
    BY <1>1, <1>2, <1>11, <2>1 DEF IInv, Holders
  <2>3. QED BY <1>6, <2>1, <2>2
<1>12. OwnerInStep'
  <2>1. CASE conn'[c].pc = "acquiring"
    BY <1>8, <1>11, <2>1 DEF OwnerInStep, Holding
  <2>2. CASE moved \in spans' /\ conn'[c].id = s.id /\ conn'[c].pos = pos
    BY <1>5, <1>8, <1>11, <2>2 DEF OwnerInStep
  <2>3. QED BY <1>8, <2>1, <2>2
<1>13. Holders'
  <2>1. conn'[c].pc \in Holding => conn'[c].id = conn[c].id
    BY <1>2, <1>8 DEF Holding
  <2>2. QED BY <1>1, <1>8, <2>1 DEF IInv, Holders
<1>14. HolesApart'
  BY DEF IInv, HolesApart, Apart, FlushCommit, disk
<1>15. QED BY <1>9, <1>10, <1>12, <1>13, <1>14 DEF IInv

-----------------------------------------------------------------------------
\* Starting a run: the spans are made of the holes it starts from.
LEMMA StartRunInv == ASSUME IInv, StartRun PROVE IInv'
<1>1. todo' \subseteq Holes /\ Apart(todo')
  BY DEF IInv, TypeOK, HolesApart, StartRun
<1>2. \A c \in Conns : conn'[c] \in ConnSet /\ conn'[c].pc \notin Holding
  <2>1. NoConn \in ConnSet /\ NoConn.pc \notin Holding
    BY ConstantsAssumption DEF NoConn, ConnSet, Servers, Holding, ConstantsAssumption
  <2>2. QED BY <2>1 DEF IInv, TypeOK, StartRun, Holding
<1>3. spans' = spans \/ spans' = WorkNew(todo')
  BY DEF StartRun
<1>4. spans' \subseteq SpanSet /\ Separate'
  <2>1. CASE spans' = spans
    BY <2>1 DEF IInv, TypeOK, Separate
  <2>2. CASE spans' = WorkNew(todo')
    BY <1>1, <2>2, WorkNewSeparate DEF Separate
  <2>3. QED BY <1>3, <2>1, <2>2
<1>5. TypeOK'
  <2>1. conn' \in [Conns -> ConnSet]
    BY <1>2 DEF StartRun
  <2>2. co' \in CoSet
    BY DEF StartRun, CoSet
  <2>3. server' \in [Servers -> {"ok", "resting", "bad"}] /\ lost' \in BOOLEAN
    BY DEF StartRun
  <2>4. QED BY <1>1, <1>4, <2>1, <2>2, <2>3 DEF IInv, TypeOK, StartRun, disk
<1>6. OwnerInStep' /\ Holders'
  BY <1>2 DEF OwnerInStep, Holders
<1>7. HolesApart'
  BY <1>1 DEF IInv, HolesApart, Apart, StartRun, disk
<1>8. QED BY <1>4, <1>5, <1>6, <1>7 DEF IInv

LEMMA StartHandedInv ==
  ASSUME IInv, \A c \in Conns : conn[c].pc \notin Holding,
         NEW c \in Conns, StartHanded(c)
  PROVE  IInv'
<1> DEFINE first == Span(Offset, Offset, Total, FALSE)
<1>1. /\ {first} \in SUBSET SpanSet /\ first.id = Offset /\ first.pos = Offset
      /\ first.end = Total
  BY ConstantsAssumption DEF Span, SpanSet, ConstantsAssumption
<1>2. first.id <= first.pos /\ first.pos < first.end
  <2>1. Offset \in Nat /\ Total \in Nat /\ Offset < Total
    BY ConstantsAssumption DEF ConstantsAssumption
  <2>2. QED BY <2>1 DEF Span
<1>3. spans' = TakeHead({first}, first)
  BY DEF StartHanded
<1> HIDE DEF first
<1>4. /\ spans' \subseteq SpanSet /\ Separate'
      /\ \E t \in spans' : t.id = Offset /\ t.pos = Offset /\ t.owned
  BY <1>1, <1>2, <1>3, TakeHeadSeparate DEF Separate
<1>5. PICK i \in Servers : Goto(c, [pc |-> "fetching", id |-> Offset,
                                  pos |-> Offset, n |-> 0, server |-> i])
  BY DEF StartHanded
<1> DEFINE r == [pc |-> "fetching", id |-> Offset, pos |-> Offset, n |-> 0, server |-> i]
<1>6. r \in ConnSet /\ r.id = Offset /\ r.pos = Offset
  BY ConstantsAssumption DEF ConnSet, Live, Holding, ConstantsAssumption
<1>7. /\ conn' \in [Conns -> ConnSet]
      /\ conn'[c].id = Offset /\ conn'[c].pos = Offset
      /\ \A d \in Conns \ {c} : conn'[d] = conn[d]
  BY <1>5, <1>6, GotoType
<1>8. TypeOK'
  BY <1>4, <1>7 DEF IInv, TypeOK, StartHanded, CoSet, disk
<1>9. OwnerInStep' /\ Holders'
  BY <1>4, <1>7 DEF OwnerInStep, Holders
<1>10. HolesApart'
  BY DEF IInv, HolesApart, Apart, StartHanded, disk
<1>11. QED BY <1>4, <1>8, <1>9, <1>10 DEF IInv

\* Before the first run nothing is held.
NotStarted == co.pc = "switch" => \A c \in Conns : conn[c].pc = "none"

\* A write stays in the file.
InWrite == {"writing", "written", "detached"}
InFile == \A c \in Conns : conn[c].pc \in InWrite => conn[c].pos + conn[c].n <= Total

LEMMA ServerDoneType ==
  ASSUME IInv, NEW i, NEW outcome \in {"ok", "resting", "bad"}, ServerDone(i, outcome)
  PROVE  server' \in [Servers -> {"ok", "resting", "bad"}]
BY DEF IInv, TypeOK, ServerDone

LEMMA HolderMoves ==
  ASSUME IInv, NEW c \in Conns, conn[c].pc \in Holding,
         NEW r \in ConnSet, r.id = conn[c].id, r.pos = conn[c].pos, Goto(c, r),
         UNCHANGED <<spans, co, snap, todo, sidecar, durable>>,
         server' \in [Servers -> {"ok", "resting", "bad"}], lost' \in BOOLEAN,
         written' \subseteq Bytes
  PROVE  IInv'
<1>1. /\ conn' \in [Conns -> ConnSet] /\ conn'[c] = r
      /\ \A d \in Conns \ {c} : conn'[d] = conn[d]
  BY GotoType
<1>2. TypeOK' /\ HolesApart'
  BY <1>1 DEF IInv, TypeOK, HolesApart, Apart
<1>3. QED BY <1>1, <1>2, QuietStep

\* A connection that holds nothing goes on holding nothing.
LEMMA IdlerMoves ==
  ASSUME IInv, NEW c \in Conns, NEW pc \in {"none", "acquiring"}, Leave(c, pc),
         UNCHANGED <<spans, server, lost, co, snap, todo, sidecar, durable>>,
         written' \subseteq Bytes
  PROVE  IInv'
<1>1. /\ conn' \in [Conns -> ConnSet] /\ conn'[c].pc \notin Holding
      /\ \A d \in Conns \ {c} : conn'[d] = conn[d]
  BY LeaveType DEF Live, Holding
<1>2. TypeOK' /\ HolesApart'
  BY <1>1 DEF IInv, TypeOK, HolesApart, Apart
<1>3. QED BY <1>1, <1>2, QuietStep

LEMMA ConnStepInv ==
  ASSUME IInv, InFile, NEW c \in Conns, Spawn(c) \/ ConnStep(c)
  PROVE  IInv'
<1> USE DEF disk
<1> DEFINE reach == Range(conn[c].pos, conn[c].pos + conn[c].n)
<1>0. conn[c] \in ConnSet /\ lost \in BOOLEAN /\ written \subseteq Bytes
      /\ server \in [Servers -> {"ok", "resting", "bad"}]
  BY DEF IInv, TypeOK
<1>00. conn[c].pc \in InWrite => reach \subseteq Bytes
  <2>1. /\ conn[c].pos \in Nat /\ conn[c].n \in Nat /\ Total \in Nat
    BY <1>0, ConstantsAssumption DEF ConnSet, ConstantsAssumption
  <2>2. QED BY <2>1 DEF Range, Bytes, InFile
<1> HIDE DEF reach
<1>1. CASE Spawn(c)
  BY <1>0, <1>1, IdlerMoves DEF Spawn
<1>2. CASE ClaimHead(c)
  BY <1>2, ClaimHeadInv
<1>3. CASE ClaimHalf(c)
  BY <1>3, ClaimHalfInv
<1>4. CASE ClaimNothing(c)
  BY <1>0, <1>4, IdlerMoves DEF ClaimNothing
<1>5. CASE PickServer(c)
  <2>1. PICK i \in Usable : Goto(c, [conn[c] EXCEPT !.pc = "opening", !.server = i])
    BY <1>5 DEF PickServer
  <2> DEFINE r == [conn[c] EXCEPT !.pc = "opening", !.server = i]
  <2>2. r \in ConnSet /\ r.id = conn[c].id /\ r.pos = conn[c].pos
    BY <1>0 DEF ConnSet, Live, Holding, Usable
  <2>3. QED BY <1>0, <1>5, <2>1, <2>2, HolderMoves DEF PickServer, Holding
<1>6. CASE PickNone(c)
  BY <1>0, <1>6, ReleaseStep DEF PickNone, Holding
<1>7. CASE OpenOk(c)
  <2> DEFINE r == [conn[c] EXCEPT !.pc = "fetching"]
  <2>1. r \in ConnSet /\ r.id = conn[c].id /\ r.pos = conn[c].pos
    BY <1>0 DEF ConnSet, Live, Holding
  <2>2. QED BY <1>0, <1>7, <2>1, HolderMoves DEF OpenOk, Holding
<1>8. CASE OpenFails(c)
  BY <1>0, <1>8, ReleaseStep, ServerDoneType DEF OpenFails, Holding
<1>9. CASE OpenRefused(c)
  BY <1>0, <1>9, ReleaseStep, ServerDoneType DEF OpenRefused, Holding
<1>10. CASE OpenWithoutRange(c)
  BY <1>0, <1>10, ReleaseStep, ServerDoneType DEF OpenWithoutRange, Holding
<1>11. CASE FlushClamp(c)
  <2>1. PICK len \in 1 .. MaxChunk :
          Goto(c, [conn[c] EXCEPT !.pc = "writing",
                     !.n = IF len < Left(SpanOf(c)) THEN len ELSE Left(SpanOf(c))])
    BY <1>11 DEF FlushClamp
  <2> DEFINE n == IF len < Left(SpanOf(c)) THEN len ELSE Left(SpanOf(c))
             r == [conn[c] EXCEPT !.pc = "writing", !.n = n]
  <2>2. SpanOf(c) \in spans /\ conn[c].pc \in Holding
    BY <1>11, SpanOfHolder DEF FlushClamp, Holding
  <2>3. Left(SpanOf(c)) \in Nat
    BY <2>2, ConstantsAssumption
    DEF Left, IInv, Separate, TypeOK, SpanSet, ConstantsAssumption
  <2>4. n \in 0 .. MaxChunk
    BY <2>3, ConstantsAssumption DEF ConstantsAssumption
  <2> HIDE DEF n
  <2>5. r \in ConnSet /\ r.id = conn[c].id /\ r.pos = conn[c].pos
    BY <1>0, <2>4 DEF ConnSet, Live, Holding
  <2>6. Goto(c, r)
    BY <2>1 DEF n
  <2>7. QED BY <1>0, <1>11, <2>2, <2>5, <2>6, HolderMoves DEF FlushClamp
<1>12. CASE FlushWrite(c)
  <2> DEFINE r == [conn[c] EXCEPT !.pc = "written"]
  <2>1. r \in ConnSet /\ r.id = conn[c].id /\ r.pos = conn[c].pos
    BY <1>0 DEF ConnSet, Live, Holding
  <2>2. written' \subseteq Bytes
    BY <1>0, <1>00, <1>12 DEF FlushWrite, InWrite, reach
  <2>3. QED BY <1>0, <1>12, <2>1, <2>2, HolderMoves DEF FlushWrite, Holding
<1>13. CASE FlushCommit(c)
  BY <1>13, FlushCommitInv
<1>14. CASE FlushFails(c)
  BY <1>0, <1>14, ReleaseStep, ServerDoneType DEF FlushFails, Holding
<1>15. CASE Slowed(c)
  <2> DEFINE r == [conn[c] EXCEPT !.pc = "picking"]
  <2>1. r \in ConnSet /\ r.id = conn[c].id /\ r.pos = conn[c].pos
    BY <1>0 DEF ConnSet, Live, Holding
  <2>2. QED BY <1>0, <1>15, <2>1, HolderMoves, ServerDoneType DEF Slowed, Holding
<1>16. CASE Dropped(c)
  BY <1>0, <1>16, ReleaseStep, ServerDoneType DEF Dropped, Holding
<1>17. CASE LateWrite(c)
  <2>1. written' \subseteq Bytes
    BY <1>0, <1>00, <1>17 DEF LateWrite, InWrite, reach
  <2>2. NoConn \in ConnSet /\ [NoConn EXCEPT !.pc = "none"] = NoConn
    BY ConstantsAssumption DEF NoConn, ConnSet, Servers, ConstantsAssumption
  <2>3. Leave(c, "none")
    BY <1>17, <2>2 DEF Leave, LateWrite
  <2>4. QED BY <1>17, <2>1, <2>3, IdlerMoves DEF LateWrite
<1>18. QED
  BY <1>1, <1>2, <1>3, <1>4, <1>5, <1>6, <1>7, <1>8, <1>9, <1>10, <1>11, <1>12,
     <1>13, <1>14, <1>15, <1>16, <1>17 DEF ConnStep

-----------------------------------------------------------------------------
\* The coordinator takes its snapshot: the holes of the spans of the moment.
LEMMA SnapshotInv ==
  ASSUME IInv, snap' = HolesOf(spans), co' \in CoSet,
         UNCHANGED <<spans, server, lost, todo, disk>>,
         conn' \in [Conns -> ConnSet],
         \A c \in Conns : conn'[c].pc \in Holding => conn'[c] = conn[c]
  PROVE  IInv'
<1>1. TypeOK'
  BY HolesOfSpans DEF IInv, TypeOK, disk
<1>2. HolesApart'
  BY HolesOfSpans DEF IInv, HolesApart, Apart, disk
<1>3. QED BY <1>1, <1>2, QuietStep

LEMMA CheckpointInv ==
  ASSUME IInv, SyncOk \/ SyncFails \/ Save \/ SaveTruncated \/ Truncate
  PROVE  IInv'
<1> USE DEF disk
<1>1. UNCHANGED <<spans, conn, server, lost>>
  BY DEF SyncOk, SyncFails, Save, SaveTruncated, Truncate
<1>2. co' \in CoSet
  <2>1. ASSUME NEW r, r = co.result, AfterCheckpoint(r) PROVE co' \in CoSet
    BY <2>1 DEF IInv, TypeOK, CoSet, AfterCheckpoint
  <2>2. QED
    BY <2>1 DEF IInv, TypeOK, CoSet, SyncOk, SyncFails, Save, SaveTruncated, Truncate
<1>3. /\ snap' \subseteq Holes /\ todo' \subseteq Holes /\ sidecar' \subseteq Holes
      /\ HolesApart'
  <2>1. <<0, Total>> \in Holes /\ Apart({<<0, Total>>}) /\ Apart({})
    BY ConstantsAssumption DEF Holes, Apart, ConstantsAssumption
  <2>2. /\ snap' \in {snap, {}} /\ todo' \in {todo, snap, {<<0, Total>>}}
        /\ sidecar' \in {sidecar, snap, todo}
    BY DEF SyncOk, SyncFails, Save, SaveTruncated, Truncate
  <2>3. QED BY <2>1, <2>2 DEF IInv, TypeOK, HolesApart, Apart
<1>4. written' \subseteq Bytes /\ durable' \subseteq Bytes
  BY DEF IInv, TypeOK, SyncOk, SyncFails, Save, SaveTruncated, Truncate
<1>5. TypeOK'
  BY <1>1, <1>2, <1>3, <1>4 DEF IInv, TypeOK
<1>6. QED BY <1>1, <1>3, <1>5, QuietStep

LEMMA DieInv ==
  ASSUME IInv, Kill \/ PowerCut
  PROVE  IInv'
<1>1. Die
  BY DEF Kill, PowerCut
<1>2. NoConn \in ConnSet /\ NoConn.pc \notin Holding
  BY ConstantsAssumption DEF NoConn, ConnSet, Servers, Holding, ConstantsAssumption
<1>3. written' \subseteq Bytes /\ durable' \subseteq Bytes
  <2>1. CASE Kill
    BY <2>1 DEF IInv, TypeOK, Kill
  <2>2. CASE PowerCut
    <3>1. PICK lucky \in SUBSET (written \ durable) : written' = durable \cup lucky
      BY <2>2 DEF PowerCut
    <3>2. QED BY <2>2, <3>1 DEF IInv, TypeOK, PowerCut
  <2>3. QED BY <2>1, <2>2
<1>4. TypeOK'
  BY <1>1, <1>2, <1>3 DEF IInv, TypeOK, Die, CoSet
<1>5. Separate' /\ OwnerInStep' /\ Holders'
  BY <1>1, <1>2 DEF Separate, OwnerInStep, Holders, Die
<1>6. HolesApart'
  BY <1>1 DEF IInv, HolesApart, Apart, Die
<1>7. QED BY <1>4, <1>5, <1>6 DEF IInv

\* The coordinator gives up and aborts its connections.
LEMMA JoinFailedInv == ASSUME IInv, JoinFailed PROVE IInv'
<1>1. \A c \in Conns : conn'[c] \in ConnSet /\ conn'[c].pc \notin Holding
  <2>1. NoConn \in ConnSet /\ NoConn.pc \notin Holding
    BY ConstantsAssumption DEF NoConn, ConnSet, Servers, Holding, ConstantsAssumption
  <2>2. ASSUME NEW c \in Conns
        PROVE  LET r == [conn[c] EXCEPT !.pc = "detached"]
               IN  r \in ConnSet /\ r.pc \notin Holding
    BY DEF IInv, TypeOK, ConnSet, Holding
  <2>3. QED BY <2>1, <2>2 DEF JoinFailed
<1>2. conn' \in [Conns -> ConnSet]
  BY <1>1 DEF JoinFailed
<1>3. QED BY <1>1, <1>2, SnapshotInv DEF JoinFailed, CoSet

LEMMA NextInv ==
  ASSUME IInv, InFile, NotStarted, [Next]_vars
  PROVE  IInv'
<1>1. CASE StartRun
  BY <1>1, StartRunInv
<1>2. CASE \E c \in Conns : StartHanded(c)
  BY <1>2, StartHandedInv DEF NotStarted, StartHanded, Holding
<1>3. CASE \E c \in Conns : Spawn(c) \/ ConnStep(c)
  BY <1>3, ConnStepInv
<1>4. CASE \E i \in Servers : Rested(i)
  <2>1. TypeOK' /\ HolesApart'
    BY <1>4 DEF IInv, TypeOK, HolesApart, Apart, Rested, disk
  <2>2. QED BY <1>4, <2>1, QuietStep DEF Rested
<1>5. CASE Snapshot
  <2>1. co' \in CoSet
    BY <1>5 DEF Snapshot, IInv, TypeOK, CoSet
  <2>2. QED BY <1>5, <2>1, SnapshotInv DEF Snapshot, IInv, TypeOK
<1>6. CASE SyncOk \/ SyncFails \/ Save \/ Truncate \/ SaveTruncated
  BY <1>6, CheckpointInv
<1>7. CASE Drained
  <2>1. co' \in CoSet
    BY <1>7 DEF Drained, CoSet
  <2>2. QED BY <1>7, <2>1, SnapshotInv DEF Drained, IInv, TypeOK
<1>8. CASE JoinFailed
  BY <1>8, JoinFailedInv
<1>9. CASE Kill \/ PowerCut
  BY <1>9, DieInv
<1>10. CASE UNCHANGED vars
  BY <1>10 DEF vars, disk, IInv, TypeOK, Separate, OwnerInStep, Holders,
               HolesApart, Apart
<1>11. QED
  BY <1>1, <1>2, <1>3, <1>4, <1>5, <1>6, <1>7, <1>8, <1>9, <1>10 DEF Next

-----------------------------------------------------------------------------
\* Only FlushClamp starts a write, and it clamps it to the span.
LEMMA InFileNext ==
  ASSUME IInv, InFile, [Next]_vars
  PROVE  InFile'
<1>1. ASSUME NEW c \in Conns, NEW pc \in (Live \cup {"none"}) \ InWrite, Leave(c, pc)
      PROVE  InFile'
  BY <1>1, LeaveType DEF InFile, Live
<1>2. ASSUME NEW c \in Conns, NEW r \in ConnSet, Goto(c, r),
             r.pc \in InWrite => r.pos + r.n <= Total
      PROVE  InFile'
  BY <1>2, GotoType DEF InFile
<1>3. ASSUME \A c \in Conns : conn'[c].pc \in InWrite =>
               /\ conn[c].pc \in InWrite
               /\ conn'[c].pos = conn[c].pos /\ conn'[c].n = conn[c].n
      PROVE  InFile'
  BY <1>3 DEF InFile
<1>4. NoConn.pc \notin InWrite
  BY DEF NoConn, InWrite
<1>5. CASE StartRun \/ JoinFailed \/ Kill \/ PowerCut
  <2>1. ASSUME NEW c \in Conns, conn'[c] # NoConn
        PROVE  \/ conn'[c] = conn[c]
               \/ /\ conn'[c] = [conn[c] EXCEPT !.pc = "detached"]
                  /\ conn[c].pc \in InWrite
    BY <1>5, <2>1 DEF StartRun, JoinFailed, Kill, PowerCut, Die, InWrite
  <2>2. ASSUME NEW c \in Conns, conn'[c].pc \in InWrite
        PROVE  /\ conn[c].pc \in InWrite
               /\ conn'[c].pos = conn[c].pos /\ conn'[c].n = conn[c].n
    BY ZenonT(40), <1>4, <2>1, <2>2 DEF IInv, TypeOK, ConnSet
  <2>3. QED BY <1>3, <2>2
<1>6. CASE UNCHANGED conn
  BY <1>3, <1>6
<1>7. ASSUME NEW c \in Conns, StartHanded(c)
      PROVE  InFile'
  <2>1. PICK i \in Servers : Goto(c, [pc |-> "fetching", id |-> Offset,
                                    pos |-> Offset, n |-> 0, server |-> i])
    BY <1>7 DEF StartHanded
  <2> DEFINE r == [pc |-> "fetching", id |-> Offset, pos |-> Offset, n |-> 0, server |-> i]
  <2>2. r \in ConnSet /\ r.pc \notin InWrite
    BY ConstantsAssumption DEF ConnSet, Live, Holding, InWrite, ConstantsAssumption
  <2>3. QED BY <1>2, <2>1, <2>2
<1>8. ASSUME NEW c \in Conns, Spawn(c) \/ ConnStep(c)
      PROVE  InFile'
  <2>0. conn[c] \in ConnSet
    BY DEF IInv, TypeOK
  <2>1. CASE \E pc \in (Live \cup {"none"}) \ InWrite : Leave(c, pc)
    BY <1>1, <2>1
  <2>2. CASE \E r : /\ conn'[c] = r /\ r.pc \notin InWrite
                    /\ \A d \in Conns \ {c} : conn'[d] = conn[d]
    BY <1>3, <2>2
  <2>3. \A x : conn' = [conn EXCEPT ![c] = x] =>
          conn'[c] = x /\ \A d \in Conns \ {c} : conn'[d] = conn[d]
    BY DEF IInv, TypeOK
  <2>4. CASE FlushClamp(c)
    <3>1. PICK len \in 1 .. MaxChunk :
            Goto(c, [conn[c] EXCEPT !.pc = "writing",
                       !.n = IF len < Left(SpanOf(c)) THEN len ELSE Left(SpanOf(c))])
      BY <2>4 DEF FlushClamp
    <3> DEFINE n == IF len < Left(SpanOf(c)) THEN len ELSE Left(SpanOf(c))
               r == [conn[c] EXCEPT !.pc = "writing", !.n = n]
    <3>2. SpanOf(c) \in SpanSet /\ SpanOf(c).pos = conn[c].pos
          /\ SpanOf(c).pos < SpanOf(c).end
      BY <2>4, SpanOfHolder DEF FlushClamp, Holding, IInv, TypeOK, Separate
    <3>3. Left(SpanOf(c)) \in Nat /\ conn[c].pos + Left(SpanOf(c)) <= Total
      BY <3>2, ConstantsAssumption DEF Left, SpanSet, ConstantsAssumption
    <3>4. conn[c].pos \in Nat /\ Total \in Nat /\ MaxChunk \in Nat
      BY <2>0, ConstantsAssumption DEF ConnSet, ConstantsAssumption
    <3>5. n \in 0 .. MaxChunk /\ conn[c].pos + n <= Total
      BY <3>3, <3>4
    <3> HIDE DEF n
    <3>6. r \in ConnSet /\ r.pos = conn[c].pos /\ r.n = n
      BY <2>0, <3>5 DEF ConnSet, Live, Holding
    <3>7. Goto(c, r)
      BY <3>1 DEF n
    <3>8. QED BY <1>2, <3>5, <3>6, <3>7
  <2>5. CASE FlushWrite(c)
    <3>1. conn'[c] = [conn[c] EXCEPT !.pc = "written"] /\ conn[c].pc \in InWrite
      BY <2>3, <2>5 DEF FlushWrite, Goto, InWrite
    <3>2. conn'[c].pos = conn[c].pos /\ conn'[c].n = conn[c].n
      BY <2>0, <3>1 DEF ConnSet
    <3>3. QED BY <1>3, <2>3, <2>5, <3>1, <3>2 DEF FlushWrite, Goto
  <2>6. CASE LateWrite(c)
    BY <1>4, <2>2, <2>3, <2>6 DEF LateWrite, Goto
  <2>7. CASE Spawn(c) \/ ClaimNothing(c) \/ PickNone(c) \/ OpenFails(c) \/ OpenRefused(c)
             \/ OpenWithoutRange(c) \/ FlushFails(c) \/ Dropped(c)
    BY <2>1, <2>7 DEF Spawn, ClaimNothing, PickNone, OpenFails, OpenRefused,
       OpenWithoutRange, FlushFails, Dropped, Live, InWrite
  <2>8. CASE ClaimHead(c) \/ ClaimHalf(c) \/ PickServer(c) \/ OpenOk(c) \/ Slowed(c)
    <3> DEFINE Reading == {"picking", "opening", "fetching"}
    <3>1. \A r : r.pc \in Reading /\ Goto(c, r) => InFile'
      BY <2>2, <2>3 DEF InWrite, Goto
    <3>2. CASE ClaimHead(c)
      <4>1. PICK s : Goto(c, [conn[c] EXCEPT !.pc = "picking", !.id = s.id, !.pos = s.pos])
        BY <3>2 DEF ClaimHead
      <4>2. [conn[c] EXCEPT !.pc = "picking", !.id = s.id, !.pos = s.pos].pc = "picking"
        BY <2>0 DEF ConnSet
      <4>3. QED BY <3>1, <4>1, <4>2
    <3>3. CASE ClaimHalf(c)
      <4>1. PICK m : Goto(c, [conn[c] EXCEPT !.pc = "picking", !.id = m, !.pos = m])
        BY <3>3 DEF ClaimHalf
      <4>2. [conn[c] EXCEPT !.pc = "picking", !.id = m, !.pos = m].pc = "picking"
        BY <2>0 DEF ConnSet
      <4>3. QED BY <3>1, <4>1, <4>2
    <3>4. CASE PickServer(c)
      <4>1. PICK i : Goto(c, [conn[c] EXCEPT !.pc = "opening", !.server = i])
        BY <3>4 DEF PickServer
      <4>2. [conn[c] EXCEPT !.pc = "opening", !.server = i].pc = "opening"
        BY <2>0 DEF ConnSet
      <4>3. QED BY <3>1, <4>1, <4>2
    <3>5. CASE OpenOk(c) \/ Slowed(c)
      <4>1. PICK pc \in Reading : Goto(c, [conn[c] EXCEPT !.pc = pc])
        BY <3>5 DEF OpenOk, Slowed
      <4>2. [conn[c] EXCEPT !.pc = pc].pc = pc
        BY <2>0 DEF ConnSet
      <4>3. QED BY <3>1, <4>1, <4>2
    <3>6. QED BY <2>8, <3>2, <3>3, <3>4, <3>5
  <2>9. CASE FlushCommit(c)
    <3>1. CASE Leave(c, "acquiring")
      BY <2>1, <3>1 DEF Live, InWrite
    <3>2. CASE \E pos : Goto(c, [conn[c] EXCEPT !.pc = "fetching", !.pos = pos, !.n = 0])
      <4>1. PICK pos : Goto(c, [conn[c] EXCEPT !.pc = "fetching", !.pos = pos, !.n = 0])
        BY <3>2
      <4>2. [conn[c] EXCEPT !.pc = "fetching", !.pos = pos, !.n = 0].pc = "fetching"
        BY <2>0 DEF ConnSet
      <4>3. QED BY <2>2, <2>3, <4>1, <4>2 DEF InWrite, Goto
    <3>3. QED BY <2>9, <3>1, <3>2 DEF FlushCommit
  <2>10. QED
    BY <1>8, <2>4, <2>5, <2>6, <2>7, <2>8, <2>9 DEF ConnStep
<1>9. QED
  BY <1>5, <1>6, <1>7, <1>8
  DEF Next, vars, Rested, Snapshot, SyncOk, SyncFails, Save, Truncate, SaveTruncated, Drained

\* Before the first run only StartHanded can touch a connection.
LEMMA NotStartedNext ==
  ASSUME IInv, NotStarted, [Next]_vars
  PROVE  NotStarted'
<1>1. SUFFICES ASSUME co'.pc = "switch" PROVE \A c \in Conns : conn'[c].pc = "none"
  BY DEF NotStarted
<1>2. \A r : AfterCheckpoint(r) => co'.pc # "switch"
  BY DEF AfterCheckpoint, IInv, TypeOK, CoSet
<1>0. \/ StartRun \/ (\E c \in Conns : StartHanded(c)) \/ SaveTruncated
      \/ JoinFailed \/ Kill \/ PowerCut
      => co'.pc # "switch"
  <2>1. CASE StartRun
    <3>1. co'.pc \in {"done", "loop"}
      BY <2>1 DEF StartRun
    <3>2. QED BY <3>1
  <2>2. CASE Kill \/ PowerCut
    <3>1. Die
      BY <2>2 DEF Kill, PowerCut
    <3>2. QED BY <3>1 DEF Die
  <2>3. ASSUME NEW c \in Conns, StartHanded(c) PROVE co'.pc # "switch"
    BY <2>3 DEF StartHanded
  <2>4. CASE SaveTruncated \/ JoinFailed
    BY <2>4 DEF SaveTruncated, JoinFailed
  <2>5. QED BY <2>1, <2>2, <2>3, <2>4
<1>3. ASSUME co' # co PROVE co'.pc # "switch"
  <2>1. CASE Snapshot \/ SyncOk \/ Truncate
    BY <2>1 DEF Snapshot, SyncOk, Truncate, IInv, TypeOK, CoSet
  <2>2. CASE SyncFails \/ Save
    BY <1>2, <2>2 DEF SyncFails, Save
  <2>3. CASE Drained
    BY <2>3 DEF Drained
  <2>4. CASE \/ StartRun \/ (\E c \in Conns : StartHanded(c)) \/ SaveTruncated
             \/ JoinFailed \/ Kill \/ PowerCut
    BY <1>0, <2>4
  <2>5. CASE \E c \in Conns : Spawn(c) \/ ConnStep(c)
    <3>1. \A c \in Conns : ClaimHead(c) \/ ClaimHalf(c) \/ FlushCommit(c) => UNCHANGED co
      BY DEF ClaimHead, ClaimHalf, FlushCommit
    <3>2. \A c \in Conns :
            \/ Spawn(c) \/ ClaimNothing(c) \/ PickServer(c) \/ PickNone(c) \/ OpenOk(c)
            \/ OpenFails(c) \/ OpenRefused(c) \/ OpenWithoutRange(c)
            => UNCHANGED co
      BY DEF Spawn, ClaimNothing, PickServer, PickNone, OpenOk, OpenFails, OpenRefused,
         OpenWithoutRange
    <3>3. \A c \in Conns :
            FlushClamp(c) \/ FlushWrite(c) \/ FlushFails(c) \/ Slowed(c)
            \/ Dropped(c) \/ LateWrite(c) => UNCHANGED co
      BY DEF FlushClamp, FlushWrite, FlushFails, Slowed, Dropped, LateWrite
    <3>4. QED BY <1>3, <2>5, <3>1, <3>2, <3>3 DEF ConnStep
  <2>6. CASE (\E i \in Servers : Rested(i)) \/ UNCHANGED vars
    BY <1>3, <2>6 DEF Rested, vars
  <2>7. QED BY <2>1, <2>2, <2>3, <2>4, <2>5, <2>6 DEF Next
<1>4. co.pc = "switch" /\ UNCHANGED co /\ \A c \in Conns : conn[c].pc = "none"
  BY <1>1, <1>3 DEF NotStarted
<1>5. ~ \E c \in Conns : Spawn(c) \/ ConnStep(c)
  BY <1>4 DEF Spawn, ConnStep, ClaimHead, ClaimHalf, ClaimNothing, PickServer,
     PickNone, OpenOk, OpenFails, OpenRefused, OpenWithoutRange, FlushClamp, FlushWrite,
     FlushCommit, FlushFails, Slowed, Dropped, LateWrite
<1>6. UNCHANGED conn
  <2>1. CASE \/ StartRun \/ (\E c \in Conns : StartHanded(c)) \/ JoinFailed
             \/ Kill \/ PowerCut
    BY <1>0, <1>1, <2>1
  <2>2. CASE \/ Snapshot \/ SyncOk \/ SyncFails \/ Save \/ Truncate \/ SaveTruncated
             \/ Drained \/ (\E i \in Servers : Rested(i)) \/ UNCHANGED vars
    BY <2>2 DEF Snapshot, SyncOk, SyncFails, Save, Truncate, SaveTruncated, Drained,
       Rested, vars
  <2>3. QED BY <1>5, <2>1, <2>2 DEF Next
<1>7. QED BY <1>4, <1>6

-----------------------------------------------------------------------------
\* The inductive invariant of the whole specification.
FullInv == IInv /\ InFile /\ NotStarted

LEMMA FullInvHolds == Spec => []FullInv
<1>1. Init => FullInv
  BY InitInv DEF FullInv, Init, InFile, NotStarted, NoConn, InWrite
<1>2. FullInv /\ [Next]_vars => FullInv'
  BY NextInv, InFileNext, NotStartedNext DEF FullInv
<1>3. QED BY <1>1, <1>2, PTL DEF Spec

\* Every variable keeps its type, whatever is claimed, dropped or killed.
THEOREM TypeCorrect == Spec => []TypeOK
<1>1. FullInv => TypeOK
  BY DEF FullInv, IInv
<1>2. QED BY <1>1, FullInvHolds, PTL

\* A connection that works on a span owns it and writes where it starts.
THEOREM OwnersInStep == Spec => []OwnerInStep
<1>1. FullInv => OwnerInStep
  BY DEF FullInv, IInv
<1>2. QED BY <1>1, FullInvHolds, PTL

\* No two spans share a byte or a name, no two connections share a span.
THEOREM SpansHaveOneFetcher == Spec => []OneFetcher
<1>1. FullInv => OneFetcher
  <2>1. SUFFICES ASSUME IInv PROVE OneFetcher
    BY DEF FullInv
  <2>2. ASSUME NEW s \in spans, NEW t \in spans, s # t
        PROVE  s.id # t.id /\ (s.end <= t.pos \/ t.end <= s.pos)
    <3>1. s \in SpanSet /\ t \in SpanSet
      BY <2>1 DEF IInv, TypeOK
    <3>2. /\ s.id \in Nat /\ s.pos \in Nat /\ s.end \in Nat
          /\ t.id \in Nat /\ t.pos \in Nat /\ t.end \in Nat
      BY <3>1 DEF SpanSet
    <3>3. /\ s.id <= s.pos /\ s.pos < s.end /\ t.id <= t.pos /\ t.pos < t.end
          /\ s.end <= t.id \/ t.end <= s.id
      BY <2>1, <2>2 DEF IInv, Separate
    <3>4. QED BY <3>2, <3>3
  <2>3. QED BY <2>1, <2>2 DEF OneFetcher, IInv, Holders
<1>2. QED BY <1>1, FullInvHolds, PTL

-----------------------------------------------------------------------------
\* What a connection is about to commit is in the file.
Landed ==
  \A c \in Conns : conn[c].pc = "written" =>
    Range(conn[c].pos, conn[c].pos + conn[c].n) \subseteq written

\* Once a run has its result no connection works on a span.
Ended ==
  /\ co.pc = "loop" => co.result = "none"
  /\ co.pc \in {"truncate", "truncated"} => co.result # "none"
  /\ co.result # "none" => \A c \in Conns : conn[c].pc \in {"none", "detached"}

\* Servers that keep their ranges never make a run start the file over.
RangesKept ==
  Fickle = {} => ~lost /\ co.result # "restart" /\ co.pc \notin {"truncate", "truncated"}

WorkInv == FullInv /\ Landed /\ Ended /\ RangesKept

Covered(sp) == {b \in Bytes : \E s \in sp : s.pos <= b /\ b < s.end}

\* The bytes the file answers for.  The sequential prefix was never synced
\* before the switch: a power cut may take it unseen.
Kept == IF "power" \in Faults THEN Range(Offset, Total) ELSE Bytes

\* The spans, the snapshot, the list in memory and the sidecar tell the truth
\* about the file, each as long as it matters.
Honest ==
  /\ co.pc = "switch" => todo = {<<Offset, Total>>}
  /\ co.pc = "truncated" => todo = {<<0, Total>>}
  /\ co.pc \in {"loop", "sync", "save"} => Kept \ Covered(spans) \subseteq written
  /\ co.pc \in {"sync", "save"} => Kept \ Cover(snap) \subseteq written
  /\ Kept \ Cover(todo) \subseteq written
  /\ co.pc # "truncated" => Kept \ Cover(sidecar) \subseteq written
  /\ co.pc \in {"sync", "save"} /\ co.result = "ok" => spans = {}
  /\ co.pc = "done" => Kept \subseteq written

\* What this run fetched and the sidecar no longer lists is on the disk.
Synced ==
  /\ durable \subseteq written
  /\ co.pc = "save" => Range(Offset, Total) \ Cover(snap) \subseteq durable
  /\ co.pc # "truncated" => Range(Offset, Total) \ Cover(sidecar) \subseteq durable

-----------------------------------------------------------------------------
\* The holes of some spans cover what the spans cover.
LEMMA CoverHoles == \A sp : Cover(HolesOf(sp)) = Covered(sp)
<1>1. SUFFICES ASSUME NEW sp, NEW b \in Bytes
               PROVE  (\E h \in HolesOf(sp) : h[1] <= b /\ b < h[2])
                        <=> (\E s \in sp : s.pos <= b /\ b < s.end)
  BY DEF Cover, Covered
<1>2. ASSUME NEW h \in HolesOf(sp), h[1] <= b, b < h[2]
      PROVE  \E s \in sp : s.pos <= b /\ b < s.end
  BY <1>2 DEF HolesOf
<1>3. ASSUME NEW s \in sp, s.pos <= b, b < s.end
      PROVE  \E h \in HolesOf(sp) : h[1] <= b /\ b < h[2]
  <2>1. <<s.pos, s.end>> \in HolesOf(sp)
    BY DEF HolesOf
  <2>2. QED BY <1>3, <2>1
<1>4. QED BY <1>2, <1>3

\* Cutting the head off a span does not change what the spans cover.
LEMMA TakeHeadCovered ==
  ASSUME NEW sp \in SUBSET SpanSet, NEW s \in sp, s.pos < s.end
  PROVE  Covered(TakeHead(sp, s)) = Covered(sp)
<1> USE ConstantsAssumption DEF ConstantsAssumption
<1> DEFINE cut == s.pos + MaxSpan
           end == IF cut < s.end THEN cut ELSE s.end
           head == Span(s.id, s.pos, end, TRUE)
           rest == IF cut < s.end THEN {Span(cut, cut, s.end, FALSE)} ELSE {}
<1>1. TakeHead(sp, s) = (sp \ {s}) \cup {head} \cup rest
  BY DEF TakeHead
<1>2. s.pos \in Nat /\ s.end \in Nat /\ cut \in Nat /\ s.pos < cut
  BY DEF SpanSet
<1>3. head.pos = s.pos /\ head.end = end
  BY DEF Span
<1>4. \A r \in rest : r.pos = cut /\ r.end = s.end /\ end = cut
  BY DEF Span
<1>5. rest = {} => end = s.end
  OBVIOUS
<1>6. end \in Nat /\ end <= s.end
  BY <1>2
<1> HIDE DEF cut, end, head, rest
<1>7. ASSUME NEW b \in Bytes
      PROVE  (\E t \in TakeHead(sp, s) : t.pos <= b /\ b < t.end)
               <=> (\E t \in sp : t.pos <= b /\ b < t.end)
  <2>1. b \in Nat
    BY DEF Bytes
  <2>2. ASSUME NEW t \in TakeHead(sp, s), t.pos <= b, b < t.end
        PROVE  \E u \in sp : u.pos <= b /\ b < u.end
    <3>1. CASE t \in sp
      BY <2>2, <3>1
    <3>2. CASE t = head
      BY <1>2, <1>3, <1>6, <2>1, <2>2, <3>2
    <3>3. CASE t \in rest
      BY <1>2, <1>4, <2>1, <2>2, <3>3
    <3>4. QED BY <1>1, <3>1, <3>2, <3>3
  <2>3. ASSUME NEW t \in sp, t.pos <= b, b < t.end
        PROVE  \E u \in TakeHead(sp, s) : u.pos <= b /\ b < u.end
    <3>1. CASE t # s
      BY <1>1, <2>3, <3>1
    <3>2. CASE t = s /\ b < end
      BY <1>1, <1>3, <2>3, <3>2
    <3>3. CASE t = s /\ ~(b < end)
      <4>1. PICK r : r \in rest
        BY <1>5, <2>3, <3>3
      <4>2. QED BY <1>1, <1>2, <1>4, <1>6, <2>1, <2>3, <3>3, <4>1
    <3>4. QED BY <3>1, <3>2, <3>3
  <2>4. QED BY <2>2, <2>3
<1>8. QED BY <1>7 DEF Covered

-----------------------------------------------------------------------------
\* A connection leaves the coordinator, its lists and the synced data alone,
\* and what it writes only adds to the file.
LEMMA ConnFiles ==
  ASSUME NEW c \in Conns, Spawn(c) \/ ConnStep(c)
  PROVE  /\ UNCHANGED <<co, snap, todo, sidecar, durable>>
         /\ written \subseteq written'
<1> USE DEF disk
<1>1. CASE ClaimHead(c) \/ ClaimHalf(c) \/ FlushCommit(c)
  BY <1>1 DEF ClaimHead, ClaimHalf, FlushCommit
<1>2. CASE Spawn(c) \/ ClaimNothing(c) \/ PickServer(c) \/ PickNone(c) \/ OpenOk(c)
  BY <1>2 DEF Spawn, ClaimNothing, PickServer, PickNone, OpenOk
<1>3. CASE OpenFails(c) \/ OpenRefused(c) \/ OpenWithoutRange(c) \/ FlushFails(c)
  BY <1>3 DEF OpenFails, OpenRefused, OpenWithoutRange, FlushFails
<1>4. CASE FlushClamp(c) \/ FlushWrite(c) \/ Slowed(c) \/ Dropped(c) \/ LateWrite(c)
  BY <1>4 DEF FlushClamp, FlushWrite, Slowed, Dropped, LateWrite
<1>5. QED BY <1>1, <1>2, <1>3, <1>4 DEF ConnStep

\* A connection moves alone, and has a chunk to commit only if it wrote it.
LEMMA ConnMoves ==
  ASSUME TypeOK, NEW c \in Conns, Spawn(c) \/ ConnStep(c)
  PROVE  /\ \A d \in Conns \ {c} : conn'[d] = conn[d]
         /\ conn'[c].pc = "written" => FlushWrite(c)
<1>1. \A r : Goto(c, r) => conn'[c] = r /\ \A d \in Conns \ {c} : conn'[d] = conn[d]
  BY DEF TypeOK, Goto
<1>2. conn[c] \in ConnSet /\ NoConn \in ConnSet
  BY ConstantsAssumption DEF TypeOK, NoConn, ConnSet, Servers, ConstantsAssumption
<1>3. \A pc : Leave(c, pc) => conn'[c].pc = pc
                             /\ \A d \in Conns \ {c} : conn'[d] = conn[d]
  <2>1. \A pc : [NoConn EXCEPT !.pc = pc].pc = pc
    BY DEF NoConn
  <2>2. QED BY <1>1, <2>1 DEF Leave
<1>4. CASE Spawn(c) \/ ClaimNothing(c) \/ PickNone(c) \/ OpenFails(c) \/ OpenRefused(c)
  BY <1>3, <1>4 DEF Spawn, ClaimNothing, PickNone, OpenFails, OpenRefused
<1>5. CASE OpenWithoutRange(c) \/ FlushFails(c) \/ Dropped(c)
  BY <1>3, <1>5 DEF OpenWithoutRange, FlushFails, Dropped
<1>6. CASE ClaimHead(c)
  <2>1. PICK s : Goto(c, [conn[c] EXCEPT !.pc = "picking", !.id = s.id, !.pos = s.pos])
    BY <1>6 DEF ClaimHead
  <2>2. [conn[c] EXCEPT !.pc = "picking", !.id = s.id, !.pos = s.pos].pc = "picking"
    BY <1>2 DEF ConnSet
  <2>3. QED BY <1>1, <2>1, <2>2
<1>7. CASE ClaimHalf(c)
  <2>1. PICK m : Goto(c, [conn[c] EXCEPT !.pc = "picking", !.id = m, !.pos = m])
    BY <1>7 DEF ClaimHalf
  <2>2. [conn[c] EXCEPT !.pc = "picking", !.id = m, !.pos = m].pc = "picking"
    BY <1>2 DEF ConnSet
  <2>3. QED BY <1>1, <2>1, <2>2
<1>8. CASE PickServer(c)
  <2>1. PICK i : Goto(c, [conn[c] EXCEPT !.pc = "opening", !.server = i])
    BY <1>8 DEF PickServer
  <2>2. [conn[c] EXCEPT !.pc = "opening", !.server = i].pc = "opening"
    BY <1>2 DEF ConnSet
  <2>3. QED BY <1>1, <2>1, <2>2
<1>9. CASE OpenOk(c) \/ Slowed(c)
  <2>1. PICK pc \in {"fetching", "picking"} : Goto(c, [conn[c] EXCEPT !.pc = pc])
    BY <1>9 DEF OpenOk, Slowed
  <2>2. [conn[c] EXCEPT !.pc = pc].pc = pc
    BY <1>2 DEF ConnSet
  <2>3. QED BY <1>1, <2>1, <2>2
<1>10. CASE FlushClamp(c)
  <2>1. PICK n : Goto(c, [conn[c] EXCEPT !.pc = "writing", !.n = n])
    BY <1>10 DEF FlushClamp
  <2>2. [conn[c] EXCEPT !.pc = "writing", !.n = n].pc = "writing"
    BY <1>2 DEF ConnSet
  <2>3. QED BY <1>1, <2>1, <2>2
<1>11. CASE FlushCommit(c)
  <2>1. CASE Leave(c, "acquiring")
    BY <1>3, <2>1
  <2>2. CASE \E pos : Goto(c, [conn[c] EXCEPT !.pc = "fetching", !.pos = pos, !.n = 0])
    <3>1. PICK pos : Goto(c, [conn[c] EXCEPT !.pc = "fetching", !.pos = pos, !.n = 0])
      BY <2>2
    <3>2. [conn[c] EXCEPT !.pc = "fetching", !.pos = pos, !.n = 0].pc = "fetching"
      BY <1>2 DEF ConnSet
    <3>3. QED BY <1>1, <3>1, <3>2
  <2>3. QED BY <1>11, <2>1, <2>2 DEF FlushCommit
<1>12. CASE FlushWrite(c) \/ LateWrite(c)
  BY <1>1, <1>12 DEF FlushWrite, LateWrite, NoConn
<1>13. QED
  BY <1>4, <1>5, <1>6, <1>7, <1>8, <1>9, <1>10, <1>11, <1>12 DEF ConnStep

\* A connection that holds nothing and waits for nothing can only let the
\* write it left behind land, unless the coordinator opens it again.
LEMMA IdleConn ==
  ASSUME NEW c \in Conns, ConnStep(c), conn[c].pc \in {"none", "detached"}
  PROVE  LateWrite(c) /\ UNCHANGED spans
BY DEF ConnStep, ClaimHead, ClaimHalf, ClaimNothing, PickServer, PickNone, OpenOk,
   OpenFails, OpenRefused, OpenWithoutRange, FlushClamp, FlushWrite, FlushCommit,
   FlushFails, Slowed, Dropped, LateWrite

-----------------------------------------------------------------------------
\* What an aborted connection leaves: a write under way, or nothing.
LEMMA Aborted ==
  ASSUME TypeOK
  PROVE  /\ NoConn.pc = "none"
         /\ \A c \in Conns : [conn[c] EXCEPT !.pc = "detached"].pc = "detached"
<1>1. ASSUME NEW c \in Conns PROVE [conn[c] EXCEPT !.pc = "detached"].pc = "detached"
  BY DEF TypeOK, ConnSet
<1>2. QED BY <1>1 DEF NoConn

LEMMA LandedNext ==
  ASSUME TypeOK, Landed, Ended, [Next]_vars
  PROVE  Landed'
<1>1. ASSUME \A c \in Conns : conn'[c].pc = "written" => conn'[c] = conn[c],
             written \subseteq written'
      PROVE  Landed'
  BY <1>1 DEF Landed
<1>2. CASE StartRun \/ JoinFailed \/ Kill \/ PowerCut
  <2>1. \A c \in Conns : \/ conn'[c] = NoConn
                         \/ conn'[c] = conn[c] /\ conn[c].pc = "detached"
                         \/ conn'[c] = [conn[c] EXCEPT !.pc = "detached"]
    BY <1>2 DEF StartRun, JoinFailed, Kill, PowerCut, Die
  <2>2. \A c \in Conns : conn'[c].pc # "written"
    BY <2>1, Aborted
  <2>3. QED BY <2>2 DEF Landed
<1>3. ASSUME NEW c \in Conns, StartHanded(c)
      PROVE  Landed'
  <2>1. PICK i \in Servers : conn' = [conn EXCEPT ![c] =
          [pc |-> "fetching", id |-> Offset, pos |-> Offset, n |-> 0, server |-> i]]
    BY <1>3 DEF StartHanded, Goto
  <2>2. conn'[c].pc # "written" /\ \A d \in Conns \ {c} : conn'[d] = conn[d]
    BY <2>1 DEF TypeOK
  <2>3. QED BY <1>1, <1>3, <2>2 DEF StartHanded, disk
<1>4. ASSUME NEW c \in Conns, Spawn(c) \/ ConnStep(c)
      PROVE  Landed'
  <2>1. CASE conn'[c].pc = "written"
    <3>1. FlushWrite(c) /\ \A d \in Conns \ {c} : conn'[d] = conn[d]
      BY <1>4, <2>1, ConnMoves
    <3>2. conn'[c].pos = conn[c].pos /\ conn'[c].n = conn[c].n
      BY <3>1 DEF FlushWrite, Goto, TypeOK, ConnSet
    <3>3. Range(conn[c].pos, conn[c].pos + conn[c].n) \subseteq written'
          /\ written \subseteq written'
      BY <3>1 DEF FlushWrite
    <3>4. QED BY <3>1, <3>2, <3>3 DEF Landed
  <2>2. CASE conn'[c].pc # "written"
    BY <1>1, <1>4, <2>2, ConnMoves, ConnFiles
  <2>3. QED BY <2>1, <2>2
<1>5. CASE Truncate
  BY <1>5 DEF Truncate, Ended, Landed
<1>6. CASE UNCHANGED <<conn, written>>
  BY <1>6 DEF Landed
<1>7. QED
  BY <1>2, <1>3, <1>4, <1>5, <1>6
  DEF Next, vars, disk, Rested, Snapshot, SyncOk, SyncFails, Save, SaveTruncated, Drained

LEMMA EndedNext ==
  ASSUME TypeOK, Ended, [Next]_vars
  PROVE  Ended'
<1>1. co \in CoSet
  BY DEF TypeOK
<1>2. CASE StartRun
  <2>1. /\ co' \in {[pc |-> "done", result |-> "ok"], [pc |-> "loop", result |-> "none"]}
        /\ \A c \in Conns : conn'[c].pc \in {"none", "detached"}
    BY <1>2 DEF StartRun, NoConn
  <2>2. QED BY <2>1 DEF Ended
<1>3. ASSUME NEW c \in Conns, StartHanded(c)
      PROVE  Ended'
  BY <1>3 DEF StartHanded, Ended
<1>4. ASSUME NEW c \in Conns, Spawn(c) \/ ConnStep(c)
      PROVE  Ended'
  <2>1. UNCHANGED co
    BY <1>4, ConnFiles
  <2>2. ASSUME co.result # "none", NEW d \in Conns
        PROVE  conn'[d].pc \in {"none", "detached"}
    <3>1. ~Spawn(c) /\ conn[c].pc \in {"none", "detached"}
      BY <2>2 DEF Ended, Spawn
    <3>2. LateWrite(c)
      BY <1>4, <3>1, IdleConn
    <3>3. conn'[c] = NoConn \/ conn'[c] = conn[c]
      BY <3>2 DEF LateWrite, Goto, TypeOK
    <3>4. \A e \in Conns \ {c} : conn'[e] = conn[e]
      BY <1>4, ConnMoves
    <3>5. QED BY <2>2, <3>1, <3>3, <3>4 DEF Ended, NoConn
  <2>3. QED BY <2>1, <2>2 DEF Ended
<1>5. CASE JoinFailed \/ Kill \/ PowerCut
  <2>1. co' \in {[pc |-> "sync", result |-> "fatal"], [pc |-> "idle", result |-> "fatal"]}
    BY <1>5 DEF JoinFailed, Kill, PowerCut, Die
  <2>2. \A c \in Conns : \/ conn'[c] = NoConn
                         \/ conn'[c] = [conn[c] EXCEPT !.pc = "detached"]
    BY <1>5 DEF JoinFailed, Kill, PowerCut, Die
  <2>3. \A c \in Conns : conn'[c].pc \in {"none", "detached"}
    BY <2>2, Aborted
  <2>4. QED BY <2>1, <2>3 DEF Ended
<1>6. CASE Drained
  <2>1. co'.pc = "sync" /\ \A c \in Conns : conn'[c].pc \in {"none", "detached"}
    BY <1>6 DEF Drained
  <2>2. QED BY <2>1 DEF Ended
<1>7. CASE SyncFails \/ Save
  <2>1. AfterCheckpoint(co.result) /\ UNCHANGED conn
    BY <1>7 DEF SyncFails, Save
  <2>2. /\ co'.result = co.result
        /\ co'.pc = "loop" => co.result = "none"
        /\ co'.pc = "truncate" => co.result # "none"
        /\ co'.pc # "truncated"
    BY <1>1, <2>1 DEF AfterCheckpoint, CoSet
  <2>3. QED BY <2>1, <2>2 DEF Ended
<1>8. CASE Snapshot \/ SyncOk \/ Truncate
  <2>1. /\ co'.result = co.result /\ UNCHANGED conn
        /\ \/ co'.pc \in {"sync", "save"}
           \/ co'.pc = "truncated" /\ co.pc = "truncate"
    BY <1>1, <1>8 DEF Snapshot, SyncOk, Truncate, CoSet
  <2>2. QED BY <2>1 DEF Ended
<1>9. CASE SaveTruncated
  BY <1>9 DEF SaveTruncated, Ended
<1>10. CASE UNCHANGED <<co, conn>>
  BY <1>10 DEF Ended
<1>11. QED
  BY <1>2, <1>3, <1>4, <1>5, <1>6, <1>7, <1>8, <1>9, <1>10 DEF Next, vars, Rested

LEMMA RangesKeptNext ==
  ASSUME TypeOK, RangesKept, [Next]_vars
  PROVE  RangesKept'
<1>1. SUFFICES ASSUME Fickle = {}
               PROVE  ~lost' /\ co'.result # "restart" /\ co'.pc \notin {"truncate", "truncated"}
  BY DEF RangesKept
<1>2. ~lost /\ co.result # "restart" /\ co.pc \notin {"truncate", "truncated"} /\ co \in CoSet
  BY <1>1 DEF RangesKept, TypeOK
<1>3. CASE StartRun \/ JoinFailed \/ Kill \/ PowerCut
  <2>1. ~lost'
    BY <1>2, <1>3 DEF StartRun, JoinFailed, Kill, PowerCut, Die
  <2>2. co' \in {[pc |-> "done", result |-> "ok"], [pc |-> "loop", result |-> "none"],
                 [pc |-> "sync", result |-> "fatal"], [pc |-> "idle", result |-> "fatal"]}
    BY <1>3 DEF StartRun, JoinFailed, Kill, PowerCut, Die
  <2>3. QED BY <2>1, <2>2
<1>4. ASSUME NEW c \in Conns, StartHanded(c)
      PROVE  ~lost' /\ co'.result # "restart" /\ co'.pc \notin {"truncate", "truncated"}
  BY <1>2, <1>4 DEF StartHanded
<1>5. ASSUME NEW c \in Conns, Spawn(c) \/ ConnStep(c)
      PROVE  UNCHANGED <<co, lost>>
  <2>1. UNCHANGED co
    BY <1>5, ConnFiles
  <2>2. ~OpenWithoutRange(c)
    BY <1>1 DEF OpenWithoutRange
  <2>3. CASE ClaimHead(c) \/ ClaimHalf(c) \/ FlushCommit(c)
    BY <2>3 DEF ClaimHead, ClaimHalf, FlushCommit
  <2>4. CASE Spawn(c) \/ ClaimNothing(c) \/ PickServer(c) \/ PickNone(c) \/ OpenOk(c)
    BY <2>4 DEF Spawn, ClaimNothing, PickServer, PickNone, OpenOk
  <2>5. CASE OpenFails(c) \/ OpenRefused(c) \/ FlushFails(c) \/ Dropped(c)
    BY <2>5 DEF OpenFails, OpenRefused, FlushFails, Dropped
  <2>6. CASE FlushClamp(c) \/ FlushWrite(c) \/ Slowed(c) \/ LateWrite(c)
    BY <2>6 DEF FlushClamp, FlushWrite, Slowed, LateWrite
  <2>7. QED BY <1>5, <2>1, <2>2, <2>3, <2>4, <2>5, <2>6 DEF ConnStep
<1>6. CASE Snapshot \/ SyncOk
  BY <1>2, <1>6 DEF Snapshot, SyncOk, CoSet
<1>7. CASE SyncFails \/ Save
  <2>1. AfterCheckpoint(co.result) /\ UNCHANGED lost
    BY <1>7 DEF SyncFails, Save
  <2>2. QED BY <1>2, <2>1 DEF AfterCheckpoint, CoSet
<1>8. CASE Drained
  <2>1. ~lost' /\ co'.pc = "sync" /\ co'.result \in {"ok", "fatal", "retry"}
    BY <1>2, <1>8 DEF Drained
  <2>2. QED BY <2>1
<1>9. ~(Truncate \/ SaveTruncated)
  BY <1>2 DEF Truncate, SaveTruncated
<1>10. CASE UNCHANGED <<co, lost>>
  BY <1>2, <1>10
<1>11. QED
  BY <1>3, <1>4, <1>5, <1>6, <1>7, <1>8, <1>9, <1>10 DEF Next, vars, Rested

LEMMA WorkInvHolds == Spec => []WorkInv
<1>1. Init => Landed /\ Ended /\ RangesKept
  BY DEF Init, Landed, Ended, RangesKept, NoConn
<1>2. FullInv /\ Landed /\ Ended /\ RangesKept /\ [Next]_vars
        => Landed' /\ Ended' /\ RangesKept'
  BY LandedNext, EndedNext, RangesKeptNext DEF FullInv, IInv
<1>3. QED BY <1>1, <1>2, FullInvHolds, PTL DEF Spec, WorkInv

-----------------------------------------------------------------------------
\* Giving a span back covers the same bytes.
LEMMA ReleaseCovered ==
  ASSUME TypeOK, NEW c \in Conns, Release(c)
  PROVE  Covered(spans') = Covered(spans)
<1>1. ASSUME NEW s \in spans
      PROVE  LET r == IF s.id = conn[c].id THEN [s EXCEPT !.owned = FALSE] ELSE s
             IN  r \in spans' /\ r.pos = s.pos /\ r.end = s.end
  <2>1. s \in SpanSet
    BY DEF TypeOK
  <2>2. QED BY <2>1 DEF Release, SpanSet
<1>2. ASSUME NEW t \in spans'
      PROVE  \E s \in spans : t.pos = s.pos /\ t.end = s.end
  <2>1. PICK s \in spans : t = IF s.id = conn[c].id THEN [s EXCEPT !.owned = FALSE] ELSE s
    BY DEF Release
  <2>2. QED BY <1>1, <2>1
<1>3. \A s \in spans : \E t \in spans' : t.pos = s.pos /\ t.end = s.end
  BY <1>1
<1>4. ASSUME NEW b \in Bytes
      PROVE  (\E t \in spans' : t.pos <= b /\ b < t.end)
               <=> (\E s \in spans : s.pos <= b /\ b < s.end)
  BY <1>2, <1>3
<1>5. QED BY <1>4 DEF Covered

\* Stealing half of a span covers the same bytes.
LEMMA ClaimHalfCovered ==
  ASSUME IInv, NEW c \in Conns, ClaimHalf(c)
  PROVE  Covered(spans') = Covered(spans)
<1>1. PICK s \in spans :
        /\ Left(s) >= 2 * MinSplit
        /\ spans' = (spans \ {s}) \cup
             {Span(s.id, s.pos, s.pos + Left(s) \div 2, TRUE),
              Span(s.pos + Left(s) \div 2, s.pos + Left(s) \div 2, s.end, TRUE)}
  BY DEF ClaimHalf
<1> DEFINE mid == s.pos + Left(s) \div 2
           front == Span(s.id, s.pos, mid, TRUE)
           back == Span(mid, mid, s.end, TRUE)
<1>2. /\ spans' = (spans \ {s}) \cup {front, back}
      /\ front.pos = s.pos /\ front.end = mid /\ back.pos = mid /\ back.end = s.end
  BY <1>1 DEF Span
<1>3. s.pos \in Nat /\ s.end \in Nat /\ s.pos < s.end
  BY DEF IInv, TypeOK, SpanSet, Separate
<1>4. mid \in Nat /\ s.pos < mid /\ mid < s.end
  BY <1>1, <1>3, ConstantsAssumption DEF Left, ConstantsAssumption
<1> HIDE DEF mid, front, back
<1>5. ASSUME NEW b \in Bytes
      PROVE  (\E t \in spans' : t.pos <= b /\ b < t.end)
               <=> (\E t \in spans : t.pos <= b /\ b < t.end)
  <2>1. b \in Nat
    BY DEF Bytes
  <2>2. (\E t \in {front, back} : t.pos <= b /\ b < t.end) <=> s.pos <= b /\ b < s.end
    BY <1>2, <1>3, <1>4, <2>1
  <2>3. QED BY <1>2, <2>2
<1>6. QED BY <1>5 DEF Covered

\* A commit uncovers only bytes of the chunk it commits.
LEMMA CommitCovered ==
  ASSUME IInv, NEW c \in Conns, FlushCommit(c)
  PROVE  /\ Covered(spans') \subseteq Covered(spans)
         /\ Covered(spans) \ Covered(spans')
              \subseteq Range(conn[c].pos, conn[c].pos + conn[c].n)
<1> DEFINE s == SpanOf(c)
           pos == CommitPos(s, conn[c].pos + conn[c].n)
           moved == [s EXCEPT !.pos = pos]
<1>1. conn[c].pc \in Holding
  BY DEF FlushCommit, Holding
<1>2. s \in spans /\ s.pos = conn[c].pos /\ s \in SpanSet /\ s.pos < s.end
  BY <1>1, SpanOfHolder DEF IInv, TypeOK, Separate
<1>3. /\ s.pos \in Nat /\ s.end \in Nat /\ conn[c].n \in Nat
  BY <1>2, ConstantsAssumption DEF IInv, TypeOK, SpanSet, ConnSet, ConstantsAssumption
<1>4. /\ pos \in Nat /\ s.pos <= pos /\ pos <= s.end /\ pos <= conn[c].pos + conn[c].n
  BY <1>2, <1>3 DEF CommitPos
<1>5. moved.pos = pos /\ moved.end = s.end
  BY <1>2 DEF SpanSet
<1>6. \/ spans' = spans \ {s} /\ pos >= s.end
      \/ spans' = (spans \ {s}) \cup {moved}
  BY DEF FlushCommit
<1> HIDE DEF s, pos, moved
<1>7. ASSUME NEW b \in Bytes, NEW t \in spans', t.pos <= b, b < t.end
      PROVE  \E u \in spans : u.pos <= b /\ b < u.end
  <2>1. b \in Nat
    BY DEF Bytes
  <2>2. QED BY <1>2, <1>3, <1>4, <1>5, <1>6, <1>7, <2>1
<1>8. ASSUME NEW b \in Bytes, NEW t \in spans, t.pos <= b, b < t.end,
             ~ \E u \in spans' : u.pos <= b /\ b < u.end
      PROVE  b \in Range(conn[c].pos, conn[c].pos + conn[c].n)
  <2>1. b \in Nat
    BY DEF Bytes
  <2>2. t = s
    BY <1>6, <1>8
  <2>3. s.pos <= b /\ b < pos
    BY <1>3, <1>4, <1>5, <1>6, <1>8, <2>1, <2>2
  <2>4. QED BY <1>2, <1>3, <1>4, <2>1, <2>3 DEF Range
<1>9. QED BY <1>7, <1>8 DEF Covered

\* Whatever a connection does, no byte becomes missing, and one that stops
\* being missing is in the file.
LEMMA MissingStep ==
  ASSUME IInv, Landed, NEW c \in Conns, Spawn(c) \/ ConnStep(c)
  PROVE  /\ Covered(spans') \subseteq Covered(spans)
         /\ Covered(spans) \ Covered(spans') \subseteq written
<1>1. CASE UNCHANGED spans
  BY <1>1
<1>2. CASE Release(c)
  BY <1>2, ReleaseCovered DEF IInv
<1>3. CASE ClaimHead(c)
  <2>1. PICK s \in spans : spans' = TakeHead(spans, s)
    BY <1>3 DEF ClaimHead, Unowned
  <2>2. spans \in SUBSET SpanSet /\ s.pos < s.end
    BY DEF IInv, TypeOK, Separate
  <2>3. QED BY <2>1, <2>2, TakeHeadCovered
<1>4. CASE ClaimHalf(c)
  BY <1>4, ClaimHalfCovered
<1>5. CASE FlushCommit(c)
  <2>1. Range(conn[c].pos, conn[c].pos + conn[c].n) \subseteq written
    BY <1>5 DEF Landed, FlushCommit
  <2>2. QED BY <1>5, <2>1, CommitCovered
<1>6. CASE PickNone(c) \/ OpenFails(c) \/ OpenRefused(c) \/ OpenWithoutRange(c)
           \/ FlushFails(c) \/ Dropped(c)
  BY <1>2, <1>6 DEF PickNone, OpenFails, OpenRefused, OpenWithoutRange, FlushFails, Dropped
<1>7. CASE Spawn(c) \/ ClaimNothing(c) \/ PickServer(c) \/ OpenOk(c)
  BY <1>1, <1>7 DEF Spawn, ClaimNothing, PickServer, OpenOk
<1>8. CASE FlushClamp(c) \/ FlushWrite(c) \/ Slowed(c) \/ LateWrite(c)
  BY <1>1, <1>8 DEF FlushClamp, FlushWrite, Slowed, LateWrite
<1>9. QED BY <1>3, <1>4, <1>5, <1>6, <1>7, <1>8 DEF ConnStep

\* While a run goes on a byte stops being missing only once it is written,
\* and splitting, stealing and releasing never make one missing again.
THEOREM MissingOnlyShrinks == Spec => MissingShrinks
<1> DEFINE Shrinks ==
      co.pc = "loop" /\ co'.pc \in {"loop", "sync"} =>
        LET before == Cover(HolesOf(spans))
            after == Cover(HolesOf(spans'))
        IN  after \subseteq before /\ before \ after \subseteq written
<1>1. WorkInv /\ [Next]_vars => [Shrinks]_vars
  <2>1. SUFFICES ASSUME WorkInv, [Next]_vars, co.pc = "loop", co'.pc \in {"loop", "sync"}
                 PROVE  /\ Covered(spans') \subseteq Covered(spans)
                        /\ Covered(spans) \ Covered(spans') \subseteq written
    BY CoverHoles
  <2>2. CASE UNCHANGED spans
    BY <2>2
  <2>3. CASE \E c \in Conns : Spawn(c) \/ ConnStep(c)
    BY <2>1, <2>3, MissingStep DEF WorkInv, FullInv
  <2>4. ~(StartRun \/ (\E c \in Conns : StartHanded(c)) \/ Truncate \/ SaveTruncated)
    BY <2>1 DEF StartRun, StartHanded, Truncate, SaveTruncated
  <2>5. ~(Kill \/ PowerCut)
    BY <2>1 DEF Kill, PowerCut, Die
  <2>6. QED
    BY <2>1, <2>2, <2>3, <2>4, <2>5
    DEF Next, vars, Rested, Snapshot, SyncOk, SyncFails, Save, Drained, JoinFailed
<1>2. QED BY <1>1, WorkInvHolds, PTL DEF Spec, MissingShrinks

-----------------------------------------------------------------------------
\* A file that may have to be started over can be believed only if nothing
\* intervenes between the truncation and the sidecar that tells of it.
RestartsUndisturbed == Fickle = {} \/ Faults \cap {"kill", "power", "save"} = {}

\* No power cut can take the prefix the sequential attempt left unsynced.
PrefixSafe == "power" \notin Faults \/ Offset = 0

FileInv == RestartsUndisturbed => Honest /\ Synced

LEMMA KeptBytes == Range(Offset, Total) \subseteq Kept /\ Kept \subseteq Bytes
BY ConstantsAssumption DEF Kept, Range, Bytes, ConstantsAssumption

LEMMA KeptWhenPrefixSafe == PrefixSafe => Kept = Bytes
BY DEF PrefixSafe, Kept, Range, Bytes

\* No process dies in, and no save is lost after, a truncation.
LEMMA Undisturbed ==
  ASSUME RestartsUndisturbed, RangesKept, co.pc = "truncated"
  PROVE  Faults \cap {"kill", "power", "save"} = {}
BY DEF RestartsUndisturbed, RangesKept

\* The spans of a run started from some holes cover what the holes cover.
LEMMA WorkNewCovered == \A holes : Covered(WorkNew(holes)) = Cover(holes)
<1>1. SUFFICES ASSUME NEW holes, NEW b \in Bytes
               PROVE  (\E s \in WorkNew(holes) : s.pos <= b /\ b < s.end)
                        <=> (\E h \in holes : h[1] <= b /\ b < h[2])
  BY DEF Cover, Covered
<1>2. ASSUME NEW s \in WorkNew(holes), s.pos <= b, b < s.end
      PROVE  \E h \in holes : h[1] <= b /\ b < h[2]
  BY <1>2 DEF WorkNew, Span
<1>3. ASSUME NEW h \in holes, h[1] <= b, b < h[2]
      PROVE  \E s \in WorkNew(holes) : s.pos <= b /\ b < s.end
  <2>1. Span(h[1], h[1], h[2], FALSE) \in WorkNew(holes)
    BY DEF WorkNew
  <2>2. Span(h[1], h[1], h[2], FALSE).pos = h[1] /\ Span(h[1], h[1], h[2], FALSE).end = h[2]
    BY DEF Span
  <2>3. QED BY <1>3, <2>1, <2>2
<1>4. QED BY <1>2, <1>3

LEMMA StartHandedCovered ==
  ASSUME NEW c \in Conns, StartHanded(c)
  PROVE  Covered(spans') = Cover({<<Offset, Total>>})
<1> DEFINE first == Span(Offset, Offset, Total, FALSE)
<1>1. first \in SpanSet /\ first.pos = Offset /\ first.end = Total /\ Offset < Total
  BY ConstantsAssumption DEF Span, SpanSet, ConstantsAssumption
<1>2. spans' = TakeHead({first}, first)
  BY DEF StartHanded
<1> HIDE DEF first
<1>3. Covered(spans') = Covered({first})
  BY <1>1, <1>2, TakeHeadCovered
<1>4. Covered({first}) = Cover({<<Offset, Total>>})
  BY <1>1 DEF Covered, Cover
<1>5. QED BY <1>3, <1>4

\* When the checkpoint of a run is over the coordinator goes on, starts the
\* file over, is done, or gives the run up.
LEMMA AfterCheckpointCo ==
  ASSUME TypeOK, co.pc \in {"sync", "save"}, AfterCheckpoint(co.result)
  PROVE  /\ co'.result = co.result
         /\ co'.pc \in {"loop", "done", "truncate", "idle"}
         /\ co'.pc = "done" => co.result = "ok"
BY DEF AfterCheckpoint, TypeOK, CoSet

-----------------------------------------------------------------------------
\* Honest, action by action.
LEMMA StartHonest == ASSUME WorkInv, Honest, StartRun PROVE Honest'
<1>1. UNCHANGED <<snap, disk>> /\ co.pc = "idle" /\ todo' \in {todo, sidecar}
  BY DEF StartRun
<1>2. Kept \ Cover(todo') \subseteq written /\ Kept \ Cover(sidecar) \subseteq written
  BY <1>1 DEF Honest
<1>3. CASE todo' = {}
  <2>1. co' = [pc |-> "done", result |-> "ok"]
    BY <1>3 DEF StartRun
  <2>2. Kept \subseteq written
    BY <1>2, <1>3 DEF Cover
  <2>3. QED BY <1>1, <1>2, <2>1, <2>2 DEF Honest, disk
<1>4. CASE todo' # {}
  <2>1. co' = [pc |-> "loop", result |-> "none"] /\ spans' = WorkNew(todo')
    BY <1>4 DEF StartRun
  <2>2. Covered(spans') = Cover(todo')
    BY <2>1, WorkNewCovered
  <2>3. QED BY <1>1, <1>2, <2>1, <2>2 DEF Honest, disk
<1>5. QED BY <1>3, <1>4

LEMMA HandedHonest ==
  ASSUME WorkInv, Honest, NEW c \in Conns, StartHanded(c)
  PROVE  Honest'
<1>1. /\ co.pc = "switch" /\ co' = [pc |-> "loop", result |-> "none"]
      /\ UNCHANGED <<snap, todo, disk>>
  BY DEF StartHanded
<1>2. Covered(spans') = Cover(todo)
  BY <1>1, StartHandedCovered DEF Honest
<1>3. QED BY <1>1, <1>2 DEF Honest, disk

LEMMA ConnHonest ==
  ASSUME WorkInv, Honest, NEW c \in Conns, Spawn(c) \/ ConnStep(c)
  PROVE  Honest'
<1>1. /\ UNCHANGED <<co, snap, todo, sidecar>> /\ written \subseteq written'
  BY ConnFiles
<1>2. Covered(spans) \ Covered(spans') \subseteq written /\ Kept \subseteq Bytes
  BY MissingStep, KeptBytes DEF WorkInv, FullInv
<1>3. co.pc \in {"loop", "sync", "save"} => Kept \ Covered(spans') \subseteq written'
  BY <1>1, <1>2 DEF Honest
<1>4. co.pc \in {"sync", "save"} /\ co.result = "ok" => spans' = {}
  <2>1. SUFFICES ASSUME co.pc \in {"sync", "save"}, co.result = "ok" PROVE UNCHANGED spans
    BY DEF Honest
  <2>2. conn[c].pc \in {"none", "detached"} /\ ~Spawn(c)
    BY <2>1 DEF WorkInv, Ended, Spawn
  <2>3. QED BY <2>2, IdleConn
<1>5. QED BY <1>1, <1>3, <1>4 DEF Honest

LEMMA SnapshotHonest ==
  ASSUME WorkInv, Honest, Snapshot \/ Drained \/ JoinFailed
  PROVE  Honest'
<1>1. /\ co.pc = "loop" /\ co.result = "none" /\ co \in CoSet
      /\ snap' = HolesOf(spans) /\ UNCHANGED <<spans, todo, disk>>
  BY DEF WorkInv, FullInv, IInv, TypeOK, Ended, Snapshot, Drained, JoinFailed
<1>2. co'.pc = "sync" /\ (co'.result = "ok" => spans = {})
  <2>1. CASE Snapshot
    BY <1>1, <2>1 DEF Snapshot, CoSet
  <2>2. CASE Drained
    BY <2>2 DEF Drained
  <2>3. CASE JoinFailed
    BY <2>3 DEF JoinFailed
  <2>4. QED BY <2>1, <2>2, <2>3
<1>3. Cover(snap') = Covered(spans)
  BY <1>1, CoverHoles
<1>4. QED BY <1>1, <1>2, <1>3 DEF Honest, disk

LEMMA CheckpointHonest ==
  ASSUME WorkInv, Honest, SyncOk \/ SyncFails \/ Save
  PROVE  Honest'
<1>1. /\ UNCHANGED <<spans, written>> /\ TypeOK
      /\ Covered({}) = {}
  BY DEF WorkInv, FullInv, IInv, SyncOk, SyncFails, Save, disk, Covered
<1>2. CASE SyncOk
  <2>1. co'.pc = "save" /\ co'.result = co.result /\ co.pc = "sync"
        /\ UNCHANGED <<snap, todo, sidecar>>
    BY <1>1, <1>2 DEF SyncOk, TypeOK, CoSet
  <2>2. QED BY <1>1, <2>1 DEF Honest
<1>3. CASE SyncFails \/ Save
  <2>1. /\ co.pc \in {"sync", "save"}
        /\ todo' \in {todo, snap} /\ sidecar' \in {sidecar, snap}
        /\ AfterCheckpoint(co.result)
    BY <1>3 DEF SyncFails, Save, disk
  <2>2. /\ Kept \ Cover(todo') \subseteq written /\ Kept \ Cover(sidecar') \subseteq written
        /\ Kept \ Covered(spans) \subseteq written
        /\ co.result = "ok" => spans = {}
    BY <2>1 DEF Honest
  <2>3. co.result = "ok" => Kept \subseteq written
    BY <1>1, <2>2
  <2>4. /\ co'.pc \in {"loop", "done", "truncate", "idle"}
        /\ co'.pc = "done" => co.result = "ok"
    BY <1>1, <2>1, AfterCheckpointCo
  <2>5. QED BY <1>1, <2>2, <2>3, <2>4 DEF Honest
<1>4. QED BY <1>2, <1>3

LEMMA TruncateHonest ==
  ASSUME WorkInv, Honest, RestartsUndisturbed, Truncate \/ SaveTruncated
  PROVE  Honest'
<1>1. Cover({<<0, Total>>}) = Bytes
  BY ConstantsAssumption DEF Cover, Bytes, ConstantsAssumption
<1>2. CASE Truncate
  <2>1. co'.pc = "truncated" /\ todo' = {<<0, Total>>} /\ UNCHANGED <<spans, snap>>
    BY <1>2 DEF Truncate, WorkInv, FullInv, IInv, TypeOK, CoSet
  <2>2. Kept \ Cover(todo') = {}
    BY <1>1, <2>1, KeptBytes
  <2>3. QED BY <2>1, <2>2 DEF Honest
<1>3. CASE SaveTruncated
  <2>1. "save" \notin Faults
    BY <1>3, Undisturbed DEF WorkInv, SaveTruncated
  <2>2. /\ sidecar' = todo /\ co' = [pc |-> "idle", result |-> "retry"]
        /\ UNCHANGED <<todo, written>>
    BY <1>3, <2>1 DEF SaveTruncated
  <2>3. QED BY <2>2 DEF Honest
<1>4. QED BY <1>2, <1>3

LEMMA DieHonest ==
  ASSUME WorkInv, Honest, Synced, RestartsUndisturbed, Kill \/ PowerCut
  PROVE  Honest'
<1>1. Die
  BY DEF Kill, PowerCut
<1>2. co'.pc = "idle" /\ todo' = sidecar /\ sidecar' = sidecar
  BY <1>1 DEF Die
<1>3. co.pc # "truncated"
  BY Undisturbed DEF WorkInv, Kill, PowerCut
<1>4. Kept \ Cover(sidecar) \subseteq written'
  <2>1. CASE Kill
    BY <1>3, <2>1 DEF Kill, Honest
  <2>2. CASE PowerCut
    <3>1. Kept = Range(Offset, Total) /\ durable \subseteq written'
      BY <2>2 DEF PowerCut, Kept
    <3>2. Range(Offset, Total) \ Cover(sidecar) \subseteq durable
      BY <1>3 DEF Synced
    <3>3. QED BY <3>1, <3>2
  <2>3. QED BY <2>1, <2>2
<1>5. QED BY <1>2, <1>4 DEF Honest

LEMMA HonestNext ==
  ASSUME WorkInv, Honest, Synced, RestartsUndisturbed, [Next]_vars
  PROVE  Honest'
<1>1. CASE UNCHANGED <<spans, co, snap, todo, disk>>
  BY <1>1 DEF Honest, disk
<1>2. QED
  BY <1>1, StartHonest, HandedHonest, ConnHonest, SnapshotHonest, CheckpointHonest,
     TruncateHonest, DieHonest
  DEF Next, vars, disk, Rested

-----------------------------------------------------------------------------
LEMMA SyncedNext ==
  ASSUME WorkInv, Honest, Synced, RestartsUndisturbed, [Next]_vars
  PROVE  Synced'
<1>0. TypeOK /\ co \in CoSet
  BY DEF WorkInv, FullInv, IInv, TypeOK
<1>1. ASSUME UNCHANGED <<snap, sidecar, durable>>, written \subseteq written',
             co.pc # "truncated", co'.pc = "save" => co.pc = "save"
      PROVE  Synced'
  BY <1>1 DEF Synced
<1>2. CASE StartRun
  <2>1. co'.pc \in {"done", "loop"}
    BY <1>2 DEF StartRun
  <2>2. QED BY <1>1, <1>2, <2>1 DEF StartRun, disk
<1>3. ASSUME NEW c \in Conns, StartHanded(c)
      PROVE  Synced'
  BY <1>1, <1>3 DEF StartHanded, disk
<1>4. ASSUME NEW c \in Conns, Spawn(c) \/ ConnStep(c)
      PROVE  Synced'
  BY <1>4, ConnFiles DEF Synced
<1>5. CASE Snapshot \/ Drained \/ JoinFailed
  <2>1. /\ co.pc = "loop" /\ co'.pc = "sync"
        /\ UNCHANGED <<sidecar, written, durable>>
    BY <1>0, <1>5 DEF Snapshot, Drained, JoinFailed, disk, CoSet
  <2>2. QED BY <2>1 DEF Synced
<1>6. CASE SyncOk
  <2>1. /\ co'.pc = "save" /\ co.pc = "sync" /\ durable' = written
        /\ UNCHANGED <<snap, sidecar, written>>
    BY <1>0, <1>6 DEF SyncOk, CoSet
  <2>2. Range(Offset, Total) \ Cover(snap) \subseteq written
        /\ Range(Offset, Total) \ Cover(sidecar) \subseteq written
    BY <2>1, KeptBytes DEF Honest
  <2>3. QED BY <2>1, <2>2 DEF Synced
<1>7. CASE SyncFails \/ Save
  <2>1. /\ co.pc \in {"sync", "save"} /\ AfterCheckpoint(co.result)
        /\ UNCHANGED <<written, durable>>
        /\ sidecar' = sidecar \/ (sidecar' = snap /\ co.pc = "save")
    BY <1>7 DEF SyncFails, Save, disk
  <2>2. co'.pc \in {"loop", "done", "truncate", "idle"}
    BY <1>0, <2>1, AfterCheckpointCo
  <2>3. QED BY <2>1, <2>2 DEF Synced
<1>8. CASE Truncate
  <2>1. co'.pc = "truncated" /\ durable' = {} /\ written' = {}
    BY <1>0, <1>8 DEF Truncate, CoSet
  <2>2. QED BY <2>1 DEF Synced
<1>9. CASE SaveTruncated
  <2>1. "save" \notin Faults
    BY <1>9, Undisturbed DEF WorkInv, SaveTruncated
  <2>2. /\ sidecar' = {<<0, Total>>} /\ co' = [pc |-> "idle", result |-> "retry"]
        /\ UNCHANGED <<written, durable>>
    BY <1>9, <2>1 DEF SaveTruncated, Honest
  <2>3. Range(Offset, Total) \ Cover(sidecar') = {}
    BY <2>2, ConstantsAssumption DEF Cover, Bytes, Range, ConstantsAssumption
  <2>4. QED BY <2>2, <2>3 DEF Synced
<1>10. CASE Kill \/ PowerCut
  <2>1. Die /\ durable' = durable /\ durable \subseteq written'
    BY <1>10 DEF Kill, PowerCut, Synced
  <2>2. co'.pc = "idle" /\ sidecar' = sidecar /\ co.pc # "truncated"
    BY <1>10, <2>1, Undisturbed DEF Die, WorkInv, Kill, PowerCut
  <2>3. QED BY <2>1, <2>2 DEF Synced
<1>11. CASE UNCHANGED <<co, snap, disk>>
  BY <1>11 DEF Synced, disk
<1>12. QED
  BY <1>2, <1>3, <1>4, <1>5, <1>6, <1>7, <1>8, <1>9, <1>10, <1>11
  DEF Next, vars, disk, Rested

\* The inductive invariant about the file.
LEMMA FileInvHolds == Spec => []FileInv
<1>1. Init => FileInv
  <2>1. /\ Kept \ Cover({<<Offset, Total>>}) \subseteq Range(0, Offset)
        /\ Range(Offset, Total) \ Cover({<<Offset, Total>>}) = {}
    BY ConstantsAssumption DEF Kept, Cover, Range, Bytes, ConstantsAssumption
  <2>2. ASSUME Init PROVE Honest /\ Synced
    <3>1. /\ co.pc = "switch" /\ todo = {<<Offset, Total>>} /\ sidecar = {<<Offset, Total>>}
          /\ written = Range(0, Offset) /\ durable = {}
      BY <2>2 DEF Init
    <3>2. QED BY <2>1, <3>1 DEF Honest, Synced
  <2>3. QED BY <2>2 DEF FileInv
<1>2. WorkInv /\ FileInv /\ [Next]_vars => FileInv'
  BY HonestNext, SyncedNext DEF FileInv, RestartsUndisturbed
<1>3. QED BY <1>1, <1>2, WorkInvHolds, PTL DEF Spec

\* A run that returns Ok has every byte in the file, provided no power cut
\* can take the prefix the run did not fetch.
THEOREM OkIsComplete ==
  ASSUME RestartsUndisturbed, PrefixSafe
  PROVE  Spec => []CompleteWhenOk
<1>1. FileInv => CompleteWhenOk
  BY KeptWhenPrefixSafe DEF FileInv, Honest, CompleteWhenOk
<1>2. QED BY <1>1, FileInvHolds, PTL

\* Whenever the process may die, what the sidecar does not list is in the file.
THEOREM DoneIsWritten ==
  ASSUME RestartsUndisturbed, PrefixSafe
  PROVE  Spec => []UnwrittenNeverDone
<1>1. FileInv => UnwrittenNeverDone
  BY KeptWhenPrefixSafe DEF FileInv, Honest, UnwrittenNeverDone
<1>2. QED BY <1>1, FileInvHolds, PTL

\* Both, whatever the servers refuse and however often the file is started over.
THEOREM RestartsLoseNothing ==
  ASSUME RestartsUndisturbed, PrefixSafe
  PROVE  Spec => []RestartsAreSafe
<1>1. CompleteWhenOk /\ UnwrittenNeverDone => RestartsAreSafe
  BY DEF RestartsAreSafe
<1>2. QED BY <1>1, OkIsComplete, DoneIsWritten, PTL

\* What this run fetched and the sidecar no longer lists is on the disk, power
\* cuts included, whatever the sequential attempt left unsynced.
THEOREM DoneIsDurable ==
  ASSUME RestartsUndisturbed
  PROVE  Spec => []DroppedIsDurable
<1>1. FileInv => DroppedIsDurable
  BY DEF FileInv, Synced, DroppedIsDurable
<1>2. QED BY <1>1, FileInvHolds, PTL

-----------------------------------------------------------------------------
\* The steps of SegmentedFetch as steps of ResumableFile.
FileVars == <<Cover(sidecar), written, durable, Phase>>

LEMMA CoverIsBytes == Cover({<<0, Total>>}) = Bytes
BY ConstantsAssumption DEF Cover, Bytes, ConstantsAssumption

\* Nothing the file knows of moves: a stutter.
LEMMA FileStutters ==
  ASSUME UNCHANGED disk, co.pc \notin {"truncated", "done"}, co'.pc \notin {"truncated", "done"}
  PROVE  UNCHANGED FileVars
BY DEF disk, FileVars, Phase

\* Bytes that land in the file, from a task of the run or from one it gave up.
LEMMA ConnRefines ==
  ASSUME WorkInv, WorkInv', NEW c \in Conns, Spawn(c) \/ ConnStep(c)
  PROVE  File!Write
<1>1. UNCHANGED <<co, sidecar, durable>> /\ written \subseteq written'
  BY ConnFiles
<1>2. written' \in SUBSET Bytes
  BY DEF WorkInv, FullInv, IInv, TypeOK
<1>3. QED BY <1>1, <1>2 DEF File!Write, Phase

\* The end of a checkpoint records the list, and whether the file is whole.
LEMMA CheckpointRefines ==
  ASSUME WorkInv, WorkInv', Honest, Honest', Synced, Synced', SyncFails \/ Save
  PROVE  File!Record
<1>1. /\ co.pc \in {"sync", "save"} /\ UNCHANGED <<written, durable>>
      /\ AfterCheckpoint(co.result)
  BY DEF SyncFails, Save, disk
<1>2. co'.pc \in {"loop", "done", "truncate", "idle"}
  BY <1>1, AfterCheckpointCo DEF WorkInv, FullInv, IInv
<1>3. Cover(sidecar') \in SUBSET Bytes /\ Range(Offset, Total) \ Cover(sidecar') \subseteq durable
  BY <1>1, <1>2 DEF Synced, Cover
<1>4. co'.pc = "done" => Range(Offset, Total) \subseteq written
  BY <1>1, KeptBytes DEF Honest
<1>5. Phase = "open" /\ Phase' = IF co'.pc = "done" THEN "done" ELSE "open"
  BY <1>1, <1>2 DEF Phase
<1>6. QED BY <1>1, <1>3, <1>4, <1>5 DEF File!Record

LEMMA StartRefines ==
  ASSUME WorkInv, Honest', Synced, StartRun
  PROVE  File!Record
<1>1. co.pc = "idle" /\ co'.pc \in {"done", "loop"} /\ UNCHANGED disk
  BY DEF StartRun
<1>2. Cover(sidecar') = Cover(sidecar) /\ Cover(sidecar') \in SUBSET Bytes
  BY <1>1 DEF disk, Cover
<1>3. Range(Offset, Total) \ Cover(sidecar) \subseteq durable
  BY <1>1 DEF Synced
<1>4. co'.pc = "done" => Range(Offset, Total) \subseteq written
  BY <1>1, KeptBytes DEF Honest, disk
<1>5. Phase = "open" /\ Phase' = IF co'.pc = "done" THEN "done" ELSE "open"
  BY <1>1 DEF Phase
<1>6. QED BY <1>1, <1>2, <1>3, <1>4, <1>5 DEF File!Record, disk

LEMMA RestartRefines ==
  ASSUME WorkInv, Honest, RestartsUndisturbed, Truncate \/ SaveTruncated
  PROVE  File!Empty \/ File!Relist
<1>1. TypeOK /\ co \in CoSet
  BY DEF WorkInv, FullInv, IInv, TypeOK
<1>2. CASE Truncate
  <2>1. co.pc = "truncate" /\ co'.pc = "truncated" /\ UNCHANGED sidecar
        /\ written' = {} /\ durable' = {}
    BY <1>1, <1>2 DEF Truncate, CoSet
  <2>2. QED BY <2>1 DEF File!Empty, Phase
<1>3. CASE SaveTruncated
  <2>1. "save" \notin Faults /\ co.pc = "truncated"
    BY <1>3, Undisturbed DEF WorkInv, SaveTruncated
  <2>2. /\ sidecar' = {<<0, Total>>} /\ co'.pc = "idle"
        /\ UNCHANGED <<written, durable>>
    BY <1>3, <2>1 DEF SaveTruncated, Honest
  <2>3. Cover(sidecar') = Bytes
    BY <2>2, CoverIsBytes
  <2>4. QED BY <2>1, <2>2, <2>3 DEF File!Relist, Phase
<1>4. QED BY <1>2, <1>3

LEMMA DieRefines ==
  ASSUME WorkInv, Synced, RestartsUndisturbed, Kill \/ PowerCut
  PROVE  File!Crash
<1>1. /\ co.pc # "done" /\ co'.pc = "idle" /\ UNCHANGED <<sidecar, durable>>
  BY DEF Kill, PowerCut, Die
<1>2. co.pc # "truncated"
  BY Undisturbed DEF WorkInv, Kill, PowerCut
<1>3. written' \in SUBSET written /\ durable \subseteq written'
  BY DEF Kill, PowerCut, Synced
<1>4. QED BY <1>1, <1>2, <1>3 DEF File!Crash, Phase

LEMMA StepRefines ==
  ASSUME RestartsUndisturbed, WorkInv, WorkInv', FileInv, FileInv', [Next]_vars
  PROVE  [File!Next]_(File!vars)
<1>0. /\ Honest /\ Honest' /\ Synced /\ Synced' /\ co \in CoSet
      /\ File!vars = FileVars /\ (File!vars)' = FileVars'
  BY DEF FileInv, RestartsUndisturbed, WorkInv, FullInv, IInv, TypeOK, File!vars, FileVars
<1>1. CASE StartRun
  BY <1>0, <1>1, StartRefines DEF File!Next
<1>2. ASSUME NEW c \in Conns, StartHanded(c) PROVE UNCHANGED FileVars
  BY <1>2, FileStutters DEF StartHanded
<1>3. ASSUME NEW c \in Conns, Spawn(c) \/ ConnStep(c) PROVE File!Write
  BY <1>3, ConnRefines
<1>4. CASE Snapshot \/ Drained \/ JoinFailed
  <2>1. co.pc = "loop" /\ co'.pc = "sync" /\ UNCHANGED disk
    BY <1>0, <1>4 DEF Snapshot, Drained, JoinFailed, CoSet
  <2>2. QED BY <1>0, <2>1, FileStutters
<1>5. CASE SyncOk
  <2>1. co.pc = "sync" /\ co'.pc = "save" /\ durable' = written /\ UNCHANGED <<sidecar, written>>
    BY <1>0, <1>5 DEF SyncOk, CoSet
  <2>2. File!Sync
    BY <2>1 DEF File!Sync, Phase
  <2>3. QED BY <2>2 DEF File!Next
<1>6. CASE SyncFails \/ Save
  BY <1>0, <1>6, CheckpointRefines DEF File!Next
<1>7. CASE Truncate \/ SaveTruncated
  BY <1>0, <1>7, RestartRefines DEF File!Next
<1>8. CASE Kill \/ PowerCut
  BY <1>0, <1>8, DieRefines DEF File!Next
<1>9. CASE UNCHANGED <<co, disk>>
  BY <1>0, <1>9 DEF FileVars, disk, Phase
<1>10. CASE \E c \in Conns : StartHanded(c)
  BY <1>0, <1>2, <1>10
<1>11. CASE \E c \in Conns : Spawn(c) \/ ConnStep(c)
  BY <1>3, <1>11 DEF File!Next
<1>12. QED
  BY <1>1, <1>4, <1>5, <1>6, <1>7, <1>8, <1>9, <1>10, <1>11 DEF Next, vars, disk, Rested

LEMMA InitRefines == Init => File!Init
<1>1. ASSUME Init PROVE File!Init
  <2>1. /\ sidecar = {<<Offset, Total>>} /\ written = Range(0, Offset)
        /\ durable = {} /\ co.pc = "switch"
    BY <1>1 DEF Init
  <2>2. Cover({<<Offset, Total>>}) = Range(Offset, Total)
        /\ Range(0, Offset) = Bytes \ Range(Offset, Total)
    BY ConstantsAssumption DEF Cover, Range, Bytes, ConstantsAssumption
  <2>3. QED BY <2>1, <2>2 DEF File!Init, Phase
<1>2. QED BY <1>1

\* Several connections, a coordinator and a sidecar implement a resumable
\* file, for any file and any number of connections and servers.
THEOREM ImplementsResumableFile ==
  ASSUME RestartsUndisturbed
  PROVE  Spec => IsResumableFile
<1>1. WorkInv /\ WorkInv' /\ FileInv /\ FileInv' /\ [Next]_vars => [File!Next]_(File!vars)
  BY StepRefines
<1>2. QED
  BY <1>1, InitRefines, WorkInvHolds, FileInvHolds, PTL DEF Spec, IsResumableFile, File!Spec
=============================================================================
