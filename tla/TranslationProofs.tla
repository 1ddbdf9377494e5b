------------------------- MODULE TranslationProofs -------------------------
(***************************************************************************)
(* That a translated stream loses no fragment and moves no call, that its  *)
(* frames are where the client's protocol wants them, and that it ends     *)
(* once: for every number of fragments and items and every set of roads.   *)
(* The lemmas follow the parts of TranslationInvariant in their order.     *)
(***************************************************************************)
EXTENDS TranslationInvariant, SubsequenceProofs

(* --------------------------------- lists ------------------------------- *)

LEMMA TailIs ==
  ASSUME NEW T, NEW s \in Seq(T), s # <<>>
  PROVE  /\ Len(s) \in Nat \ {0} /\ DOMAIN s = 1 .. Len(s)
         /\ Head(s) = s[1] /\ Head(s) \in T /\ 1 \in DOMAIN s
         /\ Tail(s) \in Seq(T) /\ Len(Tail(s)) = Len(s) - 1 /\ DOMAIN Tail(s) = 1 .. Len(s) - 1
         /\ \A n \in DOMAIN Tail(s) : n + 1 \in DOMAIN s /\ Tail(s)[n] = s[n + 1]
         /\ \A n \in DOMAIN s : n = 1 \/ (n - 1 \in DOMAIN Tail(s) /\ s[n] = Tail(s)[n - 1])
<1>1. Len(s) \in Nat \ {0} /\ DOMAIN s = 1 .. Len(s) /\ Head(s) = s[1] /\ \A n \in DOMAIN s : s[n] \in T
  OBVIOUS
<1>2. Tail(s) \in Seq(T) /\ Len(Tail(s)) = Len(s) - 1 /\ DOMAIN Tail(s) = 1 .. Len(s) - 1
  OBVIOUS
<1>3. \A n \in DOMAIN Tail(s) : Tail(s)[n] = s[n + 1]
  OBVIOUS
<1> DEFINE t == Tail(s)
<1> QED
  BY <1>1, <1>2, <1>3

LEMMA AppendIs ==
  ASSUME NEW T, NEW s \in Seq(T), NEW x \in T
  PROVE  /\ Len(s) \in Nat /\ DOMAIN s = 1 .. Len(s)
         /\ Append(s, x) \in Seq(T) /\ Len(Append(s, x)) = Len(s) + 1
         /\ DOMAIN Append(s, x) = 1 .. Len(s) + 1
         /\ \A n \in DOMAIN s : Append(s, x)[n] = s[n]
         /\ Append(s, x)[Len(s) + 1] = x
OBVIOUS

LEMMA PieceIs ==
  ASSUME NEW k \in Kinds, NEW i \in Nat
  PROVE  /\ Piece(k, i) \in UpFrames /\ Piece(k, i).f = "piece" /\ Piece(k, i).k = k /\ Piece(k, i).i = i
         /\ Opens(k, i) \in UpFrames /\ Opens(k, i).f = "open" /\ Opens(k, i).k = k /\ Opens(k, i).i = i
BY DEF Piece, Opens, Sends, UpFrames, FrameNames

LEMMA Spoken ==
  ASSUME Typed, Speaking
  PROVE  \E frame \in UpFrames : Talks(frame)
<1> USE DEF Typed, IsUp
<1>0. IsUp(up) /\ Len(up.items) \in Nat
  BY DEF IsUp
<1>1. CASE ChatText
  <2>1. PICK k \in {"Thinking", "Text"} :
          Says(Piece(k, 0), [Sent EXCEPT !.text = k,
                              !.orderly = @ /\ up.items = <<>> /\ up.text \in {"none", k}])
    BY <1>1 DEF ChatText
  <2>2. Piece(k, 0) \in UpFrames /\ Piece(k, 0).f = "piece" /\ Piece(k, 0).k = k /\ Piece(k, 0).i = 0
    BY PieceIs DEF Kinds
  <2>3. Text1(Piece(k, 0))
    BY <1>1, <2>1, <2>2 DEF Text1, Says, Sent, ChatText
  <2>4. IsUp(up')
    BY <1>1, <2>1, TranslationAssumption DEF Says, Sent, ChatText, IsUp
  <2> QED
    BY <1>1, <2>1, <2>2, <2>3, <2>4 DEF Talks, Says, Sent, Live, ChatText
<1>2. CASE ChatCall
  <2>1. PICK s \in 0 .. Newest + 1 :
          s < MaxItems /\ Says(Piece("ToolCall", s),
               [Sent EXCEPT !.items = IF s > Newest THEN Append(@, "ToolCall") ELSE @,
                            !.orderly = @ /\ s >= Newest])
    BY <1>2 DEF ChatCall
  <2>0. s \in Nat /\ s \in Slots /\ s <= Len(up.items) /\ (s > Newest <=> s >= Len(up.items)) /\ Newest = Len(up.items) - 1
    BY <2>1, <1>0, TranslationAssumption DEF Slots, Newest
  <2>2. /\ Piece("ToolCall", s) \in UpFrames /\ Piece("ToolCall", s).f = "piece"
        /\ Piece("ToolCall", s).k = "ToolCall" /\ Piece("ToolCall", s).i = s
    BY <2>0, PieceIs DEF Kinds
  <2>3. Call1(Piece("ToolCall", s))
    <3>1. /\ up'.items = IF s > Newest THEN Append(up.items, "ToolCall") ELSE up.items
          /\ up'.sent = up.sent + 1 /\ up'.text = up.text /\ up'.begun /\ up'.open = up.open
          /\ up'.stopped = up.stopped /\ up'.marked = up.marked /\ (up'.orderly => s >= Newest)
      BY <2>1 DEF Says, Sent, IsUp
    <3>2. road[1] = "chat" /\ ~up.stopped
      BY <1>2 DEF ChatCall
    <3> HIDE DEF Newest
    <3> QED
      BY <2>0, <2>2, <3>1, <3>2 DEF Call1
  <2>4. up'.items \in Seq(Kinds) /\ Len(up'.items) <= MaxItems /\ Len(up'.items) >= Len(up.items)
    <3>1. "ToolCall" \in Kinds /\ Append(up.items, "ToolCall") \in Seq(Kinds) /\ Len(Append(up.items, "ToolCall")) = Len(up.items) + 1
      BY <1>0, AppendIs DEF Kinds, IsUp
    <3>2. CASE s < Len(up.items)
      BY <1>0, <2>0, <2>2, <2>3, <3>2 DEF IsUp, Call1
    <3>3. CASE s >= Len(up.items)
      <4>1. up'.items = Append(up.items, "ToolCall")
        BY <2>2, <2>3, <3>3 DEF Call1
      <4>2. s + 1 <= MaxItems
        BY <2>0, TranslationAssumption DEF Slots
      <4> QED
        BY <1>0, <2>0, <3>1, <3>3, <4>1, <4>2, TranslationAssumption
    <3> QED
      BY <1>0, <2>0, <3>2, <3>3
  <2>5. IsUp(up')
    <3>1. /\ DOMAIN up' = DOMAIN up /\ up'.sent \in 0 .. MaxPieces /\ up'.over = up.over /\ up'.orderly \in BOOLEAN
          /\ up'.failed = up.failed
      BY <1>2, <2>1, TranslationAssumption DEF Says, Sent, ChatCall, IsUp
    <3> QED
      BY <1>0, <2>3, <2>4, <3>1 DEF IsUp, Call1
  <2> QED
    BY <1>2, <2>1, <2>2, <2>3, <2>5 DEF Talks, Says, Sent, Live, ChatCall
<1>3. CASE Begins
  <2>1. \/ ~up.begun /\ Says(Sends("begin"), [up EXCEPT !.begun = TRUE])
        \/ road[1] = "responses" /\ up.begun /\ Says(Sends("progress"), [up EXCEPT !.orderly = FALSE])
        \/ ~up.begun /\ Says([Sends("begin") EXCEPT !.usage = TRUE], [up EXCEPT !.begun = TRUE])
    BY <1>3 DEF Begins
  <2>2. /\ Sends("begin") \in UpFrames /\ Sends("begin").f = "begin"
        /\ Sends("progress") \in UpFrames /\ Sends("progress").f = "progress"
        /\ [Sends("begin") EXCEPT !.usage = TRUE] \in UpFrames /\ [Sends("begin") EXCEPT !.usage = TRUE].f = "begin"
    BY DEF Sends, UpFrames, FrameNames, Kinds
  <2>3. CASE ~up.begun /\ Says(Sends("begin"), [up EXCEPT !.begun = TRUE])
    <3>1. Begins1(Sends("begin"))
      BY <1>3, <2>2, <2>3 DEF Begins1, Rests, Says, Begins
    <3> QED
      BY <1>3, <2>2, <2>3, <3>1 DEF Talks, Says, Live, Begins
  <2>4. CASE road[1] = "responses" /\ up.begun /\ Says(Sends("progress"), [up EXCEPT !.orderly = FALSE])
    <3>1. Begins1(Sends("progress"))
      BY <1>3, <2>2, <2>4 DEF Begins1, Rests, Says, Begins
    <3> QED
      BY <1>3, <2>2, <2>4, <3>1 DEF Talks, Says, Live, Begins
  <2>5. CASE ~up.begun /\ Says([Sends("begin") EXCEPT !.usage = TRUE], [up EXCEPT !.begun = TRUE])
    <3>1. Begins1([Sends("begin") EXCEPT !.usage = TRUE])
      BY <1>3, <2>2, <2>5 DEF Begins1, Rests, Says, Begins
    <3> QED
      BY <1>3, <2>2, <2>5, <3>1 DEF Talks, Says, Live, Begins
  <2> QED
    BY <2>1, <2>3, <2>4, <2>5
<1>4. CASE Item
  <2>1. PICK k \in Kinds : Says(Opens(k, Newest + 1), [up EXCEPT !.items = Append(@, k), !.open = TRUE])
    BY <1>4 DEF Item
  <2>0. Newest + 1 = Len(up.items) /\ Newest + 1 \in Nat
    BY <1>0 DEF Newest
  <2>2. /\ Opens(k, Newest + 1) \in UpFrames /\ Opens(k, Newest + 1).f = "open"
        /\ Opens(k, Newest + 1).k = k /\ Opens(k, Newest + 1).i = Len(up.items)
    BY <2>0, PieceIs
  <2>3. Item1(Opens(k, Newest + 1))
    BY <1>4, <2>1, <2>2 DEF Item1, Says, Item
  <2>4. up'.items \in Seq(Kinds) /\ Len(up'.items) <= MaxItems /\ Len(up'.items) > 0
    <3>1. Append(up.items, k) \in Seq(Kinds) /\ Len(Append(up.items, k)) = Len(up.items) + 1
      BY <1>0, AppendIs DEF IsUp
    <3> QED
      BY <1>0, <1>4, <2>2, <2>3, <3>1, TranslationAssumption DEF IsUp, Item1, Item
  <2>5. IsUp(up')
    <3>1. /\ DOMAIN up' = DOMAIN up /\ up'.over = up.over /\ up'.orderly \in BOOLEAN /\ up'.failed = up.failed
      BY <1>4, <2>1 DEF Says, Item, IsUp
    <3> QED
      BY <1>0, <2>3, <2>4, <3>1 DEF IsUp, Item1
  <2> QED
    BY <1>4, <2>1, <2>2, <2>3, <2>5 DEF Talks, Says, Live, Item
<1>5. CASE ItemPiece
  <2> DEFINE k == up.items[Newest + 1]
  <2>1. Says(Piece(k, Newest), Sent) /\ up.open
    BY <1>5 DEF ItemPiece
  <2>2. k \in Kinds /\ Newest \in Nat /\ Newest = Len(up.items) - 1 /\ k = up.items[Len(up.items)]
    BY <1>0, <2>1 DEF Newest, IsUp
  <2> HIDE DEF k
  <2>3. /\ Piece(k, Newest) \in UpFrames /\ Piece(k, Newest).f = "piece"
        /\ Piece(k, Newest).k = k /\ Piece(k, Newest).i = Newest
    BY <2>2, PieceIs
  <2>4. Piece1(Piece(k, Newest))
    BY <1>5, <2>1, <2>2, <2>3 DEF Piece1, Says, Sent, ItemPiece
  <2>5. IsUp(up')
    <3>1. up'.sent = up.sent + 1 /\ DOMAIN up' = DOMAIN up /\ up'.over = up.over /\ up'.orderly \in BOOLEAN /\ up'.failed = up.failed
      BY <1>5, <2>1 DEF Says, Sent, ItemPiece, IsUp
    <3>2. up'.sent \in 0 .. MaxPieces
      BY <1>0, <1>5, <3>1, TranslationAssumption DEF IsUp, ItemPiece
    <3> QED
      BY <1>0, <2>3, <2>4, <3>1, <3>2 DEF IsUp, Piece1
  <2> QED
    BY <1>5, <2>1, <2>3, <2>4, <2>5 DEF Talks, Says, Sent, Live, ItemPiece
<1>6. CASE ItemShut
  <2>1. Says(Shuts(Newest), [up EXCEPT !.open = FALSE]) /\ up.open
    BY <1>6 DEF ItemShut
  <2>0. Newest \in Nat /\ Newest = Len(up.items) - 1
    BY <1>0, <2>1 DEF Newest, IsUp
  <2>2. Shuts(Newest) \in UpFrames /\ Shuts(Newest).f = "shut" /\ Shuts(Newest).i = Len(up.items) - 1
    <3> DEFINE i == Newest
    <3>1. i \in Nat /\ i = Len(up.items) - 1
      BY <2>0
    <3> HIDE DEF i
    <3>2. Shuts(i) \in UpFrames /\ Shuts(i).f = "shut" /\ Shuts(i).i = i
      BY <3>1 DEF Shuts, Sends, UpFrames, FrameNames, Kinds
    <3> QED
      BY <3>1, <3>2 DEF i
  <2>3. Shut1(Shuts(Newest))
    BY <1>6, <2>1, <2>2 DEF Shut1, Rests, Says, ItemShut
  <2> QED
    BY <1>6, <2>1, <2>2, <2>3 DEF Talks, Says, Live, ItemShut
<1>7. CASE Stop
  <2>1. PICK u \in BOOLEAN :
          Says(Stops(u), [up EXCEPT !.stopped = TRUE, !.open = FALSE, !.used = u,
                                 !.marked = road[1] = "responses"])
    BY <1>7 DEF Stop
  <2>2. Stops(u) \in UpFrames /\ Stops(u).f = "stop"
    BY DEF Stops, Sends, UpFrames, FrameNames, Kinds
  <2>3. Stop1(Stops(u))
    BY <1>7, <2>1, <2>2 DEF Stop1, Rests, Says, Stop
  <2> QED
    BY <1>7, <2>1, <2>2, <2>3 DEF Talks, Says, Live, Stop
<1>8. CASE LateUsage
  <2>1. Sends("usage") \in UpFrames /\ Sends("usage").f = "usage"
    BY DEF Sends, UpFrames, FrameNames, Kinds
  <2>2. Other1(Sends("usage"))
    BY <1>8, <2>1 DEF Other1, Rests, Says, LateUsage
  <2> QED
    BY <1>8, <2>1, <2>2 DEF Talks, Says, Live, LateUsage
<1>9. CASE Mark
  <2>1. Sends("mark") \in UpFrames /\ Sends("mark").f = "mark"
    BY DEF Sends, UpFrames, FrameNames, Kinds
  <2>2. Other1(Sends("mark"))
    BY <1>9, <2>1 DEF Other1, Rests, Says, Mark
  <2> QED
    BY <1>9, <2>1, <2>2 DEF Talks, Says, Live, Mark
<1>10. CASE Errs
  <2>1. /\ Sends("error") \in UpFrames /\ Sends("error").f = "error"
        /\ Sends("failed") \in UpFrames /\ Sends("failed").f = "failed"
    BY DEF Sends, UpFrames, FrameNames, Kinds
  <2>2. CASE Says(Sends("error"), [up EXCEPT !.failed = TRUE, !.orderly = @ /\ ~up.marked])
    <3>1. Other1(Sends("error"))
      BY <1>10, <2>1, <2>2 DEF Other1, Rests, Says
    <3> QED
      BY <1>10, <2>1, <2>2, <3>1 DEF Talks, Says, Live
  <2>3. CASE road[1] = "responses" /\ ~up.marked /\ Says(Sends("failed"), [up EXCEPT !.failed = TRUE, !.stopped = TRUE])
    <3>1. Other1(Sends("failed"))
      BY <1>10, <2>1, <2>3 DEF Other1, Rests, Says
    <3> QED
      BY <1>10, <2>1, <2>3, <3>1 DEF Talks, Says, Live
  <2> QED
    BY <1>10, <2>2, <2>3 DEF Errs
<1> QED
  BY <1>1, <1>2, <1>3, <1>4, <1>5, <1>6, <1>7, <1>8, <1>9, <1>10 DEF Speaking

LEMMA Leaving ==
  ASSUME Typed, Leaves
  PROVE  Quits
BY DEF Typed, IsUp, Leaves, Quits, Rests, Live

(* ------------------------------- the parser ---------------------------- *)

LEMMA ConcatIs ==
  ASSUME NEW a \in Seq(EventsOf), NEW b \in Seq(EventsOf)
  PROVE  /\ a \o b \in Seq(EventsOf) /\ Len(a \o b) = Len(a) + Len(b)
         /\ \A n \in DOMAIN (a \o b) :
              \/ n \in DOMAIN a /\ (a \o b)[n] = a[n]
              \/ n > Len(a) /\ n - Len(a) \in DOMAIN b /\ (a \o b)[n] = b[n - Len(a)]
         /\ \A n \in DOMAIN a : n \in DOMAIN (a \o b) /\ (a \o b)[n] = a[n]
         /\ \A n \in DOMAIN b : n + Len(a) \in DOMAIN (a \o b) /\ (a \o b)[n + Len(a)] = b[n]
<1>1. /\ Len(a) \in Nat /\ Len(b) \in Nat /\ DOMAIN a = 1 .. Len(a) /\ DOMAIN b = 1 .. Len(b)
      /\ a \o b \in Seq(EventsOf) /\ Len(a \o b) = Len(a) + Len(b) /\ DOMAIN (a \o b) = 1 .. Len(a) + Len(b)
  OBVIOUS
<1>2. \A n \in 1 .. Len(a) + Len(b) : (a \o b)[n] = IF n <= Len(a) THEN a[n] ELSE b[n - Len(a)]
  OBVIOUS
<1> DEFINE c == a \o b
<1>3. c = a \o b
  OBVIOUS
<1> HIDE DEF c
<1>4. \A n \in DOMAIN c :
        \/ n \in DOMAIN a /\ c[n] = a[n]
        \/ n > Len(a) /\ n - Len(a) \in DOMAIN b /\ c[n] = b[n - Len(a)]
  BY <1>1, <1>2, <1>3
<1>5. \A n \in DOMAIN a : n \in DOMAIN c /\ c[n] = a[n]
  BY <1>1, <1>2, <1>3
<1>6. \A n \in DOMAIN b : n + Len(a) \in DOMAIN c /\ c[n + Len(a)] = b[n]
  BY <1>1, <1>2, <1>3
<1> QED
  BY <1>1, <1>3, <1>4, <1>5, <1>6

\* The members of two lists, one behind the other.
LEMMA Joined ==
  ASSUME NEW a \in Seq(EventsOf), NEW b \in Seq(EventsOf), NEW A, NEW B, OnlyOf(a, A), OnlyOf(b, B)
  PROVE  /\ OnlyOf(a \o b, A \cup B)
         /\ \A e : Coming(a \o b, e) <=> (Coming(a, e) \/ Coming(b, e))
         /\ (InOrder(a) /\ InOrder(b) /\ A \X B \subseteq Order => InOrder(a \o b))
<1> DEFINE c == a \o b
<1>0. /\ Len(a) \in Nat /\ Len(b) \in Nat /\ DOMAIN a = 1 .. Len(a) /\ DOMAIN b = 1 .. Len(b)
      /\ \A n \in DOMAIN c :
              \/ n \in DOMAIN a /\ c[n] = a[n]
              \/ n > Len(a) /\ n - Len(a) \in DOMAIN b /\ c[n] = b[n - Len(a)]
      /\ \A n \in DOMAIN a : n \in DOMAIN c /\ c[n] = a[n]
      /\ \A n \in DOMAIN b : n + Len(a) \in DOMAIN c /\ c[n + Len(a)] = b[n]
      /\ \A n \in DOMAIN c : n \in Nat
  BY ConcatIs
<1> HIDE DEF c
<1>1. OnlyOf(c, A \cup B)
  BY <1>0 DEF OnlyOf
<1>2. \A e : Coming(c, e) <=> (Coming(a, e) \/ Coming(b, e))
  BY <1>0 DEF Coming
<1>3. ASSUME InOrder(a), InOrder(b), A \X B \subseteq Order
      PROVE  InOrder(c)
  <2> SUFFICES ASSUME NEW m \in DOMAIN c, NEW n \in DOMAIN c, m < n PROVE <<c[m].e, c[n].e>> \in Order
    BY DEF InOrder
  <2>0. m \in Nat /\ n \in Nat
    BY <1>0
  <2>1. CASE n \in DOMAIN a
    <3>1. m \in DOMAIN a /\ c[m] = a[m] /\ c[n] = a[n]
      BY <1>0, <2>0, <2>1
    <3> QED
      BY <1>3, <2>1, <3>1 DEF InOrder
  <2>2. CASE m \in DOMAIN a /\ n \notin DOMAIN a
    <3>1. c[m] = a[m] /\ n - Len(a) \in DOMAIN b /\ c[n] = b[n - Len(a)]
      BY <1>0, <2>2
    <3>2. c[m].e \in A /\ c[n].e \in B
      BY <2>2, <3>1 DEF OnlyOf
    <3> QED
      BY <1>3, <3>2
  <2>3. CASE m \notin DOMAIN a /\ n \notin DOMAIN a
    <3>1. m - Len(a) \in DOMAIN b /\ c[m] = b[m - Len(a)] /\ n - Len(a) \in DOMAIN b /\ c[n] = b[n - Len(a)]
      BY <1>0, <2>3
    <3>2. m - Len(a) < n - Len(a)
      BY <1>0, <2>0
    <3> QED
      BY <1>3, <3>1, <3>2 DEF InOrder
  <2> QED
    BY <2>1, <2>2, <2>3
<1> QED
  BY <1>1, <1>2, <1>3 DEF c

\* Lists that are written down.
LEMMA Written ==
  /\ <<>> \in Seq(EventsOf) /\ InOrder(<<>>) /\ \A es : OnlyOf(<<>>, es) /\ \A e : ~Coming(<<>>, e)
  /\ \A x \in EventsOf : /\ <<x>> \in Seq(EventsOf) /\ InOrder(<<x>>) /\ OnlyOf(<<x>>, {x.e})
                         /\ \A e : Coming(<<x>>, e) <=> e = x.e
  /\ \A e \in EventNames : Happens(e) \in EventsOf /\ Happens(e).e = e
  /\ \A i \in Nat : ItemEnd(i) \in EventsOf /\ ItemEnd(i).e = "ItemEnd" /\ ItemEnd(i).i = i
<1>1. <<>> \in Seq(EventsOf) /\ InOrder(<<>>) /\ \A es : OnlyOf(<<>>, es) /\ \A e : ~Coming(<<>>, e)
  BY DEF InOrder, OnlyOf, Coming
<1>2. ASSUME NEW x \in EventsOf
      PROVE  /\ <<x>> \in Seq(EventsOf) /\ InOrder(<<x>>) /\ OnlyOf(<<x>>, {x.e})
             /\ \A e : Coming(<<x>>, e) <=> e = x.e
  <2>1. <<x>> \in Seq(EventsOf) /\ DOMAIN <<x>> = {1} /\ <<x>>[1] = x
    OBVIOUS
  <2> QED
    BY <2>1 DEF InOrder, OnlyOf, Coming
<1>3. \A e \in EventNames : Happens(e) \in EventsOf /\ Happens(e).e = e
  BY DEF Happens, EventsOf, Someone, Owner, OwnersOf, Kinds
<1>4. \A i \in Nat : ItemEnd(i) \in EventsOf /\ ItemEnd(i).e = "ItemEnd" /\ ItemEnd(i).i = i
  BY DEF ItemEnd, Happens, EventsOf, EventNames, Someone, Owner, OwnersOf, Kinds
<1> QED
  BY <1>1, <1>2, <1>3, <1>4

\* The ends of all that a Chat parser has open.
LEMMA Closings ==
  ASSUME NEW p, IsParser(p)
  PROVE  LET c == CloseAll(p).events IN
         /\ c \in Seq(EventsOf) /\ OnlyOf(c, {"ItemEnd"}) /\ InOrder(c)
         /\ (p.textOpen => \E n \in DOMAIN c : c[n].e = "ItemEnd" /\ c[n].i = 0)
         /\ \A s \in Slots : p.tools[s] # None => \E n \in DOMAIN c : c[n].e = "ItemEnd" /\ c[n].i = p.tools[s]
<1> DEFINE f == [n \in 1 .. MaxItems |-> p.tools[n - 1]]
           k == Keep(f, Nat)
           t == [n \in 1 .. Len(k) |-> ItemEnd(k[n])]
           h == IF p.textOpen THEN <<ItemEnd(0)>> ELSE <<>>
<1>0. MaxItems \in Nat
  BY TranslationAssumption
<1>1. f \in Seq(Nat \cup {None})
  <2>1. \A n \in 1 .. MaxItems : p.tools[n - 1] \in Nat \cup {None}
    BY <1>0 DEF IsParser, Slots
  <2> QED
    BY <1>0, <2>1
<1>2. Len(f) = MaxItems /\ DOMAIN f = 1 .. MaxItems
  BY <1>0
<1>3. k \in Seq(Nat \cup {None}) /\ Elements(k) = Elements(f) \cap Nat
  <2> HIDE DEF f
  <2> QED
    BY <1>1, KeepElements
<1>4. \A n \in 1 .. Len(k) : k[n] \in Nat
  <2> HIDE DEF k
  <2> QED
    BY <1>3 DEF Elements
<1>5. Len(k) \in Nat /\ DOMAIN k = 1 .. Len(k)
  <2> HIDE DEF k
  <2> QED
    BY <1>3
<1>6. t \in Seq(EventsOf) /\ DOMAIN t = 1 .. Len(k) /\ \A n \in DOMAIN t : t[n].e = "ItemEnd" /\ t[n].i = k[n]
  <2> HIDE DEF k
  <2>1. \A n \in 1 .. Len(k) : ItemEnd(k[n]) \in EventsOf /\ ItemEnd(k[n]).e = "ItemEnd" /\ ItemEnd(k[n]).i = k[n]
    BY <1>4, Written
  <2> QED
    BY <1>5, <2>1
<1>7. \A s \in Slots : p.tools[s] # None => \E n \in DOMAIN t : t[n].i = p.tools[s]
  <2> SUFFICES ASSUME NEW s \in Slots, p.tools[s] # None PROVE \E n \in DOMAIN t : t[n].i = p.tools[s]
    OBVIOUS
  <2>1. s + 1 \in 1 .. MaxItems /\ f[s + 1] = p.tools[s] /\ p.tools[s] \in Nat
    BY <1>0 DEF Slots, IsParser
  <2>2. p.tools[s] \in Elements(k)
    BY <1>2, <1>3, <2>1 DEF Elements
  <2> HIDE DEF k, t
  <2> QED
    BY <1>5, <1>6, <2>2 DEF Elements
<1>8. h \in Seq(EventsOf) /\ OnlyOf(h, {"ItemEnd"}) /\ InOrder(h) /\ (p.textOpen => h = <<ItemEnd(0)>>)
  BY Written DEF OnlyOf
<1>9. OnlyOf(t, {"ItemEnd"}) /\ InOrder(t)
  <2> HIDE DEF t
  <2>1. <<"ItemEnd", "ItemEnd">> \in Order
    BY DEF Order
  <2> QED
    BY <1>6, <2>1 DEF OnlyOf, InOrder
<1>10. CloseAll(p).events = h \o t
  BY DEF CloseAll, Result, ToolEnds
<1> DEFINE c == h \o t
<1>11. c \in Seq(EventsOf) /\ OnlyOf(c, {"ItemEnd"}) /\ InOrder(c)
  <2> HIDE DEF h, t
  <2>1. {"ItemEnd"} \X {"ItemEnd"} \subseteq Order
    BY DEF Order
  <2>2. OnlyOf(h \o t, {"ItemEnd"} \cup {"ItemEnd"}) /\ InOrder(h \o t)
    BY <1>6, <1>8, <1>9, <2>1, Joined
  <2>3. h \o t \in Seq(EventsOf)
    BY <1>6, <1>8
  <2> QED
    BY <2>2, <2>3 DEF OnlyOf
<1>12. p.textOpen => \E n \in DOMAIN c : c[n].e = "ItemEnd" /\ c[n].i = 0
  <2> SUFFICES ASSUME p.textOpen PROVE \E n \in DOMAIN c : c[n].e = "ItemEnd" /\ c[n].i = 0
    OBVIOUS
  <2>1. 1 \in DOMAIN h /\ h[1].e = "ItemEnd" /\ h[1].i = 0
    BY Written
  <2> HIDE DEF h, t
  <2>2. h \in Seq(EventsOf) /\ t \in Seq(EventsOf)
    BY <1>6, <1>8
  <2>3. 1 \in DOMAIN (h \o t) /\ (h \o t)[1] = h[1]
    BY ONLY <2>1, <2>2, ConcatIs
  <2> QED
    BY <2>1, <2>3
<1>13. \A s \in Slots : p.tools[s] # None => \E n \in DOMAIN c : c[n].e = "ItemEnd" /\ c[n].i = p.tools[s]
  <2> SUFFICES ASSUME NEW s \in Slots, p.tools[s] # None
               PROVE  \E n \in DOMAIN c : c[n].e = "ItemEnd" /\ c[n].i = p.tools[s]
    OBVIOUS
  <2> HIDE DEF h, t
  <2>1. PICK n \in DOMAIN t : t[n].i = p.tools[s]
    BY <1>7
  <2>2. n + Len(h) \in DOMAIN c /\ c[n + Len(h)] = t[n]
    BY <1>6, <1>8, ConcatIs
  <2> QED
    BY <1>6, <2>1, <2>2
<1> HIDE DEF h, t
<1> QED
  BY <1>10, <1>11, <1>12, <1>13

\* The guard lets a list without a Done pass.
LEMMA GuardPasses ==
  ASSUME NEW r, r.events \in Seq(EventsOf), ~Coming(r.events, "Done"), ~r.parser.done, IsParser(r.parser)
  PROVE  Guard(r).events = r.events /\ Passed(Guard(r).parser, r.parser, r.events)
<1> DEFINE p == r.parser
           fin == p.finished \/ Coming(r.events, "Finish")
           q == Guard(r).parser
<1>1. /\ Tells(r.events, "Done") = FALSE /\ UpTo(r.events) = r.events
      /\ (Tells(r.events, "Finish") <=> Coming(r.events, "Finish"))
  BY DEF Tells, UpTo, Coming
<1>2. r.events \o <<>> \o <<>> = r.events
  OBVIOUS
<1>3. (p.finished \/ Tells(r.events, "Finish")) = fin
  BY <1>1
<1>4. Guard(r).events = r.events /\ q = [p EXCEPT !.finished = fin, !.done = FALSE]
  BY <1>1, <1>2, <1>3 DEF Guard, Result
<1>5. IsParser(p) /\ fin \in BOOLEAN
  BY DEF Coming, IsParser
<1> HIDE DEF p, fin, q
<1>6. SameFields(q, p) /\ q.done = FALSE /\ q.finished = fin
  <2>1. /\ DOMAIN q = DOMAIN p /\ q.started = p.started /\ q.textOpen = p.textOpen /\ q.tools = p.tools
        /\ q.next = p.next /\ q.told = p.told /\ q.done = FALSE /\ q.finished = fin
    BY <1>4, <1>5 DEF IsParser
  <2>2. IsParser(q)
    BY <1>5, <2>1 DEF IsParser
  <2> QED
    BY <2>1, <2>2 DEF SameFields
<1>7. Passed(q, p, r.events)
  BY <1>6 DEF Passed, fin
<1> QED
  BY <1>4, <1>7 DEF p, q

\* It puts a Finish before the Done when there was none.
LEMMA GuardCloses ==
  ASSUME NEW r, NEW a \in Seq(EventsOf), r.events = a \o <<Happens("Done")>>, ~Coming(a, "Done"),
         ~r.parser.done, IsParser(r.parser)
  PROVE  LET finished == r.parser.finished \/ Coming(a, "Finish")
             missing == IF finished THEN <<>> ELSE <<Happens("Finish")>>
         IN /\ Guard(r).events = a \o missing \o <<Happens("Done")>>
            /\ Ended(Guard(r).parser, r.parser)
<1> DEFINE d == Happens("Done")
           c == a \o <<d>>
           n == Len(a)
<1>1. d \in EventsOf /\ d.e = "Done" /\ <<d>> \in Seq(EventsOf) /\ Len(<<d>>) = 1 /\ DOMAIN <<d>> = {1} /\ <<d>>[1] = d
  BY Written DEF EventNames
<1> HIDE DEF d
<1>2. /\ c \in Seq(EventsOf) /\ Len(c) = n + 1 /\ n \in Nat /\ DOMAIN a = 1 .. n /\ DOMAIN c = 1 .. n + 1
      /\ \A m \in 1 .. n : c[m] = a[m]
      /\ c[n + 1] = d
  <2>1. /\ c \in Seq(EventsOf) /\ Len(c) = n + 1 /\ \A m \in DOMAIN a : c[m] = a[m]
        /\ c[1 + n] = d
    BY <1>1, ConcatIs
  <2>2. n \in Nat /\ DOMAIN a = 1 .. n
    OBVIOUS
  <2> HIDE DEF c, n
  <2>3. n + 1 = 1 + n
    BY <2>2
  <2>4. DOMAIN c = 1 .. n + 1
    BY ONLY <2>1
  <2> QED
    BY <2>1, <2>2, <2>3, <2>4
<1> HIDE DEF c
<1>3. {m \in 1 .. Len(c) : c[m].e = "Done"} = {n + 1}
  <2>1. \A m \in 1 .. n : c[m].e # "Done"
    BY <1>2 DEF Coming
  <2> HIDE DEF n
  <2> QED
    BY <1>1, <1>2, <2>1
<1>4. (CHOOSE m \in {n + 1} : \A l \in {n + 1} : m <= l) = n + 1
  <2> HIDE DEF n
  <2> QED
    BY <1>2
<1>5. SubSeq(c, 1, n) = a
  <2> HIDE DEF n
  <2>1. SubSeq(c, 1, n) = [m \in 1 .. n |-> c[m]]
    BY <1>2
  <2>2. a = [m \in 1 .. n |-> a[m]]
    BY <1>2
  <2> QED
    BY <1>2, <2>1, <2>2
<1>6. UpTo(c) = a
  <2>1. (n + 1) - 1 = n
    BY <1>2
  <2>2. {n + 1} # {}
    OBVIOUS
  <2> HIDE DEF n
  <2> QED
    BY <1>3, <1>4, <1>5, <2>1, <2>2 DEF UpTo
<1>7. Tells(c, "Done") = TRUE
  BY <1>1, <1>2 DEF Tells
<1>8. Tells(UpTo(c), "Finish") = Coming(a, "Finish")
  BY <1>6 DEF Tells, Coming
<1>9. r.events = c
  BY DEF c, d
<1> DEFINE p == r.parser
           q == Guard(r).parser
           finished == p.finished \/ Coming(a, "Finish")
           missing == IF finished THEN <<>> ELSE <<Happens("Finish")>>
<1>10. Guard(r).events = a \o missing \o <<d>> /\ q = [p EXCEPT !.finished = TRUE, !.done = TRUE]
  BY <1>6, <1>7, <1>8, <1>9 DEF Guard, Result, d
<1> HIDE DEF missing
<1>11. Ended(q, p)
  <2> HIDE DEF p, q
  <2>0. IsParser(p)
    BY DEF p
  <2>1. /\ DOMAIN q = DOMAIN p /\ q.started = p.started /\ q.textOpen = p.textOpen /\ q.tools = p.tools
        /\ q.next = p.next /\ q.told = p.told /\ q.done = TRUE /\ q.finished = TRUE
    BY <1>10, <2>0 DEF IsParser
  <2>2. IsParser(q)
    BY <2>0, <2>1 DEF IsParser
  <2> QED
    BY <2>1, <2>2 DEF SameFields, Ended
<1> QED
  BY <1>10, <1>11 DEF d, missing

(* What one frame, or the end, does to the parser and gives as events.     *)

LEMMA NewTools ==
  /\ NewParser.tools \in [Slots -> Nat \cup {None}] /\ \A s \in Slots : NewParser.tools[s] = None
BY DEF NewParser, Slots

\* The end of a Chat upstream, marked or not.
LEMMA ChatEnds ==
  ASSUME Typed, Knows, road[1] = "chat", parser' = Finished.parser, events' = Finished.events
  PROVE  /\ Silent \/ Finishes(Sends("mark"))
         /\ IsParser(parser') /\ events' \in Seq(EventsOf)
<1> DEFINE m == Sends("mark")
           r == ChatFinish(parser)
           c == CloseAll(parser)
           fin == <<Happens("Finish")>>
           dn == <<Happens("Done")>>
<1>0. IsParser(parser) /\ m.f = "mark"
  BY DEF Typed, Sends
<1>1. parser' = Guard(r).parser /\ events' = Guard(r).events
  BY DEF Finished
<1>2. /\ fin \in Seq(EventsOf) /\ InOrder(fin) /\ OnlyOf(fin, {"Finish"}) /\ \A e : Coming(fin, e) <=> e = "Finish"
      /\ dn \in Seq(EventsOf) /\ InOrder(dn) /\ OnlyOf(dn, {"Done"}) /\ \A e : Coming(dn, e) <=> e = "Done"
      /\ <<>> \in Seq(EventsOf)
  <2>1. /\ Happens("Finish") \in EventsOf /\ Happens("Finish").e = "Finish"
        /\ Happens("Done") \in EventsOf /\ Happens("Done").e = "Done"
    BY Written DEF EventNames
  <2> DEFINE x == Happens("Finish")
             y == Happens("Done")
  <2> HIDE DEF x, y
  <2>2. <<x>> \in Seq(EventsOf) /\ InOrder(<<x>>) /\ OnlyOf(<<x>>, {x.e}) /\ \A e : Coming(<<x>>, e) <=> e = x.e
    BY <2>1, Written DEF x
  <2>3. <<y>> \in Seq(EventsOf) /\ InOrder(<<y>>) /\ OnlyOf(<<y>>, {y.e}) /\ \A e : Coming(<<y>>, e) <=> e = y.e
    BY <2>1, Written DEF y
  <2> QED
    BY <2>1, <2>2, <2>3, Written DEF x, y
<1>3. /\ c.events \in Seq(EventsOf) /\ OnlyOf(c.events, {"ItemEnd"}) /\ InOrder(c.events)
      /\ (parser.textOpen => \E n \in DOMAIN c.events : c.events[n].e = "ItemEnd" /\ c.events[n].i = 0)
      /\ \A s \in Slots : parser.tools[s] # None => \E n \in DOMAIN c.events : c.events[n].e = "ItemEnd" /\ c.events[n].i = parser.tools[s]
  BY <1>0, Closings
<1>4. c.parser = [parser EXCEPT !.textOpen = FALSE, !.tools = NewParser.tools]
  BY DEF CloseAll, Result
<1>5. IsParser(c.parser) /\ c.parser.textOpen = FALSE /\ c.parser.tools = NewParser.tools
      /\ c.parser.started = parser.started /\ c.parser.next = parser.next /\ c.parser.told = parser.told
      /\ c.parser.finished = parser.finished /\ c.parser.done = parser.done
  BY <1>0, <1>4, NewTools DEF IsParser
<1> HIDE DEF c, fin, dn, m
<1>6. CASE parser.done
  <2>1. r.parser = parser \/ r.parser = c.parser
    BY DEF ChatFinish, Result, c
  <2>2. r.parser.done
    BY <1>5, <1>6, <2>1
  <2>3. parser' = r.parser /\ events' = <<>>
    BY <1>1, <2>2 DEF Guard, Result
  <2>4. IsParser(parser')
    BY <1>0, <1>5, <2>1, <2>3
  <2> QED
    BY <1>2, <1>5, <1>6, <2>1, <2>3, <2>4 DEF Silent, Emptied
<1>7. CASE ~parser.done /\ ~parser.started
  <2>1. r.parser = parser /\ r.events = <<>>
    BY <1>7 DEF ChatFinish, Result
  <2>2. events' = <<>> /\ Passed(parser', parser, <<>>)
    <3>1. r.events \in Seq(EventsOf) /\ ~Coming(r.events, "Done") /\ ~r.parser.done /\ IsParser(r.parser)
      BY <1>0, <1>2, <1>7, <2>1, Written
    <3> HIDE DEF r
    <3>2. Guard(r).events = r.events /\ Passed(Guard(r).parser, r.parser, r.events)
      BY <3>1, GuardPasses
    <3> QED
      BY <1>1, <2>1, <3>2
  <2>3. ~Coming(<<>>, "Finish")
    BY Written
  <2>4. IsParser(parser') /\ parser'.finished = parser.finished /\ parser'.done = parser.done
        /\ parser'.next = parser.next /\ parser'.told = parser.told /\ parser'.tools = parser.tools
        /\ parser'.textOpen = parser.textOpen
    BY <1>0, <1>7, <2>2, <2>3 DEF Passed, SameFields, IsParser
  <2> QED
    BY <1>7, <2>2, <2>4, Written DEF Silent
<1>8. CASE ~parser.done /\ parser.started /\ parser.told
  <2>1. r.parser = parser /\ r.events = <<>> \o dn /\ parser.finished
    BY <1>2, <1>8 DEF ChatFinish, Result, dn, Knows
  <2>2. /\ events' = <<>> \o <<>> \o dn
        /\ Ended(parser', parser)
    <3>1. <<>> \in Seq(EventsOf) /\ ~Coming(<<>>, "Done") /\ ~r.parser.done /\ r.parser.finished /\ IsParser(r.parser)
      BY <1>0, <1>2, <1>8, <2>1, Written
    <3> HIDE DEF r
    <3> QED
      BY <1>1, <2>1, <3>1, GuardCloses DEF dn
  <2>3. events' = dn
    BY <1>2, <2>2
  <2>4. IsParser(parser') /\ parser'.finished = TRUE /\ parser'.done = TRUE
        /\ parser'.next = parser.next /\ parser'.told = parser.told /\ parser'.tools = parser.tools
        /\ parser'.textOpen = parser.textOpen /\ parser'.started = parser.started
    BY <2>2 DEF Ended, SameFields, IsParser
  <2>5. StartsBy(m)
    BY <1>2, <2>3, <2>4 DEF StartsBy
  <2>6. Finishes(m)
    BY <1>0, <1>2, <1>8, <2>1, <2>3, <2>4, <2>5 DEF Finishes, OnlyOf
  <2> QED
    BY <1>2, <2>3, <2>4, <2>6 DEF m
<1>9. CASE ~parser.done /\ parser.started /\ ~parser.told
  <2> DEFINE a == c.events \o fin
  <2>1. /\ a \in Seq(EventsOf) /\ OnlyOf(a, {"ItemEnd", "Finish"}) /\ InOrder(a)
        /\ \A e : Coming(a, e) <=> (Coming(c.events, e) \/ e = "Finish")
    <3>1. {"ItemEnd"} \X {"Finish"} \subseteq Order
      BY DEF Order
    <3>2. OnlyOf(a, {"ItemEnd"} \cup {"Finish"}) /\ InOrder(a) /\ \A e : Coming(a, e) <=> (Coming(c.events, e) \/ Coming(fin, e))
      BY <1>2, <1>3, <3>1, Joined
    <3>3. a \in Seq(EventsOf)
      BY <1>2, <1>3, ConcatIs
    <3> QED
      BY <1>2, <3>2, <3>3 DEF OnlyOf
  <2>2. ~Coming(c.events, "Done") /\ ~Coming(c.events, "Start") /\ Coming(a, "Finish") /\ ~Coming(a, "Done") /\ ~Coming(a, "Start")
    BY <1>3, <2>1 DEF OnlyOf, Coming
  <2>3. r.events = a \o dn /\ r.parser = c.parser /\ ~parser.finished
    <3>1. r.events = c.events \o <<Happens("Finish"), Happens("Done")>> /\ r.parser = c.parser
      BY <1>9 DEF ChatFinish, Result, c, CloseAll
    <3>2. <<Happens("Finish"), Happens("Done")>> = fin \o dn
      BY DEF fin, dn
    <3> DEFINE ce == c.events
               S == Seq(EventsOf)
    <3>5. ce \in S /\ fin \in S /\ dn \in S
      BY <1>2, <1>3
    <3>4. ce \o <<Happens("Finish"), Happens("Done")>> = ce \o (fin \o dn)
      BY <3>2, Zenon
    <3> HIDE DEF ce
    <3>3. ce \o (fin \o dn) = (ce \o fin) \o dn
      <4> HIDE DEF fin, dn, S
      <4> QED
        BY ONLY <3>5, ConcatAssociative, SMTT(30) DEF S
    <3>6. r.events = (ce \o fin) \o dn
      <4> HIDE DEF r
      <4> QED
        BY <3>1, <3>3, <3>4 DEF ce
    <3> QED
      BY <1>9, <3>1, <3>6 DEF Knows, ce
  <2> DEFINE b == a \o dn
  <2>4. /\ b \in Seq(EventsOf) /\ OnlyOf(b, {"ItemEnd", "Finish", "Done"}) /\ InOrder(b)
        /\ \A e : Coming(b, e) <=> (Coming(a, e) \/ e = "Done")
        /\ \A n \in DOMAIN c.events : n \in DOMAIN b /\ b[n] = c.events[n]
    <3>1. {"ItemEnd", "Finish"} \X {"Done"} \subseteq Order
      BY DEF Order
    <3>2. \A n \in DOMAIN c.events : n \in DOMAIN a /\ a[n] = c.events[n]
      BY <1>2, <1>3, ConcatIs
    <3> HIDE DEF a
    <3> DEFINE A == {"ItemEnd", "Finish"}
               B == {"Done"}
    <3>0. OnlyOf(a, A) /\ OnlyOf(dn, B) /\ A \X B \subseteq Order
      <4>1. OnlyOf(a, A)
        BY <2>1, Zenon
      <4>2. OnlyOf(dn, B)
        BY <1>2, Zenon
      <4> QED
        BY <3>1, <4>1, <4>2
    <3> HIDE DEF A, B
    <3>5. OnlyOf(b, A \cup B) /\ InOrder(b) /\ \A e : Coming(b, e) <=> (Coming(a, e) \/ Coming(dn, e))
      BY <1>2, <2>1, <3>0, Joined
    <3>3. OnlyOf(b, {"ItemEnd", "Finish"} \cup {"Done"}) /\ InOrder(b) /\ \A e : Coming(b, e) <=> (Coming(a, e) \/ Coming(dn, e))
      BY <3>5 DEF A, B
    <3>4. b \in Seq(EventsOf) /\ \A n \in DOMAIN a : n \in DOMAIN b /\ b[n] = a[n]
      BY <1>2, <2>1, ConcatIs
    <3> QED
      BY <1>2, <3>2, <3>3, <3>4 DEF OnlyOf
  <2>5. events' = b /\ Ended(parser', c.parser)
    <3>1. ~r.parser.done /\ IsParser(r.parser)
      BY <1>5, <1>9, <2>3
    <3> HIDE DEF a
    <3>2. /\ Guard(r).events = a \o <<>> \o dn
          /\ Ended(Guard(r).parser, r.parser)
      BY <2>1, <2>2, <2>3, <3>1, GuardCloses DEF dn
    <3>3. a \o <<>> = a
      BY <2>1
    <3> QED
      BY <1>1, <2>3, <3>2, <3>3
  <2>6. IsParser(parser') /\ parser'.finished = TRUE /\ parser'.done = TRUE
        /\ parser'.next = parser.next /\ parser'.told = parser.told /\ parser'.started = parser.started
        /\ parser'.tools = NewParser.tools /\ parser'.textOpen = FALSE
    BY <1>5, <2>5 DEF Ended, SameFields, IsParser
  <2> HIDE DEF a, b
  <2>7. StartsBy(m)
    BY <2>2, <2>4, <2>5, <2>6 DEF StartsBy
  <2>8. /\ (parser.textOpen => \E n \in DOMAIN events' : events'[n].e = "ItemEnd" /\ events'[n].i = 0)
        /\ \A s \in Slots : parser.tools[s] # None =>
                 \E n \in DOMAIN events' : events'[n].e = "ItemEnd" /\ events'[n].i = parser.tools[s]
    BY <1>3, <2>4, <2>5
  <2>9. Finishes(m)
    BY <1>0, <1>9, <2>2, <2>3, <2>4, <2>5, <2>6, <2>7, <2>8 DEF Finishes, OnlyOf, Emptied
  <2> QED
    BY <2>4, <2>5, <2>6, <2>9 DEF m
<1> QED
  BY <1>6, <1>7, <1>8, <1>9 DEF m

\* The lists that are joined by hand.
LEMMA Pairs ==
  ASSUME NEW T, NEW x \in T, NEW y \in T
  PROVE  /\ Append(<<y>>, x) = <<y, x>> /\ <<x>> \o <<y>> = <<x, y>>
         /\ <<>> \o <<x>> = <<x>> /\ <<>> \o <<x, y>> = <<x, y>>
<1>1. <<x>> \in Seq(T) /\ <<y>> \in Seq(T) /\ <<x, y>> \in Seq(T) /\ <<y, x>> \in Seq(T)
  OBVIOUS
<1>2. Append(<<y>>, x) = <<y, x>>
  <2> DEFINE a == Append(<<y>>, x)  b == <<y, x>>
  <2>1. a \in Seq(T) /\ Len(a) = 2 /\ a[1] = y /\ a[2] = x
    BY <1>1
  <2>2. b \in Seq(T) /\ Len(b) = 2 /\ b[1] = y /\ b[2] = x
    BY <1>1
  <2> HIDE DEF a, b
  <2>3. \A i \in 1 .. 2 : i = 1 \/ i = 2
    OBVIOUS
  <2> QED
    BY <2>1, <2>2, <2>3, SeqEqual DEF a, b
<1>3. <<x>> \o <<y>> = <<x, y>>
  <2> DEFINE a == <<x>> \o <<y>>  b == <<x, y>>
  <2>1. a \in Seq(T) /\ Len(a) = 2 /\ a[1] = x /\ a[2] = y
    BY <1>1
  <2>2. b \in Seq(T) /\ Len(b) = 2 /\ b[1] = x /\ b[2] = y
    BY <1>1
  <2> HIDE DEF a, b
  <2>3. \A i \in 1 .. 2 : i = 1 \/ i = 2
    OBVIOUS
  <2> QED
    BY <2>1, <2>2, <2>3, SeqEqual DEF a, b
<1>5. <<>> \o <<x>> = <<x>> /\ <<>> \o <<x, y>> = <<x, y>>
  BY <1>1, ConcatEmptySeq
<1> QED
  BY <1>2, <1>3, <1>5

LEMMA Triples ==
  ASSUME NEW T, NEW x \in T, NEW y \in T, NEW z \in T
  PROVE  <<x>> \o <<y, z>> = <<x, y, z>>
<1> DEFINE a == <<x>> \o <<y, z>>  b == <<x, y, z>>
<1>0. <<y, z>> \in Seq(T)
  OBVIOUS
<1>1. a \in Seq(T) /\ Len(a) = 3 /\ a[1] = x /\ a[2] = y /\ a[3] = z
  BY <1>0
<1>2. b \in Seq(T) /\ Len(b) = 3 /\ b[1] = x /\ b[2] = y /\ b[3] = z
  OBVIOUS
<1> HIDE DEF a, b
<1>3. \A i \in 1 .. 3 : i = 1 \/ i = 2 \/ i = 3
  OBVIOUS
<1> QED
  BY <1>1, <1>2, <1>3, SeqEqual DEF a, b

(* What the other frames give.                                             *)

LEMMA GoodJoined ==
  ASSUME NEW a, NEW b, NEW A, NEW B, Good(a, A), Good(b, B), A \X B \subseteq Order
  PROVE  Good(a \o b, A \cup B) /\ \A e : Coming(a \o b, e) <=> (Coming(a, e) \/ Coming(b, e))
<1>1. a \in Seq(EventsOf) /\ b \in Seq(EventsOf) /\ OnlyOf(a, A) /\ OnlyOf(b, B) /\ InOrder(a) /\ InOrder(b)
  BY DEF Good
<1>2. OnlyOf(a \o b, A \cup B) /\ InOrder(a \o b) /\ \A e : Coming(a \o b, e) <=> (Coming(a, e) \/ Coming(b, e))
  BY <1>1, Joined
<1>3. a \o b \in Seq(EventsOf)
  BY <1>1
<1> QED
  BY <1>2, <1>3 DEF Good

LEMMA GoodLists ==
  /\ Good(<<Happens("Finish")>>, {"Finish"}) /\ \A e : Coming(<<Happens("Finish")>>, e) <=> e = "Finish"
  /\ Good(<<Happens("Done")>>, {"Done"}) /\ \A e : Coming(<<Happens("Done")>>, e) <=> e = "Done"
  /\ Good(<<Happens("Start")>>, {"Start"}) /\ \A e : Coming(<<Happens("Start")>>, e) <=> e = "Start"
  /\ \A u \in BOOLEAN : Good(Usage(u), {"Usage"}) /\ \A e : Coming(Usage(u), e) => e = "Usage"
  /\ \A es : Good(<<>>, es) /\ \A e : ~Coming(<<>>, e)
<1>1. ASSUME NEW x \in EventsOf PROVE Good(<<x>>, {x.e}) /\ \A e : Coming(<<x>>, e) <=> e = x.e
  BY Written DEF Good
<1>2. /\ Happens("Finish") \in EventsOf /\ Happens("Finish").e = "Finish"
      /\ Happens("Done") \in EventsOf /\ Happens("Done").e = "Done"
      /\ Happens("Start") \in EventsOf /\ Happens("Start").e = "Start"
      /\ Happens("Usage") \in EventsOf /\ Happens("Usage").e = "Usage"
  BY Written DEF EventNames
<1>3. \A es : Good(<<>>, es) /\ \A e : ~Coming(<<>>, e)
  BY Written DEF Good
<1> DEFINE f == Happens("Finish")  d == Happens("Done")  s == Happens("Start")  u == Happens("Usage")
<1> HIDE DEF f, d, s, u
<1>4. /\ Good(<<f>>, {f.e}) /\ \A e : Coming(<<f>>, e) <=> e = f.e
      /\ Good(<<d>>, {d.e}) /\ \A e : Coming(<<d>>, e) <=> e = d.e
      /\ Good(<<s>>, {s.e}) /\ \A e : Coming(<<s>>, e) <=> e = s.e
      /\ Good(<<u>>, {u.e}) /\ \A e : Coming(<<u>>, e) <=> e = u.e
  <2>1. f \in EventsOf /\ d \in EventsOf /\ s \in EventsOf /\ u \in EventsOf
    BY <1>2 DEF f, d, s, u
  <2> QED
    BY <1>1, <2>1, Zenon
<1>5. Usage(TRUE) = <<u>> /\ Usage(FALSE) = <<>>
  BY DEF Usage, u
<1>6. \A b \in BOOLEAN : Good(Usage(b), {"Usage"}) /\ \A e : Coming(Usage(b), e) => e = "Usage"
  <2>1. Good(Usage(TRUE), {"Usage"}) /\ \A e : Coming(Usage(TRUE), e) => e = "Usage"
    BY <1>2, <1>4, <1>5 DEF u
  <2>2. Good(Usage(FALSE), {"Usage"}) /\ \A e : Coming(Usage(FALSE), e) => e = "Usage"
    BY <1>3, <1>5, Zenon
  <2> QED
    BY <2>1, <2>2
<1> QED
  BY <1>2, <1>3, <1>4, <1>6 DEF f, d, s

LEMMA DeltaIs ==
  ASSUME NEW i \in Nat, NEW k \in Kinds, NEW o \in OwnersOf
  PROVE  /\ Delta(i, k, o) \in EventsOf /\ StartOf(Delta(i, k, o)) \in EventsOf
         /\ Delta(i, k, o).e = "Delta" /\ StartOf(Delta(i, k, o)).e = "ItemStart"
         /\ Delta(i, k, o).i = i /\ Delta(i, k, o).k = k /\ Delta(i, k, o).o = o
         /\ StartOf(Delta(i, k, o)).i = i /\ StartOf(Delta(i, k, o)).k = k /\ StartOf(Delta(i, k, o)).o = o
BY DEF Delta, StartOf, EventsOf, EventNames

\* The lists of one piece.
LEMMA PieceLists ==
  ASSUME NEW i \in Nat, NEW k \in Kinds, NEW o \in OwnersOf,
         NEW es, es \in {<<Delta(i, k, o)>>, <<Happens("Start"), Delta(i, k, o)>>,
                         <<StartOf(Delta(i, k, o)), Delta(i, k, o)>>,
                         <<Happens("Start"), StartOf(Delta(i, k, o)), Delta(i, k, o)>>}
  PROVE  Good(es, {"Start", "ItemStart", "Delta"})
<1> DEFINE d == Delta(i, k, o)
           x == StartOf(d)
           s == Happens("Start")
<1>1. /\ d \in EventsOf /\ d.e = "Delta" /\ x \in EventsOf /\ x.e = "ItemStart"
      /\ s \in EventsOf /\ s.e = "Start"
  BY Written DEF Delta, StartOf, EventsOf, EventNames
<1>0. es \in {<<d>>, <<s, d>>, <<x, d>>, <<s, x, d>>}
  OBVIOUS
<1> HIDE DEF d, x, s
<1>2. {<<"ItemStart", "Delta">>, <<"Start", "ItemStart">>, <<"Start", "Delta">>} \subseteq Order
  BY DEF Order
<1>3. CASE es = <<d>>
  BY <1>1, <1>2, <1>3 DEF Good, OnlyOf, InOrder
<1>4. CASE es = <<s, d>>
  <2>1. es \in Seq(EventsOf) /\ DOMAIN es = {1, 2} /\ es[1] = s /\ es[2] = d
    BY <1>1, <1>4
  <2>2. OnlyOf(es, {"Start", "ItemStart", "Delta"})
    BY <1>1, <2>1 DEF OnlyOf
  <2>3. \A m, n \in {1, 2} : m < n => m = 1 /\ n = 2
    OBVIOUS
  <2>4. InOrder(es)
    BY <1>1, <1>2, <2>1, <2>3 DEF InOrder
  <2> QED
    BY <2>1, <2>2, <2>4 DEF Good
<1>5. CASE es = <<x, d>>
  <2>1. es \in Seq(EventsOf) /\ DOMAIN es = {1, 2} /\ es[1] = x /\ es[2] = d
    BY <1>1, <1>5
  <2>2. OnlyOf(es, {"Start", "ItemStart", "Delta"})
    BY <1>1, <2>1 DEF OnlyOf
  <2>3. \A m, n \in {1, 2} : m < n => m = 1 /\ n = 2
    OBVIOUS
  <2>4. InOrder(es)
    BY <1>1, <1>2, <2>1, <2>3 DEF InOrder
  <2> QED
    BY <2>1, <2>2, <2>4 DEF Good
<1>6. CASE es = <<s, x, d>>
  <2>1. es \in Seq(EventsOf) /\ DOMAIN es = {1, 2, 3} /\ es[1] = s /\ es[2] = x /\ es[3] = d
    BY <1>1, <1>6
  <2>2. OnlyOf(es, {"Start", "ItemStart", "Delta"})
    BY <1>1, <2>1 DEF OnlyOf
  <2>3. \A m, n \in {1, 2, 3} : m < n => <<m, n>> \in {<<1, 2>>, <<1, 3>>, <<2, 3>>}
    OBVIOUS
  <2>4. InOrder(es)
    BY <1>1, <1>2, <2>1, <2>3 DEF InOrder
  <2> QED
    BY <2>1, <2>2, <2>4 DEF Good
<1> QED
  BY <1>0, <1>3, <1>4, <1>5, <1>6

LEMMA Prefixed ==
  ASSUME NEW p, NEW es, NEW st, NEW q, NEW r, q = Result(p, es), r = Prefixes(q, st)
  PROVE  r.parser = p /\ r.events = st \o es
BY DEF Prefixes, Result

LEMMA Passing ==
  ASSUME NEW p, IsParser(p), ~p.done, NEW es, NEW A, Good(es, A), "Done" \notin A,
         NEW r, r.parser = p /\ r.events = es,
         parser' = Guard(r).parser /\ events' = Guard(r).events
  PROVE  Passes(p, es)
<1>1. es \in Seq(EventsOf) /\ ~Coming(es, "Done")
  BY DEF Good, OnlyOf, Coming
<1>2. Guard(r).events = r.events /\ Passed(Guard(r).parser, r.parser, r.events)
  BY <1>1, GuardPasses
<1> QED
  BY <1>2 DEF Passes

LEMMA Parsing ==
  ASSUME Typed, Knows, arrived # <<>>, NEW frame, frame = Head(arrived), frame.f # "error",
         frame.f \in {"stop", "piece", "open", "shut"} => ~parser.finished,
         parser' = Parsed(frame).parser, events' = Parsed(frame).events
  PROVE  Outcome(frame) /\ IsParser(parser') /\ events' \in Seq(EventsOf)
<1> DEFINE p1 == [parser EXCEPT !.started = TRUE]
           st == IF parser.started THEN <<>> ELSE <<Happens("Start")>>
<1>1. /\ frame \in UpFrames /\ frame.i \in Nat /\ frame.k \in Kinds /\ frame.usage \in BOOLEAN /\ frame.f \in FrameNames
      /\ (road[1] = "chat" => frame.f \in {"piece", "stop", "usage", "mark"})
      /\ (road[1] # "chat" => frame.f # "usage")
      /\ (road[1] # "responses" => frame.f \notin {"progress", "failed"})
      /\ (road[1] = "responses" => frame.f # "mark")
      /\ (road[1] = "chat" /\ frame.f = "piece" /\ frame.k = "ToolCall" => frame.i \in Slots)
  <2>1. 1 \in DOMAIN arrived /\ arrived[1] = frame /\ frame \in UpFrames
    BY TailIs DEF Typed
  <2>2. /\ (road[1] = "chat" => frame.f \in {"piece", "stop", "usage", "mark"})
        /\ (road[1] # "chat" => frame.f # "usage")
        /\ (road[1] # "responses" => frame.f \notin {"progress", "failed"})
        /\ (road[1] = "responses" => frame.f # "mark")
        /\ (road[1] = "chat" /\ frame.f = "piece" /\ frame.k = "ToolCall" => frame.i \in Slots)
    BY <2>1 DEF Typed, Speaks
  <2> QED
    BY <2>1, <2>2 DEF UpFrames
<1>2. IsParser(parser) /\ IsParser(p1) /\ p1.started /\ p1.textOpen = parser.textOpen
      /\ p1.tools = parser.tools /\ p1.next = parser.next /\ p1.told = parser.told
      /\ p1.finished = parser.finished /\ p1.done = parser.done
      /\ road[1] \in Protocols /\ parser.finished \in BOOLEAN /\ parser.done \in BOOLEAN
      /\ parser.started \in BOOLEAN
  BY TranslationAssumption DEF Typed, IsParser
<1>3. /\ Good(st, {"Start"}) /\ \A e : Coming(st, e) => e = "Start" /\ ~parser.started
      /\ \A d \in EventsOf : st \o <<d>> \in {<<d>>, <<Happens("Start"), d>>}
      /\ \A x, d \in EventsOf : st \o <<x, d>> \in {<<x, d>>, <<Happens("Start"), x, d>>}
  <2>1. Good(st, {"Start"}) /\ \A e : Coming(st, e) => e = "Start" /\ ~parser.started
    BY GoodLists
  <2> DEFINE s == Happens("Start")
  <2> HIDE DEF s
  <2>2. st = <<>> \/ st = <<s>>
    BY DEF s
  <2> HIDE DEF st
  <2>0. s \in EventsOf
    BY Written DEF s, EventNames
  <2>3. ASSUME NEW d \in EventsOf PROVE st \o <<d>> \in {<<d>>, <<s, d>>}
    <3>1. <<>> \o <<d>> = <<d>> /\ <<s>> \o <<d>> = <<s, d>>
      BY <2>0, Pairs
    <3> QED
      BY <2>2, <3>1
  <2>4. ASSUME NEW d \in EventsOf, NEW x \in EventsOf PROVE st \o <<x, d>> \in {<<x, d>>, <<s, x, d>>}
    <3>1. <<>> \o <<x, d>> = <<x, d>>
      BY ConcatEmptySeq
    <3>2. <<s>> \o <<x, d>> = <<s, x, d>>
      BY <2>0, Triples, Zenon
    <3> QED
      BY <2>2, <3>1, <3>2
  <2> QED
    BY <2>1, <2>3, <2>4 DEF s
<1>4. CASE road[1] = "chat" /\ frame.f = "mark"
  <2>1. parser' = Finished.parser /\ events' = Finished.events
    BY <1>4 DEF Parsed
  <2>2. Silent \/ Finishes(Sends("mark"))
    BY <1>4, <2>1, ChatEnds
  <2>3. Finishes(Sends("mark")) => Finishes(frame)
    <3>1. Sends("mark").f = frame.f
      BY <1>4 DEF Sends
    <3> QED
      BY <3>1 DEF Finishes, StartsBy
  <2> QED
    BY <1>4, <2>1, <2>2, <2>3, ChatEnds DEF Outcome
<1>5. CASE road[1] = "chat" /\ frame.f # "mark"
  <2> DEFINE q == ChatPiece(p1, frame)
             r == ChatPush(parser, frame)
  <2>1. parser' = Guard(r).parser /\ events' = Guard(r).events
    BY <1>5 DEF Parsed
  <2>2. r = Prefixes(q, st)
    BY DEF ChatPush, Prefixes
  <2> HIDE DEF st, p1
  <2>3. CASE frame.f = "piece" /\ frame.k # "ToolCall" /\ parser.textOpen
    <3> DEFINE d == Delta(parser.next - 1, frame.k, Owner(frame.k, 0))
               es == st \o <<d>>
    <3>1. q = Result(p1, <<d>>)
      BY <1>2, <2>3 DEF ChatPiece, OpenText
    <3>2. r.parser = p1 /\ r.events = es
      <4> DEFINE l == <<d>>
      <4>1. q = Result(p1, l) /\ es = st \o l
        BY <3>1
      <4> HIDE DEF l, q, r, es
      <4> QED
        BY <2>2, <4>1, Prefixed
    <3>a. parser.next - 1 \in Nat /\ Owner(frame.k, 0) \in OwnersOf
      BY <1>1, <1>2, <2>3 DEF IsParser, Owner, OwnersOf
    <3>b. d \in EventsOf /\ StartOf(d) \in EventsOf
      BY <1>1, <3>a, DeltaIs
    <3>3. es \in {<<d>>, <<Happens("Start"), d>>}
      <4> HIDE DEF d
      <4> QED
        BY <1>3, <3>b
    <3>4. Good(es, {"Start", "ItemStart", "Delta"})
      <4> HIDE DEF es
      <4> QED
        BY <1>1, <3>3, <3>a, PieceLists
    <3> HIDE DEF d, es, r
    <3>5. Passes(p1, es)
      <4>1. ~p1.done
        BY <1>2, <2>3 DEF Knows
      <4> QED
        BY <1>2, <2>1, <3>2, <3>4, <4>1, Passing
    <3>p. /\ events' = es /\ IsParser(parser') /\ parser'.started = p1.started
          /\ parser'.textOpen = p1.textOpen /\ parser'.tools = p1.tools /\ parser'.next = p1.next
          /\ parser'.told = p1.told /\ parser'.done = FALSE /\ parser'.finished \in BOOLEAN
          /\ (parser'.finished <=> (p1.finished \/ Coming(es, "Finish")))
      BY <3>5 DEF Passes, Passed, SameFields, IsParser
    <3>6. ~Coming(es, "Finish") /\ (Coming(es, "Start") => ~parser.started) /\ ~parser.done /\ ~parser.finished
      <4>1. ~Coming(es, "Finish")
        BY <3>4 DEF Good, OnlyOf, Coming
      <4>2. ~Coming(<<d>>, "Start")
        BY DEF d, Delta, Coming
      <4>3. parser.started => es = <<d>>
        BY DEF es, st
      <4> QED
        BY <2>3, <4>1, <4>2, <4>3 DEF Knows
    <3>7. SameParts /\ StartsBy(frame)
      BY <1>2, <1>5, <2>3, <3>p, <3>6 DEF SameParts, StartsBy
    <3>8. TextGoesOn(frame)
      BY <1>5, <2>3, <3>3, <3>p, <3>7 DEF TextGoesOn, Lists, d
    <3> QED
      BY <3>4, <3>p, <3>8 DEF Outcome, Good
  <2>4. CASE frame.f = "piece" /\ frame.k # "ToolCall" /\ ~parser.textOpen
    <3> DEFINE d == Delta(parser.next, frame.k, Owner(frame.k, 0))
               p2 == [p1 EXCEPT !.textOpen = TRUE, !.next = @ + 1]
               es == st \o <<StartOf(d), d>>
    <3>1. q = Result(p2, <<StartOf(d), d>>)
      <4>1. StartOf(d) = ItemStart(parser.next, frame.k, Owner(frame.k, 0))
        BY DEF StartOf, Delta, ItemStart
      <4> QED
        BY <1>2, <2>4, <4>1 DEF ChatPiece, OpenText
    <3>0. IsParser(p2) /\ p2.started /\ p2.textOpen /\ p2.tools = parser.tools /\ p2.next = parser.next + 1
          /\ p2.told = parser.told /\ p2.finished = parser.finished /\ p2.done = parser.done
      <4>1. DOMAIN p1 = {"started", "textOpen", "tools", "next", "told", "finished", "done"} /\ p1.next \in Nat
        BY <1>2 DEF IsParser
      <4>2. /\ DOMAIN p2 = DOMAIN p1 /\ p2.started = p1.started /\ p2.textOpen = TRUE /\ p2.tools = p1.tools
            /\ p2.next = p1.next + 1 /\ p2.told = p1.told /\ p2.finished = p1.finished /\ p2.done = p1.done
        BY <4>1
      <4> HIDE DEF p2, p1
      <4>3. IsParser(p1)
        BY <1>2
      <4>4. IsParser(p2)
        <5>1. p2.next \in Nat /\ p2.next > 0
          BY <4>1, <4>2
        <5>2. p2.tools \in [Slots -> Nat \cup {None}]
          BY <4>2, <4>3 DEF IsParser
        <5>3. p2.started \in BOOLEAN /\ p2.told \in BOOLEAN /\ p2.finished \in BOOLEAN /\ p2.done \in BOOLEAN
          BY <4>2, <4>3 DEF IsParser
        <5> QED
          BY <4>1, <4>2, <5>1, <5>2, <5>3 DEF IsParser
      <4> QED
        BY <1>2, <4>2, <4>4
    <3> HIDE DEF p2
    <3>2. r.parser = p2 /\ r.events = es
      <4> DEFINE l == <<StartOf(d), d>>
      <4>1. q = Result(p2, l) /\ es = st \o l
        BY <3>1
      <4> HIDE DEF l, q, r, es
      <4> QED
        BY <2>2, <4>1, Prefixed
    <3>a. parser.next \in Nat /\ Owner(frame.k, 0) \in OwnersOf
      BY <1>1, <1>2, <2>4 DEF IsParser, Owner, OwnersOf
    <3>b. d \in EventsOf /\ StartOf(d) \in EventsOf
      BY <1>1, <3>a, DeltaIs
    <3>3. es \in {<<StartOf(d), d>>, <<Happens("Start"), StartOf(d), d>>}
      <4> HIDE DEF d
      <4> QED
        BY <1>3, <3>b
    <3>4. Good(es, {"Start", "ItemStart", "Delta"})
      <4> HIDE DEF es
      <4> QED
        BY <1>1, <3>3, <3>a, PieceLists
    <3> HIDE DEF d, es, r
    <3>5. Passes(p2, es)
      <4>1. ~p2.done
        BY <3>0, <2>4 DEF Knows
      <4> QED
        BY <3>0, <2>1, <3>2, <3>4, <4>1, Passing
    <3>p. /\ events' = es /\ IsParser(parser') /\ parser'.started = p2.started
          /\ parser'.textOpen = p2.textOpen /\ parser'.tools = p2.tools /\ parser'.next = p2.next
          /\ parser'.told = p2.told /\ parser'.done = FALSE /\ parser'.finished \in BOOLEAN
          /\ (parser'.finished <=> (p2.finished \/ Coming(es, "Finish")))
      BY <3>5 DEF Passes, Passed, SameFields, IsParser
    <3>6. ~Coming(es, "Finish") /\ (Coming(es, "Start") => ~parser.started) /\ ~parser.done /\ ~parser.finished
      <4>1. ~Coming(es, "Finish")
        BY <3>4 DEF Good, OnlyOf, Coming
      <4>2. ~Coming(<<StartOf(d), d>>, "Start")
        BY DEF d, Delta, StartOf, Coming
      <4>3. parser.started => es = <<StartOf(d), d>>
        BY DEF es, st
      <4> QED
        BY <2>4, <4>1, <4>2, <4>3 DEF Knows
    <3>7. StartsBy(frame)
      BY <1>5, <3>0, <3>p, <3>6 DEF StartsBy
    <3>8. TextOpens(frame)
      <4>1. road[1] = "chat" /\ frame.f = "piece" /\ frame.k # "ToolCall" /\ ~parser.textOpen
        BY <1>5, <2>4
      <4>2. parser'.finished = parser.finished /\ parser'.done = parser.done
        <5>1. parser.finished \in BOOLEAN /\ parser.done \in BOOLEAN
          BY <1>2
        <5> QED
          BY <3>0, <3>p, <3>6, <5>1
      <4>3. Lists(d, TRUE)
        BY <3>3, <3>p DEF Lists
      <4> QED
        BY <3>0, <3>p, <3>7, <4>1, <4>2, <4>3 DEF TextOpens, d
    <3> QED
      BY <3>4, <3>p, <3>8 DEF Outcome, Good
  <2>5. CASE frame.f = "piece" /\ frame.k = "ToolCall" /\ parser.tools[frame.i] # None
    <3> DEFINE d == Delta(parser.tools[frame.i], "ToolCall", Owner("ToolCall", frame.i))
               es == st \o <<d>>
    <3>1. q = Result(p1, <<d>>)
      BY <1>2, <2>5 DEF ChatPiece, PushToolCall, ToolIndex
    <3>2. r.parser = p1 /\ r.events = es
      <4> DEFINE l == <<d>>
      <4>1. q = Result(p1, l) /\ es = st \o l
        BY <3>1
      <4> HIDE DEF l, q, r, es
      <4> QED
        BY <2>2, <4>1, Prefixed
    <3>a. parser.tools[frame.i] \in Nat /\ Owner("ToolCall", frame.i) \in OwnersOf /\ "ToolCall" \in Kinds
      BY <1>1, <1>2, <1>5, <2>5 DEF IsParser, Owner, OwnersOf, Kinds
    <3>b. d \in EventsOf /\ StartOf(d) \in EventsOf
      BY <1>1, <3>a, DeltaIs
    <3>3. es \in {<<d>>, <<Happens("Start"), d>>}
      <4> HIDE DEF d
      <4> QED
        BY <1>3, <3>b
    <3>4. Good(es, {"Start", "ItemStart", "Delta"})
      <4> HIDE DEF es
      <4> QED
        BY <1>1, <3>3, <3>a, PieceLists
    <3> HIDE DEF d, es, r
    <3>5. Passes(p1, es)
      <4>1. ~p1.done
        BY <1>2, <2>5 DEF Knows
      <4> QED
        BY <1>2, <2>1, <3>2, <3>4, <4>1, Passing
    <3>p. /\ events' = es /\ IsParser(parser') /\ parser'.started = p1.started
          /\ parser'.textOpen = p1.textOpen /\ parser'.tools = p1.tools /\ parser'.next = p1.next
          /\ parser'.told = p1.told /\ parser'.done = FALSE /\ parser'.finished \in BOOLEAN
          /\ (parser'.finished <=> (p1.finished \/ Coming(es, "Finish")))
      BY <3>5 DEF Passes, Passed, SameFields, IsParser
    <3>6. ~Coming(es, "Finish") /\ (Coming(es, "Start") => ~parser.started) /\ ~parser.done /\ ~parser.finished
      <4>1. ~Coming(es, "Finish")
        BY <3>4 DEF Good, OnlyOf, Coming
      <4>2. ~Coming(<<d>>, "Start")
        BY DEF d, Delta, Coming
      <4>3. parser.started => es = <<d>>
        BY DEF es, st
      <4> QED
        BY <2>5, <4>1, <4>2, <4>3 DEF Knows
    <3>7. SameParts /\ StartsBy(frame)
      BY <1>2, <1>5, <2>5, <3>p, <3>6 DEF SameParts, StartsBy
    <3>8. CallGoesOn(frame)
      BY <1>1, <1>5, <2>5, <3>3, <3>p, <3>7 DEF CallGoesOn, Lists, d
    <3> QED
      BY <3>4, <3>p, <3>8 DEF Outcome, Good
  <2>6. CASE frame.f = "piece" /\ frame.k = "ToolCall" /\ parser.tools[frame.i] = None
    <3> DEFINE d == Delta(parser.next, "ToolCall", Owner("ToolCall", frame.i))
               p2 == [p1 EXCEPT !.tools[frame.i] = p1.next, !.next = @ + 1]
               es == st \o <<StartOf(d), d>>
    <3>1. q = Result(p2, <<StartOf(d), d>>)
      <4>1. StartOf(d) = ItemStart(parser.next, "ToolCall", Owner("ToolCall", frame.i))
        BY DEF StartOf, Delta, ItemStart
      <4> QED
        BY <1>2, <2>6, <4>1 DEF ChatPiece, PushToolCall, ToolIndex
    <3>0. IsParser(p2) /\ p2.started /\ p2.textOpen = parser.textOpen
          /\ p2.tools = [parser.tools EXCEPT ![frame.i] = parser.next] /\ p2.next = parser.next + 1
          /\ p2.told = parser.told /\ p2.finished = parser.finished /\ p2.done = parser.done
      <4>1. DOMAIN p1 = {"started", "textOpen", "tools", "next", "told", "finished", "done"} /\ p1.next \in Nat
            /\ frame.i \in Slots
        BY <1>1, <1>2, <1>5, <2>6 DEF IsParser
      <4>2. /\ DOMAIN p2 = DOMAIN p1 /\ p2.started = p1.started /\ p2.textOpen = p1.textOpen
            /\ p2.tools = [p1.tools EXCEPT ![frame.i] = p1.next]
            /\ p2.next = p1.next + 1 /\ p2.told = p1.told /\ p2.finished = p1.finished /\ p2.done = p1.done
        BY <4>1
      <4> HIDE DEF p2, p1
      <4>3. IsParser(p1)
        BY <1>2
      <4>4. IsParser(p2)
        <5>1. p2.next \in Nat /\ p2.next > 0
          BY <4>1, <4>2
        <5>2. p2.tools \in [Slots -> Nat \cup {None}]
          BY <4>1, <4>2, <4>3 DEF IsParser
        <5>3. p2.started \in BOOLEAN /\ p2.told \in BOOLEAN /\ p2.finished \in BOOLEAN /\ p2.done \in BOOLEAN
              /\ p2.textOpen \in BOOLEAN
          BY <4>2, <4>3 DEF IsParser
        <5> QED
          BY <4>1, <4>2, <5>1, <5>2, <5>3 DEF IsParser
      <4> QED
        BY <1>2, <4>2, <4>4
    <3> HIDE DEF p2
    <3>2. r.parser = p2 /\ r.events = es
      <4> DEFINE l == <<StartOf(d), d>>
      <4>1. q = Result(p2, l) /\ es = st \o l
        BY <3>1
      <4> HIDE DEF l, q, r, es
      <4> QED
        BY <2>2, <4>1, Prefixed
    <3>a. parser.next \in Nat /\ Owner("ToolCall", frame.i) \in OwnersOf /\ "ToolCall" \in Kinds
      BY <1>1, <1>2, <2>6 DEF IsParser, Owner, OwnersOf, Kinds
    <3>b. d \in EventsOf /\ StartOf(d) \in EventsOf
      BY <1>1, <3>a, DeltaIs
    <3>3. es \in {<<StartOf(d), d>>, <<Happens("Start"), StartOf(d), d>>}
      <4> HIDE DEF d
      <4> QED
        BY <1>3, <3>b
    <3>4. Good(es, {"Start", "ItemStart", "Delta"})
      <4> HIDE DEF es
      <4> QED
        BY <1>1, <3>3, <3>a, PieceLists
    <3> HIDE DEF d, es, r
    <3>5. Passes(p2, es)
      <4>1. ~p2.done
        BY <3>0, <2>6 DEF Knows
      <4> QED
        BY <3>0, <2>1, <3>2, <3>4, <4>1, Passing
    <3>p. /\ events' = es /\ IsParser(parser') /\ parser'.started = p2.started
          /\ parser'.textOpen = p2.textOpen /\ parser'.tools = p2.tools /\ parser'.next = p2.next
          /\ parser'.told = p2.told /\ parser'.done = FALSE /\ parser'.finished \in BOOLEAN
          /\ (parser'.finished <=> (p2.finished \/ Coming(es, "Finish")))
      BY <3>5 DEF Passes, Passed, SameFields, IsParser
    <3>6. ~Coming(es, "Finish") /\ (Coming(es, "Start") => ~parser.started) /\ ~parser.done /\ ~parser.finished
      <4>1. ~Coming(es, "Finish")
        BY <3>4 DEF Good, OnlyOf, Coming
      <4>2. ~Coming(<<StartOf(d), d>>, "Start")
        BY DEF d, Delta, StartOf, Coming
      <4>3. parser.started => es = <<StartOf(d), d>>
        BY DEF es, st
      <4> QED
        BY <2>6, <4>1, <4>2, <4>3 DEF Knows
    <3>7. StartsBy(frame)
      BY <1>5, <3>0, <3>p, <3>6 DEF StartsBy
    <3>8. CallOpens(frame)
      <4>1. /\ road[1] = "chat" /\ frame.f = "piece" /\ frame.k = "ToolCall" /\ frame.i \in Slots
            /\ parser.tools[frame.i] = None
        BY <1>1, <1>5, <2>6
      <4>2. /\ parser'.finished = parser.finished /\ parser'.done = parser.done /\ parser'.next = parser.next + 1
            /\ parser'.told = parser.told /\ parser'.tools = [parser.tools EXCEPT ![frame.i] = parser.next]
            /\ parser'.textOpen = parser.textOpen
        <5>1. parser'.finished = parser.finished /\ parser'.done = parser.done
          <6>1. parser.finished \in BOOLEAN /\ parser.done \in BOOLEAN
            BY <1>2
          <6> QED
            BY <3>0, <3>p, <3>6, <6>1
        <5> QED
          BY <3>0, <3>p, <5>1
      <4>3. Lists(d, TRUE)
        BY <3>3, <3>p DEF Lists
      <4> QED
        BY <3>7, <4>1, <4>2, <4>3 DEF CallOpens, d
    <3> QED
      BY <3>4, <3>p, <3>8 DEF Outcome, Good
  <2>7. CASE frame.f = "usage"
    <3> DEFINE es == st \o Usage(TRUE)
    <3>1. q = Result(p1, Usage(TRUE))
      BY <2>7 DEF ChatPiece
    <3>2. r.parser = p1 /\ r.events = es
      <4> DEFINE l == Usage(TRUE)
      <4>1. q = Result(p1, l) /\ es = st \o l
        BY <3>1
      <4> HIDE DEF l, q, r, es
      <4> QED
        BY <2>2, <4>1, Prefixed
    <3>3. CASE parser.done
      <4>1. parser' = p1 /\ events' = <<>>
        BY <1>2, <2>1, <3>2, <3>3 DEF Guard, Result
      <4>2. Silent /\ <<>> \in Seq(EventsOf)
        BY <1>2, <4>1, Written DEF Silent
      <4> QED
        BY <1>2, <2>7, <4>1, <4>2 DEF Outcome
    <3>4. CASE ~parser.done
      <4>1. Good(es, {"Start", "Usage"}) /\ \A e : Coming(es, e) => Coming(st, e) \/ e = "Usage"
        <5>1. {"Start"} \X {"Usage"} \subseteq Order
          BY DEF Order
        <5>2. Good(Usage(TRUE), {"Usage"}) /\ \A e : Coming(Usage(TRUE), e) => e = "Usage"
          BY GoodLists
        <5> DEFINE A == {"Start"}  B == {"Usage"}
        <5>3. Good(st, A) /\ Good(Usage(TRUE), B) /\ A \X B \subseteq Order
          BY <1>3, <5>1, <5>2, Zenon
        <5> HIDE DEF A, B
        <5>4. Good(es, A \cup B) /\ \A e : Coming(es, e) <=> (Coming(st, e) \/ Coming(Usage(TRUE), e))
          BY <5>3, GoodJoined
        <5>5. A \cup B = {"Start", "Usage"}
          BY DEF A, B
        <5> QED
          BY <5>2, <5>4, <5>5
      <4> HIDE DEF es, r
      <4>2. Passes(p1, es)
        <5>1. ~p1.done
          BY <1>2, <3>4
        <5> DEFINE A == {"Start", "Usage"}
        <5>2. Good(es, A) /\ "Done" \notin A
          BY <4>1
        <5> HIDE DEF A
        <5> QED
          BY <1>2, <2>1, <3>2, <5>1, <5>2, Passing
      <4>p. /\ events' = es /\ IsParser(parser') /\ parser'.started = p1.started
            /\ parser'.textOpen = p1.textOpen /\ parser'.tools = p1.tools /\ parser'.next = p1.next
            /\ parser'.told = p1.told /\ parser'.done = FALSE /\ parser'.finished \in BOOLEAN
            /\ (parser'.finished <=> (p1.finished \/ Coming(es, "Finish")))
        BY <4>2 DEF Passes, Passed, SameFields, IsParser
      <4>3. ~Coming(es, "Finish") /\ (Coming(es, "Start") => ~parser.started)
        BY <1>3, <4>1
      <4>4. SameParts /\ StartsBy(frame)
        BY <1>2, <1>5, <3>4, <4>p, <4>3 DEF SameParts, StartsBy
      <4>5. Quietly(frame)
        BY <2>7, <3>4, <4>1, <4>p, <4>4 DEF Quietly, Good
      <4> QED
        BY <4>1, <4>p, <4>5 DEF Outcome, Good
    <3> QED
      BY <3>3, <3>4
  <2>8. CASE frame.f = "stop"
    <3> DEFINE c == CloseAll(p1)
               u == Usage(frame.usage)
               fin == <<Happens("Finish")>>
               p2 == [c.parser EXCEPT !.told = TRUE]
               e3 == c.events \o u \o fin
               es == st \o e3
    <3>1. q = Result(p2, e3)
      BY <2>8 DEF ChatPiece
    <3>0. /\ IsParser(p2) /\ p2.started /\ p2.textOpen = FALSE /\ p2.tools = NewParser.tools
          /\ p2.next = parser.next /\ p2.told = TRUE /\ p2.finished = parser.finished /\ p2.done = parser.done
      <4>1. c.parser = [p1 EXCEPT !.textOpen = FALSE, !.tools = NewParser.tools]
        BY DEF CloseAll, Result
      <4>2. p2 = [p1 EXCEPT !.textOpen = FALSE, !.tools = NewParser.tools, !.told = TRUE]
        BY <1>2, <4>1 DEF IsParser
      <4> HIDE DEF p2
      <4> QED
        BY <1>2, <4>2, NewTools DEF IsParser
    <3>2. r.parser = p2 /\ r.events = es
      <4> DEFINE l == e3
      <4>1. q = Result(p2, l) /\ es = st \o l
        BY <3>1
      <4> HIDE DEF l, q, r, es, p2
      <4> QED
        BY <2>2, <4>1, Prefixed
    <3>3. /\ Good(c.events, {"ItemEnd"})
          /\ (parser.textOpen => \E n \in DOMAIN c.events : c.events[n].e = "ItemEnd" /\ c.events[n].i = 0)
          /\ \A s \in Slots : parser.tools[s] # None =>
               \E n \in DOMAIN c.events : c.events[n].e = "ItemEnd" /\ c.events[n].i = parser.tools[s]
      BY <1>2, Closings DEF Good
    <3>4. Good(u, {"Usage"}) /\ Good(fin, {"Finish"}) /\ Coming(fin, "Finish")
      BY <1>1, GoodLists
    <3> HIDE DEF c, u, fin, p2, r
    <3>5. Good(c.events \o u, {"ItemEnd", "Usage"})
      <4> DEFINE A == {"ItemEnd"}  B == {"Usage"}
      <4>1. A \X B \subseteq Order /\ A \cup B = {"ItemEnd", "Usage"}
        BY DEF Order
      <4>2. Good(c.events, A) /\ Good(u, B)
        BY <3>3, <3>4, Zenon
      <4> HIDE DEF A, B
      <4>3. Good(c.events \o u, A \cup B)
        BY <4>1, <4>2, GoodJoined
      <4> QED
        BY <4>1, <4>3
    <3>6. Good(e3, {"ItemEnd", "Usage", "Finish"}) /\ Coming(e3, "Finish")
      <4> DEFINE A == {"ItemEnd", "Usage"}  B == {"Finish"}  a == c.events \o u
      <4>1. A \X B \subseteq Order /\ A \cup B = {"ItemEnd", "Usage", "Finish"}
        BY DEF Order
      <4>2. Good(a, A) /\ Good(fin, B)
        BY <3>4, <3>5, Zenon
      <4> HIDE DEF A, B, a
      <4>3. Good(a \o fin, A \cup B) /\ \A e : Coming(a \o fin, e) <=> (Coming(a, e) \/ Coming(fin, e))
        BY <4>1, <4>2, GoodJoined
      <4> QED
        BY <3>4, <4>1, <4>3 DEF a
    <3>7. Good(es, {"Start", "ItemEnd", "Usage", "Finish"}) /\ Coming(es, "Finish") /\ (Coming(es, "Start") => ~parser.started)
      <4> DEFINE A == {"Start"}  B == {"ItemEnd", "Usage", "Finish"}
      <4>1. A \X B \subseteq Order /\ A \cup B = {"Start", "ItemEnd", "Usage", "Finish"}
        BY DEF Order
      <4>2. Good(st, A) /\ Good(e3, B)
        BY <1>3, <3>6, Zenon
      <4>0. ~Coming(e3, "Start")
        BY <3>6 DEF Good, OnlyOf, Coming
      <4> HIDE DEF A, B, e3
      <4>3. Good(es, A \cup B) /\ \A e : Coming(es, e) <=> (Coming(st, e) \/ Coming(e3, e))
        BY <4>1, <4>2, GoodJoined
      <4> QED
        BY <1>3, <3>6, <4>0, <4>1, <4>3
    <3>8. \A n \in DOMAIN c.events : \E m \in DOMAIN es : es[m] = c.events[n]
      <4>1. /\ c.events \in Seq(EventsOf) /\ u \in Seq(EventsOf) /\ fin \in Seq(EventsOf) /\ st \in Seq(EventsOf)
            /\ c.events \o u \in Seq(EventsOf) /\ e3 \in Seq(EventsOf)
        BY <1>3, <3>3, <3>4, <3>5, <3>6 DEF Good
      <4> SUFFICES ASSUME NEW n \in DOMAIN c.events PROVE \E m \in DOMAIN es : es[m] = c.events[n]
        OBVIOUS
      <4>2. n \in DOMAIN (c.events \o u) /\ (c.events \o u)[n] = c.events[n]
        BY <4>1, ConcatIs
      <4>3. n \in DOMAIN e3 /\ e3[n] = c.events[n]
        <5> DEFINE a == c.events \o u
        <5> HIDE DEF a
        <5>1. a \in Seq(EventsOf) /\ n \in DOMAIN a /\ a[n] = c.events[n]
          BY <4>1, <4>2 DEF a
        <5>2. n \in DOMAIN (a \o fin) /\ (a \o fin)[n] = a[n]
          BY <4>1, <5>1, ConcatIs
        <5> QED
          BY <5>1, <5>2 DEF a
      <4> HIDE DEF e3
      <4>4. n + Len(st) \in DOMAIN es /\ es[n + Len(st)] = e3[n]
        <5>1. st \in Seq(EventsOf) /\ e3 \in Seq(EventsOf) /\ n \in DOMAIN e3
          BY <4>1, <4>3
        <5> QED
          BY ONLY <5>1, ConcatIs
      <4> QED
        BY <4>3, <4>4
    <3> HIDE DEF es
    <3>9. Passes(p2, es)
      <4>1. ~p2.done
        BY <2>8, <3>0 DEF Knows
      <4> DEFINE A == {"Start", "ItemEnd", "Usage", "Finish"}
      <4>2. Good(es, A) /\ "Done" \notin A
        BY <3>7
      <4> HIDE DEF A
      <4> QED
        BY <2>1, <3>0, <3>2, <4>1, <4>2, Passing
    <3>p. /\ events' = es /\ IsParser(parser') /\ parser'.started = p2.started
          /\ parser'.textOpen = p2.textOpen /\ parser'.tools = p2.tools /\ parser'.next = p2.next
          /\ parser'.told = p2.told /\ parser'.done = FALSE /\ parser'.finished \in BOOLEAN
          /\ (parser'.finished <=> (p2.finished \/ Coming(es, "Finish")))
      BY <3>9 DEF Passes, Passed, SameFields, IsParser
    <3>10. StartsBy(frame)
      BY <1>5, <3>0, <3>7, <3>p DEF StartsBy
    <3>11. ~Coming(es, "Done") /\ OnlyOf(es, {"Start", "ItemEnd", "Usage", "Finish", "Done"}) /\ InOrder(es) /\ es \in Seq(EventsOf)
      BY <3>7 DEF Good, OnlyOf, Coming
    <3>12. /\ (parser.textOpen => \E n \in DOMAIN es : es[n].e = "ItemEnd" /\ es[n].i = 0)
           /\ \A s \in Slots : parser.tools[s] # None =>
                \E n \in DOMAIN es : es[n].e = "ItemEnd" /\ es[n].i = parser.tools[s]
      BY <3>3, <3>8
    <3>14. ~parser.done
      BY <2>8 DEF Knows
    <3>13. Finishes(frame)
      BY <1>2, <3>14, <1>5, <2>8, <3>0, <3>7, <3>p, <3>10, <3>11, <3>12 DEF Finishes, Emptied
    <3> QED
      BY <3>p, <3>11, <3>13 DEF Outcome
  <2> QED
    BY <1>1, <1>5, <2>3, <2>4, <2>5, <2>6, <2>7, <2>8
<1>6. CASE road[1] # "chat"
  <2> DEFINE es == IF road[1] = "messages" THEN MessagesEvents(frame) ELSE ResponsesEvents(frame)
             r == Result(parser, es)
  <2>1. parser' = Guard(r).parser /\ events' = Guard(r).events /\ r.parser = parser /\ r.events = es
        /\ r = Result(parser, es)
    BY <1>2, <1>6 DEF Parsed, Protocols, Result
  <2>2. CASE frame.f \in {"piece", "open", "shut"}
    <3> DEFINE d == CASE frame.f = "piece" -> Delta(frame.i, frame.k, Owner(frame.k, frame.i))
                      [] frame.f = "open" -> ItemStart(frame.i, frame.k, Owner(frame.k, frame.i))
                      [] frame.f = "shut" -> ItemEnd(frame.i)
    <3>1. es = <<d>>
      BY <1>1, <2>2 DEF MessagesEvents, ResponsesEvents
    <3>2. d \in EventsOf /\ d.e \in {"Delta", "ItemStart", "ItemEnd"}
      <4>1. Owner(frame.k, frame.i) \in OwnersOf
        BY <1>1 DEF Owner, OwnersOf
      <4> QED
        BY <1>1, <2>2, <4>1, Written DEF Delta, ItemStart, EventsOf, EventNames
    <3> HIDE DEF d, es, r
    <3>3. Good(<<d>>, {d.e}) /\ ~Coming(<<d>>, "Finish") /\ ~Coming(<<d>>, "Start")
      <4>1. <<d>> \in Seq(EventsOf) /\ InOrder(<<d>>) /\ OnlyOf(<<d>>, {d.e}) /\ \A e : Coming(<<d>>, e) <=> e = d.e
        BY <3>2, Written, Zenon
      <4> QED
        BY <3>2, <4>1 DEF Good
    <3>4. Passes(parser, es)
      <4> DEFINE A == {d.e}
      <4>1. Good(es, A) /\ "Done" \notin A
        BY <3>1, <3>2, <3>3
      <4>2. ~parser.done
        BY <2>2 DEF Knows
      <4> HIDE DEF A
      <4> QED
        BY <1>2, <2>1, <4>1, <4>2, Passing
    <3>p. /\ events' = es /\ IsParser(parser') /\ parser'.started = parser.started
          /\ parser'.textOpen = parser.textOpen /\ parser'.tools = parser.tools /\ parser'.next = parser.next
          /\ parser'.told = parser.told /\ parser'.done = FALSE /\ parser'.finished \in BOOLEAN
          /\ (parser'.finished <=> (parser.finished \/ Coming(es, "Finish")))
      BY <3>4 DEF Passes, Passed, SameFields, IsParser
    <3>5. SameParts
      BY <1>2, <2>2, <3>1, <3>3, <3>p DEF SameParts, Knows
    <3>6. Numbered1(frame)
      BY <1>6, <2>2, <3>1, <3>p, <3>5 DEF Numbered1, d
    <3> QED
      BY <3>1, <3>3, <3>p, <3>6 DEF Outcome, Good
  <2>3. CASE frame.f \notin {"piece", "open", "shut"} /\ parser.done
    <3>1. parser' = parser /\ events' = <<>> /\ frame.f # "stop"
      BY <2>1, <2>3 DEF Guard, Result, Knows
    <3> QED
      BY <1>2, <2>3, <3>1, Written DEF Outcome, Silent
  <2>4. CASE frame.f \in {"begin", "progress"} /\ ~parser.done
    <3>1. Good(es, {"Start", "Usage"})
      <4> DEFINE A == {"Start"}  B == {"Usage"}  s == <<Happens("Start")>>  u == Usage(frame.usage)
      <4>1. A \X B \subseteq Order /\ A \cup B = {"Start", "Usage"}
        BY DEF Order
      <4>2. Good(s, A) /\ Good(u, B) /\ Good(<<>>, B)
        BY <1>1, GoodLists, SMTT(30)
      <4>3. es = s \o u \/ es = s
        BY <1>1, <2>4 DEF MessagesEvents, ResponsesEvents
      <4>4. s = s \o <<>>
        OBVIOUS
      <4> HIDE DEF A, B, es, s, u
      <4>5. Good(s \o u, A \cup B) /\ Good(s \o <<>>, A \cup B)
        BY <4>1, <4>2, GoodJoined
      <4> QED
        BY <4>1, <4>3, <4>4, <4>5
    <3> HIDE DEF es, r
    <3>2. ~Coming(es, "Finish")
      BY <3>1 DEF Good, OnlyOf, Coming
    <3>3. Passes(parser, es)
      <4> DEFINE A == {"Start", "Usage"}
      <4>1. Good(es, A) /\ "Done" \notin A
        BY <3>1
      <4> HIDE DEF A
      <4> QED
        BY <1>2, <2>1, <2>4, <4>1, Passing
    <3>p. /\ events' = es /\ IsParser(parser') /\ parser'.started = parser.started
          /\ parser'.textOpen = parser.textOpen /\ parser'.tools = parser.tools /\ parser'.next = parser.next
          /\ parser'.told = parser.told /\ parser'.done = FALSE /\ parser'.finished \in BOOLEAN
          /\ (parser'.finished <=> (parser.finished \/ Coming(es, "Finish")))
      BY <3>3 DEF Passes, Passed, SameFields, IsParser
    <3>4. Quietly(frame)
      BY <1>2, <1>6, <2>4, <3>1, <3>2, <3>p DEF Quietly, SameParts, StartsBy, Good
    <3> QED
      BY <3>1, <3>p, <3>4 DEF Outcome, Good
  <2>5. CASE frame.f = "failed" /\ ~parser.done
    <3>1. es = <<>>
      BY <1>1, <1>6, <2>5 DEF MessagesEvents, ResponsesEvents
    <3> HIDE DEF es, r
    <3>2. Passes(parser, es)
      <4>1. Good(es, {"Start"})
        BY <3>1, GoodLists
      <4> QED
        BY <1>2, <2>1, <2>5, <4>1, Passing
    <3>p. /\ events' = es /\ IsParser(parser') /\ parser'.started = parser.started
          /\ parser'.textOpen = parser.textOpen /\ parser'.tools = parser.tools /\ parser'.next = parser.next
          /\ parser'.told = parser.told /\ parser'.done = FALSE /\ parser'.finished \in BOOLEAN
          /\ (parser'.finished <=> (parser.finished \/ Coming(es, "Finish")))
      BY <3>2 DEF Passes, Passed, SameFields, IsParser
    <3>3. ~Coming(es, "Finish") /\ es \in Seq(EventsOf)
      BY <3>1, Written
    <3>4. Silent
      BY <1>2, <2>5, <3>1, <3>p, <3>3 DEF Silent
    <3> QED
      BY <2>5, <3>p, <3>3, <3>4 DEF Outcome
  <2>6. CASE frame.f = "stop" /\ road[1] = "messages" /\ ~parser.done
    <3> DEFINE u == Usage(frame.usage)  fin == <<Happens("Finish")>>
    <3>1. es = u \o fin
      BY <1>6, <2>6 DEF MessagesEvents
    <3>2. Good(u \o fin, {"Usage", "Finish"}) /\ Coming(u \o fin, "Finish")
      <4> DEFINE A == {"Usage"}  B == {"Finish"}
      <4>1. A \X B \subseteq Order /\ A \cup B = {"Usage", "Finish"}
        BY DEF Order
      <4>2. Good(u, A) /\ Good(fin, B) /\ Coming(fin, "Finish")
        BY <1>1, GoodLists
      <4> HIDE DEF A, B, u, fin
      <4>3. Good(u \o fin, A \cup B) /\ \A e : Coming(u \o fin, e) <=> (Coming(u, e) \/ Coming(fin, e))
        BY <4>1, <4>2, GoodJoined
      <4> QED
        BY <4>1, <4>2, <4>3
    <3> HIDE DEF es, r, u, fin
    <3>3. Passes(parser, es)
      <4> DEFINE A == {"Usage", "Finish"}
      <4>1. Good(es, A) /\ "Done" \notin A
        BY <3>1, <3>2
      <4> HIDE DEF A
      <4> QED
        BY <1>2, <2>1, <2>6, <4>1, Passing
    <3>p. /\ events' = es /\ IsParser(parser') /\ parser'.started = parser.started
          /\ parser'.textOpen = parser.textOpen /\ parser'.tools = parser.tools /\ parser'.next = parser.next
          /\ parser'.told = parser.told /\ parser'.done = FALSE /\ parser'.finished \in BOOLEAN
          /\ (parser'.finished <=> (parser.finished \/ Coming(es, "Finish")))
      BY <3>3 DEF Passes, Passed, SameFields, IsParser
    <3>4. /\ ~Coming(es, "Done") /\ ~Coming(es, "Start") /\ ~Coming(es, "ItemEnd") /\ Coming(es, "Finish")
          /\ OnlyOf(es, {"Start", "ItemEnd", "Usage", "Finish", "Done"}) /\ InOrder(es) /\ es \in Seq(EventsOf)
      BY <3>1, <3>2 DEF Good, OnlyOf, Coming
    <3>5. Finishes(frame)
      BY <1>2, <1>6, <2>6, <3>p, <3>4 DEF Finishes, StartsBy
    <3> QED
      BY <3>p, <3>4, <3>5 DEF Outcome
  <2>7. CASE frame.f = "stop" /\ road[1] = "responses" /\ ~parser.done
    <3> DEFINE u == Usage(frame.usage)  fin == <<Happens("Finish")>>  dn == <<Happens("Done")>>
               a == u \o fin
    <3>1. es = u \o <<Happens("Finish"), Happens("Done")>>
      BY <1>6, <2>7 DEF ResponsesEvents
    <3>2. Good(u, {"Usage"}) /\ Good(fin, {"Finish"}) /\ Coming(fin, "Finish") /\ Good(dn, {"Done"}) /\ \A e : Coming(dn, e) <=> e = "Done"
      BY <1>1, GoodLists
    <3>3. <<Happens("Finish"), Happens("Done")>> = fin \o dn
      OBVIOUS
    <3> HIDE DEF u, fin, dn, es, r
    <3>4. Good(a, {"Usage", "Finish"}) /\ Coming(a, "Finish")
      <4> DEFINE A == {"Usage"}  B == {"Finish"}
      <4>1. A \X B \subseteq Order /\ A \cup B = {"Usage", "Finish"}
        BY DEF Order
      <4>2. Good(u, A) /\ Good(fin, B)
        BY <3>2, Zenon
      <4> HIDE DEF A, B
      <4>3. Good(a, A \cup B) /\ \A e : Coming(a, e) <=> (Coming(u, e) \/ Coming(fin, e))
        BY <4>1, <4>2, GoodJoined
      <4> QED
        BY <3>2, <4>1, <4>3
    <3>5. es = a \o dn
      <4>1. u \in Seq(EventsOf) /\ fin \in Seq(EventsOf) /\ dn \in Seq(EventsOf)
        BY <3>2 DEF Good
      <4>2. u \o (fin \o dn) = (u \o fin) \o dn
        <5> HIDE DEF fin, dn
        <5> QED
          BY <4>1, ConcatAssociative, SMTT(30)
      <4> QED
        BY <3>1, <3>3, <4>2
    <3> HIDE DEF a
    <3>6. Good(a \o dn, {"Usage", "Finish", "Done"}) /\ Coming(a \o dn, "Finish") /\ Coming(a \o dn, "Done")
      <4> DEFINE A == {"Usage", "Finish"}  B == {"Done"}
      <4>1. A \X B \subseteq Order /\ A \cup B = {"Usage", "Finish", "Done"}
        BY DEF Order
      <4>2. Good(a, A) /\ Good(dn, B)
        BY <3>2, <3>4, Zenon
      <4> HIDE DEF A, B
      <4>3. Good(a \o dn, A \cup B) /\ \A e : Coming(a \o dn, e) <=> (Coming(a, e) \/ Coming(dn, e))
        BY <4>1, <4>2, GoodJoined
      <4> QED
        BY <3>2, <3>4, <4>1, <4>3
    <3>7. events' = a \o dn /\ Ended(parser', parser)
      <4>1. a \in Seq(EventsOf) /\ ~Coming(a, "Done")
        BY <3>4 DEF Good, OnlyOf, Coming
      <4>2. /\ Guard(r).events = a \o <<>> \o dn
            /\ Ended(Guard(r).parser, r.parser)
        BY <1>2, <2>1, <2>7, <3>4, <3>5, <4>1, GuardCloses DEF dn
      <4>3. a \o <<>> = a
        BY <4>1
      <4> QED
        BY <2>1, <4>2, <4>3
    <3>8. IsParser(parser') /\ parser'.started = parser.started /\ parser'.textOpen = parser.textOpen /\ parser'.tools = parser.tools
          /\ parser'.next = parser.next /\ parser'.told = parser.told /\ parser'.done = TRUE /\ parser'.finished = TRUE
      BY <1>2, <3>7 DEF Ended, SameFields, IsParser
    <3>9. /\ Coming(es, "Done") /\ ~Coming(es, "Start") /\ ~Coming(es, "ItemEnd") /\ Coming(es, "Finish")
          /\ OnlyOf(es, {"Start", "ItemEnd", "Usage", "Finish", "Done"}) /\ InOrder(es) /\ es \in Seq(EventsOf)
      BY <3>5, <3>6 DEF Good, OnlyOf, Coming
    <3>10. Finishes(frame)
      BY <1>2, <1>6, <2>7, <3>5, <3>7, <3>8, <3>9 DEF Finishes, StartsBy
    <3> QED
      BY <3>5, <3>7, <3>8, <3>9, <3>10 DEF Outcome
  <2>8. CASE frame.f = "mark" /\ ~parser.done
    <3> DEFINE dn == <<Happens("Done")>>
               missing == IF parser.finished THEN <<>> ELSE <<Happens("Finish")>>
               ev == missing \o dn
    <3>1. es = <<>> \o dn
      BY <1>1, <1>2, <1>6, <2>8 DEF MessagesEvents, Protocols
    <3>2. /\ Good(missing, {"Finish"}) /\ (Coming(missing, "Finish") <=> ~parser.finished)
          /\ Good(dn, {"Done"}) /\ \A e : Coming(dn, e) <=> e = "Done"
      BY GoodLists
    <3>3. events' = ev /\ Ended(parser', parser)
      <4>1. <<>> \in Seq(EventsOf) /\ ~Coming(<<>>, "Done") /\ ~Coming(<<>>, "Finish")
        BY Written
      <4> HIDE DEF es, r, dn
      <4>2. (parser.finished \/ Coming(<<>>, "Finish")) = parser.finished
        BY <1>2, <4>1 DEF IsParser
      <4>3. /\ Guard(r).events = <<>> \o missing \o dn
            /\ Ended(Guard(r).parser, r.parser)
        BY <1>2, <2>1, <2>8, <3>1, <4>1, <4>2, GuardCloses DEF dn
      <4>4. <<>> \o missing = missing
        OBVIOUS
      <4> QED
        BY <2>1, <4>3, <4>4
    <3> HIDE DEF dn, missing, es, r
    <3>4. Good(ev, {"Finish", "Done"}) /\ (Coming(ev, "Finish") <=> ~parser.finished) /\ Coming(ev, "Done")
      <4> DEFINE A == {"Finish"}  B == {"Done"}
      <4>1. A \X B \subseteq Order /\ A \cup B = {"Finish", "Done"}
        BY DEF Order
      <4>2. Good(missing, A) /\ Good(dn, B)
        BY <3>2, Zenon
      <4> HIDE DEF A, B
      <4>3. Good(ev, A \cup B) /\ \A e : Coming(ev, e) <=> (Coming(missing, e) \/ Coming(dn, e))
        BY <4>1, <4>2, GoodJoined
      <4> QED
        BY <3>2, <4>1, <4>3
    <3> HIDE DEF ev
    <3>5. IsParser(parser') /\ parser'.started = parser.started /\ parser'.textOpen = parser.textOpen /\ parser'.tools = parser.tools
          /\ parser'.next = parser.next /\ parser'.told = parser.told /\ parser'.done = TRUE /\ parser'.finished = TRUE
      BY <1>2, <3>3 DEF Ended, SameFields, IsParser
    <3>6. /\ Coming(ev, "Done") /\ ~Coming(ev, "Start") /\ ~Coming(ev, "ItemEnd")
          /\ OnlyOf(ev, {"Start", "ItemEnd", "Usage", "Finish", "Done"}) /\ InOrder(ev) /\ ev \in Seq(EventsOf)
      BY <3>4 DEF Good, OnlyOf, Coming
    <3>7. Finishes(frame)
      BY <1>2, <1>6, <2>8, <3>3, <3>4, <3>5, <3>6 DEF Finishes, StartsBy
    <3> QED
      BY <3>3, <3>5, <3>6, <3>7 DEF Outcome
  <2> QED
    BY <1>1, <1>2, <1>6, <2>2, <2>3, <2>4, <2>5, <2>6, <2>7, <2>8 DEF FrameNames, Protocols
<1> QED
  BY <1>4, <1>5, <1>6

\* The end of the other upstreams, which tell it by a frame or not at all.
LEMMA NumberedEnds ==
  ASSUME Typed, road[1] # "chat", parser' = Finished.parser, events' = Finished.events
  PROVE  Silent /\ IsParser(parser')
<1> DEFINE r == Result(parser, <<>>)
<1>1. parser' = Guard(r).parser /\ events' = Guard(r).events /\ r.parser = parser /\ r.events = <<>> /\ r = Result(parser, <<>>)
  BY DEF Finished, Result
<1>2. IsParser(parser)
  BY DEF Typed
<1>3. CASE parser.done
  BY <1>1, <1>2, <1>3 DEF Guard, Result, Silent
<1>4. CASE ~parser.done
  <2> HIDE DEF r
  <2>1. Good(<<>>, {"Start"}) /\ ~Coming(<<>>, "Finish")
    BY GoodLists
  <2> DEFINE es == <<>>
             A == {"Start"}
  <2>2. Good(es, A) /\ ~Coming(es, "Finish") /\ r.parser = parser /\ r.events = es /\ "Done" \notin A
    BY <1>1, <2>1
  <2> HIDE DEF es, A
  <2>3. Passes(parser, es)
    BY <1>1, <1>2, <1>4, <2>2, Passing
  <2>4. /\ events' = es /\ IsParser(parser') /\ parser'.started = parser.started
        /\ parser'.textOpen = parser.textOpen /\ parser'.tools = parser.tools /\ parser'.next = parser.next
        /\ parser'.told = parser.told /\ parser'.done = FALSE /\ parser'.finished \in BOOLEAN
        /\ (parser'.finished <=> (parser.finished \/ Coming(es, "Finish")))
    BY <2>3 DEF Passes, Passed, SameFields, IsParser
  <2>5. parser'.finished = parser.finished /\ parser'.done = parser.done
    BY <1>2, <1>4, <2>2, <2>4 DEF IsParser
  <2> QED
    BY <2>4, <2>5 DEF Silent, es
<1> QED
  BY <1>3, <1>4

(* ------------------------------ the emitter ---------------------------- *)

LEMMA FrameIs ==
  /\ Nothing \in KeptOf /\ Nothing.pieces = 0 /\ Nothing.owners = {}
  /\ \A f \in WireNames : Frame(f) \in WireFrames /\ Frame(f).f = f /\ Frame(f).o = Someone
  /\ \A f \in WireNames : \A u \in BOOLEAN :
       [Frame(f) EXCEPT !.usage = u] \in WireFrames /\ [Frame(f) EXCEPT !.usage = u].f = f
  /\ \A f \in WireNames, event \in EventsOf : IsAbout(About(f, event), f, event)
<1>1. Nothing \in KeptOf /\ Nothing.pieces = 0 /\ Nothing.owners = {}
  BY DEF Nothing, KeptOf
<1>2. Someone \in OwnersOf /\ None \in Int /\ "Text" \in Kinds
  BY DEF Someone, Owner, OwnersOf, Kinds, None
<1> HIDE DEF Nothing, Someone, None
<1>3. \A f \in WireNames : Frame(f) \in WireFrames /\ Frame(f).f = f /\ Frame(f).o = Someone
  BY <1>1, <1>2 DEF Frame, WireFrames
<1>4. \A f \in WireNames : \A u \in BOOLEAN :
       [Frame(f) EXCEPT !.usage = u] \in WireFrames /\ [Frame(f) EXCEPT !.usage = u].f = f
  BY <1>1, <1>2 DEF Frame, WireFrames
<1>5. ASSUME NEW f \in WireNames, NEW event \in EventsOf PROVE IsAbout(About(f, event), f, event)
  <2>1. event.i \in Int /\ event.k \in Kinds /\ event.o \in OwnersOf
    BY DEF EventsOf
  <2>2. About(f, event) \in WireFrames
    BY <1>1, <1>2, <2>1 DEF About, Frame, WireFrames
  <2>3. /\ About(f, event).f = f /\ About(f, event).i = event.i /\ About(f, event).o = event.o
        /\ About(f, event).k = event.k /\ About(f, event).kept = Nothing
    BY DEF About, Frame
  <2> QED
    BY <2>2, <2>3 DEF IsAbout
<1> QED
  BY <1>1, <1>3, <1>4, <1>5

\* The frame that closes the item that is open.
LEMMA ClosingFrame ==
  ASSUME NEW m, IsEmitter(m), NEW x \in WireFrames
  PROVE  \/ m.open = None /\ ClosesOpen(m) = <<>> /\ Append(ClosesOpen(m), x) = <<x>>
         \/ m.open # None /\ \E y \in WireFrames :
              /\ ClosesOpen(m) = <<y>> /\ Append(ClosesOpen(m), x) = <<y, x>>
              /\ y.f = "shut" /\ y.i = m.open /\ y.o = m.owner /\ y.kept = m.kept
<1>1. CASE m.open = None
  BY <1>1 DEF ClosesOpen
<1>2. CASE m.open # None
  <2> DEFINE y == [Frame("shut") EXCEPT !.i = m.open, !.k = m.kind, !.o = m.owner, !.kept = m.kept]
  <2>1. y \in WireFrames /\ y.f = "shut" /\ y.i = m.open /\ y.o = m.owner /\ y.kept = m.kept
    <3>1. m.open \in Int /\ m.kind \in Kinds /\ m.owner \in OwnersOf /\ m.kept \in KeptOf
      BY DEF IsEmitter, None
    <3>2. y \in WireFrames
      BY <3>1 DEF Frame, WireFrames, WireNames
    <3>3. y.f = "shut" /\ y.i = m.open /\ y.o = m.owner /\ y.kept = m.kept
      BY DEF Frame
    <3> QED
      BY <3>2, <3>3
  <2>2. ClosesOpen(m) = <<y>>
    BY <1>2 DEF ClosesOpen
  <2> HIDE DEF y
  <2>3. Append(<<y>>, x) = <<y, x>>
    BY <2>1, Pairs
  <2> QED
    BY <1>2, <2>1, <2>2, <2>3
<1> QED
  BY <1>1, <1>2

LEMMA Emitting ==
  ASSUME Typed, Emit
  PROVE  /\ Emission(Head(events)) /\ Head(events) \in EventsOf
         /\ IsEmitter(emitter') /\ wire' \in Seq(WireFrames)
<1> DEFINE event == Head(events)
           m == emitter
<1>1. /\ event \in EventsOf /\ event.i \in Nat /\ event.o \in OwnersOf /\ event.k \in Kinds /\ event.e \in EventNames
  <2>1. events \in Seq(EventsOf) /\ events # <<>>
    BY DEF Typed, Emit
  <2>2. event \in EventsOf
    BY <2>1, TailIs
  <2> HIDE DEF event
  <2> QED
    BY <2>2 DEF EventsOf
<1>2. IsEmitter(m) /\ road[2] \in Protocols /\ m.slots \in Seq(Nat) /\ m.usage \in BOOLEAN
  BY TranslationAssumption DEF Typed, IsEmitter
<1>3. emitter' = Emitted(event).emitter /\ wire' = Emitted(event).frames
  BY DEF Emit
<1> HIDE DEF event
<1>4. \A x \in WireFrames : <<x>> \in Seq(WireFrames) /\ \A y \in WireFrames : <<x, y>> \in Seq(WireFrames)
  OBVIOUS
<1>5. <<>> \in Seq(WireFrames)
  OBVIOUS
<1>6. CASE road[2] = "chat"
  <2>0. emitter' = EmitChat(m, event).emitter /\ wire' = EmitChat(m, event).frames
    BY <1>3, <1>6 DEF Emitted
  <2>1. CASE event.e = "Start"
    <3>1. emitter' = m /\ wire' = <<Frame("begin")>>
      BY <2>0, <2>1 DEF EmitChat, Emits
    <3>2. IsFrame(Frame("begin"), "begin")
      BY FrameIs DEF WireNames, IsFrame
    <3> QED
      BY <1>1, <1>2, <1>4, <2>1, <3>1, <3>2 DEF Emission, EmitsStart, SameBlock, IsFrame, event
  <2>2. CASE event.e = "ItemStart" /\ event.k = "ToolCall"
    <3> DEFINE x == [About("open", event) EXCEPT !.i = Len(m.slots)]
    <3>1. emitter' = [m EXCEPT !.slots = Append(@, event.i)] /\ wire' = <<x>>
      BY <2>0, <2>2 DEF EmitChat, Emits
    <3>2. x \in WireFrames /\ x.f = "open" /\ x.i = Len(m.slots) /\ x.o = event.o
      <4>1. IsAbout(About("open", event), "open", event)
        BY <1>1, FrameIs DEF WireNames
      <4>2. Len(m.slots) \in Int
        BY <1>2
      <4> QED
        BY <4>1, <4>2 DEF IsAbout, WireFrames
    <3>3. /\ IsEmitter(emitter') /\ emitter'.open = m.open /\ emitter'.owner = m.owner /\ emitter'.kept = m.kept
          /\ emitter'.slots = Append(m.slots, event.i)
      <4>1. Append(m.slots, event.i) \in Seq(Nat)
        BY <1>1, <1>2
      <4> QED
        BY <1>2, <3>1, <4>1 DEF IsEmitter
    <3> HIDE DEF x
    <3> QED
      BY <1>1, <1>4, <1>6, <2>2, <3>1, <3>2, <3>3 DEF Emission, EmitsCall, event
  <2>3. CASE event.e = "Delta" /\ event.k = "ToolCall"
    <3> DEFINE x == [About("delta", event) EXCEPT !.i = SlotOf(m, event.i)]
    <3>1. emitter' = m /\ wire' = <<x>>
      BY <2>0, <2>3 DEF EmitChat, Emits
    <3>2. x \in WireFrames /\ x.f = "delta" /\ x.i = SlotOf(m, event.i) /\ x.o = event.o /\ x.k = event.k
      <4>1. IsAbout(About("delta", event), "delta", event)
        BY <1>1, FrameIs DEF WireNames
      <4>2. SlotOf(m, event.i) \in Int
        <5>1. CASE event.i \in Elements(m.slots)
          <6>0. m.slots \in Seq(Nat) /\ \E n \in DOMAIN m.slots : m.slots[n] = event.i
            BY <1>2, <5>1 DEF Elements
          <6>1. DOMAIN m.slots = 1 .. Len(m.slots) /\ Len(m.slots) \in Nat
            BY ONLY <6>0
          <6> DEFINE s == CHOOSE s \in 1 .. Len(m.slots) : m.slots[s] = event.i
          <6>2. s \in 1 .. Len(m.slots)
            BY ONLY <6>0, <6>1
          <6>3. SlotOf(m, event.i) = s - 1
            BY <5>1 DEF SlotOf
          <6> HIDE DEF s
          <6> QED
            BY <6>1, <6>2, <6>3
        <5> QED
          BY <5>1 DEF SlotOf
      <4> QED
        BY <4>1, <4>2 DEF IsAbout, WireFrames
    <3> HIDE DEF x
    <3> QED
      BY <1>1, <1>2, <1>4, <1>6, <2>3, <3>1, <3>2 DEF Emission, EmitsDelta, event
  <2>4. CASE event.e = "Delta" /\ event.k # "ToolCall"
    <3> DEFINE x == [About("delta", event) EXCEPT !.i = None]
    <3>1. emitter' = m /\ wire' = <<x>>
      BY <2>0, <2>4 DEF EmitChat, Emits
    <3>2. x \in WireFrames /\ x.f = "delta" /\ x.i = None /\ x.o = event.o /\ x.k = event.k
      <4>1. IsAbout(About("delta", event), "delta", event)
        BY <1>1, FrameIs DEF WireNames
      <4> QED
        BY <4>1 DEF IsAbout, WireFrames, None
    <3> HIDE DEF x
    <3> QED
      BY <1>1, <1>2, <1>4, <1>6, <2>4, <3>1, <3>2 DEF Emission, EmitsDelta, event
  <2>5. CASE event.e = "Usage"
    <3>1. emitter' = [m EXCEPT !.usage = TRUE] /\ wire' = <<>>
      BY <2>0, <2>5 DEF EmitChat, Emits
    <3>2. IsEmitter(emitter') /\ SameBlock
      BY <1>2, <3>1 DEF IsEmitter, SameBlock
    <3> QED
      BY <1>1, <1>5, <2>5, <3>1, <3>2 DEF Emission, EmitsNothing, event
  <2>6. CASE event.e = "Finish"
    <3>1. emitter' = m /\ wire' = <<Frame("why")>>
      BY <2>0, <2>6 DEF EmitChat, Emits
    <3>2. Frame("why") \in WireFrames /\ Frame("why").f \in Reason
      BY FrameIs DEF WireNames, Reason
    <3> QED
      BY <1>1, <1>2, <1>4, <1>6, <2>6, <3>1, <3>2 DEF Emission, EmitsReason, SameBlock, event
  <2>7. CASE event.e = "Done"
    <3> DEFINE x == [Frame("usage") EXCEPT !.usage = TRUE]
    <3>1. emitter' = m /\ (wire' = <<x>> \/ wire' = <<>>)
      BY <2>0, <2>7 DEF EmitChat, Emits
    <3>2. x \in WireFrames /\ x.f = "usage"
      BY FrameIs DEF WireNames
    <3> HIDE DEF x
    <3>3. EmitsDone(event)
      BY <1>6, <2>7, <3>1, <3>2 DEF EmitsDone, SameBlock
    <3> QED
      BY <1>1, <1>2, <1>4, <1>5, <3>1, <3>2, <3>3 DEF Emission, event
  <2>8. CASE event.e = "ItemEnd" \/ (event.e = "ItemStart" /\ event.k # "ToolCall")
    <3>1. emitter' = m /\ wire' = <<>>
      BY <2>0, <2>8 DEF EmitChat, Emits
    <3> QED
      BY <1>1, <1>2, <1>5, <1>6, <2>8, <3>1 DEF Emission, EmitsNothing, SameBlock, event
  <2> QED
    BY <1>1, <2>1, <2>2, <2>3, <2>4, <2>5, <2>6, <2>7, <2>8 DEF EventNames
<1>7. CASE road[2] # "chat"
  <2> DEFINE messages == road[2] = "messages"
  <2>0. /\ (messages => emitter' = EmitMessages(m, event).emitter /\ wire' = EmitMessages(m, event).frames)
        /\ (~messages => emitter' = EmitResponses(m, event).emitter /\ wire' = EmitResponses(m, event).frames)
        /\ (~messages => road[2] = "responses")
    BY <1>2, <1>3, <1>7 DEF Emitted, Protocols
  <2>c. /\ IsEmitter(Closed(m)) /\ Closed(m).open = None /\ Closed(m).kept = Nothing /\ Closed(m).slots = m.slots
        /\ Closed(m).owner = m.owner /\ Closed(m).kind = m.kind /\ Closed(m).usage = m.usage
    BY <1>2, FrameIs DEF Closed, IsEmitter
  <2>a. ASSUME NEW x \in WireFrames, wire' = Append(ClosesOpen(m), x)
        PROVE  ClosesFirst(x) /\ wire' \in Seq(WireFrames)
    <3> DEFINE c == Append(ClosesOpen(m), x)
    <3>1. \/ m.open = None /\ c = <<x>>
          \/ m.open # None /\ \E y \in WireFrames :
               c = <<y, x>> /\ y.f = "shut" /\ y.i = m.open /\ y.o = m.owner /\ y.kept = m.kept
      BY <1>2, ClosingFrame
    <3>2. wire' = c
      BY <2>a
    <3> HIDE DEF c
    <3>3. CASE m.open = None /\ c = <<x>>
      BY <1>4, <3>2, <3>3 DEF ClosesFirst
    <3>4. CASE m.open # None /\ \E y \in WireFrames :
                 c = <<y, x>> /\ y.f = "shut" /\ y.i = m.open /\ y.o = m.owner /\ y.kept = m.kept
      <4>1. PICK y \in WireFrames :
              c = <<y, x>> /\ y.f = "shut" /\ y.i = m.open /\ y.o = m.owner /\ y.kept = m.kept
        BY <3>4
      <4>2. wire' = <<y, x>> /\ <<y, x>> \in Seq(WireFrames)
        BY <1>4, <3>2, <4>1
      <4> QED
        BY <3>4, <4>1, <4>2 DEF ClosesFirst
    <3> QED
      BY <3>1, <3>3, <3>4
  <2> HIDE DEF messages
  <2>1. CASE event.e = "Start"
    <3>1. emitter' = m /\ (wire' = <<Frame("begin")>> \/ wire' = <<Frame("begin"), Frame("progress")>>)
      BY <2>0, <2>1 DEF EmitMessages, EmitResponses, Emits
    <3>2. IsFrame(Frame("begin"), "begin") /\ IsFrame(Frame("progress"), "progress")
      BY FrameIs DEF WireNames, IsFrame
    <3> DEFINE x == Frame("begin")  y == Frame("progress")
    <3> HIDE DEF x, y
    <3>3. IsFrame(x, "begin") /\ IsFrame(y, "progress") /\ (wire' = <<x>> \/ wire' = <<x, y>>)
      BY <3>1, <3>2 DEF x, y
    <3>4. EmitsStart(event) /\ wire' \in Seq(WireFrames)
      BY <1>4, <2>1, <3>1, <3>3 DEF EmitsStart, SameBlock, IsFrame
    <3> QED
      BY <1>1, <1>2, <3>1, <3>4 DEF Emission, event
  <2>2. CASE event.e = "ItemStart"
    <3> DEFINE x == About("open", event)
    <3>1. emitter' = [Closed(m) EXCEPT !.open = event.i, !.kind = event.k, !.owner = event.o]
          /\ wire' = Append(ClosesOpen(m), x)
      BY <2>0, <2>2 DEF EmitMessages, EmitResponses, Emits, Opened
    <3>2. IsAbout(x, "open", event) /\ x \in WireFrames
      BY <1>1, FrameIs DEF WireNames, IsAbout
    <3> HIDE DEF x
    <3>3. ClosesFirst(x) /\ wire' \in Seq(WireFrames)
      BY <2>a, <3>1, <3>2
    <3>4. IsEmitter(emitter') /\ emitter'.open = event.i /\ emitter'.owner = event.o /\ emitter'.kept = Nothing
          /\ emitter'.slots = m.slots
      BY <1>1, <2>c, <3>1 DEF IsEmitter
    <3>5. EmitsItem(event)
      BY <1>7, <2>2, <3>2, <3>3, <3>4 DEF EmitsItem
    <3> QED
      BY <1>1, <3>3, <3>4, <3>5 DEF Emission, event
  <2>3. CASE event.e = "Delta"
    <3> DEFINE x == About("delta", event)
    <3>1. IsAbout(x, "delta", event)
      BY <1>1, FrameIs DEF WireNames
    <3>2. wire' = <<x>> /\ emitter' = (IF messages THEN m ELSE Collect(m, event.o))
      BY <2>0, <2>3 DEF EmitMessages, EmitResponses, Emits
    <3> HIDE DEF x
    <3>3. /\ IsEmitter(emitter') /\ emitter'.open = m.open /\ emitter'.owner = m.owner /\ emitter'.slots = m.slots
          /\ emitter'.kept = (IF road[2] = "responses" /\ m.open # None
                        THEN [pieces |-> m.kept.pieces + 1, owners |-> m.kept.owners \cup {event.o}]
                        ELSE m.kept)
      <4> DEFINE kept == [pieces |-> m.kept.pieces + 1, owners |-> m.kept.owners \cup {event.o}]
      <4>1. kept \in KeptOf
        BY <1>1, <1>2 DEF KeptOf, IsEmitter
      <4> HIDE DEF kept
      <4>2. Collect(m, event.o) = IF m.open = None THEN m ELSE [m EXCEPT !.kept = kept]
        BY <1>2 DEF Collect, IsEmitter, kept
      <4>3. CASE messages \/ m.open = None
        BY <1>2, <2>0, <3>2, <4>2, <4>3 DEF messages
      <4>4. CASE ~messages /\ m.open # None
        <5>1. emitter' = [m EXCEPT !.kept = kept] /\ road[2] = "responses"
          BY <2>0, <3>2, <4>2, <4>4
        <5>2. IsEmitter(emitter') /\ emitter'.open = m.open /\ emitter'.owner = m.owner /\ emitter'.slots = m.slots
              /\ emitter'.kept = kept
          BY <1>2, <4>1, <5>1 DEF IsEmitter
        <5> QED
          BY <4>4, <5>1, <5>2 DEF kept
      <4> QED
        BY <4>3, <4>4
    <3>4. EmitsDelta(event) /\ wire' \in Seq(WireFrames)
      BY <1>4, <1>7, <2>3, <3>1, <3>2, <3>3 DEF EmitsDelta, IsAbout
    <3> QED
      BY <1>1, <3>3, <3>4 DEF Emission, event
  <2>4. CASE event.e = "ItemEnd"
    <3> DEFINE x == About("shut", event)
    <3>1. emitter' = Closed(m) /\ wire' = (IF messages THEN <<x>> ELSE ClosesOpen(m))
      BY <2>0, <2>4 DEF EmitMessages, EmitResponses, Emits
    <3>2. IsAbout(x, "shut", event)
      BY <1>1, FrameIs DEF WireNames
    <3> HIDE DEF x
    <3>3. AllShut /\ IsEmitter(emitter')
      BY <2>c, <3>1 DEF AllShut
    <3>4. CASE messages
      BY <1>1, <1>4, <1>7, <2>4, <3>1, <3>2, <3>3, <3>4 DEF Emission, EmitsEnd, IsAbout, event, messages
    <3>5. CASE ~messages
      <4>1. \/ m.open = None /\ wire' = <<>>
            \/ m.open # None /\ \E y \in WireFrames :
                 /\ wire' = <<y>> /\ y.f = "shut" /\ y.i = m.open /\ y.o = m.owner /\ y.kept = m.kept
        <5>1. Frame("shut") \in WireFrames
          BY FrameIs DEF WireNames
        <5> QED
          BY <1>2, <3>1, <3>5, <5>1, ClosingFrame
      <4> QED
        BY <1>1, <1>4, <1>5, <1>7, <2>0, <2>4, <3>3, <3>5, <4>1 DEF Emission, EmitsEnd, event
    <3> QED
      BY <3>4, <3>5
  <2>5. CASE event.e = "Usage"
    <3>1. emitter' = [m EXCEPT !.usage = TRUE] /\ wire' = <<>>
      BY <2>0, <2>5 DEF EmitMessages, EmitResponses, Emits
    <3>2. IsEmitter(emitter') /\ SameBlock
      BY <1>2, <3>1 DEF IsEmitter, SameBlock
    <3> QED
      BY <1>1, <1>5, <2>5, <3>1, <3>2 DEF Emission, EmitsNothing, event
  <2>6. CASE event.e = "Finish"
    <3> DEFINE x == IF messages THEN [Frame("why") EXCEPT !.usage = m.usage] ELSE Frame("noted")
    <3>1. emitter' = Closed(m) /\ wire' = Append(ClosesOpen(m), x)
      BY <2>0, <2>6 DEF EmitMessages, EmitResponses, Emits
    <3>2. x \in WireFrames /\ x.f \in Reason
      BY <1>2, FrameIs DEF WireNames, Reason
    <3> HIDE DEF x
    <3>3. ClosesFirst(x) /\ wire' \in Seq(WireFrames)
      BY <2>a, <3>1, <3>2
    <3>4. AllShut /\ IsEmitter(emitter')
      BY <2>c, <3>1 DEF AllShut
    <3>5. EmitsReason(event)
      BY <1>7, <2>6, <3>2, <3>3, <3>4 DEF EmitsReason
    <3> QED
      BY <1>1, <3>3, <3>4, <3>5 DEF Emission, event
  <2>7. CASE event.e = "Done" /\ messages
    <3>1. emitter' = m /\ wire' = <<Frame("end")>>
      BY <2>0, <2>7 DEF EmitMessages, Emits
    <3>2. IsFrame(Frame("end"), "end")
      BY FrameIs DEF WireNames, IsFrame
    <3> QED
      BY <1>1, <1>2, <1>4, <2>7, <3>1, <3>2 DEF Emission, EmitsDone, SameBlock, IsFrame, event, messages
  <2>8. CASE event.e = "Done" /\ ~messages
    <3> DEFINE x == [Frame("end") EXCEPT !.usage = m.usage]
    <3>1. emitter' = Closed(m) /\ wire' = Append(ClosesOpen(m), x)
      BY <2>0, <2>8 DEF EmitResponses, Emits
    <3>2. x \in WireFrames /\ x.f = "end"
      BY <1>2, FrameIs DEF WireNames
    <3> HIDE DEF x
    <3>3. ClosesFirst(x) /\ wire' \in Seq(WireFrames)
      BY <2>a, <3>1, <3>2
    <3>4. AllShut /\ IsEmitter(emitter')
      BY <2>c, <3>1 DEF AllShut
    <3>5. EmitsDone(event)
      BY <2>0, <2>8, <3>2, <3>3, <3>4 DEF EmitsDone
    <3> QED
      BY <1>1, <3>3, <3>4, <3>5 DEF Emission, event
  <2> QED
    BY <1>1, <2>1, <2>2, <2>3, <2>4, <2>5, <2>6, <2>7, <2>8 DEF EventNames
<1> QED
  BY <1>6, <1>7

(* ------------------------------- the client ---------------------------- *)

LEMMA ReadsIt ==
  ASSUME Typed, Read
  PROVE  /\ Reading(Head(wire)) /\ Head(wire) \in WireFrames /\ IsClient(client')
         /\ wire' = Tail(wire) /\ wire' \in Seq(WireFrames)
<1> DEFINE frame == Head(wire)
           items == [i \in DOMAIN client.items \cup {frame.i} |->
                       IF i = frame.i THEN frame.o ELSE client.items[i]]
           found == Misread(Place(frame), {frame.o})
           spoilt == Misread(frame.o, frame.kept.owners)
           b == Breach(frame)
           c == [client EXCEPT !.breaches = @ \cup b]
<1>1. frame \in WireFrames /\ wire' = Tail(wire) /\ wire' \in Seq(WireFrames)
  BY TailIs DEF Typed, Read
<1>2. client' = Reads(frame) /\ IsClient(client)
  BY DEF Typed, Read
<1> SUFFICES Reading(frame) /\ IsClient(client')
  BY <1>1
<1> HIDE DEF frame
<1>3. frame.f \in WireNames /\ frame.i \in Int /\ frame.usage \in BOOLEAN /\ frame.kept.pieces \in Nat
  BY <1>1 DEF WireFrames, KeptOf
<1>4. Reads(frame) =
        CASE frame.f = "begin" -> [c EXCEPT !.begun = TRUE]
          [] frame.f = "open" -> [c EXCEPT !.block = frame.i, !.items = items]
          [] frame.f = "delta" -> [c EXCEPT !.got = @ + 1, !.misplaced = @ \cup found]
          [] frame.f = "shut" ->
               [c EXCEPT !.block = IF @ = frame.i THEN None ELSE @,
                         !.final = @ + frame.kept.pieces, !.spoilt = @ \cup spoilt]
          [] frame.f \in {"why", "noted"} -> [c EXCEPT !.reasons = @ + 1, !.usage = @ \/ frame.usage]
          [] frame.f = "usage" -> [c EXCEPT !.usage = TRUE]
          [] frame.f = "end" -> [c EXCEPT !.ends = @ + 1, !.usage = @ \/ frame.usage]
          [] frame.f = "error" -> [c EXCEPT !.errors = @ + 1]
          [] OTHER -> c
  BY <1>2 DEF Reads, IsClient
<1> DEFINE all ==
        /\ (client'.begun <=> (client.begun \/ frame.f = "begin"))
        /\ client'.items = (IF frame.f # "open" THEN client.items ELSE items)
        /\ client'.block = (IF frame.f = "open" THEN frame.i
                            ELSE IF frame.f = "shut" /\ client.block = frame.i THEN None ELSE client.block)
        /\ client'.got = client.got + One(frame.f = "delta")
        /\ client'.final = client.final + (IF frame.f = "shut" THEN frame.kept.pieces ELSE 0)
        /\ client'.reasons = client.reasons + One(frame.f \in Reason)
        /\ client'.ends = client.ends + One(frame.f = "end")
        /\ client'.errors = client.errors + One(frame.f = "error")
        /\ client'.misplaced = client.misplaced \cup (IF frame.f = "delta" THEN found ELSE {})
        /\ client'.spoilt = client.spoilt \cup (IF frame.f = "shut" THEN spoilt ELSE {})
        /\ client'.breaches = client.breaches \cup b
<1>5. all => Reading(frame)
  BY DEF Reading
<1> HIDE DEF items, found, spoilt, b
<1>c. /\ DOMAIN c = DOMAIN client /\ c.begun = client.begun /\ c.items = client.items /\ c.block = client.block
      /\ c.got = client.got /\ c.final = client.final /\ c.reasons = client.reasons /\ c.ends = client.ends
      /\ c.errors = client.errors /\ c.usage = client.usage /\ c.misplaced = client.misplaced
      /\ c.spoilt = client.spoilt /\ c.breaches = client.breaches \cup b
  BY <1>2 DEF IsClient
<1> HIDE DEF c
<1>d. /\ DOMAIN c = {"begun", "items", "block", "got", "final", "reasons", "ends", "errors",
                     "usage", "misplaced", "spoilt", "breaches"}
      /\ c.got \in Nat /\ c.final \in Nat /\ c.reasons \in Nat /\ c.ends \in Nat /\ c.errors \in Nat
      /\ c.block \in Int /\ c.begun \in BOOLEAN /\ c.usage \in BOOLEAN
  BY <1>2, <1>c DEF IsClient
<1>v. One(TRUE) = 1 /\ One(FALSE) = 0 /\ Reason = {"why", "noted"} /\ None \in Int /\ \A S : S \cup {} = S
  BY DEF One, Reason, None
<1>6. CASE frame.f = "begin"
  <2>1. client' = [c EXCEPT !.begun = TRUE]
    BY <1>2, <1>4, <1>6
  <2>2. /\ DOMAIN client' = DOMAIN client
        /\ client'.begun = (TRUE) /\ client'.items = client.items /\ client'.block = client.block
        /\ client'.got = client.got /\ client'.final = client.final /\ client'.reasons = client.reasons
        /\ client'.ends = client.ends /\ client'.errors = client.errors /\ client'.usage = client.usage
        /\ client'.misplaced = client.misplaced /\ client'.spoilt = client.spoilt /\ client'.breaches = client.breaches \cup b
    BY <1>c, <1>d, <2>1
  <2>3. all
    BY <1>2, <1>3, <1>6, <2>2, <1>v DEF IsClient, One
  <2>4. IsClient(client')
    BY <1>2, <1>3, <1>v, <2>2 DEF IsClient
  <2> HIDE DEF all
  <2> QED
    BY <1>5, <2>3, <2>4
<1>7. CASE frame.f = "open"
  <2>1. client' = [c EXCEPT !.block = frame.i, !.items = items]
    BY <1>2, <1>4, <1>7
  <2>2. /\ DOMAIN client' = DOMAIN client
        /\ client'.begun = client.begun /\ client'.items = (items) /\ client'.block = (frame.i)
        /\ client'.got = client.got /\ client'.final = client.final /\ client'.reasons = client.reasons
        /\ client'.ends = client.ends /\ client'.errors = client.errors /\ client'.usage = client.usage
        /\ client'.misplaced = client.misplaced /\ client'.spoilt = client.spoilt /\ client'.breaches = client.breaches \cup b
    BY <1>c, <1>d, <2>1
  <2>3. all
    BY <1>2, <1>3, <1>7, <2>2, <1>v DEF IsClient, One
  <2>4. IsClient(client')
    BY <1>2, <1>3, <1>v, <2>2 DEF IsClient
  <2> HIDE DEF all
  <2> QED
    BY <1>5, <2>3, <2>4
<1>8. CASE frame.f = "delta"
  <2>1. client' = [c EXCEPT !.got = @ + 1, !.misplaced = @ \cup found]
    BY <1>2, <1>4, <1>8
  <2>2. /\ DOMAIN client' = DOMAIN client
        /\ client'.begun = client.begun /\ client'.items = client.items /\ client'.block = client.block
        /\ client'.got = (client.got + 1) /\ client'.final = client.final /\ client'.reasons = client.reasons
        /\ client'.ends = client.ends /\ client'.errors = client.errors /\ client'.usage = client.usage
        /\ client'.misplaced = (client.misplaced \cup found) /\ client'.spoilt = client.spoilt /\ client'.breaches = client.breaches \cup b
    BY <1>c, <1>d, <2>1
  <2>3. all
    BY <1>2, <1>3, <1>8, <2>2, <1>v DEF IsClient, One
  <2>4. IsClient(client')
    BY <1>2, <1>3, <1>v, <2>2 DEF IsClient
  <2> HIDE DEF all
  <2> QED
    BY <1>5, <2>3, <2>4
<1>9. CASE frame.f = "shut"
  <2>1. client' = [c EXCEPT !.block = IF @ = frame.i THEN None ELSE @, !.final = @ + frame.kept.pieces, !.spoilt = @ \cup spoilt]
    BY <1>2, <1>4, <1>9
  <2>2. /\ DOMAIN client' = DOMAIN client
        /\ client'.begun = client.begun /\ client'.items = client.items /\ client'.block = (IF client.block = frame.i THEN None ELSE client.block)
        /\ client'.got = client.got /\ client'.final = (client.final + frame.kept.pieces) /\ client'.reasons = client.reasons
        /\ client'.ends = client.ends /\ client'.errors = client.errors /\ client'.usage = client.usage
        /\ client'.misplaced = client.misplaced /\ client'.spoilt = (client.spoilt \cup spoilt) /\ client'.breaches = client.breaches \cup b
    BY <1>c, <1>d, <2>1
  <2>3. all
    BY <1>2, <1>3, <1>9, <2>2, <1>v DEF IsClient, One
  <2>4. IsClient(client')
    BY <1>2, <1>3, <1>v, <2>2 DEF IsClient
  <2> HIDE DEF all
  <2> QED
    BY <1>5, <2>3, <2>4
<1>10. CASE frame.f \in {"why", "noted"}
  <2>1. client' = [c EXCEPT !.reasons = @ + 1, !.usage = @ \/ frame.usage]
    BY <1>2, <1>4, <1>10
  <2>2. /\ DOMAIN client' = DOMAIN client
        /\ client'.begun = client.begun /\ client'.items = client.items /\ client'.block = client.block
        /\ client'.got = client.got /\ client'.final = client.final /\ client'.reasons = (client.reasons + 1)
        /\ client'.ends = client.ends /\ client'.errors = client.errors /\ client'.usage = (client.usage \/ frame.usage)
        /\ client'.misplaced = client.misplaced /\ client'.spoilt = client.spoilt /\ client'.breaches = client.breaches \cup b
    BY <1>c, <1>d, <2>1
  <2>3. all
    BY <1>2, <1>3, <1>10, <2>2, <1>v DEF IsClient, One
  <2>4. IsClient(client')
    BY <1>2, <1>3, <1>v, <2>2 DEF IsClient
  <2> HIDE DEF all
  <2> QED
    BY <1>5, <2>3, <2>4
<1>11. CASE frame.f = "usage"
  <2>1. client' = [c EXCEPT !.usage = TRUE]
    BY <1>2, <1>4, <1>11
  <2>2. /\ DOMAIN client' = DOMAIN client
        /\ client'.begun = client.begun /\ client'.items = client.items /\ client'.block = client.block
        /\ client'.got = client.got /\ client'.final = client.final /\ client'.reasons = client.reasons
        /\ client'.ends = client.ends /\ client'.errors = client.errors /\ client'.usage = (TRUE)
        /\ client'.misplaced = client.misplaced /\ client'.spoilt = client.spoilt /\ client'.breaches = client.breaches \cup b
    BY <1>c, <1>d, <2>1
  <2>3. all
    BY <1>2, <1>3, <1>11, <2>2, <1>v DEF IsClient, One
  <2>4. IsClient(client')
    BY <1>2, <1>3, <1>v, <2>2 DEF IsClient
  <2> HIDE DEF all
  <2> QED
    BY <1>5, <2>3, <2>4
<1>12. CASE frame.f = "end"
  <2>1. client' = [c EXCEPT !.ends = @ + 1, !.usage = @ \/ frame.usage]
    BY <1>2, <1>4, <1>12
  <2>2. /\ DOMAIN client' = DOMAIN client
        /\ client'.begun = client.begun /\ client'.items = client.items /\ client'.block = client.block
        /\ client'.got = client.got /\ client'.final = client.final /\ client'.reasons = client.reasons
        /\ client'.ends = (client.ends + 1) /\ client'.errors = client.errors /\ client'.usage = (client.usage \/ frame.usage)
        /\ client'.misplaced = client.misplaced /\ client'.spoilt = client.spoilt /\ client'.breaches = client.breaches \cup b
    BY <1>c, <1>d, <2>1
  <2>3. all
    BY <1>2, <1>3, <1>12, <2>2, <1>v DEF IsClient, One
  <2>4. IsClient(client')
    BY <1>2, <1>3, <1>v, <2>2 DEF IsClient
  <2> HIDE DEF all
  <2> QED
    BY <1>5, <2>3, <2>4
<1>13. CASE frame.f = "error"
  <2>1. client' = [c EXCEPT !.errors = @ + 1]
    BY <1>2, <1>4, <1>13
  <2>2. /\ DOMAIN client' = DOMAIN client
        /\ client'.begun = client.begun /\ client'.items = client.items /\ client'.block = client.block
        /\ client'.got = client.got /\ client'.final = client.final /\ client'.reasons = client.reasons
        /\ client'.ends = client.ends /\ client'.errors = (client.errors + 1) /\ client'.usage = client.usage
        /\ client'.misplaced = client.misplaced /\ client'.spoilt = client.spoilt /\ client'.breaches = client.breaches \cup b
    BY <1>c, <1>d, <2>1
  <2>3. all
    BY <1>2, <1>3, <1>13, <2>2, <1>v DEF IsClient, One
  <2>4. IsClient(client')
    BY <1>2, <1>3, <1>v, <2>2 DEF IsClient
  <2> HIDE DEF all
  <2> QED
    BY <1>5, <2>3, <2>4
<1>14. CASE frame.f = "progress"
  <2>1. client' = c
    BY <1>2, <1>4, <1>14
  <2>2. /\ DOMAIN client' = DOMAIN client
        /\ client'.begun = client.begun /\ client'.items = client.items /\ client'.block = client.block
        /\ client'.got = client.got /\ client'.final = client.final /\ client'.reasons = client.reasons
        /\ client'.ends = client.ends /\ client'.errors = client.errors /\ client'.usage = client.usage
        /\ client'.misplaced = client.misplaced /\ client'.spoilt = client.spoilt /\ client'.breaches = client.breaches \cup b
    BY <1>c, <1>d, <2>1
  <2>3. all
    BY <1>2, <1>3, <1>14, <2>2, <1>v DEF IsClient, One
  <2>4. IsClient(client')
    BY <1>2, <1>3, <1>v, <2>2 DEF IsClient
  <2> HIDE DEF all
  <2> QED
    BY <1>5, <2>3, <2>4
<1> QED
  BY <1>3, <1>6, <1>7, <1>8, <1>9, <1>10, <1>11, <1>12, <1>13, <1>14 DEF WireNames

(* ------------------------------ every step ----------------------------- *)

LEMMA Stepping ==
  ASSUME Typed, Knows, Ready, Next
  PROVE  OneStep
<1>1. CASE Speaking
  BY <1>1, Spoken DEF OneStep
<1>2. CASE Leaves
  BY <1>2, Leaving DEF OneStep
<1>3. Error \in Seq(WireFrames) /\ \E x \in WireFrames : x.f = "error" /\ Error = <<x>>
  BY FrameIs DEF Error, WireNames
<1>4. CASE Take
  <2>0. arrived \in Seq(UpFrames) /\ arrived # <<>> /\ Idle /\ Live /\ parser = parser
    BY <1>4 DEF Typed, Take, Live
  <2>1. /\ Head(arrived) = arrived[1] /\ arrived[1] \in UpFrames /\ 1 \in DOMAIN arrived
    BY <2>0, TailIs
  <2>2. CASE Switch
    BY <2>2 DEF OneStep
  <2>3. CASE /\ Head(arrived).f = "error" /\ phase = "open"
             /\ wire' = Error /\ phase' = "ended" /\ arrived' = <<>>
             /\ UNCHANGED <<road, up, parser, events, emitter, client>>
    BY <1>3, <2>0, <2>1, <2>3 DEF OneStep, Fails
  <2>4. CASE /\ Head(arrived).f # "error"
             /\ LET r == Parsed(Head(arrived)) IN
                  /\ parser' = r.parser /\ events' = r.events
                  /\ phase' = Takes(r.events)
                  /\ arrived' = IF Takes(r.events) # phase THEN Pending(Tail(arrived)) ELSE Tail(arrived)
             /\ UNCHANGED <<road, up, emitter, wire, client>>
    <3> DEFINE frame == Head(arrived)
    <3>1. /\ parser' = Parsed(frame).parser /\ events' = Parsed(frame).events
          /\ phase' \in {phase, "open"} /\ arrived' = Tail(arrived)
      BY <2>4 DEF Takes, Pending
    <3>2. frame = Head(arrived) /\ frame.f # "error" /\ (frame.f \in {"stop", "piece", "open", "shut"} => ~parser.finished)
      BY <2>1, <2>4 DEF Ready
    <3>3. frame = arrived[1] /\ frame \in UpFrames
      BY <2>1
    <3> HIDE DEF frame
    <3>4. Outcome(frame) /\ IsParser(parser') /\ events' \in Seq(EventsOf)
      BY <2>0, <3>1, <3>2, Parsing
    <3>5. Parses(frame)
      BY <2>0, <2>4, <3>1, <3>2, <3>3, <3>4 DEF Parses
    <3> QED
      BY <3>3, <3>5 DEF OneStep
  <2> QED
    BY <1>4, <2>2, <2>3, <2>4 DEF Take
<1>5. CASE Full
  BY <1>5 DEF OneStep
<1>6. CASE Emit
  <2> DEFINE event == Head(events)
  <2>1. event \in EventsOf
    BY <1>6, TailIs DEF Typed, Emit
  <2>2. Emission(event) /\ IsEmitter(emitter') /\ wire' \in Seq(WireFrames)
    BY <1>6, Emitting
  <2>3. EmitsOne(event)
    BY <1>6, <2>2 DEF EmitsOne, Emit
  <2> HIDE DEF event
  <2> QED
    BY <2>1, <2>3 DEF OneStep
<1>7. CASE Read
  <2> DEFINE frame == Head(wire)
  <2>1. /\ Reading(frame) /\ frame \in WireFrames /\ IsClient(client')
        /\ wire' = Tail(wire) /\ wire' \in Seq(WireFrames)
    BY <1>7, ReadsIt
  <2>2. ReadsOne(frame)
    BY <1>7, <2>1 DEF ReadsOne, Read
  <2> HIDE DEF frame
  <2> QED
    BY <2>1, <2>2 DEF OneStep
<1>8. CASE Over
  <2>0. Idle /\ arrived = <<>> /\ up.over # "no"
    BY <1>8 DEF Over
  <2>1. CASE Switch
    BY <2>1 DEF OneStep
  <2>2. CASE /\ phase = "open" /\ up.over = "broken"
             /\ wire' = Error /\ phase' = "ended"
             /\ UNCHANGED <<road, up, arrived, parser, events, emitter, client>>
    BY <1>3, <2>0, <2>2 DEF OneStep, Fails
  <2>3. CASE /\ phase = "open" /\ up.over = "closed"
             /\ parser' = Finished.parser /\ events' = Finished.events /\ phase' = "closing"
             /\ UNCHANGED <<road, up, arrived, emitter, wire, client>>
    <3>1. CASE road[1] = "chat"
      <4>1. (Silent \/ Finishes(Sends("mark"))) /\ IsParser(parser') /\ events' \in Seq(EventsOf)
        BY <2>3, <3>1, ChatEnds
      <4> QED
        BY <2>0, <2>3, <3>1, <4>1 DEF OneStep, Closes
    <3>2. CASE road[1] # "chat"
      <4>1. Silent /\ IsParser(parser')
        BY <2>3, <3>2, NumberedEnds
      <4>2. events' \in Seq(EventsOf)
        BY <4>1, Written DEF Silent
      <4> QED
        BY <2>0, <2>3, <4>1, <4>2 DEF OneStep, Closes
    <3> QED
      BY <3>1, <3>2
  <2>4. CASE /\ phase = "closing"
             /\ wire' = Trailer /\ phase' = "ended"
             /\ UNCHANGED <<road, up, arrived, parser, events, emitter, client>>
    <3>1. Frame("end") \in WireFrames /\ Frame("end").f = "end"
      BY FrameIs DEF WireNames
    <3>2. /\ wire' \in Seq(WireFrames)
          /\ IF road[2] = "chat" THEN \E x \in WireFrames : x.f = "end" /\ wire' = <<x>> ELSE wire' = <<>>
      BY <2>4, <3>1 DEF Trailer
    <3> QED
      BY <2>0, <2>4, <3>2 DEF OneStep, Trails
  <2> QED
    BY <1>8, <2>1, <2>2, <2>3, <2>4 DEF Over
<1> QED
  BY <1>1, <1>2, <1>4, <1>5, <1>6, <1>7, <1>8 DEF Next, Speaking

\* What is new in the chunk.
LEMMA Grown ==
  ASSUME Typed, NEW frame \in UpFrames, arrived' = Append(arrived, frame)
  PROVE  /\ arrived' \in Seq(UpFrames) /\ Len(arrived') = Len(arrived) + 1 /\ Len(arrived) \in Nat
         /\ DOMAIN arrived = 1 .. Len(arrived) /\ DOMAIN arrived' = 1 .. Len(arrived) + 1
         /\ \A n \in DOMAIN arrived : n \in DOMAIN arrived' /\ arrived'[n] = arrived[n]
         /\ arrived'[Len(arrived) + 1] = frame
         /\ \A n \in DOMAIN arrived' : (n \in DOMAIN arrived /\ arrived'[n] = arrived[n]) \/ (n = Len(arrived) + 1 /\ arrived'[n] = frame)
<1>1. arrived \in Seq(UpFrames)
  BY DEF Typed
<1> DEFINE a == Append(arrived, frame)
<1>2. /\ Len(arrived) \in Nat /\ DOMAIN arrived = 1 .. Len(arrived)
      /\ a \in Seq(UpFrames) /\ Len(a) = Len(arrived) + 1
      /\ DOMAIN a = 1 .. Len(arrived) + 1
      /\ \A n \in DOMAIN arrived : a[n] = arrived[n]
      /\ a[Len(arrived) + 1] = frame
  BY <1>1, AppendIs
<1>3. arrived' = a
  OBVIOUS
<1> DEFINE l == Len(arrived)
<1>4. Len(arrived') = l + 1 /\ DOMAIN arrived' = 1 .. l + 1 /\ arrived' \in Seq(UpFrames) /\ arrived'[l + 1] = frame
      /\ \A n \in DOMAIN arrived : arrived'[n] = arrived[n]
  BY <1>2, <1>3
<1> HIDE DEF a, l
<1>5. l \in Nat /\ DOMAIN arrived = 1 .. l
  BY <1>2 DEF l
<1>6. \A n \in 1 .. l + 1 : n \in 1 .. l \/ n = l + 1
  BY <1>5
<1>7. \A n \in 1 .. l : n \in 1 .. l + 1
  BY <1>5
<1> QED
  BY <1>4, <1>5, <1>6, <1>7 DEF l

\* What is left of the chunk, of the events, of the frames.
LEMMA ChunkTail ==
  ASSUME Typed, arrived # <<>>, arrived' = Tail(arrived)
  PROVE  /\ arrived' \in Seq(UpFrames) /\ Len(arrived') = Len(arrived) - 1 /\ Len(arrived) \in Nat \ {0}
         /\ 1 \in DOMAIN arrived /\ DOMAIN arrived = 1 .. Len(arrived)
         /\ \A n \in DOMAIN arrived' : n \in Nat /\ n >= 1 /\ n + 1 \in DOMAIN arrived /\ arrived'[n] = arrived[n + 1]
         /\ \A n \in DOMAIN arrived : n = 1 \/ (n - 1 \in DOMAIN arrived' /\ arrived[n] = arrived'[n - 1])
<1>1. arrived \in Seq(UpFrames)
  BY DEF Typed
<1> DEFINE a == Tail(arrived)
           l == Len(arrived)
<1>2. /\ l \in Nat \ {0} /\ DOMAIN arrived = 1 .. l /\ 1 \in DOMAIN arrived
      /\ a \in Seq(UpFrames) /\ Len(a) = l - 1 /\ DOMAIN a = 1 .. l - 1
      /\ \A n \in DOMAIN a : n + 1 \in DOMAIN arrived /\ a[n] = arrived[n + 1]
      /\ \A n \in DOMAIN arrived : n = 1 \/ (n - 1 \in DOMAIN a /\ arrived[n] = a[n - 1])
  BY <1>1, TailIs
<1>3. arrived' = a
  OBVIOUS
<1> HIDE DEF a, l
<1>4. \A n \in 1 .. l - 1 : n \in Nat /\ n >= 1
  BY <1>2
<1> QED
  BY <1>2, <1>3, <1>4 DEF l

\* The types.
LEMMA TypedStep ==
  ASSUME Typed, OneStep
  PROVE  Typed'
<1> USE DEF Typed
<1>1. ASSUME NEW frame \in UpFrames, Talks(frame) PROVE Typed'
  <2>1. /\ arrived' \in Seq(UpFrames) /\ Len(arrived') = Len(arrived) + 1 /\ Len(arrived) \in Nat
        /\ \A n \in DOMAIN arrived' : (n \in DOMAIN arrived /\ arrived'[n] = arrived[n]) \/ (n = Len(arrived) + 1 /\ arrived'[n] = frame)
    BY <1>1, Grown DEF Talks
  <2>2. Len(arrived') <= 2
    BY <1>1, <2>1 DEF Talks
  <2>3. /\ (road[1] = "chat" => frame.f \in {"piece", "stop", "usage", "mark", "error"})
        /\ (road[1] # "chat" => frame.f # "usage")
        /\ (road[1] # "responses" => frame.f \notin {"progress", "failed"})
        /\ (road[1] = "responses" => frame.f # "mark")
        /\ (road[1] = "chat" /\ frame.f = "piece" /\ frame.k = "ToolCall" => frame.i \in Slots)
    BY <1>1 DEF Talks, Text1, Call1, Begins1, Item1, Piece1, Shut1, Stop1, Other1
  <2>4. road' = road
    BY <1>1 DEF Talks
  <2>5. Speaks'
    BY <2>1, <2>3, <2>4 DEF Speaks
  <2> QED
    BY <1>1, <2>1, <2>2, <2>5 DEF Talks
<1>2. ASSUME NEW frame \in UpFrames, Parses(frame) PROVE Typed'
  <2>1. /\ arrived' \in Seq(UpFrames) /\ Len(arrived') = Len(arrived) - 1 /\ Len(arrived) \in Nat
        /\ \A n \in DOMAIN arrived' : n + 1 \in DOMAIN arrived /\ arrived'[n] = arrived[n + 1]
    BY <1>2, ChunkTail DEF Parses
  <2>2. Speaks'
    BY <1>2, <2>1 DEF Parses, Speaks
  <2> QED
    BY <1>2, <2>1, <2>2 DEF Parses
<1>3. CASE Quits
  BY <1>3 DEF Quits, Speaks
<1>0. arrived' = <<>> => Speaks' /\ arrived' \in Seq(UpFrames) /\ Len(arrived') <= 2
  BY DEF Speaks
<1>4. CASE Fails
  BY <1>0, <1>4 DEF Fails
<1>5. CASE Switch
  <2>1. IsClient(NewClient) /\ <<>> \in Seq(WireFrames) /\ <<>> \in Seq(EventsOf)
    BY DEF IsClient, NewClient, None
  <2> QED
    BY <1>0, <1>5, <2>1 DEF Switch
<1>6. CASE Full
  BY <1>6 DEF Full, Speaks
<1>7. CASE Closes
  BY <1>0, <1>7 DEF Closes
<1>8. CASE Trails
  BY <1>0, <1>8 DEF Trails
<1>9. ASSUME NEW event \in EventsOf, EmitsOne(event) PROVE Typed'
  <2>1. events' \in Seq(EventsOf)
    BY <1>9, TailIs DEF EmitsOne
  <2> QED
    BY <1>9, <2>1 DEF EmitsOne, Speaks
<1>10. ASSUME NEW frame \in WireFrames, ReadsOne(frame) PROVE Typed'
  BY <1>10 DEF ReadsOne, Speaks
<1> QED
  BY <1>1, <1>2, <1>3, <1>4, <1>5, <1>6, <1>7, <1>8, <1>9, <1>10 DEF OneStep

(* ----------------------- the end is told once -------------------------- *)

LEMMA EventTail ==
  ASSUME NEW s \in Seq(EventsOf), s # <<>>, InOrder(s)
  PROVE  /\ InOrder(Tail(s)) /\ Head(s) \in EventsOf
         /\ \A e : Coming(s, e) <=> (Head(s).e = e \/ Coming(Tail(s), e))
         /\ \A e : Coming(Tail(s), e) => <<Head(s).e, e>> \in Order
         /\ (Head(s).e \in {"Delta", "Done"} => Tail(s) = <<>> \/ Head(s).e = "Delta")
         /\ (Head(s).e = "Done" => Tail(s) = <<>>)
<1> DEFINE t == Tail(s)
           h == Head(s)
<1>1. /\ Len(s) \in Nat \ {0} /\ DOMAIN s = 1 .. Len(s) /\ h = s[1] /\ h \in EventsOf /\ 1 \in DOMAIN s
      /\ t \in Seq(EventsOf) /\ Len(t) = Len(s) - 1 /\ DOMAIN t = 1 .. Len(s) - 1
      /\ \A n \in DOMAIN t : n + 1 \in DOMAIN s /\ t[n] = s[n + 1]
      /\ \A n \in DOMAIN s : n = 1 \/ (n - 1 \in DOMAIN t /\ s[n] = t[n - 1])
  BY TailIs
<1> DEFINE l == Len(s)
<1> HIDE DEF t, h
<1>2. \A n \in DOMAIN t : n \in Nat /\ 1 < n + 1
  <2> HIDE DEF l
  <2> QED
    BY <1>1 DEF l
<1>3. \A m, n \in DOMAIN t : m < n => m + 1 < n + 1
  BY <1>2
<1>4. InOrder(t)
  BY <1>1, <1>3 DEF InOrder
<1>5. ASSUME NEW e PROVE Coming(s, e) <=> (h.e = e \/ Coming(t, e))
  BY <1>1 DEF Coming
<1>6. ASSUME NEW e, Coming(t, e) PROVE <<h.e, e>> \in Order
  <2>1. PICK n \in DOMAIN t : t[n].e = e
    BY <1>6 DEF Coming
  <2>2. 1 \in DOMAIN s /\ n + 1 \in DOMAIN s /\ 1 < n + 1 /\ s[n + 1].e = e
    BY <1>1, <1>2, <2>1
  <2> QED
    BY <1>1, <2>2 DEF InOrder
<1>7. h.e = "Done" => t = <<>>
  <2>1. \A e : <<"Done", e>> \notin Order
    BY DEF Order
  <2>2. SUFFICES ASSUME h.e = "Done", t # <<>> PROVE FALSE
    OBVIOUS
  <2>3. 1 \in DOMAIN t
    BY <1>1, <2>2
  <2>4. Coming(t, t[1].e)
    BY <2>3 DEF Coming
  <2> QED
    BY <1>6, <2>1, <2>2, <2>4
<1> QED
  BY <1>1, <1>4, <1>5, <1>6, <1>7 DEF t, h

LEMMA WireTail ==
  ASSUME NEW s \in Seq(WireFrames), s # <<>>, Chain(s)
  PROVE  /\ Chain(Tail(s)) /\ Head(s) \in WireFrames
         /\ \A fs : Shows(s, fs) <=> (Head(s).f \in fs \/ Shows(Tail(s), fs))
         /\ (Tail(s) = <<>> \/ Head(s).f \in {"begin", "shut"})
         /\ \A n \in DOMAIN Tail(s) : Tail(s)[n].f \in {"progress", "open", "why", "noted", "end"}
         /\ \A fs : fs \cap {"progress", "open", "why", "noted", "end"} = {} => ~Shows(Tail(s), fs)
         /\ \A fs : Head(s).f \in fs /\ fs \cap {"begin", "shut"} = {} => ~Shows(Tail(s), fs)
<1> DEFINE t == Tail(s)
           h == Head(s)
<1>1. /\ Len(s) \in Nat \ {0} /\ DOMAIN s = 1 .. Len(s) /\ h = s[1] /\ h \in WireFrames /\ 1 \in DOMAIN s
      /\ t \in Seq(WireFrames) /\ Len(t) = Len(s) - 1 /\ DOMAIN t = 1 .. Len(s) - 1
      /\ \A n \in DOMAIN t : n + 1 \in DOMAIN s /\ t[n] = s[n + 1]
      /\ \A n \in DOMAIN s : n = 1 \/ (n - 1 \in DOMAIN t /\ s[n] = t[n - 1])
  BY TailIs
<1> HIDE DEF t, h
<1>2. \A n \in DOMAIN t : n \in Nat /\ 1 < n + 1
  BY <1>1
<1>3. \A m, n \in DOMAIN t : m < n => m + 1 < n + 1
  BY <1>2
<1>4. Chain(t)
  BY <1>1, <1>3 DEF Chain
<1>5. ASSUME NEW fs PROVE Shows(s, fs) <=> (h.f \in fs \/ Shows(t, fs))
  BY <1>1 DEF Shows
<1>6. ASSUME NEW n \in DOMAIN t
      PROVE  h.f \in {"begin", "shut"} /\ t[n].f \in {"progress", "open", "why", "noted", "end"}
  BY <1>1, <1>2 DEF Chain
<1>7. t = <<>> \/ h.f \in {"begin", "shut"}
  <2>1. t # <<>> => 1 \in DOMAIN t
    BY <1>1
  <2> QED
    BY <1>6, <2>1
<1>8. ASSUME NEW fs, fs \cap {"progress", "open", "why", "noted", "end"} = {} PROVE ~Shows(t, fs)
  BY <1>6, <1>8 DEF Shows
<1>9. ASSUME NEW fs, h.f \in fs, fs \cap {"begin", "shut"} = {} PROVE ~Shows(t, fs)
  BY <1>6, <1>9 DEF Shows
<1> QED
  BY <1>1, <1>4, <1>5, <1>6, <1>7, <1>8, <1>9 DEF t, h

LEMMA Short ==
  /\ Chain(<<>>) /\ \A fs : ~Shows(<<>>, fs)
  /\ \A x : Chain(<<x>>) /\ \A fs : Shows(<<x>>, fs) <=> x.f \in fs
  /\ \A y, x : /\ \A fs : Shows(<<y, x>>, fs) <=> (y.f \in fs \/ x.f \in fs)
               /\ (y.f \in {"begin", "shut"} /\ x.f \in {"progress", "open", "why", "noted", "end"} => Chain(<<y, x>>))
<1>1. Chain(<<>>) /\ \A fs : ~Shows(<<>>, fs)
  BY DEF Chain, Shows
<1>2. ASSUME NEW x PROVE Chain(<<x>>) /\ \A fs : Shows(<<x>>, fs) <=> x.f \in fs
  <2>1. DOMAIN <<x>> = {1} /\ <<x>>[1] = x
    OBVIOUS
  <2> DEFINE w == <<x>>
  <2> HIDE DEF w
  <2>2. DOMAIN w = {1} /\ w[1] = x
    BY <2>1 DEF w
  <2>3. Chain(w) /\ \A fs : Shows(w, fs) <=> x.f \in fs
    BY <2>2 DEF Chain, Shows
  <2> QED
    BY <2>3 DEF w
<1>3. ASSUME NEW y, NEW x
      PROVE  /\ \A fs : Shows(<<y, x>>, fs) <=> (y.f \in fs \/ x.f \in fs)
             /\ (y.f \in {"begin", "shut"} /\ x.f \in {"progress", "open", "why", "noted", "end"} => Chain(<<y, x>>))
  <2> DEFINE w == <<y, x>>
  <2>1. DOMAIN w = {1, 2} /\ w[1] = y /\ w[2] = x
    OBVIOUS
  <2> HIDE DEF w
  <2>2. \A m, n \in {1, 2} : m < n => m = 1 /\ n = 2
    OBVIOUS
  <2>3. \A fs : Shows(w, fs) <=> (y.f \in fs \/ x.f \in fs)
    BY <2>1 DEF Shows
  <2>4. y.f \in {"begin", "shut"} /\ x.f \in {"progress", "open", "why", "noted", "end"} => Chain(w)
    BY <2>1, <2>2 DEF Chain
  <2> QED
    BY <2>3, <2>4 DEF w
<1> QED
  BY <1>1, <1>2, <1>3

LEMMA Fronted ==
  ASSUME NEW x, ClosesFirst(x), x.f \in {"open", "why", "noted", "end"}
  PROVE  Chain(wire') /\ \A fs : "shut" \notin fs => (Shows(wire', fs) <=> x.f \in fs)
BY Short DEF ClosesFirst

LEMMA EmitShows ==
  ASSUME NEW event \in EventsOf, Emission(event)
  PROVE  /\ Chain(wire')
         /\ (Shows(wire', Reason) <=> event.e = "Finish")
         /\ (Shows(wire', {"end"}) <=> (event.e = "Done" /\ road[2] # "chat"))
         /\ (Shows(wire', {"delta"}) <=> event.e = "Delta")
         /\ (Shows(wire', {"open"}) <=> (event.e = "ItemStart" /\ (road[2] # "chat" \/ event.k = "ToolCall")))
         /\ (Shows(wire', {"begin"}) <=> event.e = "Start")
         /\ ~Shows(wire', {"error"})
<1> USE DEF Reason
<1>1. CASE EmitsStart(event)
  BY <1>1, Short DEF EmitsStart
<1>2. CASE EmitsItem(event)
  BY <1>2, Fronted DEF EmitsItem, IsAbout
<1>3. CASE EmitsCall(event)
  BY <1>3, Short DEF EmitsCall
<1>4. CASE EmitsDelta(event)
  BY <1>4, Short DEF EmitsDelta
<1>5. CASE EmitsEnd(event)
  BY <1>5, Short DEF EmitsEnd, IsAbout
<1>6. CASE EmitsNothing(event)
  BY <1>6, Short DEF EmitsNothing
<1>7. CASE EmitsReason(event)
  BY <1>7, Short, Fronted DEF EmitsReason
<1>8. CASE EmitsDone(event)
  BY <1>8, Short, Fronted DEF EmitsDone
<1> QED
  BY <1>1, <1>2, <1>3, <1>4, <1>5, <1>6, <1>7, <1>8 DEF Emission

\* The list that a piece gives: what is in it.
LEMMA ListIs ==
  ASSUME NEW i \in Nat, NEW k \in Kinds, NEW o \in OwnersOf, NEW opens \in BOOLEAN,
         Lists(Delta(i, k, o), opens)
  PROVE  LET d == Delta(i, k, o) IN
         /\ InOrder(events')
         /\ \A e : Coming(events', e) => e \in {"Start", "ItemStart", "Delta"}
         /\ Coming(events', "Delta") /\ (Coming(events', "ItemStart") <=> opens)
         /\ \A n \in DOMAIN events' :
              events'[n] = d \/ (events'[n].e = "Start") \/ (opens /\ events'[n] = StartOf(d))
         /\ (\E n \in DOMAIN events' : events'[n] = d)
         /\ (opens => \E n \in DOMAIN events' : events'[n] = StartOf(d))
<1> DEFINE d == Delta(i, k, o)
           x == StartOf(d)
           s == Happens("Start")
           A == {"Start", "ItemStart", "Delta"}
<1>1. d \in EventsOf /\ x \in EventsOf /\ d.e = "Delta" /\ x.e = "ItemStart" /\ s \in EventsOf /\ s.e = "Start"
  BY DeltaIs, Written DEF EventNames
<1>2. events' \in IF opens THEN {<<x, d>>, <<s, x, d>>} ELSE {<<d>>, <<s, d>>}
  BY DEF Lists
<1>3. Good(events', A)
  <2>1. events' \in {<<d>>, <<s, d>>, <<x, d>>, <<s, x, d>>}
    BY <1>2
  <2> QED
    BY <2>1, PieceLists
<1> HIDE DEF d, x, s
<1>4. \A e : Coming(events', e) => e \in A
  BY <1>3 DEF Good, OnlyOf, Coming
<1> DEFINE es == events'
<1> HIDE DEF es
<1>5. CASE opens /\ es = <<x, d>>
  <2>1. DOMAIN es = {1, 2} /\ es[1] = x /\ es[2] = d
    BY <1>5
  <2> QED
    BY <1>1, <1>3, <1>4, <1>5, <2>1 DEF Coming, Good, es, d, x
<1>6. CASE opens /\ es = <<s, x, d>>
  <2>1. DOMAIN es = {1, 2, 3} /\ es[1] = s /\ es[2] = x /\ es[3] = d
    BY <1>6
  <2> QED
    BY <1>1, <1>3, <1>4, <1>6, <2>1 DEF Coming, Good, es, d, x
<1>7. CASE ~opens /\ es = <<d>>
  <2>1. DOMAIN es = {1} /\ es[1] = d
    BY <1>7
  <2> QED
    BY <1>1, <1>3, <1>4, <1>7, <2>1 DEF Coming, Good, es, d, x
<1>8. CASE ~opens /\ es = <<s, d>>
  <2>1. DOMAIN es = {1, 2} /\ es[1] = s /\ es[2] = d
    BY <1>8
  <2> QED
    BY <1>1, <1>3, <1>4, <1>8, <2>1 DEF Coming, Good, es, d, x
<1> QED
  BY <1>2, <1>5, <1>6, <1>7, <1>8 DEF es

\* The numbers that a Chat parser gives are numbers.
LEMMA ParserNumbers ==
  ASSUME Typed, NEW frame \in UpFrames
  PROVE  /\ (parser.textOpen => parser.next - 1 \in Nat) /\ parser.next \in Nat /\ "ToolCall" \in Kinds
         /\ frame.k \in Kinds /\ frame.i \in Nat
         /\ Owner(frame.k, 0) \in OwnersOf /\ Owner(frame.k, frame.i) \in OwnersOf
         /\ Owner("ToolCall", frame.i) \in OwnersOf
         /\ (frame.i \in Slots /\ parser.tools[frame.i] # None => parser.tools[frame.i] \in Nat)
<1>1. frame.k \in Kinds /\ frame.i \in Nat
  BY DEF UpFrames
<1>2. parser.next \in Nat /\ (parser.textOpen => parser.next > 0) /\ parser.tools \in [Slots -> Nat \cup {None}]
  BY DEF Typed, IsParser
<1> QED
  BY <1>1, <1>2 DEF Owner, OwnersOf, Kinds

\* One frame is parsed: what comes of it, in general.
LEMMA Comes ==
  ASSUME Typed, Knows, NEW frame \in UpFrames, Outcome(frame), IsParser(parser'),
         frame.f \in Content => ~parser.finished
  PROVE  /\ InOrder(events')
         /\ (parser.finished => parser'.finished) /\ (parser.done => parser'.done)
         /\ (Coming(events', "Finish") <=> parser'.finished /\ ~parser.finished)
         /\ (Coming(events', "Done") <=> parser'.done /\ ~parser.done)
         /\ (Coming(events', "Delta") <=> frame.f = "piece")
         /\ (parser'.finished /\ ~parser.finished => frame.f \in {"stop", "mark"})
         /\ (parser'.done /\ ~parser.done => frame.f = "mark" \/ (frame.f = "stop" /\ road[1] = "responses"))
         /\ (parser.done => events' = <<>>)
         /\ (parser'.done => parser'.finished)
         /\ (road[1] = "chat" => (parser'.told => parser'.finished) /\ (parser'.finished => parser'.told \/ parser'.done))
<1>0. /\ parser.finished \in BOOLEAN /\ parser.done \in BOOLEAN /\ parser.told \in BOOLEAN
      /\ parser'.finished \in BOOLEAN /\ parser'.done \in BOOLEAN /\ parser'.told \in BOOLEAN
  BY DEF Typed, IsParser
<1> USE DEF Knows, Content
<1>1. CASE Silent /\ frame.f \notin {"piece", "open", "shut", "stop"}
  BY <1>0, <1>1, Written DEF Silent
<1>2. CASE Quietly(frame)
  <2>1. ~Coming(events', "Finish") /\ ~Coming(events', "Done") /\ ~Coming(events', "Delta")
    BY <1>2 DEF Quietly, OnlyOf, Coming
  <2> QED
    BY <1>0, <1>2, <2>1 DEF Quietly, SameParts
<1>3. CASE \E i \in Nat, k \in Kinds, o \in OwnersOf, opens \in BOOLEAN : Lists(Delta(i, k, o), opens) /\ frame.f = "piece"
           /\ parser'.finished = parser.finished /\ parser'.done = parser.done /\ parser'.told = parser.told
  <2>1. PICK i \in Nat, k \in Kinds, o \in OwnersOf, opens \in BOOLEAN : Lists(Delta(i, k, o), opens)
    BY <1>3
  <2>2. /\ InOrder(events') /\ Coming(events', "Delta")
        /\ \A e : Coming(events', e) => e \in {"Start", "ItemStart", "Delta"}
    BY <2>1, ListIs
  <2> QED
    BY <1>0, <1>3, <2>2
<1> DEFINE Listed == \E i \in Nat, k \in Kinds, o \in OwnersOf, opens \in BOOLEAN : Lists(Delta(i, k, o), opens)
<1>4. CASE TextGoesOn(frame)
  <2>1. Listed
    BY <1>4, ParserNumbers DEF TextGoesOn
  <2> QED
    BY <1>3, <1>4, <2>1 DEF TextGoesOn, SameParts
<1>5. CASE TextOpens(frame)
  <2>1. Listed
    BY <1>5, ParserNumbers DEF TextOpens
  <2> QED
    BY <1>3, <1>5, <2>1 DEF TextOpens
<1>6. CASE CallGoesOn(frame)
  <2>1. Listed
    BY <1>6, ParserNumbers DEF CallGoesOn
  <2> QED
    BY <1>3, <1>6, <2>1 DEF CallGoesOn, SameParts
<1>7. CASE CallOpens(frame)
  <2>1. Listed
    BY <1>7, ParserNumbers DEF CallOpens
  <2> QED
    BY <1>3, <1>7, <2>1 DEF CallOpens
<1>8. CASE Numbered1(frame)
  <2>0. frame.i \in Nat /\ frame.k \in Kinds /\ Owner(frame.k, frame.i) \in OwnersOf
    BY ParserNumbers
  <2>1. \E x \in EventsOf : /\ events' = <<x>>
                            /\ x.e = (IF frame.f = "piece" THEN "Delta" ELSE IF frame.f = "open" THEN "ItemStart" ELSE "ItemEnd")
    <3>1. CASE frame.f = "piece"
      BY <1>8, <2>0, <3>1, DeltaIs DEF Numbered1
    <3>2. CASE frame.f = "open"
      <4>1. ItemStart(frame.i, frame.k, Owner(frame.k, frame.i)) \in EventsOf
            /\ ItemStart(frame.i, frame.k, Owner(frame.k, frame.i)).e = "ItemStart"
        BY <2>0 DEF ItemStart, EventsOf, EventNames
      <4> QED
        BY <1>8, <3>2, <4>1 DEF Numbered1
    <3>3. CASE frame.f = "shut"
      BY <1>8, <2>0, <3>3, Written DEF Numbered1
    <3> QED
      BY <1>8, <3>1, <3>2, <3>3 DEF Numbered1
  <2>2. PICK x \in EventsOf : /\ events' = <<x>>
                              /\ x.e = (IF frame.f = "piece" THEN "Delta" ELSE IF frame.f = "open" THEN "ItemStart" ELSE "ItemEnd")
    BY <2>1
  <2>3. InOrder(events') /\ \A e : Coming(events', e) <=> e = x.e
    BY <2>2, Written, Zenon
  <2>4. ~Coming(events', "Finish") /\ ~Coming(events', "Done") /\ (Coming(events', "Delta") <=> frame.f = "piece")
    BY <2>2, <2>3
  <2> QED
    BY <1>0, <1>8, <2>3, <2>4 DEF Numbered1, SameParts
<1>9. CASE Finishes(frame)
  <2>1. ~Coming(events', "Delta")
    BY <1>9 DEF Finishes, OnlyOf, Coming
  <2>2. /\ frame.f \in {"stop", "mark"} /\ ~parser.done /\ InOrder(events') /\ parser'.finished
        /\ (Coming(events', "Finish") <=> ~parser.finished) /\ (parser'.done <=> Coming(events', "Done"))
        /\ (road[1] = "chat" => parser'.told \/ parser'.done)
        /\ (frame.f = "stop" /\ road[1] # "responses" => ~parser'.done)
    BY <1>9 DEF Finishes
  <2> QED
    BY <1>0, <2>1, <2>2
<1> QED
  BY <1>1, <1>2, <1>4, <1>5, <1>6, <1>7, <1>8, <1>9 DEF Outcome

LEMMA Ends1 ==
  Sends("mark") \in UpFrames /\ Sends("mark").f = "mark" /\ (Closes => Outcome(Sends("mark")))
BY DEF Sends, UpFrames, FrameNames, Closes, Outcome, Kinds

LEMMA ToldStep ==
  ASSUME Typed, Told, OneStep
  PROVE  phase' # "switched" => Told'
<1>0. /\ parser.finished \in BOOLEAN /\ parser.done \in BOOLEAN /\ client.ends \in Nat /\ client.reasons \in Nat
      /\ One(TRUE) = 1 /\ One(FALSE) = 0
  BY DEF Typed, IsParser, IsClient, One
<1>1. ASSUME NEW frame \in UpFrames, Talks(frame) PROVE Told'
  <2>0. /\ UNCHANGED <<road, parser, events, wire, client, phase>> /\ Live /\ phase \notin {"ended", "closing"}
    BY <1>1 DEF Talks, Live
  <2>1. /\ DOMAIN arrived = 1 .. Len(arrived) /\ Len(arrived) \in Nat
        /\ \A n \in DOMAIN arrived' : (n \in DOMAIN arrived /\ arrived'[n] = arrived[n]) \/ (n = Len(arrived) + 1 /\ arrived'[n] = frame)
    BY <1>1, Grown DEF Talks
  <2>2. /\ (up.stopped => up'.stopped) /\ (up.marked => up'.marked) /\ (up.failed => up'.failed)
    <3>1. (up.marked => up.stopped) /\ up.marked \in BOOLEAN /\ up.stopped \in BOOLEAN /\ up.failed \in BOOLEAN
          /\ up'.marked \in BOOLEAN /\ up'.stopped \in BOOLEAN /\ up'.failed \in BOOLEAN
      BY <1>1 DEF Typed, IsUp, Talks
    <3>2. (up.stopped => up'.stopped) /\ (up.marked => up'.marked)
      BY <1>1, <3>1 DEF Talks, Text1, Call1, Begins1, Item1, Piece1, Shut1, Stop1, Other1
    <3>3. up.failed => up'.failed
      <4>1. frame.f \in {"error", "failed"} => up'.failed
        BY <1>1 DEF Talks, Text1, Call1, Begins1, Item1, Piece1, Shut1, Stop1, Other1
      <4> QED
        BY <1>1, <4>1 DEF Talks
    <3> QED
      BY <3>2, <3>3
  <2>3. /\ (frame.f \in {"stop", "mark", "failed"} => up'.stopped)
        /\ (frame.f = "mark" => up'.marked)
        /\ (frame.f = "stop" /\ road[1] = "responses" => up'.marked)
        /\ (frame.f = "error" => up'.failed)
        /\ (frame.f \in Content => ~up.stopped)
    BY <1>1 DEF Talks, Text1, Call1, Begins1, Item1, Piece1, Shut1, Stop1, Other1, Content
  <2>4. Arrivals'
    <3>1. /\ (Live' => Live) /\ parser' = parser /\ road' = road /\ phase' = phase /\ events' = events
      BY <2>0 DEF Live
    <3>2. ASSUME NEW n \in DOMAIN arrived'
          PROVE  /\ (arrived'[n].f \in {"stop", "mark", "failed"} => up'.stopped)
                 /\ (arrived'[n].f = "mark" => up'.marked)
                 /\ (arrived'[n].f = "stop" /\ road[1] = "responses" => up'.marked)
                 /\ (arrived'[n].f = "error" => up'.failed)
                 /\ (arrived'[n].f \in Content => ~parser.finished)
      <4>1. CASE n \in DOMAIN arrived /\ arrived'[n] = arrived[n]
        BY <2>2, <4>1 DEF Told, Arrivals
      <4>2. CASE n = Len(arrived) + 1 /\ arrived'[n] = frame
        <5>1. parser.finished => up.stopped
          BY <2>0 DEF Told, Arrivals
        <5> QED
          BY <2>3, <4>2, <5>1
      <4> QED
        BY <2>1, <4>1, <4>2
    <3>3. ASSUME NEW m \in DOMAIN arrived', NEW n \in DOMAIN arrived', m < n, arrived'[m].f \in {"stop", "mark", "failed"}
          PROVE  arrived'[n].f \notin Content
      <4>1. m \in DOMAIN arrived /\ arrived'[m] = arrived[m]
        BY <2>1, <3>3
      <4>2. CASE n \in DOMAIN arrived /\ arrived'[n] = arrived[n]
        BY <3>3, <4>1, <4>2 DEF Told, Arrivals
      <4>3. CASE n = Len(arrived) + 1 /\ arrived'[n] = frame
        BY <2>3, <3>3, <4>1, <4>3 DEF Told, Arrivals
      <4> QED
        BY <2>1, <4>2, <4>3
    <3>4. (Live /\ parser.done => up'.marked) /\ (Live /\ parser.finished => up'.stopped)
      BY <2>2 DEF Told, Arrivals
    <3> QED
      BY <2>0, <3>1, <3>2, <3>3, <3>4 DEF Arrivals
  <2> QED
    BY <2>0, <2>4 DEF Told, Sums, Knows
<1>2. ASSUME NEW frame \in UpFrames, Outcome(frame), IsParser(parser'), frame.f \in Content => ~parser.finished,
             Idle, UNCHANGED <<road, up, emitter, wire, client>>, phase # "ended", phase' # "ended"
      PROVE  InOrder(events') /\ Chain(wire') /\ Knows' /\ Sums'
  <2>1. /\ InOrder(events')
        /\ (parser.finished => parser'.finished) /\ (parser.done => parser'.done)
        /\ (Coming(events', "Finish") <=> parser'.finished /\ ~parser.finished)
        /\ (Coming(events', "Done") <=> parser'.done /\ ~parser.done)
        /\ (parser.done => events' = <<>>)
        /\ (parser'.done => parser'.finished)
        /\ (road[1] = "chat" => (parser'.told => parser'.finished) /\ (parser'.finished => parser'.told \/ parser'.done))
    BY <1>2, Comes DEF Told
  <2>2. Knows'
    BY <1>2, <2>1 DEF Knows
  <2>3. ~Coming(events, "Finish") /\ ~Coming(events, "Done") /\ \A fs : ~Shows(wire, fs)
    BY <1>2, Short, Written DEF Idle
  <2>4. wire' = wire /\ client' = client /\ road' = road /\ Chain(wire')
    BY <1>2 DEF Told
  <2>5. parser'.finished \in BOOLEAN /\ parser'.done \in BOOLEAN
    BY <1>2 DEF IsParser
  <2>6. Sums'
    <3>1. client.reasons = One(parser.finished) /\ (road[2] # "chat" => client.ends = One(parser.done))
          /\ (road[2] = "chat" => client.ends <= One(phase = "ended"))
      <4>1. /\ One(Shows(wire, Reason)) = 0 /\ One(Shows(wire, {"end"})) = 0
            /\ One(Coming(events, "Finish")) = 0 /\ One(Coming(events, "Done")) = 0
        BY <2>3 DEF One
      <4>2. One(parser.finished) \in Nat /\ One(parser.done) \in Nat /\ One(phase = "ended") \in Nat
        BY DEF One
      <4> QED
        BY <1>0, <4>1, <4>2 DEF Told, Sums
    <3>2. client.reasons + One(Coming(events', "Finish")) = One(parser'.finished)
      BY <1>0, <2>1, <2>5, <3>1 DEF One
    <3>3. road[2] # "chat" => client.ends + One(Coming(events', "Done")) = One(parser'.done)
      BY <1>0, <2>1, <2>5, <3>1 DEF One
    <3>4. road[2] = "chat" => client.ends = 0
      BY <1>0, <1>2, <3>1 DEF One
    <3>5. road[2] # "chat" /\ client.ends = 1 => events' = <<>>
      BY <1>0, <2>1, <3>1 DEF One
    <3>6. One(Shows(wire', Reason)) = 0 /\ One(Shows(wire', {"end"})) = 0 /\ One(phase' = "ended") \in {0, 1}
          /\ ~Shows(wire', Reason) /\ ~Shows(wire', {"end"})
      BY <1>0, <2>3, <2>4 DEF One
    <3>7. One(Coming(events', "Finish")) \in Nat /\ One(Coming(events', "Done")) \in Nat
      BY DEF One
    <3> QED
      BY <1>0, <2>4, <3>2, <3>3, <3>4, <3>5, <3>6, <3>7 DEF Sums
  <2> QED
    BY <2>1, <2>2, <2>4, <2>6
<1>3. ASSUME NEW frame \in UpFrames, Parses(frame) PROVE Told'
  <2>0. /\ 1 \in DOMAIN arrived /\ frame = arrived[1] /\ DOMAIN arrived = 1 .. Len(arrived) /\ Len(arrived) \in Nat
        /\ \A n \in DOMAIN arrived' : n \in Nat /\ n >= 1 /\ n + 1 \in DOMAIN arrived /\ arrived'[n] = arrived[n + 1]
    BY <1>3, ChunkTail DEF Parses
  <2>1. frame.f \in Content => ~parser.finished
    BY <2>0 DEF Told, Arrivals
  <2>2. /\ Outcome(frame) /\ IsParser(parser') /\ Idle /\ UNCHANGED <<road, up, emitter, wire, client>>
        /\ phase # "ended" /\ phase' # "ended" /\ Live /\ phase' # "closing"
    BY <1>3 DEF Parses, Live
  <2>3. InOrder(events') /\ Chain(wire') /\ Knows' /\ Sums'
    BY <1>2, <2>1, <2>2
  <2>4. /\ (parser'.finished /\ ~parser.finished => frame.f \in {"stop", "mark"})
        /\ (parser'.done /\ ~parser.done => frame.f = "mark" \/ (frame.f = "stop" /\ road[1] = "responses"))
    BY <2>1, <2>2, Comes DEF Told
  <2>5. ASSUME NEW n \in DOMAIN arrived', arrived'[n].f \in Content PROVE ~parser'.finished
    <3>1. n + 1 \in DOMAIN arrived /\ arrived'[n] = arrived[n + 1] /\ 1 < n + 1
      BY <2>0
    <3>2. ~parser.finished
      BY <2>5, <3>1 DEF Told, Arrivals
    <3>3. ~parser'.finished \/ frame.f \in {"stop", "mark"}
      BY <2>4, <3>2
    <3>4. frame.f \notin {"stop", "mark"}
      BY <2>0, <2>5, <3>1 DEF Told, Arrivals
    <3> QED
      BY <3>3, <3>4
  <2>6. (parser'.done => up.marked) /\ (parser'.finished => up.stopped)
    <3>1. (parser.done => up.marked) /\ (parser.finished => up.stopped)
      BY <2>2 DEF Told, Arrivals
    <3>2. (frame.f = "mark" => up.marked) /\ (frame.f = "stop" /\ road[1] = "responses" => up.marked)
          /\ (frame.f \in {"stop", "mark"} => up.stopped)
      BY <2>0 DEF Told, Arrivals
    <3> QED
      BY <2>4, <3>1, <3>2
  <2>7. Arrivals'
    <3>1. ASSUME NEW n \in DOMAIN arrived'
          PROVE  /\ (arrived'[n].f \in {"stop", "mark", "failed"} => up.stopped)
                 /\ (arrived'[n].f = "mark" => up.marked)
                 /\ (arrived'[n].f = "stop" /\ road[1] = "responses" => up.marked)
                 /\ (arrived'[n].f = "error" => up.failed)
      BY <2>0 DEF Told, Arrivals
    <3>2. ASSUME NEW m \in DOMAIN arrived', NEW n \in DOMAIN arrived', m < n, arrived'[m].f \in {"stop", "mark", "failed"}
          PROVE  arrived'[n].f \notin Content
      <4>1. m + 1 \in DOMAIN arrived /\ n + 1 \in DOMAIN arrived /\ m + 1 < n + 1
            /\ arrived'[m] = arrived[m + 1] /\ arrived'[n] = arrived[n + 1]
        BY <2>0, <3>2
      <4> QED
        BY <3>2, <4>1 DEF Told, Arrivals
    <3> QED
      BY <2>2, <2>5, <2>6, <3>1, <3>2 DEF Arrivals
  <2> QED
    BY <2>3, <2>7 DEF Told
<1>4. CASE Quits
  BY <1>4 DEF Quits, Told, Sums, Knows, Arrivals, Live
<1>5. CASE Fails
  <2>1. PICK x \in WireFrames : x.f = "error" /\ wire' = <<x>>
    BY <1>5 DEF Fails
  <2>2. Chain(wire') /\ ~Shows(wire', Reason) /\ ~Shows(wire', {"end"}) /\ \A fs : ~Shows(wire, fs)
    BY <1>5, <2>1, Short DEF Reason, Fails, Idle
  <2>3. /\ UNCHANGED <<road, up, parser, events, emitter, client>> /\ phase = "open" /\ phase' = "ended"
        /\ events = <<>> /\ arrived' = <<>> /\ ~Live'
    BY <1>5 DEF Fails, Idle, Live
  <2>4. Sums'
    BY <1>0, <2>2, <2>3 DEF Told, Sums, One
  <2>5. Arrivals'
    BY <2>3 DEF Arrivals
  <2> QED
    BY <2>2, <2>3, <2>4, <2>5 DEF Told, Knows
<1>6. CASE Switch
  BY <1>6 DEF Switch
<1>7. CASE Full
  <2>1. /\ UNCHANGED <<road, up, arrived, parser, events, emitter, wire, client>> /\ phase = "sniff" /\ phase' = "open" /\ Live
    BY <1>7 DEF Full, Live
  <2>2. Sums'
    BY <2>1 DEF Told, Sums, One
  <2>3. Arrivals'
    BY <2>1 DEF Told, Arrivals
  <2> QED
    BY <2>1, <2>2, <2>3 DEF Told, Knows
<1>8. CASE Closes
  <2>0. /\ phase' = "closing" /\ phase = "open" /\ arrived = <<>> /\ arrived' = <<>> /\ ~Live'
    BY <1>8 DEF Closes, Live
  <2>1. InOrder(events') /\ Chain(wire') /\ Knows' /\ Sums'
    <3> DEFINE m == Sends("mark")
    <3>1. m \in UpFrames /\ Outcome(m) /\ (m.f \in Content => ~parser.finished)
      BY <1>8, Ends1 DEF Content
    <3> HIDE DEF m
    <3> QED
      BY <1>2, <1>8, <3>1 DEF Closes
  <2>2. Arrivals'
    BY <2>0 DEF Arrivals
  <2> QED
    BY <2>1, <2>2 DEF Told
<1>9. CASE Trails
  <2>0. /\ UNCHANGED <<road, up, arrived, parser, events, emitter, client>> /\ phase = "closing" /\ phase' = "ended"
        /\ arrived = <<>> /\ events = <<>> /\ wire = <<>> /\ ~Live'
    BY <1>9 DEF Trails, Idle, Live
  <2>1. Chain(wire') /\ ~Shows(wire', Reason) /\ (Shows(wire', {"end"}) => road[2] = "chat") /\ \A fs : ~Shows(wire, fs)
    BY <1>9, <2>0, Short DEF Reason, Trails
  <2>2. Sums'
    <3>1. road[2] = "chat" => client.ends = 0
      BY <1>0, <2>0, <2>1 DEF Told, Sums, One
    <3>2. /\ One(Shows(wire, Reason)) = 0 /\ One(Shows(wire, {"end"})) = 0 /\ One(Shows(wire', Reason)) = 0
          /\ (road[2] # "chat" => One(Shows(wire', {"end"})) = 0) /\ One(Shows(wire', {"end"})) \in {0, 1}
          /\ One(phase' = "ended") = 1
      BY <2>0, <2>1 DEF One
    <3>3. /\ client.reasons + 0 + One(Coming(events, "Finish")) = One(parser.finished)
          /\ (road[2] # "chat" => client.ends + 0 + One(Coming(events, "Done")) = One(parser.done))
      BY <3>2 DEF Told, Sums
    <3>4. road[2] = "chat" => client.ends + One(Shows(wire', {"end"})) <= 1
      BY <3>1, <3>2
    <3>5. client' = client /\ events' = events /\ parser' = parser /\ road' = road
      BY <2>0
    <3>6. road[2] # "chat" => ~Shows(wire', {"end"})
      BY <2>1
    <3> QED
      BY <2>0, <2>1, <3>2, <3>3, <3>4, <3>5, <3>6 DEF Sums
  <2>3. Arrivals'
    BY <2>0 DEF Told, Arrivals
  <2> QED
    BY <2>0, <2>1, <2>2, <2>3 DEF Told, Knows
<1>10. ASSUME NEW event \in EventsOf, EmitsOne(event) PROVE Told'
  <2>0. /\ UNCHANGED <<road, up, arrived, parser, client, phase>> /\ wire = <<>> /\ events # <<>>
        /\ event = Head(events) /\ events' = Tail(events) /\ events \in Seq(EventsOf) /\ InOrder(events)
    BY <1>10 DEF EmitsOne, Typed, Told
  <2>1. /\ InOrder(Tail(events))
        /\ \A e : Coming(events, e) <=> (Head(events).e = e \/ Coming(Tail(events), e))
        /\ \A e : Coming(Tail(events), e) => <<Head(events).e, e>> \in Order
        /\ (Head(events).e = "Done" => Tail(events) = <<>>)
    BY <2>0, EventTail
  <2>2. /\ Chain(wire')
        /\ (Shows(wire', Reason) <=> event.e = "Finish")
        /\ (Shows(wire', {"end"}) <=> (event.e = "Done" /\ road[2] # "chat"))
    BY <1>10, EmitShows DEF EmitsOne
  <2>3. \A fs : ~Shows(wire, fs)
    BY <2>0, Short
  <2>4. <<"Finish", "Finish">> \notin Order /\ <<"Done", "Done">> \notin Order
    BY DEF Order
  <2>5. Sums'
    <3>1. One(Coming(events, "Finish")) = One(Shows(wire', Reason)) + One(Coming(events', "Finish"))
      BY <2>0, <2>1, <2>2, <2>4 DEF One
    <3>2. road[2] # "chat" => One(Coming(events, "Done")) = One(Shows(wire', {"end"})) + One(Coming(events', "Done"))
      BY <2>0, <2>1, <2>2, <2>4 DEF One
    <3>3. One(Shows(wire, Reason)) = 0 /\ One(Shows(wire, {"end"})) = 0
      BY <2>3 DEF One
    <3>4. \A b : One(b) \in {0, 1}
      BY DEF One
    <3>5. road[2] = "chat" => ~Shows(wire', {"end"}) /\ One(Shows(wire', {"end"})) = 0
      BY <2>2 DEF One
    <3>6. road[2] # "chat" /\ client.ends = 1 => events = <<>>
      BY DEF Told, Sums
    <3>7. road[2] # "chat" /\ Shows(wire', {"end"}) => events' = <<>> /\ ~Shows(wire', Reason)
      BY <2>0, <2>1, <2>2
    <3>8. client' = client /\ road' = road /\ parser' = parser /\ phase' = phase
      BY <2>0
    <3>a. client.reasons + One(Shows(wire', Reason)) + One(Coming(events', "Finish")) = One(parser.finished)
      <4>1. client.reasons + One(Coming(events, "Finish")) = One(parser.finished)
        BY <1>0, <3>3, <3>4 DEF Told, Sums
      <4>2. One(Shows(wire', Reason)) \in Nat /\ One(Coming(events', "Finish")) \in Nat
        BY <3>4
      <4> QED
        BY <1>0, <3>1, <4>1, <4>2
    <3>b. road[2] # "chat" => client.ends + One(Shows(wire', {"end"})) + One(Coming(events', "Done")) = One(parser.done)
      <4>1. road[2] # "chat" => client.ends + One(Coming(events, "Done")) = One(parser.done)
        BY <1>0, <3>3, <3>4 DEF Told, Sums
      <4>2. One(Shows(wire', {"end"})) \in Nat /\ One(Coming(events', "Done")) \in Nat
        BY <3>4
      <4> QED
        BY <1>0, <3>2, <4>1, <4>2
    <3>c. road[2] = "chat" => client.ends + One(Shows(wire', {"end"})) <= One(phase = "ended")
      BY <1>0, <3>3, <3>5 DEF Told, Sums
    <3> QED
      BY <2>0, <3>6, <3>7, <3>8, <3>a, <3>b, <3>c DEF Sums
  <2>6. Arrivals'
    <3>1. phase # "ended"
      BY <2>0 DEF Told, Arrivals
    <3> QED
      BY <2>0, <3>1 DEF Told, Arrivals, Live
  <2> QED
    BY <2>0, <2>1, <2>2, <2>5, <2>6 DEF Told, Knows
<1>11. ASSUME NEW frame \in WireFrames, ReadsOne(frame) PROVE Told'
  <2>0. /\ UNCHANGED <<road, up, arrived, parser, events, emitter, phase>> /\ wire # <<>> /\ wire \in Seq(WireFrames)
        /\ frame = Head(wire) /\ wire' = Tail(wire) /\ Chain(wire)
        /\ client'.reasons = client.reasons + One(frame.f \in Reason)
        /\ client'.ends = client.ends + One(frame.f = "end")
    BY <1>11 DEF ReadsOne, Typed, Told, Reading
  <2>1. /\ Chain(wire')
        /\ \A fs : Shows(wire, fs) <=> (frame.f \in fs \/ Shows(wire', fs))
        /\ \A fs : frame.f \in fs /\ fs \cap {"begin", "shut"} = {} => ~Shows(wire', fs)
    BY <2>0, WireTail
  <2>2. Reason \cap {"begin", "shut"} = {} /\ {"end"} \cap {"begin", "shut"} = {}
    BY DEF Reason
  <2>3. One(Shows(wire, Reason)) = One(frame.f \in Reason) + One(Shows(wire', Reason))
    BY <2>1, <2>2 DEF One
  <2>4. One(Shows(wire, {"end"})) = One(frame.f = "end") + One(Shows(wire', {"end"}))
    BY <2>1, <2>2 DEF One
  <2>5. \A b : One(b) \in {0, 1}
    BY DEF One
  <2>6. /\ One(frame.f \in Reason) \in Nat /\ One(Shows(wire', Reason)) \in Nat
        /\ One(frame.f = "end") \in Nat /\ One(Shows(wire', {"end"})) \in Nat
        /\ One(Coming(events, "Finish")) \in Nat /\ One(Coming(events, "Done")) \in Nat
    BY <2>5
  <2>7. events' = events /\ road' = road /\ phase' = phase /\ parser' = parser
    BY <2>0
  <2>a. client'.reasons + One(Shows(wire', Reason)) + One(Coming(events, "Finish")) = One(parser.finished)
    <3> DEFINE w == One(Shows(wire, Reason))
               v == One(Shows(wire', Reason))
               u == One(frame.f \in Reason)
               x == One(Coming(events, "Finish"))
    <3>1. /\ w = u + v /\ u \in Nat /\ v \in Nat /\ x \in Nat
          /\ client.reasons + w + x = One(parser.finished) /\ client'.reasons = client.reasons + u
      BY <2>0, <2>3, <2>6 DEF Told, Sums
    <3> HIDE DEF u, v, w, x
    <3>2. client'.reasons + v + x = One(parser.finished)
      BY <1>0, <3>1
    <3> QED
      BY <3>2 DEF v, x
  <2>b. road[2] # "chat" => client'.ends + One(Shows(wire', {"end"})) + One(Coming(events, "Done")) = One(parser.done)
    BY <1>0, <2>0, <2>4, <2>6 DEF Told, Sums
  <2>c. road[2] = "chat" => client'.ends + One(Shows(wire', {"end"})) <= One(phase = "ended")
    BY <1>0, <2>0, <2>4, <2>6 DEF Told, Sums
  <2>d. road[2] # "chat" /\ (client'.ends = 1 \/ Shows(wire', {"end"})) => events = <<>> /\ ~Shows(wire', Reason)
    <3>1. SUFFICES ASSUME road[2] # "chat", client'.ends = 1 \/ Shows(wire', {"end"})
                   PROVE  events = <<>> /\ ~Shows(wire', Reason)
      OBVIOUS
    <3>2. client.ends = 1 \/ Shows(wire, {"end"})
      <4>1. Shows(wire', {"end"}) => Shows(wire, {"end"})
        BY <2>1
      <4>2. client'.ends = 1 => client.ends = 1 \/ frame.f = "end"
        BY <1>0, <2>0 DEF One
      <4> QED
        BY <2>1, <3>1, <4>1, <4>2
    <3>3. events = <<>> /\ ~Shows(wire, Reason)
      BY <3>1, <3>2 DEF Told, Sums
    <3> QED
      BY <2>1, <3>3
  <2>8. Sums'
    BY <2>7, <2>a, <2>b, <2>c, <2>d DEF Sums
  <2> QED
    BY <2>0, <2>1, <2>8 DEF Told, Knows, Arrivals, Live
<1> QED
  BY <1>1, <1>3, <1>4, <1>5, <1>6, <1>7, <1>8, <1>9, <1>10, <1>11 DEF OneStep

(* ----------------------- every fragment is counted --------------------- *)

LEMMA DueIsNat == (\A n : Due(n) \in Nat) /\ (\A b : One(b) \in Nat)
BY DEF Due, One

\* A frame that comes adds what it carries, ...
LEMMA DueGrows ==
  ASSUME Typed, NEW frame \in UpFrames, Len(arrived) < 2, arrived' = Append(arrived, frame)
  PROVE  Due(1)' + Due(2)' = Due(1) + Due(2) + One(frame.f = "piece")
<1>1. /\ Len(arrived) \in Nat /\ DOMAIN arrived = 1 .. Len(arrived) /\ DOMAIN arrived' = 1 .. Len(arrived) + 1
      /\ \A n \in DOMAIN arrived : arrived'[n] = arrived[n]
      /\ arrived'[Len(arrived) + 1] = frame
  BY Grown
<1>2. CASE Len(arrived) = 0
  <2>1. DOMAIN arrived = {} /\ DOMAIN arrived' = {1} /\ arrived'[1] = frame
    BY <1>1, <1>2
  <2> QED
    BY <2>1 DEF Due, One
<1>3. CASE Len(arrived) = 1
  <2>1. DOMAIN arrived = {1} /\ DOMAIN arrived' = {1, 2} /\ arrived'[1] = arrived[1] /\ arrived'[2] = frame
    BY <1>1, <1>3
  <2> QED
    BY <2>1 DEF Due, One
<1> QED
  BY <1>1, <1>2, <1>3

\* ... and one that is parsed takes it away.
LEMMA DueShrinks ==
  ASSUME Typed, arrived # <<>>, arrived' = Tail(arrived)
  PROVE  Due(1) + Due(2) = Due(1)' + Due(2)' + One(arrived[1].f = "piece")
<1>1. /\ Len(arrived') = Len(arrived) - 1 /\ Len(arrived) \in Nat \ {0} /\ arrived' \in Seq(UpFrames)
      /\ 1 \in DOMAIN arrived /\ DOMAIN arrived = 1 .. Len(arrived)
      /\ \A n \in DOMAIN arrived' : arrived'[n] = arrived[n + 1]
  BY ChunkTail
<1>2. Len(arrived) <= 2 /\ DOMAIN arrived' = 1 .. Len(arrived) - 1
  BY <1>1 DEF Typed
<1>3. CASE Len(arrived) = 1
  <2>1. DOMAIN arrived = {1} /\ DOMAIN arrived' = {}
    BY <1>1, <1>2, <1>3
  <2>2. Due(1)' = 0 /\ Due(2)' = 0 /\ Due(2) = 0 /\ Due(1) = One(arrived[1].f = "piece")
    <3>1. 1 \in DOMAIN arrived /\ 2 \notin DOMAIN arrived /\ 1 \notin DOMAIN arrived' /\ 2 \notin DOMAIN arrived'
      BY <2>1
    <3>2. Due(1) = One(arrived[1].f = "piece")
      BY <3>1, Zenon DEF Due
    <3> QED
      BY <3>1, <3>2, Zenon DEF Due, One
  <2>3. One(arrived[1].f = "piece") \in Nat
    BY DueIsNat
  <2> QED
    BY <2>2, <2>3
<1>4. CASE Len(arrived) = 2
  <2>1. DOMAIN arrived = {1, 2} /\ DOMAIN arrived' = {1} /\ arrived'[1] = arrived[2]
    BY <1>1, <1>2, <1>4
  <2> QED
    BY <2>1 DEF Due, One
<1> QED
  BY <1>1, <1>2, <1>3, <1>4

\* No frame is counted twice: the sum grows with `sent` alone, and what leaves it is what an
\* error of the upstream throws away.
LEMMA CountedStep ==
  ASSUME Typed, Told, Counted, OneStep
  PROVE  phase' # "switched" => Counted'
<1> DEFINE g == client.got
           w == One(Shows(wire, {"delta"}))
           e == One(Coming(events, "Delta"))
           d == Due(1) + Due(2)
           s == up.sent
           g1 == client'.got
           w1 == One(Shows(wire', {"delta"}))
           e1 == One(Coming(events', "Delta"))
           d1 == Due(1)' + Due(2)'
           s1 == up'.sent
           fine == ~up.failed /\ ~up.marked
<1>0. /\ g \in Nat /\ w \in Nat /\ e \in Nat /\ d \in Nat /\ s \in Nat
      /\ g + w + e + d <= s /\ (fine => g + w + e + d = s)
  <2>1. client.got \in Nat /\ up.sent \in 0 .. MaxPieces /\ MaxPieces \in Nat
    BY TranslationAssumption DEF Typed, IsClient, IsUp
  <2>2. Due(1) \in Nat /\ Due(2) \in Nat /\ w \in Nat /\ e \in Nat
    BY DueIsNat
  <2>3. Underway = g + w + e + d
    BY <2>1, <2>2 DEF Underway
  <2> QED
    BY <2>1, <2>2, <2>3 DEF Counted
<1>a. ASSUME NEW n \in Nat, w1 \in Nat, e1 \in Nat, d1 \in Nat, g1 \in Nat, s1 \in Nat,
             g1 + w1 + e1 + d1 + n = s1 \/ (g1 + w1 + e1 + d1 <= s1 /\ (up'.failed \/ up'.marked)),
             n = 0 \/ up'.failed \/ up'.marked
      PROVE  Counted'
  <2>2. Due(1)' \in Nat /\ Due(2)' \in Nat
    BY DEF Due, One
  <2>3. Underway' = g1 + w1 + e1 + d1
    BY <1>a, <2>2 DEF Underway
  <2> HIDE DEF g, w, e, d, g1, w1, e1, d1
  <2>4. Underway' <= up'.sent /\ (~up'.failed /\ ~up'.marked => Underway' = up'.sent)
    BY <1>a, <2>3
  <2> QED
    BY <2>4 DEF Counted
<1>b. Shows(wire, {"delta"})' <=> Shows(wire', {"delta"})
  OBVIOUS
<1> HIDE DEF g, w, e, d, s, g1, w1, e1, d1, s1, fine
<1>1. ASSUME g1 \in Nat, w1 \in Nat, e1 \in Nat, d1 \in Nat, s1 \in Nat,
             g1 + w1 + e1 + d1 + s = g + w + e + d + s1,
             up'.failed \/ up'.marked \/ fine
      PROVE  Counted'
  <2> DEFINE new == g1 + w1 + e1 + d1
             old == g + w + e + d
  <2>0. /\ new \in Nat /\ old \in Nat /\ new + s = old + s1 /\ old <= s /\ (fine => old = s) /\ new + 0 = new
        /\ s \in Nat /\ s1 \in Nat
    BY <1>0, <1>1
  <2>1. CASE fine
    <3>1. new + 0 = s1
      <4> HIDE DEF new, old
      <4> QED
        BY <2>0, <2>1
    <3> QED
      BY <1>1, <1>a, <3>1
  <2>2. CASE up'.failed \/ up'.marked
    <3>1. new <= s1
      <4> HIDE DEF new, old
      <4> QED
        BY <2>0
    <3>2. 0 \in Nat
      OBVIOUS
    <3> QED
      BY <1>1, <1>a, <2>2, <3>1, <3>2
  <2> QED
    BY <1>1, <2>1, <2>2
<1>n. g1 \in Nat /\ w1 \in Nat /\ e1 \in Nat /\ d1 \in Nat /\ s1 \in Nat
  <2>1. Typed'
    BY TypedStep
  <2>2. client'.got \in Nat /\ up'.sent \in 0 .. MaxPieces /\ MaxPieces \in Nat
    BY <2>1, TranslationAssumption DEF Typed, IsClient, IsUp
  <2>3. Due(1)' \in Nat /\ Due(2)' \in Nat /\ w1 \in Nat /\ e1 \in Nat
    BY DEF Due, One, w, e, w1, e1
  <2> QED
    BY <2>2, <2>3 DEF g, d, s, g1, d1, s1
<1>f. up.failed \in BOOLEAN /\ up.marked \in BOOLEAN
  BY DEF Typed, IsUp
<1>2. ASSUME NEW frame \in UpFrames, Talks(frame) PROVE Counted'
  <2>1. g1 = g /\ w1 = w /\ e1 = e
    BY <1>2 DEF Talks, g, w, e, g1, w1, e1
  <2>2. d1 = d + One(frame.f = "piece")
    BY <1>2, DueGrows DEF Talks, d, d1
  <2>3. s1 = s + One(frame.f = "piece")
    BY <1>2 DEF Talks, Text1, Call1, Begins1, Item1, Piece1, Shut1, Stop1, Other1, Rests, One, s, Typed, IsUp, s1
  <2>4. up'.failed \/ up'.marked \/ fine
    <3>1. up.marked => up'.marked
      <4>1. up.marked => up.stopped
        BY DEF Typed, IsUp
      <4> QED
        BY <1>2, <4>1, <1>f DEF Talks, Text1, Call1, Begins1, Item1, Piece1, Shut1, Stop1, Other1
    <3>2. up.failed => up'.failed
      <4>1. frame.f \in {"error", "failed"} => up'.failed
        BY <1>2 DEF Talks, Text1, Call1, Begins1, Item1, Piece1, Shut1, Stop1, Other1
      <4> QED
        BY <1>2, <4>1 DEF Talks
    <3> QED
      BY <3>1, <3>2 DEF fine
  <2>5. One(frame.f = "piece") \in Nat
    BY DueIsNat
  <2>6. g1 + w1 + e1 + d1 + s = g + w + e + d + s1
    BY <1>0, <2>1, <2>2, <2>3, <2>5
  <2> QED
    BY <1>1, <1>n, <2>4, <2>6
<1>3. ASSUME s1 = s, g1 + w1 + e1 + d1 = g + w + e + d, up'.failed = up.failed, up'.marked = up.marked PROVE Counted'
  <2>1. g1 + w1 + e1 + d1 + s = g + w + e + d + s1
    BY <1>0, <1>3, <1>n
  <2>2. up'.failed \/ up'.marked \/ fine
    BY <1>3 DEF fine
  <2> QED
    BY <1>1, <1>n, <2>1, <2>2
<1>4. ASSUME NEW frame \in UpFrames, Parses(frame) PROVE Counted'
  <2>1. g1 = g /\ w1 = w /\ up' = up /\ s1 = s
    BY <1>4 DEF Parses, g, w, s, g1, w1, s1
  <2>2. d = d1 + One(frame.f = "piece")
    BY <1>4, DueShrinks DEF Parses, d, d1
  <2>3. frame.f \in Content => ~parser.finished
    <3>1. frame = arrived[1] /\ 1 \in DOMAIN arrived
      BY <1>4, ChunkTail DEF Parses
    <3> QED
      BY <3>1 DEF Told, Arrivals
  <2>4. Coming(events', "Delta") <=> frame.f = "piece"
    BY <1>4, <2>3, Comes DEF Parses, Told
  <2>5. ~Coming(events, "Delta")
    BY <1>4, Written DEF Parses, Idle
  <2>6. e = 0 /\ e1 = One(frame.f = "piece")
    BY <2>4, <2>5 DEF e, One, e1
  <2>7. One(frame.f = "piece") \in Nat
    BY DueIsNat
  <2>8. g1 + w1 + e1 + d1 = g + w + e + d
    BY <1>0, <1>n, <2>1, <2>2, <2>6, <2>7
  <2> QED
    BY <1>3, <2>1, <2>8
<1>5. CASE Quits
  <2>1. g1 = g /\ w1 = w /\ e1 = e /\ d1 = d /\ s1 = s
    BY <1>5 DEF Quits, Rests, g, w, e, d, s, Due, g1, w1, e1, d1, s1
  <2>2. up'.failed \/ up'.marked \/ fine
    BY <1>5 DEF Quits, fine
  <2>3. g1 + w1 + e1 + d1 + s = g + w + e + d + s1
    BY <2>1
  <2> QED
    BY <1>1, <1>n, <2>2, <2>3
<1>6. CASE Fails
  <2>1. g1 = g /\ s1 = s /\ e1 = e /\ up' = up
    BY <1>6 DEF Fails, g, e, s, g1, e1, s1
  <2>2. w1 = w
    <3>1. PICK x \in WireFrames : x.f = "error" /\ wire' = <<x>>
      BY <1>6 DEF Fails
    <3>2. ~Shows(wire', {"delta"}) /\ ~Shows(wire, {"delta"})
      BY <1>6, <3>1, Short DEF Fails, Idle
    <3> QED
      BY <3>2 DEF w, One, w1
  <2>3. d1 = 0
    <3>1. DOMAIN arrived' = {}
      BY <1>6 DEF Fails
    <3> QED
      BY <3>1 DEF d, Due, One, d1
  <2>4. CASE arrived = <<>> /\ up.over = "broken"
    <3>1. d = 0
      <4>1. DOMAIN arrived = {}
        BY <2>4
      <4> QED
        BY <4>1 DEF d, Due, One, d1
    <3> QED
      BY <1>3, <2>1, <2>2, <2>3, <3>1
  <2>5. CASE arrived # <<>> /\ arrived[1].f = "error"
    <3>1. up.failed
      <4>1. 1 \in DOMAIN arrived
        BY <2>5, TailIs DEF Typed
      <4> QED
        BY <2>5, <4>1 DEF Told, Arrivals
    <3>2. g1 + w1 + e1 + d1 <= s1
      BY <1>0, <2>1, <2>2, <2>3
    <3> QED
      BY <1>a, <1>n, <2>1, <3>1, <3>2
  <2> QED
    BY <1>6, <2>4, <2>5 DEF Fails
<1>7. CASE Full
  BY <1>7, <1>3 DEF Full, g, w, e, d, s, Due, g1, w1, e1, d1, s1
<1>8. CASE Closes
  <2>1. g1 = g /\ w1 = w /\ s1 = s /\ up' = up /\ d1 = d
    BY <1>8 DEF Closes, g, w, s, d, Due, g1, w1, s1, d1
  <2> DEFINE m == Sends("mark")
  <2>2. m \in UpFrames /\ Outcome(m) /\ m.f = "mark" /\ (m.f \in Content => ~parser.finished)
    BY <1>8, Ends1 DEF Content
  <2> HIDE DEF m
  <2>3. ~Coming(events', "Delta")
    BY <1>8, <2>2, Comes DEF Closes, Told
  <2>4. ~Coming(events, "Delta")
    BY <1>8, Written DEF Closes, Idle
  <2>5. e1 = e
    BY <2>3, <2>4 DEF e, One, e1
  <2> QED
    BY <1>3, <2>1, <2>5
<1>9. CASE Trails
  <2>1. g1 = g /\ e1 = e /\ s1 = s /\ up' = up /\ d1 = d
    BY <1>9 DEF Trails, g, e, s, d, Due, g1, e1, s1, d1
  <2>2. w1 = w
    <3>1. ~Shows(wire', {"delta"}) /\ ~Shows(wire, {"delta"})
      BY <1>9, Short DEF Trails, Idle
    <3> QED
      BY <3>1 DEF w, One, w1
  <2> QED
    BY <1>3, <2>1, <2>2
<1>10. ASSUME NEW event \in EventsOf, EmitsOne(event) PROVE Counted'
  <2>1. g1 = g /\ s1 = s /\ up' = up /\ d1 = d
    BY <1>10 DEF EmitsOne, g, s, d, Due, g1, s1, d1
  <2>2. /\ wire = <<>> /\ events # <<>> /\ event = Head(events) /\ events' = Tail(events)
        /\ events \in Seq(EventsOf) /\ InOrder(events)
    BY <1>10 DEF EmitsOne, Typed, Told
  <2>3. /\ \A f : Coming(events, f) <=> (Head(events).e = f \/ Coming(Tail(events), f))
        /\ \A f : Coming(Tail(events), f) => <<Head(events).e, f>> \in Order
    BY <2>2, EventTail
  <2>4. <<"Delta", "Delta">> \notin Order
    BY DEF Order
  <2>5. (Shows(wire', {"delta"}) <=> event.e = "Delta") /\ ~Shows(wire, {"delta"})
    BY <1>10, <2>2, EmitShows, Short DEF EmitsOne
  <2>6. w = 0 /\ e = w1 + e1
    BY <2>2, <2>3, <2>4, <2>5 DEF w, e, One, w1, e1
  <2>7. g1 + w1 + e1 + d1 = g + w + e + d
    BY <1>0, <1>n, <2>1, <2>6
  <2> QED
    BY <1>3, <2>1, <2>7
<1>11. ASSUME NEW frame \in WireFrames, ReadsOne(frame) PROVE Counted'
  <2>1. e1 = e /\ s1 = s /\ up' = up /\ d1 = d
    BY <1>11 DEF ReadsOne, e, s, d, Due, e1, s1, d1
  <2>2. /\ wire # <<>> /\ wire \in Seq(WireFrames) /\ frame = Head(wire) /\ wire' = Tail(wire) /\ Chain(wire)
        /\ g1 = g + One(frame.f = "delta")
    BY <1>11 DEF ReadsOne, Typed, Told, Reading, g, g1
  <2>3. /\ \A fs : Shows(wire, fs) <=> (frame.f \in fs \/ Shows(wire', fs))
        /\ \A fs : frame.f \in fs /\ fs \cap {"begin", "shut"} = {} => ~Shows(wire', fs)
    BY <2>2, WireTail
  <2>4. {"delta"} \cap {"begin", "shut"} = {} /\ (frame.f \in {"delta"} <=> frame.f = "delta")
    OBVIOUS
  <2>5. w = One(frame.f = "delta") + w1
    BY <2>3, <2>4 DEF w, One, w1
  <2> DEFINE x == One(frame.f = "delta")
  <2>6. x \in Nat
    BY DueIsNat
  <2>7. g1 + w1 + e1 + d1 = g + w + e + d
    <3>1. g1 = g + x /\ w = x + w1 /\ e1 = e /\ d1 = d
      BY <2>1, <2>2, <2>5
    <3>2. g \in Nat /\ w1 \in Nat /\ e \in Nat /\ d \in Nat
      BY <1>0, <1>n
    <3> HIDE DEF x, g, g1, w, w1, e, e1, d, d1
    <3> QED
      BY ONLY <2>6, <3>1, <3>2
  <2> QED
    BY <1>3, <2>1, <2>7
<1> QED
  BY <1>2, <1>4, <1>5, <1>6, <1>7, <1>8, <1>9, <1>10, <1>11 DEF OneStep, Switch

(* -------------------------- items and their owners --------------------- *)

LEMMA Moves ==
  ASSUME Typed, OneStep, phase' # "switched"
  PROVE  \/ Resting
         \/ \E event \in EventsOf : EmitsOne(event)
         \/ \E frame \in WireFrames : ReadsOne(frame)
<1>0. wire = <<>> /\ wire' = wire => ~Shows(wire', {"open"}) /\ ~Shows(wire', {"delta"})
  BY Short
<1>1. ASSUME NEW frame \in UpFrames, Talks(frame) PROVE Resting
  BY <1>0, <1>1 DEF Talks, Resting, Idle
<1>2. ASSUME NEW frame \in UpFrames, Parses(frame) PROVE Resting
  BY <1>0, <1>2 DEF Parses, Resting, Idle
<1>3. CASE Quits
  BY <1>0, <1>3 DEF Quits, Resting, Idle
<1>4. CASE Fails
  BY <1>4, Short DEF Fails, Resting
<1>5. CASE Full
  BY <1>0, <1>5 DEF Full, Resting, Idle
<1>6. CASE Closes
  BY <1>0, <1>6 DEF Closes, Resting, Idle
<1>7. CASE Trails
  BY <1>7, Short DEF Trails, Resting
<1> QED
  BY <1>1, <1>2, <1>3, <1>4, <1>5, <1>6, <1>7 DEF OneStep, Switch

\* The items of the upstream only become more.
LEMMA ItemsGrow ==
  ASSUME Typed, OneStep
  PROVE  /\ Len(up.items) \in Nat /\ Len(up'.items) \in Nat /\ Len(up.items) <= Len(up'.items)
         /\ up.items \in Seq(Kinds) /\ up'.items \in Seq(Kinds)
         /\ \A i : Known(i) => i \in Nat /\ up.items[i + 1] \in Kinds /\ Known(i)' /\ up'.items[i + 1] = up.items[i + 1] /\ OwnerOf(i)' = OwnerOf(i)
<1>1. up.items \in Seq(Kinds)
  BY DEF Typed, IsUp
<1>2. up'.items = up.items \/ \E k \in Kinds : up'.items = Append(up.items, k)
  <2>1. ASSUME NEW frame \in UpFrames, Talks(frame)
        PROVE  up'.items = up.items \/ \E k \in Kinds : up'.items = Append(up.items, k)
    <3>1. frame.k \in Kinds /\ "ToolCall" \in Kinds
      BY DEF UpFrames, Kinds
    <3> QED
      BY <2>1, <3>1 DEF Talks, Text1, Call1, Begins1, Item1, Piece1, Shut1, Stop1, Other1, Rests
  <2>2. CASE Quits
    BY <2>2 DEF Quits, Rests
  <2>3. ~Quits /\ ~(\E frame \in UpFrames : Talks(frame)) => up' = up
    BY DEF OneStep, Parses, Fails, Switch, Full, Closes, Trails, EmitsOne, ReadsOne
  <2> QED
    BY <2>1, <2>2, <2>3
<1> DEFINE s == up.items
           t == up'.items
<1>3. s \in Seq(Kinds) /\ (t = s \/ \E k \in Kinds : t = Append(s, k))
  BY <1>1, <1>2
<1> HIDE DEF s, t
<1>4. /\ Len(s) \in Nat /\ Len(t) \in Nat /\ Len(s) <= Len(t) /\ t \in Seq(Kinds)
      /\ \A i \in 0 .. Len(s) - 1 : i \in Nat /\ i \in 0 .. Len(t) - 1 /\ s[i + 1] \in Kinds /\ t[i + 1] = s[i + 1]
  <2>1. CASE t = s
    BY <1>3, <2>1
  <2>2. CASE \E k \in Kinds : t = Append(s, k)
    <3>1. PICK k \in Kinds : t = Append(s, k)
      BY <2>2
    <3>2. /\ Len(s) \in Nat /\ Len(t) = Len(s) + 1 /\ t \in Seq(Kinds)
          /\ DOMAIN s = 1 .. Len(s) /\ \A n \in DOMAIN s : t[n] = s[n] /\ s[n] \in Kinds
      BY <1>3, <3>1, AppendIs
    <3>3. \A i \in 0 .. Len(s) - 1 : i \in Nat /\ i + 1 \in DOMAIN s /\ i \in 0 .. Len(t) - 1
      <4> DEFINE l == Len(s)
                 ll == Len(t)
      <4>1. l \in Nat /\ ll = l + 1 /\ DOMAIN s = 1 .. l
        BY <3>2
      <4> HIDE DEF l, ll
      <4>2. \A i \in 0 .. l - 1 : i \in Nat /\ i + 1 \in 1 .. l /\ i \in 0 .. ll - 1
        BY <4>1
      <4> QED
        BY <4>1, <4>2 DEF l, ll
    <3> QED
      BY <1>3, <3>2, <3>3
  <2> QED
    BY <1>3, <2>1, <2>2
<1>5. \A i : Known(i) => i \in Nat /\ s[i + 1] \in Kinds /\ Known(i)' /\ t[i + 1] = s[i + 1] /\ OwnerOf(i)' = OwnerOf(i)
  BY <1>4 DEF Known, OwnerOf, s, t
<1> QED
  BY <1>1, <1>4, <1>5 DEF s, t

LEMMA OwnerIs ==
  ASSUME NEW k, NEW i
  PROVE  /\ Owner(k, i)[1] = k /\ (k # "ToolCall" => Owner(k, i) = Owner(k, 0))
         /\ (k = "ToolCall" => Owner(k, i)[2] = i)
BY DEF Owner

\* Nothing is on its way when no event and no frame is.
LEMMA IdleGives ==
  ASSUME Idle, NEW i, NEW o
  PROVE  ~InEvents(i, o) /\ ~InWire(i, o) /\ (Given(i, o) <=> InClient(i, o))
BY Written DEF Idle, InEvents, InWire, Given

\* What the frames of one event say of items and deltas, and what the emitter notes.
LEMMA EmitFrames ==
  ASSUME Typed, NEW event \in EventsOf, Emission(event)
  PROVE  /\ \A n \in DOMAIN wire' : wire'[n].f = "open" =>
              /\ event.e = "ItemStart" /\ wire'[n].o = event.o
              /\ wire'[n].i = (IF road[2] # "chat" THEN event.i ELSE Len(emitter.slots))
              /\ (road[2] = "chat" => event.k = "ToolCall")
         /\ \A n \in DOMAIN wire' : wire'[n].f = "delta" =>
              /\ event.e = "Delta" /\ wire'[n].o = event.o /\ wire'[n].k = event.k
              /\ wire'[n].i = (IF road[2] # "chat" THEN event.i
                               ELSE IF event.k = "ToolCall" THEN SlotOf(emitter, event.i) ELSE None)
         /\ (event.e = "ItemStart" /\ (road[2] # "chat" \/ event.k = "ToolCall") =>
               \E n \in DOMAIN wire' :
                  /\ wire'[n].f = "open" /\ wire'[n].o = event.o
                  /\ wire'[n].i = (IF road[2] # "chat" THEN event.i ELSE Len(emitter.slots)))
         /\ emitter'.slots = (IF event.e = "ItemStart" /\ road[2] = "chat" /\ event.k = "ToolCall"
                                THEN Append(emitter.slots, event.i) ELSE emitter.slots)
<1> DEFINE opens(x) == x.f = "open" =>
              /\ event.e = "ItemStart" /\ x.o = event.o
              /\ x.i = (IF road[2] # "chat" THEN event.i ELSE Len(emitter.slots))
              /\ (road[2] = "chat" => event.k = "ToolCall")
           deltas(x) == x.f = "delta" =>
              /\ event.e = "Delta" /\ x.o = event.o /\ x.k = event.k
              /\ x.i = (IF road[2] # "chat" THEN event.i
                               ELSE IF event.k = "ToolCall" THEN SlotOf(emitter, event.i) ELSE None)
           is(x) == x.f = "open" /\ x.o = event.o
                    /\ x.i = (IF road[2] # "chat" THEN event.i ELSE Len(emitter.slots))
           starts == event.e = "ItemStart" /\ (road[2] # "chat" \/ event.k = "ToolCall")
           slots == emitter'.slots = (IF event.e = "ItemStart" /\ road[2] = "chat" /\ event.k = "ToolCall"
                                        THEN Append(emitter.slots, event.i) ELSE emitter.slots)
<1> SUFFICES /\ \A n \in DOMAIN wire' : opens(wire'[n]) /\ deltas(wire'[n])
             /\ (starts => \E n \in DOMAIN wire' : is(wire'[n])) /\ slots
  OBVIOUS
<1>1. ASSUME wire' = <<>>, ~starts, slots
      PROVE  /\ \A n \in DOMAIN wire' : opens(wire'[n]) /\ deltas(wire'[n])
             /\ (starts => \E n \in DOMAIN wire' : is(wire'[n])) /\ slots
  BY <1>1
<1>2. ASSUME NEW x, wire' = <<x>>, opens(x), deltas(x), starts => is(x), slots
      PROVE  /\ \A n \in DOMAIN wire' : opens(wire'[n]) /\ deltas(wire'[n])
             /\ (starts => \E n \in DOMAIN wire' : is(wire'[n])) /\ slots
  <2>1. DOMAIN wire' = {1} /\ wire'[1] = x
    BY <1>2
  <2> HIDE DEF opens, deltas, is, starts, slots
  <2> QED
    BY <1>2, <2>1
<1>3. ASSUME NEW y, NEW x, wire' = <<y, x>>, opens(x), deltas(x), opens(y), deltas(y), starts => is(x), slots
      PROVE  /\ \A n \in DOMAIN wire' : opens(wire'[n]) /\ deltas(wire'[n])
             /\ (starts => \E n \in DOMAIN wire' : is(wire'[n])) /\ slots
  <2>1. DOMAIN wire' = {1, 2} /\ wire'[1] = y /\ wire'[2] = x
    BY <1>3
  <2> HIDE DEF opens, deltas, is, starts, slots
  <2> QED
    BY <1>3, <2>1
<1>4. ASSUME NEW x, ClosesFirst(x), opens(x), deltas(x), starts => is(x), slots
      PROVE  /\ \A n \in DOMAIN wire' : opens(wire'[n]) /\ deltas(wire'[n])
             /\ (starts => \E n \in DOMAIN wire' : is(wire'[n])) /\ slots
  <2>1. CASE wire' = <<x>>
    BY <1>2, <1>4, <2>1
  <2>2. ASSUME NEW y, wire' = <<y, x>>, y.f = "shut"
        PROVE  /\ \A n \in DOMAIN wire' : opens(wire'[n]) /\ deltas(wire'[n])
               /\ (starts => \E n \in DOMAIN wire' : is(wire'[n])) /\ slots
    <3>1. opens(y) /\ deltas(y)
      BY <2>2
    <3> HIDE DEF opens, deltas, is, starts, slots
    <3> QED
      BY <1>3, <1>4, <2>2, <3>1
  <2> HIDE DEF opens, deltas, is, starts, slots
  <2> QED
    BY <1>4, <2>1, <2>2 DEF ClosesFirst
<1>5. CASE EmitsStart(event)
  <2>1. ~starts /\ slots
    BY <1>5 DEF EmitsStart, SameBlock
  <2>2. \A x : x.f \in {"begin", "progress"} => opens(x) /\ deltas(x)
    OBVIOUS
  <2> HIDE DEF opens, deltas, is, starts, slots
  <2> QED
    BY <1>2, <1>3, <1>5, <2>1, <2>2 DEF EmitsStart
<1>6. CASE EmitsItem(event)
  <2>1. slots
    BY <1>6 DEF EmitsItem
  <2>2. PICK x : IsAbout(x, "open", event) /\ ClosesFirst(x)
    BY <1>6 DEF EmitsItem
  <2>3. opens(x) /\ deltas(x) /\ is(x)
    BY <1>6, <2>2 DEF EmitsItem, IsAbout
  <2> HIDE DEF opens, deltas, is, starts, slots
  <2> QED
    BY <1>4, <2>1, <2>2, <2>3
<1>7. CASE EmitsCall(event)
  <2>1. slots
    BY <1>7 DEF EmitsCall
  <2>2. PICK x \in WireFrames : x.f = "open" /\ x.i = Len(emitter.slots) /\ x.o = event.o /\ wire' = <<x>>
    BY <1>7 DEF EmitsCall
  <2>3. opens(x) /\ deltas(x) /\ is(x)
    BY <1>7, <2>2 DEF EmitsCall
  <2> HIDE DEF opens, deltas, is, starts, slots
  <2> QED
    BY <1>2, <2>1, <2>2, <2>3
<1>8. CASE EmitsDelta(event)
  <2>1. slots /\ ~starts
    BY <1>8 DEF EmitsDelta
  <2>2. PICK x \in WireFrames :
          /\ x.f = "delta" /\ x.o = event.o /\ x.k = event.k /\ wire' = <<x>>
          /\ x.i = (IF road[2] # "chat" THEN event.i
                    ELSE IF event.k = "ToolCall" THEN SlotOf(emitter, event.i) ELSE None)
    BY <1>8 DEF EmitsDelta
  <2>3. opens(x) /\ deltas(x)
    BY <1>8, <2>2 DEF EmitsDelta
  <2> HIDE DEF opens, deltas, is, starts, slots
  <2> QED
    BY <1>2, <2>1, <2>2, <2>3
<1>9. CASE EmitsEnd(event)
  <2>1. slots /\ ~starts
    BY <1>9 DEF EmitsEnd, AllShut
  <2>2. \A x : x.f = "shut" => opens(x) /\ deltas(x)
    OBVIOUS
  <2>3. wire' = <<>> \/ \E x : x.f = "shut" /\ wire' = <<x>>
    BY <1>9 DEF EmitsEnd, IsAbout
  <2> HIDE DEF opens, deltas, is, starts, slots
  <2> QED
    BY <1>1, <1>2, <2>1, <2>2, <2>3
<1>10. CASE EmitsNothing(event)
  BY <1>1, <1>10 DEF EmitsNothing, SameBlock
<1>11. CASE EmitsReason(event)
  <2>1. slots /\ ~starts
    BY <1>11 DEF EmitsReason, AllShut, SameBlock
  <2>2. \A x : x.f \in Reason => opens(x) /\ deltas(x)
    BY DEF Reason
  <2> HIDE DEF opens, deltas, is, starts, slots
  <2> QED
    BY <1>2, <1>4, <1>11, <2>1, <2>2 DEF EmitsReason
<1>12. CASE EmitsDone(event)
  <2>1. slots /\ ~starts
    BY <1>12 DEF EmitsDone, AllShut, SameBlock
  <2>2. \A x : x.f \in {"usage", "end"} => opens(x) /\ deltas(x)
    OBVIOUS
  <2> HIDE DEF opens, deltas, is, starts, slots
  <2> QED
    BY <1>1, <1>2, <1>4, <1>12, <2>1, <2>2 DEF EmitsDone
<1> QED
  BY <1>5, <1>6, <1>7, <1>8, <1>9, <1>10, <1>11, <1>12 DEF Emission

\* An item that is on its way arrives: no step forgets it.
LEMMA GivenStep ==
  ASSUME Typed, Told, OneStep, phase' # "switched", road[2] # "chat", NEW i, NEW o, Given(i, o),
         \A n \in DOMAIN wire : wire[n].f = "open" /\ wire[n].i = i => wire[n].o = o \/ Fresh(i)
  PROVE  Given(i, o)'
<1>1. CASE Resting
  <2>1. InClient(i, o)
    BY <1>1, IdleGives DEF Resting
  <2> QED
    BY <1>1, <2>1 DEF Resting, InClient, Given
<1>2. ASSUME NEW event \in EventsOf, EmitsOne(event) PROVE Given(i, o)'
  <2>1. /\ wire = <<>> /\ events # <<>> /\ event = Head(events) /\ events' = Tail(events) /\ events \in Seq(EventsOf)
        /\ client' = client /\ Emission(event)
    BY <1>2 DEF EmitsOne, Typed
  <2>2. ~InWire(i, o)
    BY <2>1, Written DEF InWire
  <2>3. CASE InClient(i, o)
    BY <2>1, <2>3 DEF InClient, Given
  <2>4. CASE InEvents(i, o)
    <3>1. PICK n \in DOMAIN events : events[n].e = "ItemStart" /\ events[n].i = i /\ events[n].o = o
      BY <2>4 DEF InEvents
    <3>2. CASE n = 1
      <4>1. event.e = "ItemStart" /\ event.i = i /\ event.o = o
        BY <2>1, <3>1, <3>2, TailIs
      <4>2. \E l \in DOMAIN wire' : wire'[l].f = "open" /\ wire'[l].o = o /\ wire'[l].i = i
        BY <2>1, <4>1, EmitFrames
      <4> QED
        BY <4>2 DEF InWire, Given
    <3>3. CASE n # 1
      <4>1. n - 1 \in DOMAIN events' /\ events'[n - 1] = events[n]
        BY <2>1, <3>1, <3>3, TailIs
      <4> QED
        BY <3>1, <4>1 DEF InEvents, Given
    <3> QED
      BY <3>2, <3>3
  <2> QED
    BY <2>2, <2>3, <2>4 DEF Given
<1>3. ASSUME NEW frame \in WireFrames, ReadsOne(frame) PROVE Given(i, o)'
  <2>1. /\ wire # <<>> /\ wire \in Seq(WireFrames) /\ frame = Head(wire) /\ wire' = Tail(wire) /\ events' = events
        /\ client'.items = (IF frame.f # "open" THEN client.items
                            ELSE [j \in DOMAIN client.items \cup {frame.i} |->
                                    IF j = frame.i THEN frame.o ELSE client.items[j]])
    BY <1>3 DEF ReadsOne, Typed, Reading
  <2>2. frame = wire[1] /\ 1 \in DOMAIN wire /\ \A n \in DOMAIN wire : n = 1 \/ (n - 1 \in DOMAIN wire' /\ wire[n] = wire'[n - 1])
    BY <2>1, TailIs
  <2>3. CASE InEvents(i, o)
    BY <2>1, <2>3 DEF InEvents, Given
  <2>4. CASE InWire(i, o)
    <3>1. PICK n \in DOMAIN wire : wire[n].f = "open" /\ wire[n].i = i /\ wire[n].o = o
      BY <2>4 DEF InWire
    <3>2. CASE n = 1
      <4>1. i \in DOMAIN client'.items /\ client'.items[i] = o
        BY <2>1, <2>2, <3>1, <3>2
      <4> QED
        BY <4>1 DEF InClient, Given
    <3>3. CASE n # 1
      BY <2>2, <3>1, <3>3 DEF InWire, Given
    <3> QED
      BY <3>2, <3>3
  <2>5. CASE InClient(i, o)
    <3>1. frame.f = "open" /\ frame.i = i => frame.o = o
      BY <2>2, <2>5 DEF InClient, Fresh
    <3>2. i \in DOMAIN client'.items /\ client'.items[i] = o
      BY <2>1, <2>5, <3>1 DEF InClient
    <3> QED
      BY <3>2 DEF InClient, Given
  <2> QED
    BY <2>3, <2>4, <2>5 DEF Given
<1> QED
  BY <1>1, <1>2, <1>3, Moves

\* Behind a delta no item begins, so its item is with the client when the delta goes out.
LEMMA DeltaLast ==
  ASSUME Typed, Told, events # <<>>, wire = <<>>, Head(events).e = "Delta", NEW i, NEW o
  PROVE  ~InEvents(i, o) /\ ~InWire(i, o)
<1>1. ~InWire(i, o)
  BY Written DEF InWire
<1>2. ASSUME InEvents(i, o) PROVE FALSE
  <2>1. Coming(events, "ItemStart")
    BY <1>2 DEF InEvents, Coming
  <2>2. /\ (Head(events).e = "ItemStart" \/ Coming(Tail(events), "ItemStart"))
        /\ (Coming(Tail(events), "ItemStart") => <<Head(events).e, "ItemStart">> \in Order)
    BY <2>1, EventTail DEF Typed, Told
  <2>3. <<"Delta", "ItemStart">> \notin Order
    BY DEF Order
  <2> QED
    BY <2>2, <2>3
<1> QED
  BY <1>1, <1>2

(* ------------------ an upstream that numbers its items ----------------- *)

LEMMA ThereStep ==
  ASSUME Typed, Told, Numbered, road[1] # "chat", OneStep, phase' # "switched", NEW i, Known(i), There(i)
  PROVE  There(i)'
<1>1. OwnerOf(i)' = OwnerOf(i) /\ up'.items[i + 1] = up.items[i + 1]
  BY ItemsGrow
<1>2. road' = road
  BY Moves DEF Resting, EmitsOne, ReadsOne
<1>3. CASE road[2] # "chat"
  <2>1. Given(i, OwnerOf(i))
    BY <1>3 DEF There
  <2>2. \A n \in DOMAIN wire : wire[n].f = "open" /\ wire[n].i = i => wire[n].o = OwnerOf(i)
    BY <1>3 DEF Numbered, InPlace, Has, InWire
  <2> DEFINE o == OwnerOf(i)
  <2>3. Given(i, o)'
    <3> HIDE DEF o
    <3>1. Given(i, o) /\ \A n \in DOMAIN wire : wire[n].f = "open" /\ wire[n].i = i => wire[n].o = o
      BY <2>1, <2>2 DEF o
    <3>2. ASSUME NEW q, q = o PROVE Given(i, q)'
      BY <1>3, <3>1, <3>2, GivenStep
    <3> QED
      BY <1>1, <3>2 DEF o
  <2> QED
    BY <1>1, <1>2, <1>3, <2>3 DEF There
<1>4. CASE road[2] = "chat"
  <2> SUFFICES ASSUME up.items[i + 1] = "ToolCall"
               PROVE  InEvents(i, OwnerOf(i))' \/ i \in Elements(emitter'.slots)
    BY <1>1, <1>2, <1>4 DEF There
  <2>0. InEvents(i, OwnerOf(i)) \/ i \in Elements(emitter.slots)
    BY <1>4 DEF There
  <2>1. CASE Resting
    BY <2>0, <2>1, IdleGives DEF Resting
  <2>2. ASSUME NEW frame \in WireFrames, ReadsOne(frame)
        PROVE  InEvents(i, OwnerOf(i))' \/ i \in Elements(emitter'.slots)
    <3>1. events' = events /\ emitter' = emitter
      BY <2>2 DEF ReadsOne
    <3>2. InEvents(i, OwnerOf(i)) => \E n \in DOMAIN events' : events'[n].e = "ItemStart" /\ events'[n].i = i /\ events'[n].o = OwnerOf(i)'
      BY <1>1, <3>1 DEF InEvents
    <3> QED
      BY <2>0, <3>1, <3>2 DEF InEvents
  <2>3. ASSUME NEW event \in EventsOf, EmitsOne(event)
        PROVE  InEvents(i, OwnerOf(i))' \/ i \in Elements(emitter'.slots)
    <3>1. /\ wire = <<>> /\ events # <<>> /\ event = Head(events) /\ events' = Tail(events) /\ events \in Seq(EventsOf)
          /\ Emission(event) /\ emitter.slots \in Seq(Nat)
      BY <2>3 DEF EmitsOne, Typed, IsEmitter
    <3>2. emitter'.slots = (IF event.e = "ItemStart" /\ road[2] = "chat" /\ event.k = "ToolCall"
                              THEN Append(emitter.slots, event.i) ELSE emitter.slots)
      BY <3>1, EmitFrames
    <3>3. event.i \in Nat
      BY DEF EventsOf
    <3>4. /\ i \in Elements(emitter.slots) => i \in Elements(Append(emitter.slots, event.i))
          /\ event.i \in Elements(Append(emitter.slots, event.i))
      <4> DEFINE s == emitter.slots
                 t == Append(s, event.i)
      <4>1. /\ DOMAIN s = 1 .. Len(s) /\ Len(s) \in Nat /\ DOMAIN t = 1 .. Len(s) + 1
            /\ \A n \in DOMAIN s : t[n] = s[n]
            /\ t[Len(s) + 1] = event.i
        BY <3>1, <3>3, AppendIs
      <4> DEFINE l == Len(s)
      <4> HIDE DEF s, t
      <4>2. /\ \A n \in DOMAIN s : n \in DOMAIN t
            /\ l + 1 \in DOMAIN t
        BY <4>1
      <4>3. (i \in Elements(s) => i \in Elements(t)) /\ event.i \in Elements(t)
        BY <4>1, <4>2 DEF Elements
      <4> QED
        BY <4>3 DEF s, t
    <3>5. CASE i \in Elements(emitter.slots)
      BY <3>2, <3>4, <3>5
    <3>6. CASE InEvents(i, OwnerOf(i))
      <4>1. PICK n \in DOMAIN events : events[n].e = "ItemStart" /\ events[n].i = i /\ events[n].o = OwnerOf(i)
        BY <3>6 DEF InEvents
      <4>2. CASE n = 1
        <5>1. event.e = "ItemStart" /\ event.i = i /\ event = events[1] /\ 1 \in DOMAIN events
          BY <3>1, <4>1, <4>2, TailIs
        <5>2. event.k = "ToolCall"
          <6>1. Event("ItemStart", i, event.k, event.o)
            BY <5>1 DEF Event
          <6> QED
            BY <6>1 DEF Numbered, NumberedEvents, Names
        <5> QED
          BY <1>4, <3>2, <3>4, <5>1, <5>2
      <4>3. CASE n # 1
        <5>1. n - 1 \in DOMAIN events' /\ events'[n - 1] = events[n]
          BY <3>1, <4>1, <4>3, TailIs
        <5>2. \E l \in DOMAIN events' : events'[l].e = "ItemStart" /\ events'[l].i = i /\ events'[l].o = OwnerOf(i)'
          BY <1>1, <4>1, <5>1
        <5> QED
          BY <5>2 DEF InEvents
      <4> QED
        BY <4>2, <4>3
    <3> QED
      BY <2>0, <3>5, <3>6
  <2> QED
    BY <2>1, <2>2, <2>3, Moves
<1> QED
  BY <1>3, <1>4

\* What is named stays known.
LEMMA NamesStay ==
  ASSUME Typed, OneStep, NEW i, NEW k, Names(i, k)
  PROVE  Names(i, k)' /\ OwnerOf(i)' = OwnerOf(i)
BY ItemsGrow DEF Names

LEMMA RoadStays ==
  ASSUME OneStep
  PROVE  road' = road
BY DEF OneStep, Talks, Parses, Quits, Fails, Switch, Full, Closes, Trails, EmitsOne, ReadsOne

LEMMA NumberedOutcome ==
  ASSUME Typed, road[1] # "chat", NEW frame \in UpFrames, Outcome(frame)
  PROVE  /\ parser'.next = parser.next
         /\ \/ Numbered1(frame)
            \/ frame.f \notin {"piece", "open"} /\ \A n \in DOMAIN events' : events'[n].e \notin {"ItemStart", "Delta"}
<1>1. CASE Silent /\ frame.f \notin {"piece", "open", "shut", "stop"}
  BY <1>1 DEF Silent
<1>2. CASE Quietly(frame)
  BY <1>2 DEF Quietly, OnlyOf, SameParts
<1>3. CASE Numbered1(frame)
  BY <1>3 DEF Numbered1, SameParts
<1>4. CASE Finishes(frame)
  BY <1>4 DEF Finishes, OnlyOf
<1> QED
  BY <1>1, <1>2, <1>3, <1>4 DEF Outcome, TextGoesOn, TextOpens, CallGoesOn, CallOpens

LEMMA ChunkStep ==
  ASSUME Typed, Told, Numbered, road[1] # "chat", OneStep, phase' # "switched"
  PROVE  NumberedChunk'
<1>0. NumberedChunk
  BY DEF Numbered
<1>a. ASSUME NEW i, NEW k, Asks(i, k) PROVE Names(i, k)'
  BY <1>0, <1>a, NamesStay DEF NumberedChunk
<1>1. ASSUME \A n \in DOMAIN arrived' : n \in DOMAIN arrived /\ arrived'[n] = arrived[n] PROVE NumberedChunk'
  <2>1. ASSUME NEW i, NEW k, Asks(i, k)' PROVE Names(i, k)'
    <3>1. Asks(i, k)
      BY <1>1, <2>1 DEF Asks
    <3> QED
      BY <1>a, <3>1
  <2>2. ASSUME NEW m \in DOMAIN arrived', NEW n \in DOMAIN arrived', m < n, arrived'[m].f = "piece", arrived'[n].f = "open"
        PROVE  arrived'[m].i # arrived'[n].i
    BY <1>0, <1>1, <2>2 DEF NumberedChunk
  <2> QED
    BY <2>1, <2>2 DEF NumberedChunk
<1>2. ASSUME NEW frame \in UpFrames, Talks(frame) PROVE NumberedChunk'
  <2>0. /\ DOMAIN arrived = 1 .. Len(arrived) /\ Len(arrived) \in Nat
        /\ \A n \in DOMAIN arrived' : (n \in DOMAIN arrived /\ arrived'[n] = arrived[n]) \/ (n = Len(arrived) + 1 /\ arrived'[n] = frame)
    BY <1>2, Grown DEF Talks
  <2>1. up.items \in Seq(Kinds) /\ Len(up.items) \in Nat
    BY ItemsGrow
  <2>2. frame.f = "open" => frame.i = Len(up.items) /\ up'.items = Append(up.items, frame.k) /\ frame.k \in Kinds
    BY <1>2 DEF Talks, Text1, Call1, Begins1, Item1, Piece1, Shut1, Stop1, Other1, UpFrames
  <2>3. frame.f = "piece" => frame.i = Len(up.items) - 1 /\ up'.items = up.items /\ frame.k = up.items[Len(up.items)] /\ up.open
    BY <1>2 DEF Talks, Text1, Call1, Begins1, Item1, Piece1, Shut1, Stop1, Other1, UpFrames
  <2>4. ASSUME NEW i, NEW k, frame.f \in {"piece", "open"}, i = frame.i, k = frame.k PROVE Names(i, k)'
    <3> DEFINE s == up.items
               t == up'.items
    <3>1. CASE frame.f = "open"
      <4>1. i = Len(s) /\ t = Append(s, k) /\ s \in Seq(Kinds) /\ k \in Kinds
        BY <2>1, <2>2, <2>4, <3>1
      <4> HIDE DEF s, t
      <4>2. Len(s) \in Nat /\ Len(t) = Len(s) + 1 /\ t[Len(s) + 1] = k
        BY <4>1, AppendIs
      <4>3. i \in 0 .. Len(t) - 1 /\ k = t[i + 1]
        BY <4>1, <4>2
      <4> QED
        BY <4>3 DEF Names, Known, t
    <3>2. CASE frame.f = "piece"
      <4>1. i = Len(s) - 1 /\ t = s /\ k = s[Len(s)] /\ Len(s) > 0 /\ Len(s) \in Nat
        BY <2>1, <2>3, <2>4, <3>2 DEF Typed, IsUp
      <4> HIDE DEF s, t
      <4>2. i \in 0 .. Len(t) - 1 /\ k = t[i + 1]
        <5>1. i + 1 = Len(s)
          BY <4>1
        <5> QED
          BY <4>1, <5>1
      <4> QED
        BY <4>2 DEF Names, Known, t
    <3> QED
      BY <2>4, <3>1, <3>2
  <2>5. ASSUME NEW i, NEW k, Asks(i, k)' PROVE Names(i, k)'
    <3>1. PICK n \in DOMAIN arrived' : arrived'[n].f \in {"piece", "open"} /\ arrived'[n].i = i /\ arrived'[n].k = k
      BY <2>5 DEF Asks
    <3>2. CASE n \in DOMAIN arrived /\ arrived'[n] = arrived[n]
      <4>1. Asks(i, k)
        BY <3>1, <3>2 DEF Asks
      <4> QED
        BY <1>a, <4>1
    <3> QED
      BY <2>0, <2>4, <3>1, <3>2
  <2>6. ASSUME NEW m \in DOMAIN arrived', NEW n \in DOMAIN arrived', m < n, arrived'[m].f = "piece", arrived'[n].f = "open"
        PROVE  arrived'[m].i # arrived'[n].i
    <3>1. m \in DOMAIN arrived /\ arrived'[m] = arrived[m]
      BY <2>0, <2>6
    <3>2. CASE n \in DOMAIN arrived /\ arrived'[n] = arrived[n]
      BY <1>0, <2>6, <3>1, <3>2 DEF NumberedChunk
    <3>3. CASE arrived'[n] = frame
      <4>1. Known(arrived[m].i)
        BY <1>0, <2>6, <3>1 DEF NumberedChunk, Names, Asks
      <4>2. frame.i = Len(up.items)
        BY <2>2, <2>6, <3>3
      <4>3. \A i : Known(i) => i # Len(up.items)
        BY <2>1 DEF Known
      <4> QED
        BY <3>1, <3>3, <4>1, <4>2, <4>3
    <3> QED
      BY <2>0, <3>2, <3>3
  <2> QED
    BY <2>5, <2>6 DEF NumberedChunk
<1>3. ASSUME NEW frame \in UpFrames, Parses(frame) PROVE NumberedChunk'
  <2>0. \A n \in DOMAIN arrived' : n \in Nat /\ n >= 1 /\ n + 1 \in DOMAIN arrived /\ arrived'[n] = arrived[n + 1]
    BY <1>3, ChunkTail DEF Parses
  <2>1. ASSUME NEW i, NEW k, Asks(i, k)' PROVE Names(i, k)'
    <3>1. Asks(i, k)
      BY <2>0, <2>1 DEF Asks
    <3> QED
      BY <1>a, <3>1
  <2>2. \A m, n \in DOMAIN arrived' : m < n => m + 1 < n + 1
    BY <2>0
  <2>3. ASSUME NEW m \in DOMAIN arrived', NEW n \in DOMAIN arrived', m < n, arrived'[m].f = "piece", arrived'[n].f = "open"
        PROVE  arrived'[m].i # arrived'[n].i
    BY <1>0, <2>0, <2>2, <2>3 DEF NumberedChunk
  <2> QED
    BY <2>1, <2>3 DEF NumberedChunk
<1>4. CASE ~\E frame \in UpFrames : Talks(frame) \/ Parses(frame)
  <2>1. arrived' = arrived \/ arrived' = <<>>
    BY <1>4 DEF OneStep, Quits, Fails, Switch, Full, Closes, Trails, EmitsOne, ReadsOne
  <2>2. \A n \in DOMAIN arrived' : n \in DOMAIN arrived /\ arrived'[n] = arrived[n]
    BY <2>1
  <2> QED
    BY <1>1, <2>2
<1> QED
  BY <1>2, <1>3, <1>4

LEMMA EventsStep ==
  ASSUME Typed, Told, Numbered, road[1] # "chat", OneStep, phase' # "switched"
  PROVE  NumberedEvents' /\ parser'.next = 0
<1>0. NumberedEvents /\ parser.next = 0
  BY DEF Numbered
<1>1. ASSUME \A n \in DOMAIN events' : \E m \in DOMAIN events : events'[n] = events[m] PROVE NumberedEvents'
  <2>1. ASSUME NEW e, NEW i, NEW k, NEW o, Event(e, i, k, o)' PROVE Event(e, i, k, o)
    BY <1>1, <2>1 DEF Event
  <2>2. ASSUME NEW i, NEW k, NEW o, Event("ItemStart", i, k, o)' PROVE Names(i, k)' /\ o = OwnerOf(i)'
    BY <1>0, <2>1, <2>2, NamesStay DEF NumberedEvents
  <2>3. ASSUME NEW i, NEW k, NEW o, Event("Delta", i, k, o)' PROVE Names(i, k)' /\ o = OwnerOf(i)' /\ There(i)'
    <3>1. Names(i, k) /\ o = OwnerOf(i) /\ There(i)
      BY <1>0, <2>1, <2>3 DEF NumberedEvents
    <3>2. There(i)'
      BY <3>1, ThereStep DEF Names
    <3> QED
      BY <3>1, <3>2, NamesStay
  <2> QED
    BY <2>2, <2>3 DEF NumberedEvents
<1>2. ASSUME \A n \in DOMAIN events' : events'[n].e \notin {"ItemStart", "Delta"} PROVE NumberedEvents'
  BY <1>2 DEF NumberedEvents, Event
<1>3. ASSUME NEW frame \in UpFrames, Parses(frame) PROVE NumberedEvents' /\ parser'.next = 0
  <2>0. /\ 1 \in DOMAIN arrived /\ frame = arrived[1] /\ DOMAIN arrived = 1 .. Len(arrived) /\ Len(arrived) \in Nat
    BY <1>3, ChunkTail DEF Parses
  <2>1. /\ parser'.next = parser.next
        /\ Numbered1(frame) \/ \A n \in DOMAIN events' : events'[n].e \notin {"ItemStart", "Delta"}
    BY <1>3, NumberedOutcome DEF Parses
  <2>2. CASE Numbered1(frame) /\ frame.f = "shut"
    <3>1. \A n \in DOMAIN events' : events'[n].e \notin {"ItemStart", "Delta"}
      <4>1. events' = <<ItemEnd(frame.i)>>
        BY <2>2 DEF Numbered1
      <4>2. ItemEnd(frame.i).e = "ItemEnd"
        BY DEF ItemEnd, Happens
      <4> DEFINE x == ItemEnd(frame.i)
      <4> HIDE DEF x
      <4>3. events' = <<x>> /\ x.e = "ItemEnd"
        BY <4>1, <4>2 DEF x
      <4> QED
        BY <4>3
    <3> QED
      BY <1>0, <1>2, <2>1, <3>1
  <2>3. CASE Numbered1(frame) /\ frame.f \in {"piece", "open"}
    <3> DEFINE i == frame.i
               k == frame.k
               x == IF frame.f = "piece" THEN Delta(i, k, Owner(k, i)) ELSE ItemStart(i, k, Owner(k, i))
    <3>1. Names(i, k)
      BY <1>0, <2>0, <2>3 DEF Numbered, NumberedChunk, Asks
    <3>2. events' = <<x>>
      BY <2>3 DEF Numbered1
    <3>3. x.i = i /\ x.k = k /\ x.o = Owner(k, i) /\ (x.e = "Delta" => frame.f = "piece")
      BY <2>3 DEF Delta, ItemStart
    <3> HIDE DEF x
    <3>4. DOMAIN events' = {1} /\ events'[1] = x
      BY <3>2
    <3>5. up' = up /\ road' = road /\ emitter' = emitter /\ client' = client /\ Idle /\ Live
      BY <1>3 DEF Parses
    <3>6. Known(i) /\ k = up.items[i + 1] /\ Owner(k, i) = OwnerOf(i)
      BY <3>1 DEF Names, OwnerOf
    <3>7. frame.f = "piece" => There(i)
      <4>1. SUFFICES ASSUME frame.f = "piece" PROVE There(i)
        OBVIOUS
      <4>2. Opening(i) \/ There(i)
        BY <3>1, <3>5 DEF Numbered, NoneMissed, Names
      <4>3. ~Opening(i)
        <5>1. SUFFICES ASSUME NEW n \in DOMAIN arrived, arrived[n].f = "open", arrived[n].i = i PROVE FALSE
          BY DEF Opening
        <5>2. 1 < n
          BY <2>0, <4>1, <5>1
        <5> QED
          BY <1>0, <2>0, <4>1, <5>1, <5>2 DEF Numbered, NumberedChunk
      <4> QED
        BY <4>2, <4>3
    <3> HIDE DEF i, k
    <3>8. ASSUME NEW a, NEW b, NEW o, NEW e, Event(e, a, b, o)'
          PROVE  a = i /\ b = k /\ o = OwnerOf(i) /\ (e = "Delta" => frame.f = "piece")
      BY <3>3, <3>4, <3>6, <3>8 DEF Event
    <3>9. ASSUME NEW a, NEW b, a = i, b = k PROVE Names(a, b)' /\ OwnerOf(a)' = OwnerOf(a)
      BY <3>1, <3>9, NamesStay
    <3>10. ASSUME NEW a, a = i, frame.f = "piece" PROVE There(a)'
      BY <3>6, <3>7, <3>10, ThereStep
    <3>11. NumberedEvents'
      <4>1. ASSUME NEW a, NEW b, NEW o, Event("ItemStart", a, b, o)' PROVE Names(a, b)' /\ o = OwnerOf(a)'
        BY <3>8, <3>9, <4>1
      <4>2. ASSUME NEW a, NEW b, NEW o, Event("Delta", a, b, o)' PROVE Names(a, b)' /\ o = OwnerOf(a)' /\ There(a)'
        BY <3>8, <3>9, <3>10, <4>2
      <4> QED
        BY <4>1, <4>2 DEF NumberedEvents
    <3> QED
      BY <1>0, <2>1, <3>11
  <2> QED
    BY <1>0, <1>2, <2>1, <2>2, <2>3 DEF Numbered1
<1>4. CASE Closes
  <2> DEFINE m == Sends("mark")
  <2>1. m \in UpFrames /\ Outcome(m) /\ m.f = "mark"
    BY <1>4, Ends1
  <2> HIDE DEF m
  <2>2. parser'.next = parser.next /\ \A n \in DOMAIN events' : events'[n].e \notin {"ItemStart", "Delta"}
    BY <2>1, NumberedOutcome DEF Numbered1
  <2> QED
    BY <1>0, <1>2, <2>2
<1>5. CASE ~Closes /\ ~\E frame \in UpFrames : Parses(frame)
  <2>1. parser' = parser /\ (events' = events \/ (events # <<>> /\ events' = Tail(events)))
    BY <1>5 DEF OneStep, Talks, Quits, Fails, Switch, Full, Trails, EmitsOne, ReadsOne
  <2>2. \A n \in DOMAIN events' : \E m \in DOMAIN events : events'[n] = events[m]
    <3>1. CASE events' = events
      BY <3>1
    <3>2. CASE events # <<>> /\ events' = Tail(events)
      BY <3>2, TailIs DEF Typed
    <3> QED
      BY <2>1, <3>1, <3>2
  <2> QED
    BY <1>0, <1>1, <2>1, <2>2
<1> QED
  BY <1>3, <1>4, <1>5

LEMMA StaysLive ==
  ASSUME OneStep, Live'
  PROVE  Live
BY DEF OneStep, Talks, Parses, Quits, Fails, Switch, Full, Closes, Trails, EmitsOne, ReadsOne, Live

LEMMA MissedStep ==
  ASSUME Typed, Told, Numbered, road[1] # "chat", OneStep, phase' # "switched"
  PROVE  NoneMissed'
<1> SUFFICES ASSUME Live', NEW i, Known(i)' PROVE Opening(i)' \/ There(i)'
  BY DEF NoneMissed
<1>0. Live
  BY StaysLive
<1>1. ASSUME Known(i), There(i) PROVE There(i)'
  BY <1>1, ThereStep
<1>2. Known(i) => Opening(i) \/ There(i)
  BY <1>0 DEF Numbered, NoneMissed
<1>3. ASSUME NEW frame \in UpFrames, Talks(frame) PROVE Opening(i)' \/ There(i)'
  <2>1. /\ Len(arrived) \in Nat /\ DOMAIN arrived' = 1 .. Len(arrived) + 1
        /\ \A n \in DOMAIN arrived : n \in DOMAIN arrived' /\ arrived'[n] = arrived[n]
        /\ arrived'[Len(arrived) + 1] = frame
    BY <1>3, Grown DEF Talks
  <2>2. CASE Known(i)
    BY <1>1, <1>2, <2>1, <2>2 DEF Opening
  <2>3. CASE ~Known(i)
    <3>1. up'.items # up.items
      BY <2>3 DEF Known
    <3>2. frame.f = "open" /\ frame.i = Len(up.items) /\ up'.items = Append(up.items, frame.k) /\ frame.k \in Kinds
      BY <1>3, <3>1 DEF Talks, Text1, Call1, Begins1, Item1, Piece1, Shut1, Stop1, Other1, Rests, UpFrames
    <3>3. up.items \in Seq(Kinds)
      BY ItemsGrow
    <3> DEFINE l == Len(up.items)
    <3>4. Len(up'.items) = l + 1 /\ l \in Nat
      BY <3>2, <3>3, AppendIs
    <3> HIDE DEF l
    <3>5. i \in 0 .. (l + 1) - 1 /\ ~(i \in 0 .. l - 1)
      BY <2>3, <3>4 DEF Known, l
    <3>6. i = l
      BY <3>4, <3>5
    <3>7. Len(arrived) + 1 \in DOMAIN arrived'
      BY <2>1
    <3> QED
      BY <2>1, <3>2, <3>6, <3>7 DEF Opening, l
  <2> QED
    BY <2>2, <2>3
<1>4. ASSUME NEW frame \in UpFrames, Parses(frame) PROVE Opening(i)' \/ There(i)'
  <2>0. /\ 1 \in DOMAIN arrived /\ frame = arrived[1] /\ DOMAIN arrived = 1 .. Len(arrived) /\ Len(arrived) \in Nat
        /\ \A n \in DOMAIN arrived : n = 1 \/ (n - 1 \in DOMAIN arrived' /\ arrived[n] = arrived'[n - 1])
        /\ up' = up /\ road' = road /\ emitter' = emitter
    BY <1>4, ChunkTail DEF Parses
  <2>1. Known(i)
    BY <2>0 DEF Known
  <2>2. CASE There(i)
    BY <1>1, <2>1, <2>2
  <2>3. CASE Opening(i)
    <3>1. PICK n \in DOMAIN arrived : arrived[n].f = "open" /\ arrived[n].i = i
      BY <2>3 DEF Opening
    <3>2. CASE n # 1
      BY <2>0, <3>1, <3>2 DEF Opening
    <3>3. CASE n = 1
      <4>1. frame.f = "open" /\ frame.i = i
        BY <2>0, <3>1, <3>3
      <4>2. events' = <<ItemStart(frame.i, frame.k, Owner(frame.k, frame.i))>>
        BY <1>4, <4>1, NumberedOutcome DEF Parses, Numbered1
      <4>3. frame.k = up.items[i + 1]
        BY <2>0, <4>1 DEF Numbered, NumberedChunk, Names, Asks
      <4> DEFINE x == ItemStart(frame.i, frame.k, Owner(frame.k, frame.i))
      <4>4. x.e = "ItemStart" /\ x.i = i /\ x.o = OwnerOf(i)
        BY <4>1, <4>3 DEF ItemStart, OwnerOf
      <4> HIDE DEF x
      <4>5. 1 \in DOMAIN events' /\ events'[1] = x
        BY <4>2 DEF x
      <4>6. ASSUME NEW o, o = OwnerOf(i) PROVE InEvents(i, o)'
        BY <4>4, <4>5, <4>6 DEF InEvents
      <4>7. OwnerOf(i)' = OwnerOf(i)
        BY <2>0 DEF OwnerOf
      <4>8. \E o : o = OwnerOf(i)' /\ InEvents(i, o)'
        BY <4>6, <4>7
      <4> QED
        BY <4>8 DEF There, Given, InEvents
    <3> QED
      BY <3>2, <3>3
  <2> QED
    BY <1>2, <2>1, <2>2, <2>3
<1>5. CASE ~\E frame \in UpFrames : Talks(frame) \/ Parses(frame)
  <2>1. arrived' = arrived /\ up'.items = up.items
    BY <1>5 DEF OneStep, Quits, Rests, Fails, Switch, Full, Closes, Trails, EmitsOne, ReadsOne, Live
  <2>2. Known(i)
    BY <2>1 DEF Known
  <2> QED
    BY <1>1, <1>2, <2>1, <2>2 DEF Opening
<1> QED
  BY <1>3, <1>4, <1>5

\* What the client reads is what was on the wire.
LEMMA ReadsHas ==
  ASSUME Typed, NEW frame \in WireFrames, ReadsOne(frame), NEW i, NEW o
  PROVE  /\ (InWire(i, o)' => InWire(i, o)) /\ (InClient(i, o)' => Has(i, o))
         /\ (Brings(i, o)' => Brings(i, o))
         /\ (frame.f = "open" => InWire(frame.i, frame.o))
         /\ (frame.f = "delta" => Brings(frame.i, frame.o))
         /\ (Has(i, o) /\ (frame.f = "open" /\ frame.i = i => frame.o = o) => Has(i, o)')
         /\ (InClient(i, o) /\ frame.f # "open" => InClient(i, o)')
<1>1. /\ wire # <<>> /\ wire \in Seq(WireFrames) /\ frame = Head(wire) /\ wire' = Tail(wire)
      /\ client'.items = (IF frame.f # "open" THEN client.items
                          ELSE [j \in DOMAIN client.items \cup {frame.i} |->
                                  IF j = frame.i THEN frame.o ELSE client.items[j]])
  BY DEF ReadsOne, Typed, Reading
<1>2. /\ frame = wire[1] /\ 1 \in DOMAIN wire
      /\ \A n \in DOMAIN wire : n = 1 \/ (n - 1 \in DOMAIN wire' /\ wire[n] = wire'[n - 1])
      /\ \A n \in DOMAIN wire' : n + 1 \in DOMAIN wire /\ wire'[n] = wire[n + 1]
  BY <1>1, TailIs
<1>3. (InWire(i, o)' => InWire(i, o)) /\ (Brings(i, o)' => Brings(i, o))
  BY <1>2 DEF InWire, Brings
<1>4. (frame.f = "open" => InWire(frame.i, frame.o)) /\ (frame.f = "delta" => Brings(frame.i, frame.o))
  BY <1>2 DEF InWire, Brings
<1>5. InClient(i, o)' => Has(i, o)
  <2>1. SUFFICES ASSUME i \in DOMAIN client'.items, client'.items[i] = o PROVE Has(i, o)
    BY DEF InClient
  <2>2. CASE frame.f = "open" /\ i = frame.i
    BY <1>1, <1>4, <2>1, <2>2 DEF Has
  <2>3. CASE ~(frame.f = "open" /\ i = frame.i)
    BY <1>1, <2>1, <2>3 DEF Has, InClient
  <2> QED
    BY <2>2, <2>3
<1>6. ASSUME Has(i, o), frame.f = "open" /\ frame.i = i => frame.o = o PROVE Has(i, o)'
  <2>1. CASE InWire(i, o)
    <3>1. PICK n \in DOMAIN wire : wire[n].f = "open" /\ wire[n].i = i /\ wire[n].o = o
      BY <2>1 DEF InWire
    <3>2. CASE n = 1
      <4>1. i \in DOMAIN client'.items /\ client'.items[i] = o
        BY <1>1, <1>2, <3>1, <3>2
      <4> QED
        BY <4>1 DEF InClient, Has
    <3>3. CASE n # 1
      BY <1>2, <3>1, <3>3 DEF InWire, Has
    <3> QED
      BY <3>2, <3>3
  <2>2. CASE InClient(i, o)
    <3>1. i \in DOMAIN client'.items /\ client'.items[i] = o
      BY <1>1, <1>6, <2>2 DEF InClient
    <3> QED
      BY <3>1 DEF InClient, Has
  <2> QED
    BY <1>6, <2>1, <2>2 DEF Has
<1>7. InClient(i, o) /\ frame.f # "open" => InClient(i, o)'
  BY <1>1 DEF InClient
<1> QED
  BY <1>3, <1>4, <1>5, <1>6, <1>7

\* What one event puts on the wire, for the items.
LEMMA EmitsHas ==
  ASSUME Typed, NEW event \in EventsOf, EmitsOne(event), NEW i, NEW o
  PROVE  /\ ~InWire(i, o) /\ (InClient(i, o)' <=> InClient(i, o))
         /\ (InWire(i, o)' => /\ event.e = "ItemStart" /\ o = event.o
                              /\ i = (IF road[2] # "chat" THEN event.i ELSE Len(emitter.slots))
                              /\ (road[2] = "chat" => event.k = "ToolCall"))
         /\ (event.e \in {"ItemStart", "Delta"} => Event(event.e, event.i, event.k, event.o))
         /\ Emission(event) /\ event.i \in Nat /\ event.k \in Kinds
<1>1. /\ wire = <<>> /\ events # <<>> /\ event = Head(events) /\ events \in Seq(EventsOf) /\ client' = client /\ Emission(event)
  BY DEF EmitsOne, Typed
<1>2. ~InWire(i, o) /\ (InClient(i, o)' <=> InClient(i, o))
  BY <1>1, Written DEF InWire, InClient
<1>3. event = events[1] /\ 1 \in DOMAIN events
  BY <1>1, TailIs
<1>4. InWire(i, o)' => /\ event.e = "ItemStart" /\ o = event.o
                       /\ i = (IF road[2] # "chat" THEN event.i ELSE Len(emitter.slots))
                       /\ (road[2] = "chat" => event.k = "ToolCall")
  BY <1>1, EmitFrames DEF InWire
<1> QED
  BY <1>1, <1>2, <1>3, <1>4 DEF Event, EventsOf

LEMMA RestsHas ==
  ASSUME Resting, NEW i, NEW o
  PROVE  ~InWire(i, o)' /\ ~InWire(i, o) /\ (InClient(i, o)' <=> InClient(i, o)) /\ ~Brings(i, o)'
         /\ road' = road /\ emitter' = emitter
BY IdleGives DEF Resting, InWire, InClient, Shows, Brings

LEMMA PlaceStep ==
  ASSUME Typed, Told, Numbered, road[1] # "chat", road[2] # "chat", OneStep, phase' # "switched"
  PROVE  InPlace'
<1>0. InPlace /\ NumberedEvents
  BY DEF Numbered
<1> SUFFICES ASSUME NEW i, NEW o, Has(i, o)' PROVE Known(i)' /\ o = OwnerOf(i)'
  BY DEF InPlace
<1>1. Known(i) /\ o = OwnerOf(i) => Known(i)' /\ o = OwnerOf(i)'
  BY ItemsGrow
<1>2. CASE Resting
  BY <1>0, <1>1, <1>2, RestsHas DEF Has, InPlace
<1>3. ASSUME NEW event \in EventsOf, EmitsOne(event) PROVE Known(i) /\ o = OwnerOf(i)
  <2>1. CASE InWire(i, o)'
    <3>1. event.e = "ItemStart" /\ o = event.o /\ i = event.i /\ Event(event.e, event.i, event.k, event.o)
      BY <1>3, <2>1, EmitsHas
    <3>2. Event("ItemStart", i, event.k, o)
      BY <3>1
    <3> QED
      BY <1>0, <3>2 DEF NumberedEvents, Names
  <2>2. CASE InClient(i, o)'
    BY <1>0, <1>3, <2>2, EmitsHas DEF InPlace, Has
  <2> QED
    BY <2>1, <2>2 DEF Has
<1>4. ASSUME NEW frame \in WireFrames, ReadsOne(frame) PROVE Known(i) /\ o = OwnerOf(i)
  BY <1>0, <1>4, ReadsHas DEF InPlace, Has
<1> QED
  BY <1>1, <1>2, <1>3, <1>4, Moves

LEMMA SlotStep ==
  ASSUME Typed, Told, Numbered, road[1] # "chat", road[2] = "chat", OneStep, phase' # "switched"
  PROVE  InSlots'
<1> DEFINE slots == emitter.slots
           more == emitter'.slots
<1>0. InSlots /\ NumberedEvents /\ slots \in Seq(Nat) /\ DOMAIN slots = 1 .. Len(slots) /\ Len(slots) \in Nat
  BY DEF Numbered, Typed, IsEmitter
<1>1. \A i, o : Known(i) /\ o = OwnerOf(i) => Known(i)' /\ o = OwnerOf(i)'
  BY ItemsGrow
<1>2. ASSUME more = slots, \A s \in DOMAIN slots : \A o : Has(s - 1, o) /\ o = OwnerOf(slots[s]) => Has(s - 1, o)',
             \A j, o : InWire(j, o)' => InWire(j, o)
      PROVE  InSlots'
  <2>1. ASSUME NEW s \in DOMAIN more, NEW i, more[s] = i PROVE Known(i)' /\ \E o : o = OwnerOf(i)' /\ Has(s - 1, o)'
    <3>1. s \in DOMAIN slots /\ slots[s] = i
      BY <1>2, <2>1
    <3>2. Known(i) /\ \E o : o = OwnerOf(i) /\ Has(s - 1, o)
      BY <1>0, <3>1 DEF InSlots
    <3>3. PICK o : o = OwnerOf(i) /\ Has(s - 1, o)
      BY <3>2
    <3>4. Has(s - 1, o)' /\ Known(i)' /\ o = OwnerOf(i)'
      BY <1>1, <1>2, <3>1, <3>2, <3>3
    <3> QED
      BY <3>4
  <2>2. ASSUME NEW j, NEW o, InWire(j, o)'
        PROVE  Len(more) > 0 /\ j = Len(more) - 1 /\ \A i : more[Len(more)] = i => o = OwnerOf(i)'
    <3>1. Len(slots) > 0 /\ j = Len(slots) - 1 /\ \A i : slots[Len(slots)] = i => o = OwnerOf(i)
      BY <1>0, <1>2, <2>2 DEF InSlots
    <3>2. Len(slots) \in DOMAIN slots
      BY <1>0, <3>1
    <3>3. \A i : slots[Len(slots)] = i => Known(i)
      BY <1>0, <3>2 DEF InSlots
    <3> QED
      BY <1>1, <1>2, <3>1, <3>3
  <2> QED
    BY <2>1, <2>2 DEF InSlots
<1>3. CASE Resting
  <2>1. more = slots
    BY <1>3 DEF Resting
  <2> HIDE DEF slots, more
  <2>2. \A j, o : ~InWire(j, o)' /\ ~InWire(j, o) /\ (InClient(j, o)' <=> InClient(j, o))
    BY <1>3, RestsHas
  <2> QED
    BY <1>2, <2>1, <2>2 DEF Has
<1>4. ASSUME NEW frame \in WireFrames, ReadsOne(frame) PROVE InSlots'
  <2>1. more = slots
    BY <1>4 DEF ReadsOne
  <2>2. \A j, o : InWire(j, o)' => InWire(j, o)
    BY <1>4, ReadsHas
  <2>3. ASSUME NEW s \in DOMAIN slots, NEW o, Has(s - 1, o), o = OwnerOf(slots[s]) PROVE Has(s - 1, o)'
    <3>1. ASSUME frame.f = "open", frame.i = s - 1 PROVE frame.o = o
      <4>1. InWire(frame.i, frame.o)
        BY <1>4, <3>1, ReadsHas
      <4>2. frame.i = Len(slots) - 1 /\ frame.o = OwnerOf(slots[Len(slots)])
        BY <1>0, <4>1 DEF InSlots
      <4>3. s = Len(slots)
        BY <1>0, <3>1, <4>2
      <4> QED
        BY <2>3, <4>2, <4>3
    <3> DEFINE j == s - 1
    <3>2. Has(j, o) /\ (frame.f = "open" /\ frame.i = j => frame.o = o)
      BY <2>3, <3>1
    <3> HIDE DEF j
    <3>3. Has(j, o)'
      BY <1>4, <3>2, ReadsHas
    <3> QED
      BY <3>3 DEF j
  <2> HIDE DEF slots, more
  <2> QED
    BY <1>2, <2>1, <2>2, <2>3
<1>5. ASSUME NEW event \in EventsOf, EmitsOne(event) PROVE InSlots'
  <2>1. /\ Emission(event) /\ event.i \in Nat
        /\ (event.e = "ItemStart" => Event("ItemStart", event.i, event.k, event.o))
    BY <1>5, EmitsHas
  <2>2. \A j, o : ~InWire(j, o) /\ (InClient(j, o)' <=> InClient(j, o))
    BY <1>5, EmitsHas
  <2>3. \A j, o : InWire(j, o)' => event.e = "ItemStart" /\ o = event.o /\ j = Len(slots) /\ event.k = "ToolCall"
    BY <1>5, EmitsHas
  <2> DEFINE starts == event.e = "ItemStart" /\ event.k = "ToolCall"
  <2>4. more = (IF starts THEN Append(slots, event.i) ELSE slots)
    BY <2>1, EmitFrames
  <2>5. CASE ~starts
    <3>1. more = slots /\ \A j, o : InWire(j, o)' => InWire(j, o)
      BY <2>3, <2>4, <2>5
    <3> HIDE DEF slots, more
    <3> QED
      BY <1>2, <2>2, <3>1 DEF Has
  <2>6. CASE starts
    <3> DEFINE a == event.i
    <3>0. a \in Nat /\ slots \in Seq(Nat) /\ more = Append(slots, a)
      BY <1>0, <2>1, <2>4, <2>6
    <3>1. /\ Len(more) = Len(slots) + 1 /\ DOMAIN more = 1 .. Len(slots) + 1
          /\ \A n \in DOMAIN slots : more[n] = slots[n]
          /\ more[Len(slots) + 1] = a
      <4> HIDE DEF slots, more, a
      <4> QED
        BY <3>0, AppendIs
    <3>2. Known(a) /\ event.o = OwnerOf(a)
      BY <1>0, <2>1, <2>6 DEF NumberedEvents, Names
    <3>3. ASSUME NEW j, j = Len(slots) PROVE InWire(j, event.o)'
      <4>1. \E n \in DOMAIN wire' : wire'[n].f = "open" /\ wire'[n].o = event.o /\ wire'[n].i = j
        BY <2>1, <2>6, <3>3, EmitFrames
      <4> QED
        BY <4>1 DEF InWire
    <3>4. \A s \in DOMAIN slots : \A i : slots[s] = i => Known(i) /\ \E o : o = OwnerOf(i) /\ Has(s - 1, o)
      BY <1>0 DEF InSlots
    <3>5. ASSUME NEW j, NEW o, InWire(j, o)' PROVE o = event.o /\ j = Len(slots)
      BY <2>3, <3>5
    <3> HIDE DEF slots, more, a
    <3>6. ASSUME NEW s \in DOMAIN more, NEW i, more[s] = i PROVE Known(i)' /\ \E o : o = OwnerOf(i)' /\ Has(s - 1, o)'
      <4>1. CASE s \in DOMAIN slots
        <5>1. Known(i) /\ \E o : o = OwnerOf(i) /\ Has(s - 1, o)
          BY <3>1, <3>4, <3>6, <4>1
        <5>2. PICK o : o = OwnerOf(i) /\ Has(s - 1, o)
          BY <5>1
        <5>3. Has(s - 1, o)' /\ Known(i)' /\ o = OwnerOf(i)'
          BY <1>1, <2>2, <5>1, <5>2 DEF Has
        <5> QED
          BY <5>3
      <4>2. CASE s \notin DOMAIN slots
        <5>1. s = Len(slots) + 1 /\ i = a
          <6>1. s \in 1 .. Len(slots) + 1 /\ ~(s \in 1 .. Len(slots)) /\ Len(slots) \in Nat
            BY <1>0, <3>1, <3>6, <4>2
          <6>2. s = Len(slots) + 1
            BY <6>1
          <6> QED
            BY <3>1, <3>6, <6>2
        <5>2. s - 1 = Len(slots)
          BY <1>0, <5>1
        <5> DEFINE j == s - 1
                   q == event.o
        <5>3. j = Len(slots)
          BY <5>2
        <5>4. q = OwnerOf(i) /\ Known(i)
          BY <3>2, <5>1
        <5> HIDE DEF j
        <5>5. InWire(j, q)'
          BY <3>3, <5>3
        <5>6. Has(j, q)' /\ q = OwnerOf(i)' /\ Known(i)'
          BY <1>1, <5>4, <5>5 DEF Has
        <5> QED
          BY <5>6 DEF j
      <4> QED
        BY <4>1, <4>2
    <3>7. ASSUME NEW j, NEW o, InWire(j, o)'
          PROVE  Len(more) > 0 /\ j = Len(more) - 1 /\ \A i : more[Len(more)] = i => o = OwnerOf(i)'
      <4>1. o = event.o /\ j = Len(slots)
        BY <3>5, <3>7
      <4>2. Len(more) > 0 /\ j = Len(more) - 1 /\ more[Len(more)] = a
        BY <1>0, <3>1, <4>1
      <4>3. ASSUME NEW i, i = a PROVE o = OwnerOf(i)'
        BY <1>1, <3>2, <4>1, <4>3
      <4> QED
        BY <4>2, <4>3
    <3> QED
      BY <3>6, <3>7 DEF InSlots, more
  <2> QED
    BY <2>5, <2>6
<1> QED
  BY <1>3, <1>4, <1>5, Moves

LEMMA NumberedStep ==
  ASSUME Typed, Told, Numbered, OneStep, phase' # "switched"
  PROVE  Numbered'
<1>1. road' = road
  BY RoadStays
<1>2. ASSUME road[1] # "chat" PROVE NumberedChunk' /\ NumberedEvents' /\ NoneMissed' /\ parser'.next = 0
  BY <1>2, ChunkStep, EventsStep, MissedStep
<1>3. ASSUME road[1] # "chat" PROVE IF road[2] # "chat" THEN InPlace' ELSE InSlots'
  BY <1>3, PlaceStep, SlotStep
<1> QED
  BY <1>1, <1>2, <1>3 DEF Numbered

(* ------------------- a Chat upstream, numbered by its parser ----------- *)

LEMMA GivenStays ==
  ASSUME Typed, Told, Traffic, road[2] # "chat", OneStep, phase' # "switched", NEW i, NEW o, Given(i, o)
  PROVE  Given(i, o)'
<1>1. \A n \in DOMAIN wire : wire[n].f = "open" /\ wire[n].i = i => wire[n].o = o \/ Fresh(i)
  BY DEF Traffic, InWire
<1> QED
  BY <1>1, GivenStep

\* The upstream of a road is of another protocol than the client.
LEMMA RoadIs == ASSUME Typed PROVE road[1] # road[2] /\ road \in Protocols \X Protocols
BY TranslationAssumption DEF Typed

\* A list with a piece: the events in it.
LEMMA ListHas ==
  ASSUME NEW i \in Nat, NEW k \in Kinds, NEW o \in OwnersOf, NEW opens \in BOOLEAN,
         Lists(Delta(i, k, o), opens)
  PROVE  /\ \A j, q : InEvents(j, q)' <=> opens /\ j = i /\ q = o
         /\ \A j, l, q : Event("Delta", j, l, q)' <=> j = i /\ l = k /\ q = o
         /\ (Coming(events', "ItemStart") <=> opens)
<1> DEFINE d == Delta(i, k, o)
           x == StartOf(d)
<1>1. /\ \A n \in DOMAIN events' : events'[n] = d \/ events'[n].e = "Start" \/ (opens /\ events'[n] = x)
      /\ (\E n \in DOMAIN events' : events'[n] = d)
      /\ (opens => \E n \in DOMAIN events' : events'[n] = x)
      /\ (Coming(events', "ItemStart") <=> opens)
  BY ListIs
<1>2. /\ d.e = "Delta" /\ d.i = i /\ d.k = k /\ d.o = o
      /\ x.e = "ItemStart" /\ x.i = i /\ x.k = k /\ x.o = o
  BY DEF StartOf, Delta
<1> HIDE DEF d, x
<1>3. ASSUME NEW j, NEW q PROVE InEvents(j, q)' <=> opens /\ j = i /\ q = o
  <2>1. ASSUME opens, j = i, q = o PROVE InEvents(j, q)'
    BY <1>1, <1>2, <2>1 DEF InEvents
  <2>2. ASSUME InEvents(j, q)' PROVE opens /\ j = i /\ q = o
    BY <1>1, <1>2, <2>2 DEF InEvents
  <2> QED
    BY <2>1, <2>2
<1>4. ASSUME NEW j, NEW l, NEW q PROVE Event("Delta", j, l, q)' <=> j = i /\ l = k /\ q = o
  <2>1. ASSUME j = i, l = k, q = o PROVE Event("Delta", j, l, q)'
    BY <1>1, <1>2, <2>1 DEF Event
  <2>2. ASSUME Event("Delta", j, l, q)' PROVE j = i /\ l = k /\ q = o
    BY <1>1, <1>2, <2>2 DEF Event
  <2> QED
    BY <2>1, <2>2
<1> QED
  BY <1>1, <1>3, <1>4

LEMMA ChatOutcome ==
  ASSUME Typed, Told, road[1] = "chat", NEW frame \in UpFrames, Outcome(frame), IsParser(parser'),
         frame.f \in Content => ~parser.finished,
         frame.f = "piece" /\ frame.k = "ToolCall" => frame.i \in Slots
  PROVE  /\ (parser.finished => parser'.finished)
         /\ \/ ~parser'.finished /\ (Goes(frame) \/ (OpensText /\ frame.k # "ToolCall") \/ OpensCall(frame))
            \/ /\ parser'.finished /\ parser'.next = parser.next /\ (\A j, q : ~InEvents(j, q)')
               /\ ~Coming(events', "ItemStart") /\ \A j, k, q : ~Event("Delta", j, k, q)'
<1>0. /\ parser'.finished \in BOOLEAN /\ parser.finished \in BOOLEAN
      /\ parser'.textOpen \in BOOLEAN /\ parser.textOpen \in BOOLEAN
      /\ (parser.done => parser.finished) /\ (parser.finished => parser'.finished)
  BY Comes DEF Typed, IsParser, Told, Knows
<1>n. /\ (parser.textOpen => parser.next - 1 \in Nat) /\ parser.next \in Nat /\ "ToolCall" \in Kinds
      /\ frame.k \in Kinds /\ frame.i \in Nat
      /\ Owner(frame.k, 0) \in OwnersOf /\ Owner("ToolCall", frame.i) \in OwnersOf
      /\ (frame.i \in Slots /\ parser.tools[frame.i] # None => parser.tools[frame.i] \in Nat)
  BY ParserNumbers
<1>a. ASSUME \A n \in DOMAIN events' : events'[n].e \notin {"ItemStart", "Delta"}
      PROVE  /\ \A j, q : ~InEvents(j, q)'
             /\ ~Coming(events', "ItemStart") /\ \A j, k, q : ~Event("Delta", j, k, q)'
  BY <1>a DEF InEvents, Coming, Event
<1>1. CASE Silent /\ frame.f \notin {"piece", "open", "shut", "stop"}
  <2>1. \A n \in DOMAIN events' : events'[n].e \notin {"ItemStart", "Delta"}
    BY <1>1 DEF Silent
  <2>2. parser'.next = parser.next /\ parser'.finished = parser.finished
        /\ (~parser.finished => parser'.tools = parser.tools /\ parser'.textOpen = parser.textOpen)
    BY <1>0, <1>1 DEF Silent
  <2> QED
    BY <1>0, <1>1, <1>a, <2>1, <2>2 DEF Goes
<1>2. CASE Quietly(frame)
  <2>1. \A n \in DOMAIN events' : events'[n].e \notin {"ItemStart", "Delta"}
    BY <1>2 DEF Quietly, OnlyOf
  <2> QED
    BY <1>0, <1>2, <1>a, <2>1 DEF Quietly, SameParts, Goes
<1>3. CASE TextGoesOn(frame)
  <2> DEFINE i == parser.next - 1
             o == Owner(frame.k, 0)
             k == frame.k
             opens == FALSE
  <2>1. Lists(Delta(i, k, o), opens) /\ i \in Nat /\ k \in Kinds /\ o \in OwnersOf /\ opens \in BOOLEAN
    BY <1>3, <1>n DEF TextGoesOn
  <2> HIDE DEF i, o, k, opens
  <2>a. /\ \A j, q : InEvents(j, q)' <=> opens /\ j = i /\ q = o
        /\ \A j, l, q : Event("Delta", j, l, q)' <=> j = i /\ l = k /\ q = o
        /\ (Coming(events', "ItemStart") <=> opens)
    BY <2>1, ListHas
  <2>2. /\ \A j, q : ~InEvents(j, q)'
        /\ \A j, l, q : Event("Delta", j, l, q)' => l = frame.k
        /\ ~Coming(events', "ItemStart")
    BY <2>a DEF opens, k
  <2>3. Goes(frame) /\ ~parser'.finished
    BY <1>3, <2>2 DEF Goes, TextGoesOn, SameParts, Content
  <2> QED
    BY <1>0, <2>3
<1>4. CASE TextOpens(frame)
  <2> DEFINE i == parser.next
             o == Owner(frame.k, 0)
             k == frame.k
             opens == TRUE
  <2>1. Lists(Delta(i, k, o), opens) /\ i \in Nat /\ k \in Kinds /\ o \in OwnersOf /\ opens \in BOOLEAN
    BY <1>4, <1>n DEF TextOpens
  <2> HIDE DEF i, o, k, opens
  <2>a. /\ \A j, q : InEvents(j, q)' <=> opens /\ j = i /\ q = o
        /\ \A j, l, q : Event("Delta", j, l, q)' <=> j = i /\ l = k /\ q = o
        /\ (Coming(events', "ItemStart") <=> opens)
    BY <2>1, ListHas
  <2>2. /\ \A j, q : InEvents(j, q)' => j = parser.next
        /\ \A j, l, q : Event("Delta", j, l, q)' => l = frame.k
    BY <2>a DEF i, k
  <2>3. OpensText /\ frame.k # "ToolCall" /\ ~parser'.finished
    BY <1>4, <2>2 DEF OpensText, TextOpens, Content
  <2> QED
    BY <1>0, <2>3
<1>5. CASE CallGoesOn(frame)
  <2> DEFINE i == parser.tools[frame.i]
             o == Owner("ToolCall", frame.i)
             k == "ToolCall"
             opens == FALSE
  <2>1. /\ Lists(Delta(i, k, o), opens) /\ i \in Nat /\ k \in Kinds /\ o \in OwnersOf /\ opens \in BOOLEAN
        /\ parser.tools[frame.i] # None /\ frame.i \in Slots /\ parser.tools[frame.i] \in Nat
        /\ frame.f = "piece" /\ frame.k = "ToolCall"
    BY <1>5, <1>n DEF CallGoesOn
  <2> HIDE DEF i, o, k, opens
  <2>a. /\ \A j, q : InEvents(j, q)' <=> opens /\ j = i /\ q = o
        /\ \A j, l, q : Event("Delta", j, l, q)' <=> j = i /\ l = k /\ q = o
        /\ (Coming(events', "ItemStart") <=> opens)
    BY <2>1, ListHas
  <2>2. /\ \A j, q : ~InEvents(j, q)'
        /\ \A j, l, q : Event("Delta", j, l, q)' => j = parser.tools[frame.i] /\ q = Owner("ToolCall", frame.i)
        /\ ~Coming(events', "ItemStart")
    BY <2>a DEF i, o, opens
  <2>3. /\ parser'.next = parser.next /\ parser'.tools = parser.tools /\ parser'.textOpen = parser.textOpen
        /\ parser'.finished = parser.finished /\ ~parser.finished
    BY <1>5 DEF CallGoesOn, SameParts, Content
  <2>4. \A j, q : Event("Delta", j, "ToolCall", q)' =>
          j = parser.tools[frame.i] /\ j # None /\ q = Owner("ToolCall", frame.i)
    BY <2>1, <2>2
  <2>5. Goes(frame)
    BY <2>1, <2>2, <2>3, <2>4 DEF Goes
  <2> QED
    BY <1>0, <2>3, <2>5
<1>6. CASE CallOpens(frame)
  <2> DEFINE i == parser.next
             o == Owner("ToolCall", frame.i)
             k == "ToolCall"
             opens == TRUE
  <2>1. Lists(Delta(i, k, o), opens) /\ i \in Nat /\ k \in Kinds /\ o \in OwnersOf /\ opens \in BOOLEAN
    BY <1>6, <1>n DEF CallOpens
  <2> HIDE DEF i, o, k, opens
  <2>a. /\ \A j, q : InEvents(j, q)' <=> opens /\ j = i /\ q = o
        /\ \A j, l, q : Event("Delta", j, l, q)' <=> j = i /\ l = k /\ q = o
        /\ (Coming(events', "ItemStart") <=> opens)
    BY <2>1, ListHas
  <2>2. /\ \A j, q : InEvents(j, q)' <=> j = parser.next /\ q = Owner("ToolCall", frame.i)
        /\ \A j, l, q : Event("Delta", j, l, q)' => j = parser.next /\ q = Owner("ToolCall", frame.i)
    BY <2>a DEF i, o, opens
  <2>3. OpensCall(frame) /\ ~parser'.finished
    BY <1>6, <2>2 DEF OpensCall, CallOpens, Content
  <2> QED
    BY <1>0, <2>3
<1>7. CASE Finishes(frame)
  <2>1. \A n \in DOMAIN events' : events'[n].e \notin {"ItemStart", "Delta"}
    BY <1>7 DEF Finishes, OnlyOf
  <2> QED
    BY <1>0, <1>7, <1>a, <2>1 DEF Finishes
<1> QED
  BY <1>1, <1>2, <1>3, <1>4, <1>5, <1>6, <1>7 DEF Outcome, Numbered1

\* A step that says nothing to the parser leaves the slots; at the end nothing waits for one.
LEMMA SlotsRest ==
  ASSUME Slotting, ~parser.finished, up'.items = up.items, parser'.tools = parser.tools, parser'.next = parser.next,
         parser'.textOpen <=> parser.textOpen,
         \A i, o : Given(i, o) => Given(i, o)',
         arrived' = arrived \/ arrived' = <<>>, Live' => Live /\ arrived' = arrived
  PROVE  Slotting'
<1>0. Prefix /\ SlotsGiven /\ SlotsFed /\ InTurn
  BY DEF Slotting
<1>1. Prefix'
  <2>1. PICK k \in 0 .. Len(up.items) :
          (\A s \in Slots : parser.tools[s] # None <=> s < k) /\ parser.next = k + One(parser.textOpen)
    BY <1>0 DEF Prefix
  <2>2. One(parser'.textOpen) = One(parser.textOpen)
    BY DEF One
  <2> QED
    BY <2>1, <2>2 DEF Prefix
<1>2. SlotsGiven'
  BY <1>0 DEF SlotsGiven
<1>3. SlotsFed'
  BY <1>0 DEF SlotsFed, Fed, Call
<1>4. InTurn'
  <2>1. CASE arrived' = arrived
    BY <1>0, <2>1 DEF InTurn, Call
  <2>2. CASE arrived' = <<>>
    BY <2>2 DEF InTurn
  <2> QED
    BY <2>1, <2>2
<1> QED
  BY <1>1, <1>2, <1>3, <1>4 DEF Slotting

\* The upstream says a piece of a call that it knows, or of the next one.
LEMMA SlotsTold ==
  ASSUME Typed, OneStep, road[1] = "chat", Slotting, ~parser.finished, NEW frame \in UpFrames, Talks(frame),
         \A i, o : Given(i, o) => Given(i, o)'
  PROVE  Slotting'
<1>0. /\ Prefix /\ SlotsGiven /\ SlotsFed /\ InTurn
      /\ parser' = parser /\ Live
  BY DEF Slotting, Talks
<1>1. /\ Len(up.items) \in Nat /\ Len(up'.items) \in Nat /\ Len(up.items) <= Len(up'.items)
  BY ItemsGrow
<1>2. /\ Len(arrived) \in Nat /\ DOMAIN arrived = 1 .. Len(arrived) /\ DOMAIN arrived' = 1 .. Len(arrived) + 1
      /\ \A n \in DOMAIN arrived : n \in DOMAIN arrived' /\ arrived'[n] = arrived[n]
      /\ arrived'[Len(arrived) + 1] = frame
      /\ \A n \in DOMAIN arrived' : (n \in DOMAIN arrived /\ arrived'[n] = arrived[n]) \/ (n = Len(arrived) + 1 /\ arrived'[n] = frame)
  BY Grown DEF Talks
<1>3. ASSUME NEW s \in Slots, s < Len(up'.items), ~(s < Len(up.items))
      PROVE  frame.f = "piece" /\ frame.k = "ToolCall" /\ frame.i = s
  <2>1. up'.items # up.items
    BY <1>3
  <2>2. (Call1(frame) \/ Item1(frame))
    BY <2>1 DEF Talks, Text1, Begins1, Piece1, Shut1, Stop1, Other1, Rests
  <2>3. CASE Call1(frame)
    <3>1. /\ frame.f = "piece" /\ frame.k = "ToolCall" /\ frame.i \in Slots /\ frame.i <= Len(up.items)
          /\ up'.items = IF frame.i >= Len(up.items) THEN Append(up.items, "ToolCall") ELSE up.items
      BY <2>3 DEF Call1
    <3>2. up.items \in Seq(Kinds) /\ "ToolCall" \in Kinds
      BY ItemsGrow DEF Kinds
    <3> DEFINE l == Len(up.items)
    <3>3. Len(Append(up.items, "ToolCall")) = l + 1
      BY <3>2, AppendIs
    <3>4. up'.items = Append(up.items, "ToolCall") /\ frame.i >= l
      BY <2>1, <3>1
    <3>5. s < l + 1 /\ ~(s < l) /\ l \in Nat /\ s \in Nat /\ frame.i \in Nat /\ frame.i <= l
      BY <1>1, <1>3, <3>1, <3>3, <3>4, TranslationAssumption DEF Slots
    <3> HIDE DEF l
    <3>6. frame.i = s
      BY <3>4, <3>5
    <3> QED
      BY <3>1, <3>6
  <2>4. CASE Item1(frame)
    BY <2>4 DEF Item1
  <2> QED
    BY <2>2, <2>3, <2>4
<1>4. ASSUME NEW s \in Slots, Fed(s) PROVE Fed(s)'
  BY <1>0, <1>2, <1>4 DEF Fed, Call
<1>5. Prefix'
  <2>1. PICK k \in 0 .. Len(up.items) :
          (\A s \in Slots : parser.tools[s] # None <=> s < k) /\ parser.next = k + One(parser.textOpen)
    BY <1>0 DEF Prefix
  <2>2. k \in 0 .. Len(up'.items)
    BY <1>1
  <2> QED
    BY <1>0, <2>1, <2>2 DEF Prefix
<1>6. SlotsGiven'
  BY <1>0 DEF SlotsGiven
<1>7. SlotsFed'
  <2> SUFFICES ASSUME NEW s \in Slots, s < Len(up'.items) PROVE Fed(s)'
    BY DEF SlotsFed
  <2>1. CASE s < Len(up.items)
    BY <1>0, <1>4, <2>1 DEF SlotsFed
  <2>2. CASE ~(s < Len(up.items))
    <3>0. PICK n : n = Len(arrived) + 1
      OBVIOUS
    <3>1. Call(n, s)' /\ n \in DOMAIN arrived'
      BY <1>2, <1>3, <2>2, <3>0 DEF Call
    <3> QED
      BY <3>1 DEF Fed
  <2> QED
    BY <2>1, <2>2
<1>8. InTurn'
  <2> SUFFICES ASSUME NEW n \in DOMAIN arrived', NEW s \in Slots, Call(n, s)'
               PROVE  /\ s < Len(up'.items)
                      /\ \A t \in Slots : t < s => parser'.tools[t] # None \/ \E m \in DOMAIN arrived' : m < n /\ Call(m, t)'
    BY DEF InTurn
  <2>0. \A m \in DOMAIN arrived : \A t : Call(m, t) => m \in DOMAIN arrived' /\ Call(m, t)'
    BY <1>2 DEF Call
  <2>1. CASE n \in DOMAIN arrived /\ arrived'[n] = arrived[n]
    <3>1. Call(n, s)
      BY <2>1 DEF Call
    <3>2. s < Len(up.items) /\ \A t \in Slots : t < s => parser.tools[t] # None \/ \E m \in DOMAIN arrived : m < n /\ Call(m, t)
      BY <1>0, <2>1, <3>1 DEF InTurn
    <3>3. s \in Int
      BY TranslationAssumption DEF Slots
    <3> QED
      BY <1>0, <1>1, <2>0, <3>2, <3>3
  <2>2. CASE n = Len(arrived) + 1 /\ arrived'[n] = frame
    <3>1. frame.f = "piece" /\ frame.k = "ToolCall" /\ frame.i = s
      BY <2>2 DEF Call
    <3>2. Call1(frame)
      BY <3>1 DEF Talks, Text1, Begins1, Item1, Piece1, Shut1, Stop1, Other1
    <3> DEFINE l == Len(up.items)
               more == Len(up'.items)
    <3>3. s <= l /\ (s >= l => more = l + 1)
      <4>1. up.items \in Seq(Kinds) /\ "ToolCall" \in Kinds
        BY ItemsGrow DEF Kinds
      <4>2. s <= l /\ (s >= l => up'.items = Append(up.items, "ToolCall"))
        BY <3>1, <3>2 DEF Call1
      <4> QED
        BY <4>1, <4>2, AppendIs
    <3>4. l \in Nat /\ more \in Nat /\ l <= more /\ s \in Nat
      BY <1>1, TranslationAssumption DEF Slots
    <3>5. ASSUME NEW t \in Slots, t < s PROVE Fed(t)
      <4>1. t \in Nat
        BY TranslationAssumption DEF Slots
      <4>2. t < l
        <5> HIDE DEF l
        <5> QED
          BY <3>3, <3>4, <3>5, <4>1
      <4> QED
        BY <1>0, <4>2 DEF SlotsFed
    <3>6. s < more
      <4> HIDE DEF l, more
      <4> QED
        BY <3>3, <3>4
    <3>7. \A m \in DOMAIN arrived : m < n
      BY <1>2, <2>2
    <3> QED
      BY <1>0, <2>0, <3>5, <3>6, <3>7 DEF Fed
  <2> QED
    BY <1>2, <2>1, <2>2
<1> QED
  BY <1>5, <1>6, <1>7, <1>8 DEF Slotting

\* The parser reads a frame: what had its slot keeps it, and the piece of a call now has one.
LEMMA SlotsRead ==
  ASSUME Typed, OneStep, Slotting, ~parser.finished, NEW frame \in UpFrames, Parses(frame),
         Goes(frame) \/ (OpensText /\ frame.k # "ToolCall") \/ OpensCall(frame),
         \A i, o : Given(i, o) => Given(i, o)'
  PROVE  Slotting'
<1>0. /\ Prefix /\ SlotsGiven /\ SlotsFed /\ InTurn /\ up' = up
      /\ arrived # <<>> /\ arrived' = Tail(arrived) /\ frame = arrived[1]
  BY DEF Slotting, Parses
<1>1. /\ 1 \in DOMAIN arrived /\ DOMAIN arrived = 1 .. Len(arrived) /\ Len(arrived) \in Nat
      /\ \A n \in DOMAIN arrived' : n \in Nat /\ n >= 1 /\ n + 1 \in DOMAIN arrived /\ arrived'[n] = arrived[n + 1]
      /\ \A n \in DOMAIN arrived : n = 1 \/ (n - 1 \in DOMAIN arrived' /\ arrived[n] = arrived'[n - 1])
  BY <1>0, ChunkTail
<1>2. /\ parser.next \in Nat /\ parser.tools \in [Slots -> Nat \cup {None}] /\ parser.next # None
      /\ One(TRUE) = 1 /\ One(FALSE) = 0 /\ parser.textOpen \in BOOLEAN /\ parser'.textOpen \in BOOLEAN
      /\ Len(up.items) \in Nat /\ Slots \subseteq Nat /\ \A s \in Slots : \A t \in 0 .. s : t \in Slots
  <2>1. parser.next \in Nat /\ parser.tools \in [Slots -> Nat \cup {None}] /\ parser.textOpen \in BOOLEAN
    BY DEF Typed, IsParser
  <2>2. parser'.textOpen \in BOOLEAN
    BY DEF Parses, IsParser
  <2>3. Len(up.items) \in Nat
    BY ItemsGrow
  <2>4. Slots \subseteq Nat /\ \A s \in Slots : \A t \in 0 .. s : t \in Slots
    BY TranslationAssumption DEF Slots
  <2>5. parser.next # None
    BY <2>1 DEF None
  <2>6. One(TRUE) = 1 /\ One(FALSE) = 0
    BY DEF One
  <2> QED
    BY <2>1, <2>2, <2>3, <2>4, <2>5, <2>6
\* What the two lists of slots have to do with each other.
<1>3. /\ \A s \in Slots : parser.tools[s] # None => parser'.tools[s] # None
      /\ \A s \in Slots : Call(1, s) => parser'.tools[s] # None
  <2>1. CASE Goes(frame)
    BY <1>0, <2>1 DEF Goes, Call
  <2>2. CASE OpensText /\ frame.k # "ToolCall"
    BY <1>0, <2>2 DEF OpensText, Call
  <2>3. CASE OpensCall(frame)
    BY <1>0, <1>2, <2>3 DEF OpensCall, Call
  <2> QED
    BY <2>1, <2>2, <2>3
<1>4. ASSUME NEW n \in DOMAIN arrived, NEW s \in Slots, Call(n, s)
      PROVE  parser'.tools[s] # None \/ (n - 1 \in DOMAIN arrived' /\ Call(n - 1, s)')
  BY <1>1, <1>3, <1>4 DEF Call
<1>5. SlotsFed'
  <2> SUFFICES ASSUME Live', NEW s \in Slots, s < Len(up'.items) PROVE Fed(s)'
    BY DEF SlotsFed
  <2>1. Fed(s)
    BY <1>0 DEF SlotsFed, Parses
  <2> QED
    BY <1>3, <1>4, <2>1 DEF Fed
<1>6. InTurn'
  <2> SUFFICES ASSUME NEW n \in DOMAIN arrived', NEW s \in Slots, Call(n, s)'
               PROVE  /\ s < Len(up'.items)
                      /\ \A t \in Slots : t < s => parser'.tools[t] # None \/ \E m \in DOMAIN arrived' : m < n /\ Call(m, t)'
    BY DEF InTurn
  <2>1. n + 1 \in DOMAIN arrived /\ Call(n + 1, s) /\ n \in Nat
    BY <1>1 DEF Call
  <2>2. s < Len(up.items) /\ \A t \in Slots : t < s => parser.tools[t] # None \/ \E m \in DOMAIN arrived : m < n + 1 /\ Call(m, t)
    BY <1>0, <2>1 DEF InTurn
  <2>3. ASSUME NEW t \in Slots, t < s PROVE parser'.tools[t] # None \/ \E m \in DOMAIN arrived' : m < n /\ Call(m, t)'
    <3>1. CASE parser.tools[t] # None
      BY <1>3, <3>1
    <3>2. CASE \E m \in DOMAIN arrived : m < n + 1 /\ Call(m, t)
      <4>1. PICK m \in DOMAIN arrived : m < n + 1 /\ Call(m, t)
        BY <3>2
      <4>2. m - 1 < n
        BY <1>1, <2>1, <4>1
      <4> QED
        BY <1>4, <4>1, <4>2
    <3> QED
      BY <2>2, <2>3, <3>1, <3>2
  <2> QED
    BY <1>0, <2>2, <2>3
<1>7. Prefix' /\ SlotsGiven'
  <2>1. PICK k \in 0 .. Len(up.items) :
          (\A s \in Slots : parser.tools[s] # None <=> s < k) /\ parser.next = k + One(parser.textOpen)
    BY <1>0 DEF Prefix
  <2>2. CASE Goes(frame)
    <3>1. parser'.next = parser.next /\ parser'.tools = parser.tools /\ (parser'.textOpen <=> parser.textOpen)
      BY <2>2 DEF Goes
    <3>2. One(parser'.textOpen) = One(parser.textOpen)
      BY <3>1 DEF One
    <3> QED
      BY <1>0, <2>1, <3>1, <3>2 DEF Prefix, SlotsGiven
  <2>3. CASE OpensText
    <3>1. /\ parser'.next = parser.next + 1 /\ parser'.tools = parser.tools /\ parser'.textOpen = TRUE
          /\ parser.textOpen = FALSE
      BY <1>2, <2>3 DEF OpensText
    <3> DEFINE later == One(parser'.textOpen)
               now == One(parser.textOpen)
    <3>a. later = 1 /\ now = 0
      BY <1>2, <3>1
    <3>2. parser'.next = k + One(parser'.textOpen)
      <4>1. parser.next = k + now /\ parser'.next = parser.next + 1 /\ k \in Nat
        BY <1>2, <2>1, <3>1
      <4> HIDE DEF later, now
      <4>2. parser'.next = k + later
        BY <3>a, <4>1
      <4> QED
        BY <4>2 DEF later
    <3>3. Prefix'
      BY <1>0, <2>1, <3>1, <3>2 DEF Prefix
    <3>4. \A i : i \in Int /\ i < parser.next => i < parser'.next
      BY <1>2, <3>1
    <3>5. \A s \in Slots : parser.tools[s] \in Int
      <4>1. None \in Int
        BY DEF None
      <4> QED
        BY <1>2, <4>1
    <3> QED
      BY <1>0, <3>1, <3>3, <3>4, <3>5 DEF SlotsGiven
  <2>4. CASE OpensCall(frame)
    <3> DEFINE s == frame.i
    <3>0. PICK next : next = parser.next
      OBVIOUS
    <3>1. /\ frame.f = "piece" /\ frame.k = "ToolCall" /\ s \in Slots /\ parser.tools[s] = None
          /\ parser'.next = next + 1 /\ parser'.tools = [parser.tools EXCEPT ![s] = next]
          /\ (parser'.textOpen <=> parser.textOpen)
          /\ InEvents(next, Owner("ToolCall", s))'
      <4>1. ASSUME NEW q, q = Owner("ToolCall", s) PROVE InEvents(next, q)'
        BY <2>4, <3>0, <4>1 DEF OpensCall
      <4> QED
        BY <2>4, <3>0, <4>1 DEF OpensCall
    <3> HIDE DEF s
    <3>2. s < Len(up.items) /\ \A t \in Slots : t < s => parser.tools[t] # None
      <4>1. Call(1, s)
        BY <1>0, <3>1 DEF Call, s
      <4>2. \A m \in DOMAIN arrived : ~(m < 1)
        BY <1>1
      <4> QED
        BY <1>0, <1>1, <3>1, <4>1, <4>2 DEF InTurn
    <3>3. s = k
      <4>1. ~(s < k) /\ s \in Nat
        BY <1>2, <2>1, <3>1
      <4>2. ASSUME k < s PROVE FALSE
        <5>1. k \in Slots
          BY <1>2, <3>1, <4>1, <4>2
        <5>2. parser.tools[k] # None /\ ~(k < k)
          BY <3>2, <4>2, <5>1
        <5> QED
          BY <2>1, <5>1, <5>2
      <4> QED
        BY <1>2, <4>1, <4>2
    <3>4. \A t \in Slots : parser'.tools[t] = IF t = s THEN next ELSE parser.tools[t]
      BY <1>2, <3>1
    <3>5. Prefix'
      <4>1. k + 1 \in 0 .. Len(up.items)
        BY <1>2, <3>2, <3>3
      <4>2. \A t \in Slots : parser'.tools[t] # None <=> t < k + 1
        <5>1. ASSUME NEW t \in Slots PROVE parser'.tools[t] # None <=> t < k + 1
          <6>1. CASE t = s
            BY <1>2, <3>0, <3>3, <3>4, <6>1
          <6>2. CASE t # s
            <7>1. parser'.tools[t] = parser.tools[t] /\ (t < k + 1 <=> t < k)
              BY <1>2, <3>3, <3>4, <6>2
            <7> QED
              BY <2>1, <7>1
          <6> QED
            BY <6>1, <6>2
        <5> QED
          BY <5>1
      <4>3. One(parser'.textOpen) = One(parser.textOpen) /\ One(parser.textOpen) \in Nat
        BY <3>1 DEF One
      <4>4. parser'.next = k + 1 + One(parser'.textOpen)
        BY <2>1, <3>0, <3>1, <4>3
      <4> QED
        BY <1>0, <4>1, <4>2, <4>4 DEF Prefix
    <3>6. SlotsGiven'
      <4> SUFFICES ASSUME NEW t \in Slots, NEW i, parser'.tools[t] = i, i # None
                   PROVE  i < parser'.next /\ Given(i, Owner("ToolCall", t))'
        BY DEF SlotsGiven
      <4>1. CASE t = s
        <5>1. i = next /\ i < parser'.next
          BY <1>2, <3>0, <3>1, <3>4, <4>1
        <5>2. InEvents(i, Owner("ToolCall", t))'
          BY <3>1, <4>1, <5>1 DEF InEvents
        <5> QED
          BY <5>1, <5>2 DEF Given, InEvents
      <4>2. CASE t # s
        <5>1. parser.tools[t] = i /\ i \in Nat
          BY <1>2, <3>4, <4>2
        <5>2. i < parser.next /\ Given(i, Owner("ToolCall", t))
          BY <1>0, <5>1 DEF SlotsGiven
        <5>3. i < parser'.next
          BY <1>2, <3>0, <3>1, <5>1, <5>2
        <5> DEFINE o == Owner("ToolCall", t)
        <5>4. Given(i, o)
          BY <5>2
        <5> HIDE DEF o
        <5>5. Given(i, o)'
          BY <5>4
        <5> QED
          BY <5>3, <5>5 DEF o
      <4> QED
        BY <4>1, <4>2
    <3> QED
      BY <3>5, <3>6
  <2> QED
    BY <2>2, <2>3, <2>4
<1> QED
  BY <1>5, <1>6, <1>7 DEF Slotting

\* Every step that is none of the parser's keeps what it knows.
LEMMA ParserRests ==
  ASSUME Typed, Told, OneStep, phase' # "switched", ~\E frame \in UpFrames : Parses(frame)
  PROVE  /\ Closes \/ parser' = parser
         /\ \/ \E frame \in UpFrames : Talks(frame)
            \/ up'.items = up.items /\ (arrived' = arrived \/ arrived' = <<>>) /\ (Live' => Live /\ arrived' = arrived)
<1>1. CASE \E frame \in UpFrames : Talks(frame)
  BY <1>1 DEF Talks
<1>2. CASE Quits
  BY <1>2 DEF Quits, Rests, Live
<1>3. CASE Fails
  BY <1>3 DEF Fails, Live
<1>4. CASE Full
  BY <1>4 DEF Full, Live
<1>5. CASE Closes
  BY <1>5 DEF Closes, Live
<1>6. CASE Trails
  BY <1>6 DEF Trails, Live
<1>7. CASE \E event \in EventsOf : EmitsOne(event)
  BY <1>7 DEF EmitsOne, Live
<1>8. CASE \E frame \in WireFrames : ReadsOne(frame)
  BY <1>8 DEF ReadsOne, Live
<1> QED
  BY <1>1, <1>2, <1>3, <1>4, <1>5, <1>6, <1>7, <1>8 DEF OneStep, Switch

\* What the parser makes of a frame, and of the end.
LEMMA ChatNews ==
  ASSUME Typed, Told, Numbers, road[1] = "chat", NEW frame \in UpFrames,
         Parses(frame) \/ (Closes /\ frame = Sends("mark"))
  PROVE  /\ (parser.finished => parser'.finished)
         /\ \/ ~parser'.finished /\ (Goes(frame) \/ (OpensText /\ frame.k # "ToolCall") \/ OpensCall(frame))
            \/ /\ parser'.finished /\ parser'.next = parser.next /\ (\A j, q : ~InEvents(j, q)')
               /\ ~Coming(events', "ItemStart") /\ \A j, k, q : ~Event("Delta", j, k, q)'
<1>1. CASE Parses(frame)
  <2>1. Outcome(frame) /\ IsParser(parser') /\ arrived # <<>> /\ frame = arrived[1] /\ 1 \in DOMAIN arrived
    BY <1>1, Written DEF Parses, Typed
  <2>2. frame.f \in Content => ~parser.finished
    BY <2>1 DEF Told, Arrivals
  <2>3. frame.f = "piece" /\ frame.k = "ToolCall" => frame.i \in Slots
    BY <2>1 DEF Typed, Speaks
  <2> QED
    BY <2>1, <2>2, <2>3, ChatOutcome
<1>2. CASE Closes /\ frame = Sends("mark")
  <2>1. Outcome(frame) /\ IsParser(parser') /\ frame.f = "mark"
    BY <1>2, Ends1 DEF Closes
  <2>2. frame.f \notin Content /\ frame.f # "piece"
    BY <2>1 DEF Content
  <2> QED
    BY <2>1, <2>2, ChatOutcome
<1> QED
  BY <1>1, <1>2

LEMMA SlottingStep ==
  ASSUME Typed, Told, Numbers, road[1] = "chat", OneStep, phase' # "switched"
  PROVE  ~parser'.finished => ~parser.finished /\ Slotting'
<1> SUFFICES ASSUME ~parser'.finished PROVE ~parser.finished /\ Slotting'
  OBVIOUS
<1>0. Slotting /\ Traffic /\ road[2] # "chat"
  BY RoadIs DEF Numbers
<1>1. \A i, o : Given(i, o) => Given(i, o)'
  BY <1>0, GivenStays
<1>2. ASSUME NEW frame \in UpFrames, Parses(frame) PROVE ~parser.finished /\ Slotting'
  <2>1. ~parser.finished /\ (Goes(frame) \/ (OpensText /\ frame.k # "ToolCall") \/ OpensCall(frame))
    BY <1>2, ChatNews
  <2> QED
    BY <1>0, <1>1, <1>2, <2>1, SlotsRead
<1>3. ASSUME NEW frame \in UpFrames, Talks(frame) PROVE ~parser.finished /\ Slotting'
  <2>1. ~parser.finished
    BY <1>3 DEF Talks
  <2> QED
    BY <1>0, <1>1, <1>3, <2>1, SlotsTold
<1>4. CASE ~\E frame \in UpFrames : Talks(frame) \/ Parses(frame)
  <2>1. /\ Closes \/ parser' = parser
        /\ up'.items = up.items /\ (arrived' = arrived \/ arrived' = <<>>) /\ (Live' => Live /\ arrived' = arrived)
    BY <1>4, ParserRests
  <2>2. ~parser.finished /\ parser'.tools = parser.tools /\ parser'.next = parser.next
        /\ (parser'.textOpen <=> parser.textOpen)
    <3>1. CASE parser' = parser
      BY <3>1
    <3>2. CASE Closes
      <4>1. ~parser.finished /\ ~parser.done
        <5>1. parser.finished \in BOOLEAN /\ parser'.finished \in BOOLEAN /\ (parser.done => parser.finished)
          BY <3>2 DEF Typed, IsParser, Told, Knows, Closes
        <5> QED
          BY <3>2, <5>1, Ends1, ChatNews
      <4>2. Silent
        BY <3>2 DEF Closes, Finishes
      <4> QED
        BY <4>1, <4>2 DEF Silent
    <3> QED
      BY <2>1, <3>1, <3>2
  <2>3. Slotting'
    BY <1>0, <1>1, <2>1, <2>2, SlotsRest
  <2> QED
    BY <2>2, <2>3
<1> QED
  BY <1>2, <1>3, <1>4

\* The number that comes next only grows.
LEMMA NextGrows ==
  ASSUME Typed, Told, Numbers, road[1] = "chat", OneStep, phase' # "switched"
  PROVE  /\ parser.next \in Nat /\ parser'.next \in Nat /\ parser.next <= parser'.next
         /\ parser'.next <= Len(up'.items) + 1
<1>0. parser.next \in Nat /\ parser'.next \in Nat /\ parser.next <= Len(up.items) + 1
  <2>1. IsParser(parser')
    BY TypedStep DEF Typed
  <2> QED
    BY <2>1 DEF Typed, IsParser, Numbers, Traffic
<1>1. Len(up.items) \in Nat /\ Len(up'.items) \in Nat /\ Len(up.items) <= Len(up'.items)
  BY ItemsGrow
<1>2. parser'.next = parser.next \/ (parser'.next = parser.next + 1 /\ ~parser'.finished)
  <2>1. ASSUME NEW frame \in UpFrames, Parses(frame) PROVE parser'.next = parser.next \/ (parser'.next = parser.next + 1 /\ ~parser'.finished)
    BY <2>1, ChatNews DEF Goes, OpensText, OpensCall
  <2>2. CASE ~\E frame \in UpFrames : Parses(frame)
    <3>1. Closes \/ parser' = parser
      BY <2>2, ParserRests
    <3>2. CASE Closes
      BY <3>2 DEF Closes, Silent, Finishes
    <3> QED
      BY <3>1, <3>2
  <2> QED
    BY <2>1, <2>2
<1>3. ~parser'.finished => parser'.next <= Len(up'.items) + 1
  <2> SUFFICES ASSUME ~parser'.finished PROVE parser'.next <= Len(up'.items) + 1
    OBVIOUS
  <2>1. Prefix'
    BY SlottingStep DEF Slotting
  <2>2. PICK k \in 0 .. Len(up'.items) : parser'.next = k + One(parser'.textOpen)
    BY <2>1 DEF Prefix
  <2>3. One(parser'.textOpen) \in {0, 1}
    BY DEF One
  <2> DEFINE l == Len(up'.items)
             x == One(parser'.textOpen)
  <2>4. parser'.next = k + x /\ k \in 0 .. l /\ x \in {0, 1} /\ l \in Nat
    BY <1>1, <2>2, <2>3
  <2> HIDE DEF l, x
  <2>5. parser'.next <= l + 1
    BY <2>4
  <2> QED
    BY <2>5 DEF l
<1> DEFINE l == Len(up.items)
           more == Len(up'.items)
<1>4. l \in Nat /\ more \in Nat /\ l <= more /\ parser.next <= l + 1 /\ (~parser'.finished => parser'.next <= more + 1)
  BY <1>0, <1>1, <1>3
<1> HIDE DEF l, more
<1>5. parser'.next <= more + 1
  BY <1>0, <1>2, <1>4
<1> QED
  BY <1>0, <1>2, <1>5 DEF more

LEMMA TrafficStep ==
  ASSUME Typed, Told, Numbers, road[1] = "chat", OneStep, phase' # "switched"
  PROVE  Traffic'
<1>0. Traffic /\ road[2] # "chat" /\ (~parser.finished => SlotsGiven)
  BY RoadIs DEF Numbers, Slotting
<1>1. \A i, o : Given(i, o) => Given(i, o)'
  BY <1>0, GivenStays
<1>2. /\ parser.next \in Nat /\ parser'.next \in Nat /\ parser.next <= parser'.next
      /\ parser'.next <= Len(up'.items) + 1
  BY NextGrows
<1>3. ASSUME \A i, o : Has(i, o)' => i \in Int /\ i < parser.next /\ (InWire(i, o)' => Fresh(i)'),
             \A i, o : InEvents(i, o)' => i \in Int /\ i < parser'.next /\ Fresh(i)',
             Coming(events', "ItemStart") => ~Shows(wire', {"open"}),
             \A i, o : Event("Delta", i, "ToolCall", o)' => Given(i, o)'
      PROVE  Traffic'
  <2>1. \A i, o : Has(i, o)' => i \in Int /\ i < parser'.next
    BY <1>2, <1>3
  <2>2. \A i, o : InWire(i, o)' => Fresh(i)'
    BY <1>3 DEF Has
  <2> QED
    BY <1>2, <1>3, <2>1, <2>2 DEF Traffic
<1>4. ASSUME NEW event \in EventsOf, EmitsOne(event) PROVE Traffic'
  <2>1. /\ \A i, o : ~InWire(i, o) /\ (InClient(i, o)' <=> InClient(i, o))
        /\ \A i, o : InWire(i, o)' => event.e = "ItemStart" /\ o = event.o /\ i = event.i
        /\ (event.e \in {"ItemStart", "Delta"} => Event(event.e, event.i, event.k, event.o))
        /\ Emission(event)
    BY <1>0, <1>4, EmitsHas
  <2>2. /\ events # <<>> /\ events \in Seq(EventsOf) /\ InOrder(events) /\ event = Head(events)
        /\ events' = Tail(events) /\ parser' = parser /\ client' = client
    BY <1>4 DEF EmitsOne, Typed, Told
  <2>3. \A n \in DOMAIN events' : n + 1 \in DOMAIN events /\ events'[n] = events[n + 1]
    BY <2>2, TailIs
  <2>4. /\ \A i, o : InEvents(i, o)' => InEvents(i, o)
        /\ \A i, k, o : Event("Delta", i, k, o)' => Event("Delta", i, k, o)
    BY <2>3 DEF InEvents, Event
  <2>5. ASSUME NEW i, NEW o, Has(i, o)' PROVE i \in Int /\ i < parser.next /\ (InWire(i, o)' => Fresh(i)')
    <3>1. ASSUME InWire(i, o)' PROVE i \in Int /\ i < parser.next /\ Fresh(i)'
      <4>1. event.e = "ItemStart" /\ o = event.o /\ i = event.i /\ Event(event.e, event.i, event.k, event.o)
        BY <2>1, <3>1
      <4>2. InEvents(i, o)
        BY <4>1 DEF Event, InEvents
      <4> QED
        BY <1>0, <2>2, <4>2 DEF Traffic, Fresh
    <3>2. ASSUME InClient(i, o)' PROVE i \in Int /\ i < parser.next
      <4>1. Has(i, o)
        BY <2>1, <3>2 DEF Has
      <4> QED
        BY <1>0, <4>1 DEF Traffic
    <3> QED
      BY <2>5, <3>1, <3>2 DEF Has
  <2>6. ASSUME NEW i, NEW o, InEvents(i, o)' PROVE i \in Int /\ i < parser'.next /\ Fresh(i)'
    BY <1>0, <2>2, <2>4, <2>6 DEF Traffic, Fresh
  <2>7. Coming(events', "ItemStart") => ~Shows(wire', {"open"})
    <3>1. Shows(wire', {"open"}) => event.e = "ItemStart"
      BY <2>1, EmitShows
    <3>2. Coming(events', "ItemStart") => <<event.e, "ItemStart">> \in Order
      BY <2>2, EventTail
    <3>3. <<"ItemStart", "ItemStart">> \notin Order
      BY DEF Order
    <3> QED
      BY <3>1, <3>2, <3>3
  <2>8. \A i, o : Event("Delta", i, "ToolCall", o)' => Given(i, o)'
    BY <1>0, <1>1, <2>4 DEF Traffic
  <2> QED
    BY <1>3, <2>5, <2>6, <2>7, <2>8
<1>5. ASSUME NEW frame \in WireFrames, ReadsOne(frame) PROVE Traffic'
  <2>1. /\ wire # <<>> /\ wire \in Seq(WireFrames) /\ Chain(wire) /\ frame = Head(wire)
        /\ wire' = Tail(wire) /\ parser' = parser /\ events' = events
        /\ (frame.f # "open" => client'.items = client.items)
    BY <1>5 DEF ReadsOne, Typed, Told, Reading
  <2>2. \A i, o : (InWire(i, o)' => InWire(i, o)) /\ (InClient(i, o)' => Has(i, o))
    BY <1>5, ReadsHas
  <2>3. frame.f = "open" => ~Shows(wire', {"open"})
    BY <2>1, WireTail
  <2>4. /\ (Shows(wire', {"open"}) => Shows(wire, {"open"})) /\ (frame.f = "open" => Shows(wire, {"open"}))
    BY <2>1, WireTail
  <2>5. ASSUME NEW i, NEW o, Has(i, o)' PROVE i \in Int /\ i < parser.next /\ (InWire(i, o)' => Fresh(i)')
    <3>1. Has(i, o)
      BY <2>2, <2>5 DEF Has
    <3>2. ASSUME InWire(i, o)' PROVE Fresh(i)'
      <4>1. Shows(wire', {"open"})
        BY <3>2 DEF InWire, Shows
      <4>2. InWire(i, o) /\ client'.items = client.items
        BY <2>1, <2>2, <2>3, <3>2, <4>1
      <4> QED
        BY <1>0, <4>2 DEF Traffic, Fresh
    <3> QED
      BY <1>0, <3>1, <3>2 DEF Traffic
  <2>6. ASSUME NEW i, NEW o, InEvents(i, o)' PROVE i \in Int /\ i < parser'.next /\ Fresh(i)'
    <3>1. InEvents(i, o)
      BY <2>1, <2>6 DEF InEvents
    <3>2. Coming(events, "ItemStart")
      BY <3>1 DEF InEvents, Coming
    <3>3. client'.items = client.items
      BY <1>0, <2>1, <2>4, <3>2 DEF Traffic
    <3> QED
      BY <1>0, <2>1, <3>1, <3>3 DEF Traffic, Fresh
  <2>7. Coming(events', "ItemStart") => ~Shows(wire', {"open"})
    BY <1>0, <2>1, <2>4 DEF Traffic
  <2>8. ASSUME NEW i, NEW o, Event("Delta", i, "ToolCall", o)' PROVE Given(i, o)'
    <3>1. Event("Delta", i, "ToolCall", o)
      BY <2>1, <2>8 DEF Event
    <3> QED
      BY <1>0, <1>1, <3>1 DEF Traffic
  <2> QED
    BY <1>3, <2>5, <2>6, <2>7, <2>8
<1>6. CASE Resting
  <2>1. \A i, o : ~InWire(i, o)' /\ (InClient(i, o)' <=> InClient(i, o))
    BY <1>6, RestsHas
  <2>2. client' = client /\ ~Shows(wire', {"open"}) /\ events = <<>>
    BY <1>6 DEF Resting, Idle
  <2>3. \A i, o : Has(i, o)' => i \in Int /\ i < parser.next /\ (InWire(i, o)' => Fresh(i)')
    BY <1>0, <2>1 DEF Has, Traffic
  <2>4. ASSUME NEW i, NEW o, InEvents(i, o)', i = parser.next, parser'.next = parser.next + 1
        PROVE  i \in Int /\ i < parser'.next /\ Fresh(i)'
    <3>1. ~(i < parser.next) /\ i \in Int /\ i < parser'.next
      BY <1>2, <2>4
    <3>2. \A q : ~InClient(i, q)
      BY <1>0, <3>1 DEF Traffic, Has
    <3>3. Fresh(i)
      BY <3>2 DEF InClient, Fresh
    <3> QED
      BY <2>2, <3>1, <3>3 DEF Fresh
  <2>5. CASE events' = <<>>
    <3>1. \A i, o : ~InEvents(i, o)' /\ ~Event("Delta", i, "ToolCall", o)'
      BY <2>5, Written DEF InEvents, Event
    <3> QED
      BY <1>3, <2>2, <2>3, <3>1
  <2>6. ASSUME NEW frame \in UpFrames, Parses(frame) \/ (Closes /\ frame = Sends("mark"))
        PROVE  Traffic'
    <3>1. CASE ~parser'.finished
      <4>0. ~parser.finished /\ SlotsGiven /\ Slots \subseteq Nat
        BY <1>0, <3>1, SlottingStep, TranslationAssumption DEF Slots
      <4>1. CASE Goes(frame)
        <5>1. /\ \A j, q : ~InEvents(j, q)'
              /\ \A j, q : Event("Delta", j, "ToolCall", q)' =>
                   /\ frame.f = "piece" /\ frame.k = "ToolCall" /\ frame.i \in Slots
                   /\ j = parser.tools[frame.i] /\ j # None /\ q = Owner("ToolCall", frame.i)
          BY <4>1 DEF Goes
        <5>2. ASSUME NEW j, NEW q, Event("Delta", j, "ToolCall", q)' PROVE Given(j, q)'
          <6>1. frame.i \in Slots /\ j = parser.tools[frame.i] /\ j # None /\ q = Owner("ToolCall", frame.i)
            BY <5>1, <5>2
          <6>2. Given(j, Owner("ToolCall", frame.i))
            BY <4>0, <6>1 DEF SlotsGiven
          <6>3. Given(j, q)
            BY <6>1, <6>2
          <6> QED
            BY <1>1, <6>3
        <5> QED
          BY <1>3, <2>2, <2>3, <5>1, <5>2
      <4>2. CASE OpensText
        <5>1. /\ \A j, q : InEvents(j, q)' => j = parser.next
              /\ \A j, q : ~Event("Delta", j, "ToolCall", q)'
              /\ parser'.next = parser.next + 1
          BY <4>2 DEF OpensText
        <5>2. \A j, q : InEvents(j, q)' => j \in Int /\ j < parser'.next /\ Fresh(j)'
          BY <2>4, <5>1
        <5> QED
          BY <1>3, <2>2, <2>3, <5>1, <5>2
      <4>3. CASE OpensCall(frame)
        <5>1. /\ \A j, q : InEvents(j, q)' <=> j = parser.next /\ q = Owner("ToolCall", frame.i)
              /\ \A j, q : Event("Delta", j, "ToolCall", q)' => j = parser.next /\ q = Owner("ToolCall", frame.i)
              /\ parser'.next = parser.next + 1
          BY <4>3 DEF OpensCall
        <5>2. \A j, q : InEvents(j, q)' => j \in Int /\ j < parser'.next /\ Fresh(j)'
          BY <2>4, <5>1
        <5>3. \A j, q : Event("Delta", j, "ToolCall", q)' => InEvents(j, q)'
          BY <5>1
        <5>4. \A j, q : InEvents(j, q)' => Given(j, q)'
          BY DEF Given
        <5> QED
          BY <1>3, <2>2, <2>3, <5>2, <5>3, <5>4
      <4> QED
        BY <2>6, <3>1, <4>1, <4>2, <4>3, ChatNews
    <3>2. CASE parser'.finished
      <4>1. CASE (\A j, q : ~InEvents(j, q)') /\ \A j, k, q : ~Event("Delta", j, k, q)'
        BY <1>3, <2>2, <2>3, <4>1
      <4>2. (\A j, q : ~InEvents(j, q)') /\ \A j, k, q : ~Event("Delta", j, k, q)'
        BY <2>6, <3>2, ChatNews
      <4> QED
        BY <4>1, <4>2
    <3> QED
      BY <3>1, <3>2
  <2>7. CASE ~(Closes \/ \E frame \in UpFrames : Parses(frame))
    <3>1. events' = <<>>
      BY <2>2, <2>7, <1>6 DEF OneStep, Talks, Quits, Fails, Switch, Full, Trails, EmitsOne, ReadsOne, Resting, Idle
    <3> QED
      BY <2>5, <3>1
  <2> QED
    BY <2>6, <2>7, Ends1
<1> QED
  BY <1>4, <1>5, <1>6, Moves

LEMMA NumbersStep ==
  ASSUME Typed, Told, Numbers, OneStep, phase' # "switched"
  PROVE  Numbers'
<1>1. road' = road
  BY RoadStays
<1> QED
  BY <1>1, SlottingStep, TrafficStep DEF Numbers, Slotting

(* ------------------------ calls reach their items ---------------------- *)

LEMMA MadeOutcome ==
  ASSUME Typed, NEW frame \in UpFrames, Outcome(frame), NEW n \in DOMAIN events', events'[n].e = "Delta"
  PROVE  Made(events'[n])
<1>n. /\ (parser.textOpen => parser.next - 1 \in Nat) /\ parser.next \in Nat /\ "ToolCall" \in Kinds
      /\ frame.k \in Kinds /\ frame.i \in Nat /\ 0 \in Nat
      /\ Owner(frame.k, 0) \in OwnersOf /\ Owner("ToolCall", frame.i) \in OwnersOf
      /\ (frame.i \in Slots /\ parser.tools[frame.i] # None => parser.tools[frame.i] \in Nat)
  BY ParserNumbers
<1>1. ASSUME NEW i \in Nat, NEW k \in Kinds, NEW j \in Nat, NEW o \in OwnersOf, o = Owner(k, j), NEW opens \in BOOLEAN,
             Lists(Delta(i, k, o), opens)
      PROVE  Made(events'[n])
  <2>1. events'[n] = Delta(i, k, o) \/ events'[n].e = "Start" \/ events'[n] = StartOf(Delta(i, k, o))
    BY <1>1, ListIs
  <2>2. /\ StartOf(Delta(i, k, o)).e = "ItemStart"
        /\ Delta(i, k, o).k = k /\ Delta(i, k, o).o = o
    BY <1>1, DeltaIs
  <2>3. events'[n] = Delta(i, k, o)
    BY <2>1, <2>2
  <2> QED
    BY <1>1, <2>2, <2>3 DEF Made
<1>2. CASE Silent /\ frame.f \notin {"piece", "open", "shut", "stop"}
  BY <1>2 DEF Silent
<1>3. CASE Quietly(frame)
  BY <1>3 DEF Quietly, OnlyOf
<1>4. CASE TextGoesOn(frame)
  <2> DEFINE i == parser.next - 1
             o == Owner(frame.k, 0)
             k == frame.k
  <2>1. Lists(Delta(i, k, o), FALSE) /\ i \in Nat /\ k \in Kinds /\ o \in OwnersOf /\ FALSE \in BOOLEAN /\ o = Owner(k, 0) /\ 0 \in Nat
    BY <1>4, <1>n DEF TextGoesOn
  <2> HIDE DEF i, o, k
  <2> QED
    BY <1>1, <2>1
<1>5. CASE TextOpens(frame)
  <2> DEFINE i == parser.next
             o == Owner(frame.k, 0)
             k == frame.k
  <2>1. Lists(Delta(i, k, o), TRUE) /\ i \in Nat /\ k \in Kinds /\ o \in OwnersOf /\ TRUE \in BOOLEAN /\ o = Owner(k, 0) /\ 0 \in Nat
    BY <1>5, <1>n DEF TextOpens
  <2> HIDE DEF i, o, k
  <2> QED
    BY <1>1, <2>1
<1>6. CASE CallGoesOn(frame)
  <2> DEFINE i == parser.tools[frame.i]
             j == frame.i
             o == Owner("ToolCall", frame.i)
             k == "ToolCall"
  <2>1. Lists(Delta(i, k, o), FALSE) /\ i \in Nat /\ k \in Kinds /\ o \in OwnersOf /\ FALSE \in BOOLEAN /\ o = Owner(k, j) /\ j \in Nat
    BY <1>6, <1>n DEF CallGoesOn
  <2> HIDE DEF i, o, k, j
  <2> QED
    BY <1>1, <2>1
<1>7. CASE CallOpens(frame)
  <2> DEFINE i == parser.next
             j == frame.i
             o == Owner("ToolCall", frame.i)
             k == "ToolCall"
  <2>1. Lists(Delta(i, k, o), TRUE) /\ i \in Nat /\ k \in Kinds /\ o \in OwnersOf /\ TRUE \in BOOLEAN /\ o = Owner(k, j) /\ j \in Nat
    BY <1>7, <1>n DEF CallOpens
  <2> HIDE DEF i, o, k, j
  <2> QED
    BY <1>1, <2>1
<1>8. CASE Numbered1(frame)
  <2> DEFINE d == Delta(frame.i, frame.k, Owner(frame.k, frame.i))
             x == ItemStart(frame.i, frame.k, Owner(frame.k, frame.i))
             y == ItemEnd(frame.i)
  <2>1. events' \in {<<d>>, <<x>>, <<y>>}
    BY <1>8 DEF Numbered1
  <2>2. x.e = "ItemStart" /\ y.e = "ItemEnd" /\ d.k = frame.k /\ d.o = Owner(frame.k, frame.i)
    BY DEF ItemStart, ItemEnd, Delta, Happens
  <2> HIDE DEF d, x, y
  <2>3. events'[n] \in {d, x, y}
    BY <2>1
  <2>4. events'[n] = d
    BY <2>2, <2>3
  <2> QED
    BY <1>n, <2>2, <2>4 DEF Made
<1>9. CASE Finishes(frame)
  BY <1>9 DEF Finishes, OnlyOf
<1> QED
  BY <1>2, <1>3, <1>4, <1>5, <1>6, <1>7, <1>8, <1>9 DEF Outcome

\* A piece of a call that goes to the emitter is for an item that the client has as this call.
LEMMA CallHasItem ==
  ASSUME Typed, Told, DeltasOwned, Numbered, Numbers, NEW event \in EventsOf, EmitsOne(event),
         event.e = "Delta", event.k = "ToolCall"
  PROVE  \E i : /\ InClient(i, event.o)
                /\ i = (IF road[2] # "chat" THEN event.i ELSE SlotOf(emitter, event.i))
<1>0. /\ Event("Delta", event.i, event.k, event.o)
      /\ events # <<>> /\ wire = <<>> /\ Head(events).e = "Delta"
      /\ emitter.slots \in Seq(Nat) /\ DOMAIN emitter.slots = 1 .. Len(emitter.slots) /\ Len(emitter.slots) \in Nat
  <2>1. Event("Delta", event.i, event.k, event.o)
    <3>1. event.e \in {"ItemStart", "Delta"} => Event(event.e, event.i, event.k, event.o)
      BY EmitsHas
    <3> QED
      BY <3>1
  <2>2. events # <<>> /\ wire = <<>> /\ Head(events).e = "Delta"
    BY DEF EmitsOne
  <2>3. emitter.slots \in Seq(Nat) /\ DOMAIN emitter.slots = 1 .. Len(emitter.slots) /\ Len(emitter.slots) \in Nat
    BY DEF Typed, IsEmitter
  <2> QED
    BY <2>1, <2>2, <2>3
<1>1. \A i, o : ~InEvents(i, o) /\ ~InWire(i, o)
  BY <1>0, DeltaLast
<1>2. CASE road[1] = "chat"
  <2>1. road[2] # "chat" /\ Given(event.i, event.o)
    BY <1>0, <1>2, RoadIs DEF Numbers, Traffic
  <2> QED
    BY <1>1, <2>1 DEF Given
<1>3. CASE road[1] # "chat"
  <2>1. Names(event.i, event.k) /\ event.o = OwnerOf(event.i) /\ There(event.i)
    BY <1>0, <1>3 DEF Numbered, NumberedEvents
  <2>2. CASE road[2] # "chat"
    <3>1. Given(event.i, OwnerOf(event.i))
      BY <2>1, <2>2 DEF There
    <3> QED
      BY <1>1, <2>1, <2>2, <3>1 DEF Given
  <2>3. CASE road[2] = "chat"
    <3>1. event.i \in Elements(emitter.slots)
      BY <1>1, <2>1, <2>3 DEF There, Names
    <3>2. \E s \in 1 .. Len(emitter.slots) : emitter.slots[s] = event.i
      BY <1>0, <3>1 DEF Elements
    <3> DEFINE s == CHOOSE s \in 1 .. Len(emitter.slots) : emitter.slots[s] = event.i
    <3>3. s \in DOMAIN emitter.slots /\ emitter.slots[s] = event.i /\ SlotOf(emitter, event.i) = s - 1
      BY <1>0, <3>1, <3>2 DEF SlotOf
    <3> HIDE DEF s
    <3>4. \E o : o = OwnerOf(event.i) /\ Has(s - 1, o)
      BY <1>3, <2>3, <3>3 DEF Numbered, InSlots
    <3>5. InClient(s - 1, event.o)
      BY <1>1, <2>1, <3>4 DEF Has
    <3> QED
      BY <2>3, <3>3, <3>5
  <2> QED
    BY <2>2, <2>3
<1> QED
  BY <1>2, <1>3

LEMMA OwnedStep ==
  ASSUME Typed, Told, DeltasOwned, Numbered, Numbers, OneStep, phase' # "switched"
  PROVE  DeltasOwned'
<1>1. ASSUME NEW n \in DOMAIN events', events'[n].e = "Delta" PROVE Made(events'[n])
  <2>1. ASSUME NEW frame \in UpFrames, Parses(frame) PROVE Made(events'[n])
    BY <1>1, <2>1, MadeOutcome DEF Parses
  <2>2. CASE Closes
    BY <1>1, <2>2, MadeOutcome, Ends1
  <2>3. ASSUME NEW event \in EventsOf, EmitsOne(event) PROVE Made(events'[n])
    <3>1. n + 1 \in DOMAIN events /\ events'[n] = events[n + 1]
      BY <1>1, <2>3, TailIs DEF EmitsOne, Typed
    <3> QED
      BY <1>1, <3>1 DEF DeltasOwned
  <2>4. CASE events' = events
    BY <1>1, <2>4 DEF DeltasOwned
  <2> QED
    BY <2>1, <2>2, <2>3, <2>4 DEF OneStep, Talks, Quits, Fails, Switch, Full, Trails, ReadsOne
<1>2. ASSUME NEW i, NEW o, Brings(i, o)', o[1] = "ToolCall" PROVE InClient(i, o)'
  <2>1. CASE Resting
    BY <1>2, <2>1, RestsHas
  <2>2. ASSUME NEW event \in EventsOf, EmitsOne(event) PROVE InClient(i, o)'
    <3>1. /\ event.e = "Delta" /\ o = event.o
          /\ i = (IF road[2] # "chat" THEN event.i ELSE IF event.k = "ToolCall" THEN SlotOf(emitter, event.i) ELSE None)
      BY <1>2, <2>2, EmitsHas, EmitFrames DEF Brings
    <3>2. event.k = "ToolCall"
      <4>1. event = events[1] /\ 1 \in DOMAIN events
        BY <2>2, TailIs DEF EmitsOne, Typed
      <4>2. Made(event)
        BY <3>1, <4>1 DEF DeltasOwned
      <4> QED
        BY <1>2, <3>1, <4>2, OwnerIs DEF Made
    <3>3. InClient(i, o)
      BY <2>2, <3>1, <3>2, CallHasItem
    <3> QED
      BY <2>2, <3>3, EmitsHas
  <2>3. ASSUME NEW frame \in WireFrames, ReadsOne(frame) PROVE InClient(i, o)'
    <3>1. InClient(i, o) /\ frame.f # "open"
      <4>1. Brings(i, o)
        BY <1>2, <2>3, ReadsHas
      <4>2. /\ wire # <<>> /\ wire \in Seq(WireFrames) /\ Chain(wire) /\ frame = Head(wire) /\ wire' = Tail(wire)
        BY <2>3 DEF ReadsOne, Typed, Told
      <4>3. Shows(wire', {"delta"})
        BY <1>2 DEF Brings, Shows
      <4>4. {"delta"} \cap {"progress", "open", "why", "noted", "end"} = {}
        OBVIOUS
      <4>5. FALSE
        BY <4>2, <4>3, <4>4, WireTail
      <4> QED
        BY <4>5
    <3> QED
      BY <2>3, <3>1, ReadsHas
  <2> QED
    BY <2>1, <2>2, <2>3, Moves
<1> QED
  BY <1>1, <1>2 DEF DeltasOwned

LEMMA IntactStep ==
  ASSUME Typed, Told, DeltasOwned, CallsIntact, OneStep, phase' # "switched"
  PROVE  CallsIntact'
<1>1. CASE Resting
  BY <1>1 DEF Resting, CallsIntact
<1>2. CASE \E event \in EventsOf : EmitsOne(event)
  BY <1>2 DEF EmitsOne, CallsIntact
<1>3. ASSUME NEW frame \in WireFrames, ReadsOne(frame) PROVE CallsIntact'
  <2>1. client'.misplaced = client.misplaced \cup (IF frame.f = "delta" THEN Misread(Place(frame), {frame.o}) ELSE {})
    BY <1>3 DEF ReadsOne, Reading
  <2>2. ASSUME frame.f = "delta", NEW m \in Misread(Place(frame), {frame.o}) PROVE m[2][1] # "ToolCall"
    <3>1. m[2] = frame.o /\ Place(frame) # frame.o
      BY <2>2 DEF Misread
    <3>2. Brings(frame.i, frame.o)
      BY <1>3, <2>2, ReadsHas
    <3>3. ~InClient(frame.i, frame.o)
      BY <3>1 DEF InClient, Place
    <3> QED
      BY <3>1, <3>2, <3>3 DEF DeltasOwned
  <2> QED
    BY <2>1, <2>2 DEF CallsIntact
<1> QED
  BY <1>1, <1>2, <1>3, Moves

(* ----------------------------- the invariant --------------------------- *)

LEMMA BoundedStep ==
  ASSUME Typed, Told, Numbered, Numbers, Bounded, OneStep, phase' # "switched"
  PROVE  Bounded'
<1>1. CASE emitter' = emitter
  BY <1>1 DEF Bounded
<1>2. ASSUME NEW event \in EventsOf, EmitsOne(event) PROVE Bounded'
  <2>1. \/ emitter'.open = emitter.open \/ emitter'.open = None
        \/ event.e = "ItemStart" /\ emitter'.open = event.i
    BY <1>2 DEF EmitsOne, Emission, EmitsStart, EmitsItem, EmitsCall, EmitsDelta, EmitsEnd, EmitsNothing,
                EmitsReason, EmitsDone, SameBlock, AllShut
  <2>2. None <= MaxItems
    BY TranslationAssumption DEF None
  <2>3. CASE event.e = "ItemStart" /\ emitter'.open = event.i
    <3>0. /\ Event("ItemStart", event.i, event.k, event.o) /\ event.i \in Nat
          /\ Len(up.items) \in Nat /\ Len(up.items) <= MaxItems
      <4>1. event.e \in {"ItemStart", "Delta"} => Event(event.e, event.i, event.k, event.o)
        BY <1>2, EmitsHas
      <4>2. Event("ItemStart", event.i, event.k, event.o)
        BY <2>3, <4>1
      <4>3. event.i \in Nat
        BY DEF EventsOf
      <4> QED
        BY <4>2, <4>3, ItemsGrow DEF Typed, IsUp
    <3> DEFINE l == Len(up.items)
    <3>1. CASE road[1] = "chat"
      <4>1. InEvents(event.i, event.o)
        BY <3>0 DEF Event, InEvents
      <4>2. event.i < parser.next /\ parser.next <= l + 1 /\ parser.next \in Nat
        BY <3>1, <4>1 DEF Numbers, Traffic, Typed, IsParser
      <4>3. l \in Nat /\ l <= MaxItems
        BY <3>0
      <4> HIDE DEF l
      <4>4. event.i <= MaxItems
        BY <3>0, <4>2, <4>3, TranslationAssumption
      <4> QED
        BY <2>3, <4>4 DEF Bounded
    <3>2. CASE road[1] # "chat"
      <4>1. Known(event.i)
        BY <3>0, <3>2 DEF Numbered, NumberedEvents, Names
      <4>2. event.i \in 0 .. l - 1 /\ l \in Nat /\ l <= MaxItems
        BY <3>0, <4>1 DEF Known
      <4> HIDE DEF l
      <4>3. event.i <= MaxItems
        BY <4>2, TranslationAssumption
      <4> QED
        BY <2>3, <4>3 DEF Bounded
    <3> QED
      BY <3>1, <3>2
  <2> QED
    BY <2>1, <2>2, <2>3 DEF Bounded
<1> QED
  BY <1>1, <1>2, Moves DEF Resting, ReadsOne

LEMMA NextIsBound ==
  ASSUME Typed', Numbered', Numbers'
  PROVE  NextBound'
<1>1. CASE road'[1] = "chat"
  BY <1>1 DEF Numbers, Traffic, NextBound
<1>2. CASE road'[1] # "chat"
  <2>1. Len(up'.items) \in Nat /\ parser'.next = 0
    BY <1>2 DEF Numbered, Typed, IsUp
  <2> DEFINE l == Len(up'.items)
  <2>2. l \in Nat /\ parser'.next = 0
    BY <2>1
  <2> HIDE DEF l
  <2>3. parser'.next <= l + 1
    BY <2>2
  <2> QED
    BY <2>3 DEF NextBound, l
<1> QED
  BY <1>1, <1>2

LEMMA StreamBegins ==
  ASSUME road \in Roads, up = NewUpstream, arrived = <<>>, parser = NewParser, events = <<>>,
         emitter = NewEmitter, wire = <<>>, client = NewClient, phase \in {"sniff", "switched"}
  PROVE  StreamInv
<1>1. /\ <<>> \in Seq(UpFrames) /\ <<>> \in Seq(EventsOf) /\ <<>> \in Seq(WireFrames) /\ <<>> \in Seq(Kinds)
      /\ <<>> \in Seq(Nat) /\ Len(<<>>) = 0 /\ DOMAIN <<>> = {}
  OBVIOUS
<1>2. IsUp(up)
  BY <1>1, TranslationAssumption DEF IsUp, NewUpstream
<1>3. IsParser(parser) /\ parser.next = 0 /\ ~parser.textOpen /\ ~parser.finished /\ ~parser.done /\ ~parser.told
      /\ \A s \in Slots : parser.tools[s] = None
  BY NewTools DEF IsParser, NewParser
<1>4. /\ emitter.open = None /\ emitter.kind \in Kinds /\ emitter.owner \in OwnersOf /\ emitter.kept \in KeptOf
      /\ emitter.slots = <<>> /\ emitter.usage \in BOOLEAN
      /\ DOMAIN emitter = {"open", "kind", "owner", "kept", "slots", "usage"}
  BY FrameIs DEF NewEmitter, Someone, Owner, Kinds, OwnersOf
<1>5. IsEmitter(emitter)
  BY <1>1, <1>4 DEF IsEmitter
<1>6. IsClient(client) /\ client.reasons = 0 /\ client.ends = 0 /\ client.got = 0 /\ DOMAIN client.items = {} /\ client.misplaced = {}
  BY DEF NewClient, IsClient, None
<1>7. Typed
  BY <1>1, <1>2, <1>3, <1>5, <1>6 DEF Typed, Speaks
<1>8. Bounded /\ NextBound
  <2>1. None <= MaxItems
    BY TranslationAssumption DEF None
  <2>2. Len(up.items) = 0
    BY <1>1 DEF NewUpstream
  <2> QED
    BY <1>3, <1>4, <2>1, <2>2 DEF Bounded, NextBound
<1>9. CASE phase = "switched"
  BY <1>7, <1>8, <1>9 DEF StreamInv, Frozen
<1>10. CASE phase = "sniff"
  <2>1. \A e : ~Coming(events, e)
    BY <1>1 DEF Coming
  <2>2. \A fs : ~Shows(wire, fs)
    BY <1>1 DEF Shows
  <2>3. Told
    <3>1. Sums
      BY <1>3, <1>6, <1>10, <2>1, <2>2 DEF Sums, One
    <3>2. Arrivals
      BY <1>1, <1>3, <1>10 DEF Arrivals
    <3> QED
      BY <1>1, <1>3, <3>1, <3>2 DEF Told, InOrder, Chain, Knows
  <2>4. Counted
    BY <1>1, <1>6, <2>1, <2>2 DEF Counted, Underway, Due, One, NewUpstream
  <2>5. DeltasOwned
    BY <1>1 DEF DeltasOwned, Brings
  <2>6. \A i, o : ~InEvents(i, o) /\ ~InWire(i, o) /\ ~InClient(i, o)
    BY <1>1, <1>6 DEF InEvents, InWire, InClient
  <2>7. \A e, i, k, o : ~Event(e, i, k, o)
    BY <1>1 DEF Event
  <2>8. Len(up.items) = 0 /\ \A i : ~Known(i)
    BY <1>1 DEF Known, NewUpstream
  <2>9. Numbered
    <3>1. NumberedChunk
      BY <1>1 DEF NumberedChunk, Asks
    <3>2. NumberedEvents
      BY <2>7 DEF NumberedEvents
    <3>3. NoneMissed
      BY <2>8 DEF NoneMissed
    <3>4. InPlace /\ InSlots
      BY <1>1, <1>4, <2>6 DEF InPlace, InSlots, Has
    <3> QED
      BY <1>3, <3>1, <3>2, <3>3, <3>4 DEF Numbered
  <2>10. Numbers
    <3>1. Prefix
      <4>1. 0 \in 0 .. Len(up.items) /\ One(parser.textOpen) = 0 /\ Slots \subseteq Nat
        BY <1>3, <2>8, TranslationAssumption DEF One, Slots
      <4>2. \A s \in Slots : parser.tools[s] # None <=> s < 0
        BY <1>3, <4>1
      <4> QED
        BY <1>3, <4>1, <4>2 DEF Prefix
    <3>2. SlotsGiven /\ InTurn
      BY <1>1, <1>3 DEF SlotsGiven, InTurn
    <3>3. SlotsFed
      <4>1. Slots \subseteq Nat
        BY TranslationAssumption DEF Slots
      <4> QED
        BY <2>8, <4>1 DEF SlotsFed
    <3>4. Traffic
      BY <1>3, <1>8, <2>1, <2>6, <2>7 DEF Traffic, Has, NextBound
    <3> QED
      BY <3>1, <3>2, <3>3, <3>4 DEF Numbers, Slotting
  <2>11. CallsIntact
    BY <1>6 DEF CallsIntact
  <2> QED
    BY <1>7, <1>8, <1>10, <2>3, <2>4, <2>5, <2>9, <2>10, <2>11 DEF StreamInv, Streaming
<1> QED
  BY <1>9, <1>10

\* In the phase "switched" the stream is over.
LEMMA SwitchedRests ==
  ASSUME phase = "switched", Frozen
  PROVE  ~Next
BY DEF Next, Frozen, ChatText, ChatCall, Begins, Item, ItemPiece, ItemShut, Stop, LateUsage, Mark, Errs, Leaves,
       Says, Take, Full, Emit, Read, Over

LEMMA StreamStep ==
  ASSUME StreamInv, Next
  PROVE  StreamInv'
<1>0. phase # "switched" /\ Typed /\ Streaming
  BY SwitchedRests DEF StreamInv
<1>1. OneStep
  BY <1>0, Stepping DEF Streaming, Told, Ready, Arrivals, Content
<1>2. Typed'
  BY <1>0, <1>1, TypedStep
<1>3. CASE phase' # "switched"
  <2>1. Told' /\ Counted'
    BY <1>0, <1>1, <1>3, ToldStep, CountedStep DEF Streaming
  <2>2. Numbered' /\ Numbers' /\ DeltasOwned' /\ Bounded' /\ CallsIntact'
    BY <1>0, <1>1, <1>3, NumberedStep, NumbersStep, OwnedStep, BoundedStep, IntactStep DEF Streaming
  <2>3. NextBound'
    BY <1>2, <2>2, NextIsBound
  <2> QED
    BY <1>2, <1>3, <2>1, <2>2, <2>3 DEF StreamInv, Streaming
<1>4. CASE phase' = "switched"
  <2>1. Switch
    BY <1>0, <1>1, <1>4 DEF OneStep, Talks, Parses, Quits, Fails, Full, Closes, Trails, EmitsOne, ReadsOne, Live
  <2>2. Bounded' /\ NextBound'
    BY <1>0, <2>1 DEF StreamInv, Switch, Bounded, NextBound
  <2> QED
    BY <1>2, <1>4, <2>1, <2>2 DEF StreamInv, Switch, Frozen
<1> QED
  BY <1>3, <1>4

(* ------------------------- the stream's theorems ----------------------- *)

LEMMA StreamRests ==
  ASSUME StreamInv, UNCHANGED vars
  PROVE  StreamInv'
<1> USE DEF vars
<1>1. Typed => Typed'
  BY DEF Typed, Speaks
<1>2. Told => Told'
  BY DEF Told, Knows, Sums, Arrivals, Live
<1>3. Counted => Counted'
  BY DEF Counted, Underway, Due
<1>4. DeltasOwned => DeltasOwned'
  BY DEF DeltasOwned, Brings, InClient
<1>5. \A i, o : (InEvents(i, o)' <=> InEvents(i, o)) /\ (InWire(i, o)' <=> InWire(i, o)) /\ (InClient(i, o)' <=> InClient(i, o))
  BY DEF InEvents, InWire, InClient
<1>6. \A i, o : (Given(i, o)' <=> Given(i, o)) /\ (Has(i, o)' <=> Has(i, o))
  BY <1>5 DEF Given, Has
<1>7. \A i : OwnerOf(i)' = OwnerOf(i) /\ (Known(i)' <=> Known(i)) /\ (Opening(i)' <=> Opening(i)) /\ (Fresh(i)' <=> Fresh(i))
  BY DEF OwnerOf, Known, Opening, Fresh
<1>8. \A e, i, k, o : (Event(e, i, k, o)' <=> Event(e, i, k, o)) /\ (Asks(i, k)' <=> Asks(i, k)) /\ (Names(i, k)' <=> Names(i, k))
  BY <1>7 DEF Event, Asks, Names
<1>9. \A i : There(i) => There(i)'
  BY <1>5, <1>6, <1>7 DEF There
<1>10. Numbered => Numbered'
  <2>1. NumberedChunk => NumberedChunk'
    BY <1>8 DEF NumberedChunk
  <2>2. NumberedEvents => NumberedEvents'
    BY <1>7, <1>8, <1>9 DEF NumberedEvents
  <2>3. NoneMissed => NoneMissed'
    BY <1>7, <1>9 DEF NoneMissed, Live
  <2>4. InPlace => InPlace'
    BY <1>6, <1>7 DEF InPlace
  <2>5. InSlots => InSlots'
    BY <1>5, <1>6, <1>7 DEF InSlots
  <2> QED
    BY <2>1, <2>2, <2>3, <2>4, <2>5 DEF Numbered
<1>11. Numbers => Numbers'
  <2>1. \A n, s : Call(n, s)' <=> Call(n, s)
    BY DEF Call
  <2>2. Prefix => Prefix'
    BY DEF Prefix
  <2>3. SlotsGiven => SlotsGiven'
    BY <1>6 DEF SlotsGiven
  <2>4. SlotsFed => SlotsFed'
    BY <2>1 DEF SlotsFed, Fed, Live
  <2>5. InTurn => InTurn'
    BY <2>1 DEF InTurn
  <2>6. Traffic => Traffic'
    BY <1>5, <1>6, <1>7, <1>8 DEF Traffic
  <2> QED
    BY <2>2, <2>3, <2>4, <2>5, <2>6 DEF Numbers, Slotting
<1>12. (Bounded => Bounded') /\ (NextBound => NextBound') /\ (CallsIntact => CallsIntact') /\ (Frozen => Frozen')
  BY DEF Bounded, NextBound, CallsIntact, Frozen
<1> QED
  BY <1>1, <1>2, <1>3, <1>4, <1>10, <1>11, <1>12 DEF StreamInv, Streaming

\* The types, with the bounds on what is counted and numbered.
LEMMA TypesHold ==
  ASSUME StreamInv
  PROVE  TypeOK
<1>1. Typed /\ NextBound /\ Bounded /\ (phase # "switched" => Counted)
  BY DEF StreamInv, Streaming
<1>2. Len(up.items) \in Nat /\ Len(up.items) <= MaxItems /\ up.sent \in 0 .. MaxPieces /\ parser.next \in Nat
      /\ parser.next <= Len(up.items) + 1
  BY <1>1 DEF Typed, IsUp, IsParser, NextBound
<1>3. parser.next \in 0 .. MaxItems + 1
  <2> DEFINE l == Len(up.items)
  <2>1. l \in Nat /\ l <= MaxItems /\ parser.next \in Nat /\ parser.next <= l + 1
    BY <1>2
  <2> HIDE DEF l
  <2> QED
    BY <2>1, TranslationAssumption
<1>4. emitter.open \in {None} \cup 0 .. MaxItems
  BY <1>1, TranslationAssumption DEF Bounded, Typed, IsEmitter
<1>5. client.got \in 0 .. MaxPieces
  <2>1. CASE phase = "switched"
    BY <2>1, TranslationAssumption DEF StreamInv, Frozen, NewClient
  <2>2. CASE phase # "switched"
    <3> DEFINE a == One(Shows(wire, {"delta"}))
               b == One(Coming(events, "Delta"))
               c == Due(1)
               d == Due(2)
    <3>1. /\ a \in Nat /\ b \in Nat /\ c \in Nat /\ d \in Nat /\ client.got \in Nat
          /\ client.got + a + b + c + d <= up.sent
      BY <1>1, <2>2, DueIsNat DEF Counted, Underway, Typed, IsClient
    <3> HIDE DEF a, b, c, d
    <3> QED
      BY <1>2, <3>1, TranslationAssumption
  <2> QED
    BY <2>1, <2>2
<1> QED
  BY <1>1, <1>2, <1>3, <1>4, <1>5 DEF TypeOK, Typed, IsUp

LEMMA EndsHold ==
  ASSUME StreamInv
  PROVE  EndsOnce
<1>1. CASE phase = "switched"
  BY <1>1 DEF StreamInv, Frozen, NewClient, EndsOnce
<1>2. CASE phase # "switched"
  <2> DEFINE a == One(Shows(wire, {"end"}))
             b == One(Coming(events, "Done"))
             e == One(phase = "ended")
             d == One(parser.done)
             x == One(Shows(wire, Reason))
             y == One(Coming(events, "Finish"))
             z == One(parser.finished)
  <2>1. /\ Sums /\ client.ends \in Nat /\ client.reasons \in Nat /\ (parser.done => parser.finished)
        /\ parser.done \in BOOLEAN /\ parser.finished \in BOOLEAN
    BY <1>2 DEF StreamInv, Streaming, Told, Knows, Typed, IsClient, IsParser
  <2>2. /\ a \in {0, 1} /\ b \in {0, 1} /\ e \in {0, 1} /\ d \in {0, 1}
        /\ (d = 1 => parser.done) /\ (parser.finished => z = 1)
    BY <2>1 DEF One
  <2>3. /\ (road[2] # "chat" => client.ends + a + b = d)
        /\ (road[2] = "chat" => client.ends + a <= e)
        /\ client.reasons + x + y = z
    BY <2>1 DEF Sums
  <2>4. road[2] # "chat" /\ client.ends = 1 => x = 0 /\ y = 0
    <3>1. road[2] # "chat" /\ client.ends = 1 => events = <<>> /\ ~Shows(wire, Reason)
      BY <2>1 DEF Sums
    <3>2. events = <<>> => ~Coming(events, "Finish")
      BY Written
    <3> QED
      BY <3>1, <3>2 DEF One
  <2> HIDE DEF a, b, e, d, x, y, z
  <2>5. client.ends <= 1
    BY <2>1, <2>2, <2>3
  <2>6. client.ends = 1 /\ road[2] # "chat" => client.reasons = 1
    <3> SUFFICES ASSUME client.ends = 1, road[2] # "chat" PROVE client.reasons = 1
      OBVIOUS
    <3>1. d = 1
      BY <2>2, <2>3
    <3>2. z = 1
      BY <2>1, <2>2, <3>1
    <3> QED
      BY <2>1, <2>3, <2>4, <3>2
  <2> QED
    BY <2>5, <2>6 DEF EndsOnce
<1> QED
  BY <1>1, <1>2

LEMMA NothingLost ==
  ASSUME StreamInv
  PROVE  NothingVanishes /\ CallsIntact
<1>1. CASE phase = "switched"
  BY <1>1 DEF StreamInv, Frozen, NewClient, NothingVanishes, CallsIntact, Shown
<1>2. CASE phase # "switched"
  <2>1. CallsIntact /\ Counted /\ client.got \in Nat
    BY <1>2 DEF StreamInv, Streaming, Typed, IsClient
  <2>2. ASSUME Idle, arrived = <<>>, ~up.failed, ~up.marked PROVE client.got = up.sent
    <3>1. /\ One(Shows(wire, {"delta"})) = 0 /\ One(Coming(events, "Delta")) = 0 /\ Due(1) = 0 /\ Due(2) = 0
      BY <2>2, Short, Written DEF Idle, One, Due
    <3> QED
      BY <2>1, <2>2, <3>1 DEF Counted, Underway
  <2> QED
    BY <2>1, <2>2 DEF NothingVanishes, Shown
<1> QED
  BY <1>1, <1>2

(* ------------------------- one beginning, one end ---------------------- *)
(* From here on the upstream is orderly: what each test of the sources     *)
(* feeds, one item after the other and nothing after the end.              *)

\* What is known once the end was told or is being told.
LEMMA EndKnown ==
  ASSUME Typed, Told, client.ends > 0 \/ Shows(wire, {"end"})
  PROVE  /\ (road[2] = "chat" => phase = "ended")
         /\ (road[2] # "chat" => parser.done /\ parser.finished /\ events = <<>> /\ ~Shows(wire, Reason))
         /\ (Shows(wire, {"end"}) => client.ends = 0)
<1> DEFINE a == One(Shows(wire, {"end"}))
           b == One(Coming(events, "Done"))
           d == One(parser.done)
           e == One(phase = "ended")
<1>1. /\ (Shows(wire, {"end"}) => a = 1) /\ a \in {0, 1} /\ b \in {0, 1} /\ d \in {0, 1} /\ e \in {0, 1}
      /\ (d = 1 => parser.done) /\ (e = 1 => phase = "ended") /\ client.ends \in Nat
  BY DEF One, Typed, IsClient
<1>2. /\ (road[2] # "chat" => client.ends + a + b = d)
      /\ (road[2] = "chat" => client.ends + a <= e)
      /\ (parser.done => parser.finished)
  BY DEF Told, Sums, Knows
<1>3. road[2] # "chat" /\ (client.ends = 1 \/ Shows(wire, {"end"})) => events = <<>> /\ ~Shows(wire, Reason)
  BY DEF Told, Sums
<1>4. client.ends > 0 \/ Shows(wire, {"end"})
  OBVIOUS
<1> HIDE DEF a, b, d, e
<1>5. client.ends > 0 \/ a = 1
  BY <1>1, <1>4
<1>6. road[2] = "chat" => e = 1
  BY <1>1, <1>2, <1>5
<1>7. road[2] # "chat" => d = 1 /\ (client.ends = 1 \/ Shows(wire, {"end"}))
  <2>1. road[2] # "chat" => d = 1
    <3> DEFINE g == client.ends
    <3>1. road[2] # "chat" => g + a + b = d
      BY <1>2
    <3>2. g \in Nat /\ a \in {0, 1} /\ b \in {0, 1} /\ d \in {0, 1} /\ (g > 0 \/ a = 1)
      BY <1>1, <1>5
    <3> HIDE DEF g
    <3>3. g + a + b = d => d = 1
      BY <3>2
    <3> QED
      BY <3>1, <3>3
  <2>2. road[2] # "chat" => client.ends <= 1
    BY <1>1, <1>2
  <2> QED
    BY <1>1, <1>4, <2>1, <2>2
<1>8. Shows(wire, {"end"}) => client.ends = 0
  <2>1. a = 1 => client.ends = 0
    BY <1>1, <1>2
  <2> QED
    BY <1>1, <2>1
<1> QED
  BY <1>1, <1>2, <1>3, <1>6, <1>7, <1>8

\* A Start comes of the first frame of a Chat upstream, of the frame that begins another.
LEMMA StartComes ==
  ASSUME Typed, NEW frame \in UpFrames, Outcome(frame)
  PROVE  /\ (Starts(events') => IF road[1] = "chat" THEN ~parser.started /\ parser'.started
                                ELSE frame.f \in {"begin", "progress"})
         /\ (parser.started => parser'.started)
<1>1. CASE Silent /\ frame.f \notin {"piece", "open", "shut", "stop"}
  <2>1. ~Starts(<<>>)
    BY Written DEF Starts
  <2> QED
    BY <1>1, <2>1 DEF Silent
<1>2. CASE Quietly(frame)
  BY <1>2 DEF Quietly, StartsBy, Starts
<1>3. CASE TextGoesOn(frame) \/ TextOpens(frame) \/ CallGoesOn(frame) \/ CallOpens(frame)
  <2>1. StartsBy(frame)
    BY <1>3 DEF TextGoesOn, TextOpens, CallGoesOn, CallOpens
  <2> QED
    BY <2>1 DEF StartsBy, Starts
<1>4. CASE Numbered1(frame)
  <2>1. events' \in {<<Delta(frame.i, frame.k, Owner(frame.k, frame.i))>>,
                     <<ItemStart(frame.i, frame.k, Owner(frame.k, frame.i))>>, <<ItemEnd(frame.i)>>}
    BY <1>4 DEF Numbered1
  <2>2. ~Starts(events')
    BY <2>1 DEF Starts, Coming, Delta, ItemStart, ItemEnd, Happens
  <2> QED
    BY <1>4, <2>2 DEF Numbered1
<1>5. CASE Finishes(frame)
  BY <1>5 DEF Finishes, StartsBy, Starts
<1> QED
  BY <1>1, <1>2, <1>3, <1>4, <1>5 DEF Outcome

LEMMA BeginsStep ==
  ASSUME Typed, Told, BeginsOnce, OneStep, phase' # "switched", up'.orderly
  PROVE  BeginsOnce'
<1>1. ASSUME NEW frame \in UpFrames, Talks(frame) PROVE BeginsOnce'
  <2>1. /\ UNCHANGED <<road, parser, events, emitter, wire, client, phase>> /\ arrived' = Append(arrived, frame)
        /\ (Begun' <=> Begun)
    BY <1>1 DEF Talks, Begun
  <2>2. /\ (up.begun => up'.begun) /\ frame.f # "progress"
        /\ (frame.f = "begin" => road[1] # "chat" /\ ~up.begun /\ up'.begun)
    BY <1>1 DEF Talks, Text1, Call1, Begins1, Item1, Piece1, Shut1, Stop1, Other1
  <2>3. ASSUME NEW n \in DOMAIN arrived' PROVE arrived'[n].f # "progress"
    BY <1>1, <2>1, <2>2, <2>3, Grown DEF BeginsOnce
  <2>4. ASSUME road[1] # "chat", NEW n \in DOMAIN arrived', arrived'[n].f = "begin"
        PROVE  up'.begun /\ ~Begun /\ \A m \in DOMAIN arrived' : arrived'[m].f = "begin" => m = n
    <3> DEFINE l == Len(arrived) + 1
    <3>1. \A m \in DOMAIN arrived' : (m \in DOMAIN arrived /\ arrived'[m] = arrived[m]) \/ (m = l /\ arrived'[m] = frame)
      BY <2>1, Grown
    <3> HIDE DEF l
    <3>2. CASE frame.f = "begin"
      <4>1. ~up.begun /\ ~Begun /\ \A m \in DOMAIN arrived : arrived[m].f # "begin"
        BY <2>2, <2>4, <3>2 DEF BeginsOnce
      <4>2. \A m \in DOMAIN arrived' : arrived'[m].f = "begin" => m = l
        BY <3>1, <4>1
      <4> QED
        BY <2>2, <2>4, <3>2, <4>1, <4>2
    <3>3. CASE frame.f # "begin"
      <4>1. n \in DOMAIN arrived /\ arrived[n].f = "begin"
        BY <2>4, <3>1, <3>3
      <4>2. \A m \in DOMAIN arrived' : arrived'[m].f = "begin" => m \in DOMAIN arrived /\ arrived[m].f = "begin"
        BY <3>1, <3>3
      <4>3. up.begun /\ ~Begun /\ \A m \in DOMAIN arrived : arrived[m].f = "begin" => m = n
        BY <2>4, <4>1 DEF BeginsOnce
      <4> QED
        BY <2>2, <4>2, <4>3
    <3> QED
      BY <3>2, <3>3
  <2> QED
    BY <2>1, <2>2, <2>3, <2>4 DEF BeginsOnce
<1>2. ASSUME NEW frame \in UpFrames, Parses(frame) PROVE BeginsOnce'
  <2>0. /\ wire = <<>> /\ events = <<>> /\ wire' = wire /\ client' = client /\ up' = up /\ road' = road
        /\ arrived # <<>> /\ frame = arrived[1] /\ arrived' = Tail(arrived) /\ Outcome(frame)
    BY <1>2 DEF Parses, Idle
  <2>1. ~Shows(wire, {"begin"}) /\ ~Starts(events) /\ (Begun <=> client.begun)
    BY <2>0, Short, Written DEF Starts, Begun
  <2>2. ~Shows(wire, {"begin"})' /\ (Begun' <=> client.begun \/ Starts(events'))
    BY <2>0, <2>1 DEF Begun
  <2>3. /\ (Starts(events') => IF road[1] = "chat" THEN ~parser.started /\ parser'.started
                                ELSE frame.f \in {"begin", "progress"})
        /\ (parser.started => parser'.started)
    BY <2>0, StartComes
  <2>4. 1 \in DOMAIN arrived /\ \A n \in DOMAIN arrived' : n + 1 \in DOMAIN arrived /\ arrived'[n] = arrived[n + 1] /\ n >= 1 /\ n \in Nat
    BY <2>0, ChunkTail
  <2>5. frame.f # "progress"
    BY <2>0, <2>4 DEF BeginsOnce
  <2>6. Starts(events') => ~client.begun
    BY <2>0, <2>1, <2>3, <2>4, <2>5 DEF BeginsOnce
  <2>7. road[1] = "chat" /\ ~parser'.started => ~Begun'
    BY <2>1, <2>2, <2>3 DEF BeginsOnce
  <2>8. road[1] # "chat" /\ ~up.begun => ~Begun'
    <3>1. road[1] # "chat" /\ ~up.begun => frame.f # "begin" /\ ~Begun
      BY <2>0, <2>4 DEF BeginsOnce
    <3> QED
      BY <2>1, <2>2, <2>3, <2>5, <3>1
  <2>9. ASSUME road[1] # "chat", NEW n \in DOMAIN arrived', arrived'[n].f = "begin"
        PROVE  up.begun /\ ~Begun' /\ \A m \in DOMAIN arrived' : arrived'[m].f = "begin" => m = n
    <3>1. n + 1 \in DOMAIN arrived /\ arrived[n + 1].f = "begin" /\ n \in Nat /\ n >= 1
      BY <2>4, <2>9
    <3>2. up.begun /\ ~Begun /\ \A m \in DOMAIN arrived : arrived[m].f = "begin" => m = n + 1
      BY <2>9, <3>1 DEF BeginsOnce
    <3>3. frame.f # "begin"
      BY <2>0, <2>4, <3>1, <3>2
    <3>4. ~Begun'
      BY <2>1, <2>2, <2>3, <2>5, <2>9, <3>2, <3>3
    <3>5. ASSUME NEW m \in DOMAIN arrived', arrived'[m].f = "begin" PROVE m = n
      <4>1. m + 1 = n + 1 /\ m \in Nat
        BY <2>4, <3>2, <3>5
      <4> QED
        BY <3>1, <4>1
    <3> QED
      BY <3>2, <3>4, <3>5
  <2>10. \A n \in DOMAIN arrived' : arrived'[n].f # "progress"
    BY <2>4 DEF BeginsOnce
  <2> QED
    BY <2>0, <2>2, <2>6, <2>7, <2>8, <2>9, <2>10 DEF BeginsOnce
<1>3. CASE Closes
  <2>0. /\ wire = <<>> /\ events = <<>> /\ wire' = wire /\ client' = client /\ up' = up /\ road' = road
        /\ arrived = <<>> /\ arrived' = <<>>
    BY <1>3 DEF Closes, Idle
  <2>1. ~Shows(wire, {"begin"})' /\ (Begun' <=> client.begun \/ Starts(events')) /\ (Begun <=> client.begun)
    BY <2>0, Short, Written DEF Begun, Starts
  <2>2. /\ (Starts(events') => road[1] = "chat" /\ ~parser.started /\ parser'.started)
        /\ (parser.started => parser'.started)
    <3>1. CASE Silent
      <4>1. ~Starts(<<>>)
        BY Written DEF Starts
      <4> QED
        BY <3>1, <4>1 DEF Silent
    <3>2. CASE road[1] = "chat" /\ Finishes(Sends("mark"))
      BY <3>2, Ends1, StartComes DEF Outcome
    <3> QED
      BY <1>3, <3>1, <3>2 DEF Closes
  <2>3. \A n \in DOMAIN arrived' : FALSE
    BY <2>0
  <2> QED
    BY <2>0, <2>1, <2>2, <2>3 DEF BeginsOnce
<1>4. ASSUME NEW event \in EventsOf, EmitsOne(event) PROVE BeginsOnce'
  <2>0. /\ events # <<>> /\ wire = <<>> /\ event = Head(events) /\ events' = Tail(events) /\ events \in Seq(EventsOf)
        /\ Emission(event) /\ UNCHANGED <<road, up, arrived, parser, client, phase>>
    BY <1>4 DEF EmitsOne, Typed
  <2>1. /\ (Starts(events) <=> event.e = "Start" \/ Starts(events'))
        /\ (Starts(events') => event.e # "Start")
    <3>1. <<"Start", "Start">> \notin Order
      BY DEF Order
    <3>2. \A e : Coming(events, e) <=> (event.e = e \/ Coming(events', e))
      BY <2>0, EventTail DEF Told
    <3>3. \A e : Coming(events', e) => <<event.e, e>> \in Order
      BY <2>0, EventTail DEF Told
    <3> QED
      BY <3>1, <3>2, <3>3 DEF Starts
  <2>2. (Shows(wire', {"begin"}) <=> event.e = "Start") /\ ~Shows(wire, {"begin"})
    BY <2>0, EmitShows, Short
  <2>3. (Begun' <=> Begun)
    BY <2>0, <2>1, <2>2 DEF Begun
  <2> QED
    BY <2>0, <2>1, <2>2, <2>3 DEF BeginsOnce
<1>5. ASSUME NEW frame \in WireFrames, ReadsOne(frame) PROVE BeginsOnce'
  <2>0. /\ wire # <<>> /\ frame = Head(wire) /\ wire' = Tail(wire) /\ wire \in Seq(WireFrames) /\ Chain(wire)
        /\ (client'.begun <=> (client.begun \/ frame.f = "begin"))
        /\ UNCHANGED <<road, up, arrived, parser, events, emitter, phase>>
    BY <1>5 DEF ReadsOne, Typed, Told, Reading
  <2>1. (Shows(wire, {"begin"}) <=> frame.f = "begin" \/ Shows(wire', {"begin"})) /\ ~Shows(wire', {"begin"})
    <3>1. \A fs : Shows(wire, fs) <=> (Head(wire).f \in fs \/ Shows(Tail(wire), fs))
      BY <2>0, WireTail
    <3>2. {"begin"} \cap {"progress", "open", "why", "noted", "end"} = {}
      OBVIOUS
    <3>3. ~Shows(Tail(wire), {"begin"})
      BY <2>0, <3>2, WireTail
    <3> QED
      BY <2>0, <3>1, <3>3
  <2>2. Begun' <=> Begun
    BY <2>0, <2>1 DEF Begun
  <2>3. Starts(events') => ~client'.begun
    BY <2>0, <2>1 DEF BeginsOnce
  <2> QED
    BY <2>0, <2>1, <2>2, <2>3 DEF BeginsOnce
<1>6. CASE Quits \/ Full \/ Fails \/ Trails
  <2>0. /\ UNCHANGED <<road, parser, events, client>> /\ up'.begun = up.begun /\ (arrived' = arrived \/ arrived' = <<>>)
        /\ wire = <<>>
    BY <1>6 DEF Quits, Full, Fails, Trails, Idle
  <2>1. ~Shows(wire', {"begin"}) /\ ~Shows(wire, {"begin"})
    BY <1>6, <2>0, Short DEF Quits, Full, Fails, Trails
  <2>2. Begun' <=> Begun
    BY <2>0, <2>1 DEF Begun
  <2>3. CASE arrived' = arrived
    BY <2>0, <2>1, <2>2, <2>3 DEF BeginsOnce
  <2>4. CASE arrived' = <<>>
    <3>1. \A n \in DOMAIN arrived' : FALSE
      BY <2>4
    <3> QED
      BY <2>0, <2>1, <2>2, <3>1 DEF BeginsOnce
  <2> QED
    BY <2>0, <2>3, <2>4
<1> QED
  BY <1>1, <1>2, <1>3, <1>4, <1>5, <1>6 DEF OneStep, Switch

\* A step that neither emits nor reads puts at most one frame on the wire, an error or the end.
LEMMA RestingWire ==
  ASSUME Typed, OneStep, phase' # "switched",
         ~\E event \in EventsOf : EmitsOne(event), ~\E frame \in WireFrames : ReadsOne(frame)
  PROVE  /\ Idle /\ UNCHANGED <<road, client, emitter>>
         /\ \/ wire' = <<>>
            \/ Trails /\ road[2] = "chat" /\ \E x \in WireFrames : x.f = "end" /\ wire' = <<x>>
            \/ Fails /\ \E x \in WireFrames : x.f = "error" /\ wire' = <<x>>
BY DEF OneStep, Talks, Parses, Quits, Fails, Switch, Full, Closes, Trails, Idle

LEMMA EndsStep ==
  ASSUME Typed, Typed', Told, EndsLast, OneStep, phase' # "switched", up'.orderly
  PROVE  EndsLast'
<1>0. /\ client.ends \in Nat /\ client.errors \in Nat /\ client'.ends \in Nat /\ client'.errors \in Nat
      /\ (client.ends + client.errors > 0 <=> client.ends > 0 \/ client.errors > 0)
      /\ (client'.ends + client'.errors > 0 <=> client'.ends > 0 \/ client'.errors > 0)
  <2>1. client.ends \in Nat /\ client.errors \in Nat /\ client'.ends \in Nat /\ client'.errors \in Nat
    BY DEF Typed, IsClient
  <2>2. \A a, b \in Nat : a + b > 0 <=> a > 0 \/ b > 0
    OBVIOUS
  <2> QED
    BY <2>1, <2>2
<1>1. /\ (up'.over = "broken" => ~up'.marked)
      /\ \A n \in DOMAIN arrived' : arrived'[n].f = "error" => ~up'.marked
  <2>1. ASSUME NEW frame \in UpFrames, Talks(frame)
        PROVE  /\ (up'.over = "broken" => ~up'.marked)
               /\ \A n \in DOMAIN arrived' : arrived'[n].f = "error" => ~up'.marked
    <3>0. ~up.marked /\ up'.over = "no" /\ (frame.f = "error" => ~up'.marked)
      BY <2>1 DEF Talks, Text1, Call1, Begins1, Item1, Piece1, Shut1, Stop1, Other1
    <3>1. arrived' = Append(arrived, frame)
      BY <2>1 DEF Talks
    <3>2. ~up.failed
      BY <2>1 DEF Talks
    <3>3. \A n \in DOMAIN arrived : arrived[n].f # "error"
      BY <3>2 DEF Told, Arrivals
    <3> QED
      BY <3>0, <3>1, <3>3, Grown
  <2>2. ASSUME NEW frame \in UpFrames, Parses(frame)
        PROVE  /\ (up'.over = "broken" => ~up'.marked)
               /\ \A n \in DOMAIN arrived' : arrived'[n].f = "error" => ~up'.marked
    <3>1. up' = up /\ arrived # <<>> /\ arrived' = Tail(arrived)
      BY <2>2 DEF Parses
    <3>2. \A n \in DOMAIN arrived' : n + 1 \in DOMAIN arrived /\ arrived'[n] = arrived[n + 1]
      BY <3>1, ChunkTail
    <3> QED
      BY <3>1, <3>2 DEF EndsLast
  <2>3. CASE Quits
    BY <2>3 DEF Quits, EndsLast
  <2>4. CASE up' = up /\ (arrived' = arrived \/ arrived' = <<>>)
    <3>1. \A n \in DOMAIN arrived' : n \in DOMAIN arrived /\ arrived'[n] = arrived[n]
      BY <2>4
    <3> QED
      BY <2>4, <3>1 DEF EndsLast
  <2> QED
    BY <2>1, <2>2, <2>3, <2>4 DEF OneStep, Fails, Switch, Full, Closes, Trails, EmitsOne, ReadsOne
<1>2. ASSUME NEW event \in EventsOf, EmitsOne(event) PROVE EndsLast'
  <2>1. events # <<>> /\ client' = client /\ phase' = phase /\ Emission(event)
    BY <1>2 DEF EmitsOne
  <2>2. client.ends = 0 /\ client.errors = 0
    BY <1>0, <2>1 DEF EndsLast
  <2>3. ~Shows(wire', {"error"})
    BY <2>1, EmitShows
  <2>4. /\ ~(client'.ends + client'.errors > 0)
        /\ ~(client'.errors > 0)
    BY <1>0, <2>1, <2>2
  <2> QED
    BY <1>1, <2>3, <2>4 DEF EndsLast
<1>3. ASSUME NEW frame \in WireFrames, ReadsOne(frame) PROVE EndsLast'
  <2>0. /\ wire # <<>> /\ frame = Head(wire) /\ wire' = Tail(wire) /\ wire \in Seq(WireFrames) /\ Chain(wire)
        /\ client'.ends = client.ends + One(frame.f = "end")
        /\ client'.errors = client.errors + One(frame.f = "error")
        /\ UNCHANGED <<events, phase>>
    BY <1>3 DEF ReadsOne, Typed, Told, Reading
  <2>1. client.ends = 0 /\ client.errors = 0
    BY <1>0, <2>0 DEF EndsLast
  <2>2. /\ (frame.f \in {"end", "error"} => wire' = <<>>)
        /\ (frame.f = "end" => Shows(wire, {"end"})) /\ (frame.f = "error" => Shows(wire, {"error"}))
        /\ (Shows(wire', {"error"}) => Shows(wire, {"error"}) /\ wire' # <<>>)
    <3>1. \A fs : Shows(wire, fs) <=> (frame.f \in fs \/ Shows(wire', fs))
      BY <2>0, WireTail
    <3>2. wire' = <<>> \/ frame.f \in {"begin", "shut"}
      BY <2>0, WireTail
    <3>3. ~Shows(<<>>, {"error"})
      BY Short
    <3> QED
      BY <3>1, <3>2, <3>3
  <2>3. (frame.f = "end" => events = <<>>) /\ (frame.f = "error" => phase = "ended" /\ events = <<>>)
    <3>1. phase = "ended" => events = <<>>
      BY DEF Told, Arrivals
    <3>2. frame.f = "end" => events = <<>>
      BY <2>2, <3>1, EndKnown
    <3> QED
      BY <2>2, <3>1, <3>2 DEF EndsLast
  <2>4. /\ (client'.ends > 0 => frame.f = "end") /\ (client'.errors > 0 => frame.f = "error")
    BY <2>0, <2>1 DEF One
  <2>5. Shows(wire', {"error"}) => client'.ends = 0 /\ phase = "ended"
    <3>1. Shows(wire', {"error"}) => frame.f # "end" /\ phase = "ended"
      BY <2>2 DEF EndsLast
    <3>2. frame.f # "end" => client'.ends = 0
      BY <2>0, <2>1 DEF One
    <3> QED
      BY <3>1, <3>2
  <2> QED
    BY <1>0, <1>1, <2>0, <2>2, <2>3, <2>4, <2>5 DEF EndsLast
<1>4. ASSUME ~\E event \in EventsOf : EmitsOne(event), ~\E frame \in WireFrames : ReadsOne(frame)
      PROVE  EndsLast'
  <2>1. /\ Idle /\ UNCHANGED <<road, client, emitter>>
        /\ \/ wire' = <<>>
           \/ Trails /\ road[2] = "chat" /\ \E x \in WireFrames : x.f = "end" /\ wire' = <<x>>
           \/ Fails /\ \E x \in WireFrames : x.f = "error" /\ wire' = <<x>>
    BY <1>4, RestingWire
  <2>2. ~Shows(wire, {"error"})
    BY <2>1, Short DEF Idle
  <2>3. client.errors > 0 => phase = "ended"
    BY DEF EndsLast
  <2>4. client.ends > 0 => (road[2] = "chat" => phase = "ended") /\ (road[2] # "chat" => parser.done)
    BY <1>0, EndKnown
  <2>5. CASE Fails
    <3>1. phase = "open" /\ phase' = "ended" /\ events' = events /\ client' = client
          /\ Shows(wire', {"error"}) /\ ~up.marked
      <4>1. arrived # <<>> => 1 \in DOMAIN arrived
        BY ChunkTail DEF Typed
      <4>2. ~up.marked
        BY <2>5, <4>1 DEF Fails, EndsLast
      <4>3. PICK x \in WireFrames : x.f = "error" /\ wire' = <<x>>
        BY <2>5 DEF Fails
      <4>4. Shows(wire', {"error"})
        BY <4>3, Short
      <4> QED
        BY <2>5, <4>2, <4>4 DEF Fails
    <3>2. ~parser.done
      BY <3>1 DEF Told, Arrivals, Live
    <3>3. client.ends = 0 /\ client.errors = 0
      BY <1>0, <2>3, <2>4, <3>1, <3>2
    <3>4. ~(client'.ends + client'.errors > 0) /\ client'.ends = 0
      BY <3>1, <3>3
    <3> QED
      BY <1>1, <3>1, <3>4 DEF EndsLast
  <2>6. CASE Trails
    <3>1. phase = "closing" /\ phase' = "ended" /\ events' = events /\ events = <<>> /\ client' = client
      BY <2>6 DEF Trails, Idle
    <3>2. ~Shows(wire', {"error"})
      <4>1. ASSUME NEW x \in WireFrames, x.f = "end", wire' = <<x>> PROVE ~Shows(wire', {"error"})
        BY <4>1, Short
      <4> QED
        BY <2>6, <4>1, Short DEF Trails
    <3>3. client.errors = 0
      BY <1>0, <2>3, <3>1
    <3>4. client.ends > 0 => wire' = <<>>
      <4>1. client.ends > 0 => road[2] # "chat"
        BY <2>4, <3>1
      <4> QED
        BY <2>6, <4>1 DEF Trails
    <3> QED
      BY <1>0, <1>1, <3>1, <3>2, <3>3, <3>4 DEF EndsLast
  <2>7. CASE ~Fails /\ ~Trails
    <3>1. wire' = <<>> /\ (phase = "ended" => phase' = "ended")
      BY <1>4, <2>1, <2>7 DEF OneStep, Talks, Parses, Quits, Full, Closes, Switch, Live
    <3>2. ~Shows(wire', {"error"})
      BY <3>1, Short
    <3>3. client.ends + client.errors > 0 => events' = <<>>
      <4> SUFFICES ASSUME client.ends + client.errors > 0 PROVE events' = <<>>
        OBVIOUS
      <4>1. client.ends > 0 \/ client.errors > 0
        BY <1>0
      <4>2. phase = "ended" \/ parser.done
        BY <2>3, <2>4, <4>1
      <4>3. ASSUME NEW frame \in UpFrames, Parses(frame) PROVE events' = <<>>
        <5>1. /\ Outcome(frame) /\ IsParser(parser') /\ Live /\ arrived # <<>> /\ frame = arrived[1]
          BY <4>3 DEF Parses
        <5>2. frame.f \in Content => ~parser.finished
          <6>1. 1 \in DOMAIN arrived
            BY <5>1 DEF Typed
          <6> QED
            BY <5>1, <6>1 DEF Told, Arrivals
        <5> QED
          BY <4>2, <5>1, <5>2, Comes DEF Told, Live
      <4>4. CASE Closes
        BY <4>2, <4>4 DEF Closes, Finishes, Silent
      <4>5. CASE events' = events
        BY <2>1, <4>5 DEF Idle
      <4> QED
        BY <1>4, <2>7, <4>3, <4>4, <4>5 DEF OneStep, Talks, Quits, Full, Switch
    <3> QED
      BY <1>1, <2>1, <2>3, <3>1, <3>2, <3>3 DEF EndsLast
  <2> QED
    BY <2>5, <2>6, <2>7
<1> QED
  BY <1>2, <1>3, <1>4

(* -------------------- items one after the other ------------------------ *)

\* The first event goes out: what is left.
LEMMA EventsLeft ==
  ASSUME Typed, Told, NEW event \in EventsOf, EmitsOne(event)
  PROVE  /\ \A e : Coming(events, e) <=> event.e = e \/ Coming(events', e)
         /\ (event.e = "Start" => ~Coming(events', "Start"))
         /\ (event.e = "ItemStart" => \A e \in {"ItemStart", "ItemEnd", "Finish"} : ~Coming(events', e))
         /\ (event.e = "Delta" => \A e \in {"ItemStart", "Delta", "ItemEnd", "Finish"} : ~Coming(events', e))
         /\ (event.e = "ItemEnd" => \A e \in {"ItemStart", "Delta"} : ~Coming(events', e))
         /\ (event.e = "Usage" => \A e \in {"ItemStart", "Delta", "ItemEnd"} : ~Coming(events', e))
         /\ (event.e = "Finish" => \A e \in {"ItemStart", "Delta", "ItemEnd", "Finish"} : ~Coming(events', e))
         /\ (event.e = "Done" => \A e : ~Coming(events', e))
         /\ \A i : StartsOnly(i) <=> (event.e = "ItemStart" => event.i = i) /\ StartsOnly(i)'
         /\ \A i : Ends(i) <=> (event.e = "ItemEnd" /\ event.i = i) \/ Ends(i)'
         /\ \A i, k, o : Event("Delta", i, k, o)' => Event("Delta", i, k, o)
         /\ (event.e = "Delta" => Event("Delta", event.i, event.k, event.o))
<1>0. events \in Seq(EventsOf) /\ events # <<>> /\ events' = Tail(events) /\ event = Head(events) /\ InOrder(events)
  BY DEF EmitsOne, Typed, Told
<1>1. /\ \A e : Coming(events, e) <=> event.e = e \/ Coming(events', e)
      /\ \A e : Coming(events', e) => <<event.e, e>> \in Order
      /\ (event.e = "Done" => events' = <<>>)
  BY <1>0, EventTail
<1>2. /\ (event.e = "Start" => ~Coming(events', "Start"))
      /\ (event.e = "ItemStart" => \A e \in {"ItemStart", "ItemEnd", "Finish"} : ~Coming(events', e))
      /\ (event.e = "Delta" => \A e \in {"ItemStart", "Delta", "ItemEnd", "Finish"} : ~Coming(events', e))
      /\ (event.e = "ItemEnd" => \A e \in {"ItemStart", "Delta"} : ~Coming(events', e))
      /\ (event.e = "Usage" => \A e \in {"ItemStart", "Delta", "ItemEnd"} : ~Coming(events', e))
      /\ (event.e = "Finish" => \A e \in {"ItemStart", "Delta", "ItemEnd", "Finish"} : ~Coming(events', e))
  BY <1>1 DEF Order
<1>3. event.e = "Done" => \A e : ~Coming(events', e)
  BY <1>1, Written
<1>4. /\ 1 \in DOMAIN events /\ events[1] = event
      /\ \A n \in DOMAIN events' : n + 1 \in DOMAIN events /\ events'[n] = events[n + 1]
      /\ \A n \in DOMAIN events : n = 1 \/ (n - 1 \in DOMAIN events' /\ events[n] = events'[n - 1])
  BY <1>0, TailIs
<1>5. \A i : StartsOnly(i) <=> (event.e = "ItemStart" => event.i = i) /\ StartsOnly(i)'
  BY <1>4 DEF StartsOnly
<1>6. \A i : Ends(i) <=> (event.e = "ItemEnd" /\ event.i = i) \/ Ends(i)'
  BY <1>4 DEF Ends
<1>7. \A i, k, o : Event("Delta", i, k, o)' => Event("Delta", i, k, o)
  BY <1>4 DEF Event
<1>8. event.e = "Delta" => Event("Delta", event.i, event.k, event.o)
  BY <1>4 DEF Event
<1> QED
  BY <1>1, <1>2, <1>3, <1>5, <1>6, <1>7, <1>8

LEMMA EndsCome ==
  /\ \A i : Ends(i) => Coming(events, "ItemEnd")
  /\ \A i, k, o : Event("Delta", i, k, o) => Coming(events, "Delta")
  /\ (events = <<>> => \A e : ~Coming(events, e))
<1>1. \A i : Ends(i) => Coming(events, "ItemEnd")
  BY DEF Ends, Coming
<1>2. \A i, k, o : Event("Delta", i, k, o) => Coming(events, "Delta")
  BY DEF Event, Coming
<1> QED
  BY <1>1, <1>2, Written

\* What has been told is finished.
LEMMA DoneKnown ==
  ASSUME Typed, Told
  PROVE  /\ (Coming(events, "Done") /\ road[2] # "chat" => parser.done /\ parser.finished)
         /\ (Coming(events, "Finish") => parser.finished)
<1> DEFINE a == One(Shows(wire, {"end"}))
           b == One(Coming(events, "Done"))
           d == One(parser.done)
           x == One(Shows(wire, Reason))
           y == One(Coming(events, "Finish"))
           z == One(parser.finished)
<1>1. /\ (Coming(events, "Done") => b = 1) /\ a \in Nat /\ d \in {0, 1} /\ (d = 1 => parser.done) /\ client.ends \in Nat
      /\ (Coming(events, "Finish") => y = 1) /\ x \in Nat /\ z \in {0, 1} /\ (z = 1 => parser.finished) /\ client.reasons \in Nat
  BY DEF One, Typed, IsClient
<1>2. /\ (road[2] # "chat" => client.ends + a + b = d) /\ client.reasons + x + y = z
      /\ (parser.done => parser.finished)
  BY DEF Told, Sums, Knows
<1> DEFINE g == client.ends
           h == client.reasons
<1>3. /\ g \in Nat /\ a \in Nat /\ d \in {0, 1} /\ h \in Nat /\ x \in Nat /\ z \in {0, 1}
      /\ (road[2] # "chat" => g + a + b = d) /\ h + x + y = z
  BY <1>1, <1>2
<1> HIDE DEF a, b, d, x, y, z, g, h
<1>4. b = 1 /\ g + a + b = d => d = 1
  BY <1>3
<1>5. y = 1 => z = 1
  BY <1>3
<1> QED
  BY <1>1, <1>2, <1>3, <1>4, <1>5

\* Only what the parser makes of a frame changes the item that will be open.
LEMMA NowStays ==
  ASSUME Typed, Told, road[2] # "chat", LastShut, OneStep, phase' # "switched",
         ~(\E frame \in UpFrames : Parses(frame)), ~Closes, NEW i, IsNow(i)
  PROVE  IsNow(i)'
<1>1. CASE events' = events /\ emitter' = emitter
  BY <1>1 DEF IsNow, StartsOnly
<1>2. ASSUME NEW event \in EventsOf, EmitsOne(event) PROVE IsNow(i)'
  <2>0. Emission(event)
    BY <1>2 DEF EmitsOne
  <2> DEFINE A == Coming(events, "ItemStart")
             B == Coming(events, "ItemEnd")
             C == Coming(events, "Finish")
             A1 == Coming(events', "ItemStart")
             B1 == Coming(events', "ItemEnd")
             C1 == Coming(events', "Finish")
  <2>1. /\ (A <=> event.e = "ItemStart" \/ A1) /\ (B <=> event.e = "ItemEnd" \/ B1) /\ (C <=> event.e = "Finish" \/ C1)
        /\ (StartsOnly(i) <=> (event.e = "ItemStart" => event.i = i) /\ StartsOnly(i)')
    BY <1>2, EventsLeft
  <2>2. /\ (event.e = "ItemStart" => ~A1 /\ ~B1 /\ ~C1) /\ (event.e = "Delta" => ~A1 /\ ~B1 /\ ~C1)
        /\ (event.e = "ItemEnd" => ~A1) /\ (event.e = "Usage" => ~A1 /\ ~B1)
        /\ (event.e = "Finish" => ~A1 /\ ~B1 /\ ~C1) /\ (event.e = "Done" => ~A1 /\ ~B1 /\ ~C1)
    BY <1>2, EventsLeft
  <2>3. IsNow(i) <=> IF A THEN StartsOnly(i) ELSE IF B \/ C THEN i = None ELSE emitter.open = i
    BY DEF IsNow
  <2>4. IsNow(i)' <=> IF A1 THEN StartsOnly(i)' ELSE IF B1 \/ C1 THEN i = None ELSE emitter'.open = i
    BY DEF IsNow
  <2>5. event.e = "Done" /\ ~C => emitter.open = None
    <3>1. event.e = "Done" => Coming(events, "Done")
      BY <1>2, EventsLeft
    <3> QED
      BY <3>1, DoneKnown DEF LastShut
  <2> HIDE DEF A, B, C, A1, B1, C1
  <2>6. CASE emitter'.open = emitter.open /\ event.e \in {"Start", "Delta", "Usage", "Done"}
    BY <2>1, <2>2, <2>3, <2>4, <2>6
  <2>7. CASE event.e = "ItemStart" /\ emitter'.open = event.i
    BY <2>1, <2>2, <2>3, <2>4, <2>7
  <2>8. CASE event.e \in {"ItemEnd", "Finish"} /\ emitter'.open = None
    BY <2>1, <2>2, <2>3, <2>4, <2>8
  <2>9. CASE event.e = "Done" /\ emitter'.open = None
    BY <2>1, <2>2, <2>3, <2>4, <2>5, <2>9
  <2> QED
    BY <2>0, <2>6, <2>7, <2>8, <2>9 DEF Emission, EmitsStart, EmitsItem, EmitsCall, EmitsDelta, EmitsEnd, EmitsNothing,
       EmitsReason, EmitsDone, SameBlock, AllShut
<1> QED
  BY <1>1, <1>2 DEF OneStep, Talks, Quits, Fails, Switch, Full, Trails, ReadsOne

LEMMA HeadIs ==
  /\ \A x : <<x>> # <<>> /\ Head(<<x>>) = x /\ Tail(<<x>>) = <<>>
  /\ \A x, y : <<y, x>> # <<>> /\ Head(<<y, x>>) = y
<1>1. \A x : <<x>> # <<>> /\ Head(<<x>>) = x
  OBVIOUS
<1>2. \A x : Tail(<<x>>) = <<>>
  OBVIOUS
<1>3. \A x, y : <<y, x>> # <<>> /\ Head(<<y, x>>) = y
  OBVIOUS
<1> QED
  BY <1>1, <1>2, <1>3

LEMMA ShutStep ==
  ASSUME Typed, Told, road[2] # "chat", LastShut, OpensEarly, OneStep, phase' # "switched"
  PROVE  LastShut' /\ OpensEarly'
<1>1. ASSUME NEW frame \in UpFrames, Outcome(frame), IsParser(parser'), frame.f \in Content => ~parser.finished,
             Idle, emitter' = emitter
      PROVE  LastShut' /\ OpensEarly'
  <2>1. /\ (Coming(events', "Finish") <=> parser'.finished /\ ~parser.finished) /\ InOrder(events')
        /\ (parser.finished => parser'.finished)
    BY <1>1, Comes DEF Told
  <2>2. parser.finished => emitter.open = None
    BY <1>1, EndsCome DEF LastShut, Idle
  <2>3. LastShut'
    BY <1>1, <2>1, <2>2 DEF LastShut
  <2>4. ASSUME Coming(events', "ItemStart"), parser'.finished PROVE FALSE
    <3>1. CASE Coming(events', "Finish")
      <4>1. <<"ItemStart", "Finish">> \notin Order /\ <<"Finish", "ItemStart">> \notin Order
        BY DEF Order
      <4>2. PICK m \in DOMAIN events' : events'[m].e = "ItemStart"
        BY <2>4 DEF Coming
      <4>3. PICK n \in DOMAIN events' : events'[n].e = "Finish"
        BY <3>1 DEF Coming
      <4>4. m # n
        BY <4>2, <4>3
      <4>5. m < n \/ n < m
        <5>1. events' \in Seq(EventsOf) \/ events' = <<>>
          BY <1>1, <2>1, TypedStep DEF Typed
        <5>2. m \in Nat /\ n \in Nat
          BY <5>1
        <5> QED
          BY <4>4, <5>2
      <4> QED
        BY <2>1, <4>1, <4>2, <4>3, <4>5 DEF InOrder
    <3>2. CASE ~Coming(events', "Finish")
      <4>1. parser.finished /\ frame.f \notin Content
        BY <1>1, <2>1, <2>4, <3>2
      <4>2. CASE Numbered1(frame) \/ TextGoesOn(frame) \/ TextOpens(frame) \/ CallGoesOn(frame) \/ CallOpens(frame)
        BY <4>1, <4>2 DEF Content, Numbered1, TextGoesOn, TextOpens, CallGoesOn, CallOpens
      <4>3. CASE Finishes(frame) \/ Quietly(frame)
        BY <2>4, <4>3 DEF Finishes, Quietly, OnlyOf, Coming
      <4>4. CASE Silent
        BY <2>4, <4>4, Written DEF Silent
      <4> QED
        BY <1>1, <4>2, <4>3, <4>4 DEF Outcome
    <3> QED
      BY <3>1, <3>2
  <2> QED
    BY <2>3, <2>4 DEF OpensEarly
<1>2. ASSUME NEW frame \in UpFrames, Parses(frame) PROVE LastShut' /\ OpensEarly'
  <2>1. Outcome(frame) /\ IsParser(parser') /\ Idle /\ emitter' = emitter /\ arrived # <<>> /\ frame = arrived[1]
    BY <1>2 DEF Parses
  <2>2. 1 \in DOMAIN arrived
    BY <2>1 DEF Typed
  <2>3. frame.f \in Content => ~parser.finished
    BY <2>1, <2>2 DEF Told, Arrivals
  <2> QED
    BY <1>1, <2>1, <2>3
<1>3. CASE Closes
  <2>1. Outcome(Sends("mark")) /\ Sends("mark") \in UpFrames /\ Sends("mark").f = "mark"
    BY <1>3, Ends1
  <2>2. IsParser(parser') /\ Idle /\ emitter' = emitter
    BY <1>3 DEF Closes
  <2> QED
    BY <1>1, <2>1, <2>2 DEF Content
<1>4. ASSUME NEW event \in EventsOf, EmitsOne(event) PROVE LastShut' /\ OpensEarly'
  <2>0. Emission(event) /\ parser' = parser
    BY <1>4 DEF EmitsOne
  <2> DEFINE A == Coming(events, "ItemStart")
             C == Coming(events, "Finish")
             A1 == Coming(events', "ItemStart")
             C1 == Coming(events', "Finish")
             f == parser.finished
  <2>1. /\ (A <=> event.e = "ItemStart" \/ A1) /\ (C <=> event.e = "Finish" \/ C1)
    BY <1>4, EventsLeft
  <2>2. (f /\ ~C => emitter.open = None) /\ (A => ~f)
    BY DEF LastShut, OpensEarly
  <2>3. \/ event.e = "ItemStart" /\ emitter'.open = event.i
        \/ event.e = "Finish" /\ emitter'.open = None
        \/ event.e \notin {"ItemStart", "Finish"} /\ (emitter'.open = emitter.open \/ emitter'.open = None)
    BY <2>0 DEF Emission, EmitsStart, EmitsItem, EmitsCall, EmitsDelta, EmitsEnd, EmitsNothing, EmitsReason, EmitsDone,
       SameBlock, AllShut
  <2> HIDE DEF A, C, A1, C1, f
  <2>4. (f /\ ~C1 => emitter'.open = None) /\ (A1 => ~f)
    BY <2>1, <2>2, <2>3
  <2> QED
    BY <2>0, <2>4 DEF LastShut, OpensEarly, A1, C1, f
<1>5. CASE events' = events /\ emitter' = emitter /\ parser' = parser
  BY <1>5 DEF LastShut, OpensEarly
<1> QED
  BY <1>2, <1>3, <1>4, <1>5 DEF OneStep, Talks, Quits, Fails, Switch, Full, Trails, ReadsOne

\* An event goes out: what is then on the wire fits what the client has.
LEMMA BlockEmits ==
  ASSUME Typed, Told, road[2] # "chat", Within, EndsOpen, OpensEarly, LastShut,
         NEW event \in EventsOf, EmitsOne(event)
  PROVE  Within' /\ Entering'
<1>0. wire = <<>> /\ client' = client /\ road' = road /\ Emission(event)
  BY DEF EmitsOne
<1> PICK b : b = client.block
  OBVIOUS
<1> PICK p : p = emitter.open
  OBVIOUS
<1> PICK q : q = emitter'.open
  OBVIOUS
<1>1. p = b \/ (p = None /\ ToEnd(b))
  <2>1. ~Shows(wire, {"open"}) /\ ~Shuts1
    BY <1>0, Short DEF Shuts1
  <2> QED
    BY <2>1 DEF Within
<1>2. /\ (Ends(b) <=> (event.e = "ItemEnd" /\ event.i = b) \/ Ends(b)')
      /\ (Ends(b) => Coming(events, "ItemEnd")) /\ (Ends(p) => Coming(events, "ItemEnd"))
      /\ (Ends(p) <=> (event.e = "ItemEnd" /\ event.i = p) \/ Ends(p)')
      /\ (event.e \in {"ItemStart", "Delta", "Finish", "Done"} => ~Coming(events, "ItemEnd"))
  <2>1. (Ends(b) => Coming(events, "ItemEnd")) /\ (Ends(p) => Coming(events, "ItemEnd"))
    BY EndsCome
  <2>2. /\ (Ends(b) <=> (event.e = "ItemEnd" /\ event.i = b) \/ Ends(b)')
        /\ (Ends(p) <=> (event.e = "ItemEnd" /\ event.i = p) \/ Ends(p)')
    BY EventsLeft
  <2>3. event.e \in {"ItemStart", "Delta", "Finish", "Done"} => ~Coming(events', "ItemEnd")
    BY EventsLeft
  <2>4. Coming(events, "ItemEnd") <=> event.e = "ItemEnd" \/ Coming(events', "ItemEnd")
    BY EventsLeft
  <2> QED
    BY <2>1, <2>2, <2>3, <2>4
<1>3. (ToEnd(b) <=> road[2] = "messages" /\ Ends(b)) /\ (ToEnd(b)' <=> road[2] = "messages" /\ Ends(b)')
  BY <1>0 DEF ToEnd
<1>4. Within' <=> (~Shows(wire', {"open"}) =>
                     IF Shuts1' THEN q = None /\ (b = None \/ Head(wire').i = b \/ ToEnd(b)')
                     ELSE q = b \/ (q = None /\ ToEnd(b)'))
  BY <1>0 DEF Within
<1>5. Shuts1' <=> wire' # <<>> /\ Head(wire').f = "shut"
  BY DEF Shuts1
<1>6. event.e # "ItemStart" => Entering'
  <2>1. ASSUME event.e # "ItemStart", NEW i, NEW o PROVE ~InWire(i, o)'
    BY <2>1, EmitsHas
  <2> QED
    BY <2>1 DEF Entering
<1>7. ASSUME event.e # "ItemEnd", q = p, ~Shuts1' PROVE Within'
  BY <1>1, <1>2, <1>3, <1>4, <1>7
<1>8. ASSUME event.e \in {"Finish", "Done"}, q = None, NEW x, ClosesFirst(x), x.f \in {"why", "noted", "end"} PROVE Within'
  <2>1. p = b
    BY <1>1, <1>2, <1>3, <1>8
  <2>2. CASE wire' = <<x>> /\ emitter.open = None
    <3>1. Head(wire') = x
      BY <2>2, HeadIs
    <3>2. ~Shuts1'
      BY <1>5, <1>8, <3>1
    <3> QED
      BY <1>4, <1>8, <2>1, <2>2, <3>2
  <2>3. ASSUME NEW y \in WireFrames, wire' = <<y, x>>, y.f = "shut", y.i = emitter.open PROVE Within'
    <3>1. Head(wire') = y /\ wire' # <<>>
      BY <2>3, HeadIs
    <3>2. Shuts1' /\ Head(wire').i = b
      BY <1>5, <2>1, <2>3, <3>1
    <3> QED
      BY <1>4, <1>8, <3>2
  <2> QED
    BY <1>8, <2>2, <2>3 DEF ClosesFirst
<1>9. CASE EmitsStart(event)
  <2>1. PICK x \in WireFrames : x.f = "begin" /\ (wire' = <<x>> \/ \E y \in WireFrames : wire' = <<x, y>>)
    BY <1>9 DEF EmitsStart
  <2>2. Head(wire') = x
    BY <2>1, HeadIs
  <2>3. ~Shuts1'
    BY <1>5, <2>1, <2>2
  <2> QED
    BY <1>6, <1>7, <1>9, <2>3 DEF EmitsStart, SameBlock
<1>10. CASE EmitsItem(event)
  <2>1. PICK x : IsAbout(x, "open", event) /\ ClosesFirst(x)
    BY <1>10 DEF EmitsItem
  <2>2. event.e = "ItemStart" /\ emitter'.open = event.i /\ emitter'.owner = event.o
    BY <1>10 DEF EmitsItem
  <2>3. p = b
    BY <1>1, <1>2, <1>3, <2>2
  <2>4. Shows(wire', {"open"})
    BY <1>0, <2>2, EmitShows
  <2>5. IF Shuts1' THEN Head(wire').i = b ELSE b = None
    <3>1. CASE wire' = <<x>> /\ emitter.open = None
      <4>1. Head(wire') = x
        BY <3>1, HeadIs
      <4> QED
        BY <1>5, <2>1, <2>3, <3>1, <4>1 DEF IsAbout
    <3>2. ASSUME NEW y \in WireFrames, wire' = <<y, x>>, y.f = "shut", y.i = emitter.open
          PROVE  IF Shuts1' THEN Head(wire').i = b ELSE b = None
      <4>1. Head(wire') = y /\ wire' # <<>>
        BY <3>2, HeadIs
      <4> QED
        BY <1>5, <2>3, <3>2, <4>1
    <3> QED
      BY <2>1, <3>1, <3>2 DEF ClosesFirst
  <2>6. ASSUME NEW i, NEW o, InWire(i, o)' PROVE Opened1(i, o)'
    <3>1. i = event.i /\ o = event.o
      BY <2>6, EmitsHas
    <3> QED
      BY <2>2, <3>1 DEF Opened1
  <2> QED
    BY <1>0, <1>4, <2>4, <2>5, <2>6 DEF Entering
<1>11. CASE EmitsDelta(event)
  <2>1. PICK x \in WireFrames : x.f = "delta" /\ wire' = <<x>>
    BY <1>11 DEF EmitsDelta
  <2>2. Head(wire') = x
    BY <2>1, HeadIs
  <2>3. ~Shuts1'
    BY <1>5, <2>1, <2>2
  <2> QED
    BY <1>6, <1>7, <1>11, <2>3 DEF EmitsDelta
<1>12. CASE EmitsEnd(event)
  <2>0. event.e = "ItemEnd" /\ q = None /\ Coming(events, "ItemEnd")
    <3>1. event.e = "ItemEnd" => Coming(events, "ItemEnd")
      BY EventsLeft
    <3> QED
      BY <1>12, <3>1 DEF EmitsEnd, AllShut
  <2>1. p = None \/ Ends(p)
    BY <2>0 DEF EndsOpen
  <2>2. ASSUME road[2] = "messages", NEW x, IsAbout(x, "shut", event), wire' = <<x>> PROVE Within'
    <3>1. Head(wire') = x /\ wire' # <<>> /\ x.f = "shut" /\ x.i = event.i
      BY <2>2, HeadIs DEF IsAbout
    <3>2. Shuts1' /\ Head(wire').i = event.i
      BY <1>5, <3>1
    <3>3. b = None \/ event.i = b \/ ToEnd(b)'
      BY <1>1, <1>2, <1>3, <2>1, <2>2
    <3> QED
      BY <1>4, <2>0, <3>2, <3>3
  <2>3. ASSUME road[2] = "responses", emitter.open = None, wire' = <<>> PROVE Within'
    <3>1. ~Shuts1' /\ p = b
      BY <1>1, <1>3, <1>5, <2>3
    <3> QED
      BY <1>4, <2>0, <2>3, <3>1
  <2>4. ASSUME road[2] = "responses", NEW y \in WireFrames, wire' = <<y>>, y.f = "shut", y.i = emitter.open PROVE Within'
    <3>1. Head(wire') = y /\ wire' # <<>>
      BY <2>4, HeadIs
    <3>2. Shuts1' /\ Head(wire').i = p /\ p = b
      BY <1>1, <1>3, <1>5, <2>4, <3>1
    <3> QED
      BY <1>4, <2>0, <3>2
  <2> QED
    BY <1>6, <1>12, <2>0, <2>2, <2>3, <2>4 DEF EmitsEnd
<1>13. CASE EmitsNothing(event)
  <2>1. ~Shuts1'
    BY <1>5, <1>13 DEF EmitsNothing
  <2> QED
    BY <1>6, <1>7, <1>13, <2>1 DEF EmitsNothing, SameBlock
<1>14. CASE EmitsReason(event)
  <2>1. PICK x \in WireFrames : x.f \in Reason /\ AllShut /\ ClosesFirst(x)
    BY <1>14 DEF EmitsReason
  <2> QED
    BY <1>6, <1>8, <1>14, <2>1 DEF EmitsReason, AllShut, Reason
<1>15. CASE EmitsDone(event)
  <2>1. ASSUME NEW x \in WireFrames, x.f = "end", wire' = <<x>>, SameBlock PROVE Within'
    <3>1. Head(wire') = x
      BY <2>1, HeadIs
    <3>2. ~Shuts1'
      BY <1>5, <2>1, <3>1
    <3> QED
      BY <1>7, <1>15, <2>1, <3>2 DEF EmitsDone, SameBlock
  <2>2. ASSUME NEW x \in WireFrames, x.f = "end", ClosesFirst(x), AllShut PROVE Within'
    BY <1>8, <1>15, <2>2 DEF EmitsDone, AllShut
  <2> QED
    BY <1>6, <1>15, <2>1, <2>2 DEF EmitsDone
<1> QED
  BY <1>0, <1>9, <1>10, <1>11, <1>12, <1>13, <1>14, <1>15 DEF Emission, EmitsCall

\* The client reads a frame: what is left on the wire fits what it then has.
LEMMA BlockReads ==
  ASSUME Typed, Told, road[2] # "chat", Within, Entering, NEW frame \in WireFrames, ReadsOne(frame)
  PROVE  Within' /\ Entering'
<1>0. /\ wire # <<>> /\ frame = Head(wire) /\ wire' = Tail(wire) /\ wire \in Seq(WireFrames) /\ Chain(wire)
      /\ client'.block = (IF frame.f = "open" THEN frame.i
                          ELSE IF frame.f = "shut" /\ client.block = frame.i THEN None ELSE client.block)
      /\ UNCHANGED <<road, events, emitter>>
  BY DEF ReadsOne, Typed, Told, Reading
<1> PICK b : b = client.block
  OBVIOUS
<1> PICK c : c = client'.block
  OBVIOUS
<1>1. /\ (Shows(wire, {"open"}) <=> frame.f = "open" \/ Shows(wire', {"open"}))
      /\ (frame.f = "open" => ~Shows(wire', {"open"}) /\ wire' = <<>>)
  <2>1. \A fs : Shows(wire, fs) <=> (frame.f \in fs \/ Shows(wire', fs))
    BY <1>0, WireTail
  <2>2. wire' = <<>> \/ frame.f \in {"begin", "shut"}
    BY <1>0, WireTail
  <2>3. ~Shows(<<>>, {"open"})
    BY Short
  <2> QED
    BY <2>1, <2>2, <2>3
<1>2. ~Shuts1'
  <2>1. \A n \in DOMAIN wire' : wire'[n].f # "shut"
    <3>1. \A n \in DOMAIN Tail(wire) : Tail(wire)[n].f \in {"progress", "open", "why", "noted", "end"}
      BY <1>0, WireTail
    <3> QED
      BY <1>0, <3>1
  <2>2. wire' # <<>> => 1 \in DOMAIN wire' /\ Head(wire') = wire'[1]
    <3>1. wire' \in Seq(WireFrames)
      BY DEF ReadsOne
    <3> QED
      BY <3>1, TailIs
  <2> QED
    BY <2>1, <2>2 DEF Shuts1
<1>3. Shuts1 <=> frame.f = "shut"
  BY <1>0 DEF Shuts1
<1>4. ToEnd(b)' <=> ToEnd(b)
  BY <1>0 DEF ToEnd, Ends
<1>5. ASSUME NEW i, NEW o, InWire(i, o) PROVE Opened1(i, o) /\ IF Shuts1 THEN Head(wire).i = b ELSE b = None
  BY <1>5 DEF Entering
<1>6. Within'
  <2>1. CASE Shows(wire', {"open"})
    BY <2>1 DEF Within
  <2>2. CASE frame.f = "open"
    <3>1. InWire(frame.i, frame.o)
      BY <2>2, ReadsHas
    <3>2. emitter.open = frame.i
      BY <1>5, <3>1 DEF Opened1
    <3> QED
      BY <1>0, <1>2, <2>2, <3>2 DEF Within
  <2>3. CASE ~Shows(wire', {"open"}) /\ frame.f # "open"
    <3>1. ~Shows(wire, {"open"})
      BY <1>1, <2>3
    <3>2. IF Shuts1 THEN emitter.open = None /\ (b = None \/ Head(wire).i = b \/ ToEnd(b))
          ELSE emitter.open = b \/ (emitter.open = None /\ ToEnd(b))
      BY <3>1 DEF Within
    <3>3. emitter.open = c \/ (emitter.open = None /\ c = b /\ ToEnd(b))
      BY <1>0, <1>3, <2>3, <3>2
    <3>4. emitter'.open = c \/ (emitter'.open = None /\ ToEnd(c)')
      BY <1>0, <1>4, <3>3
    <3> QED
      BY <1>2, <3>4 DEF Within
  <2> QED
    BY <2>1, <2>2, <2>3
<1>7. Entering'
  <2>1. ASSUME NEW i, NEW o, InWire(i, o)' PROVE Opened1(i, o)' /\ c = None
    <3>1. InWire(i, o)
      BY <2>1, ReadsHas
    <3>2. Opened1(i, o) /\ IF Shuts1 THEN Head(wire).i = b ELSE b = None
      BY <1>5, <3>1
    <3>3. frame.f # "open"
      <4>1. Shows(wire', {"open"})
        BY <2>1 DEF InWire, Shows
      <4> QED
        BY <1>1, <4>1
    <3>4. c = None
      BY <1>0, <1>3, <3>2, <3>3
    <3> QED
      BY <1>0, <3>2, <3>4 DEF Opened1
  <2> QED
    BY <1>2, <2>1 DEF Entering
<1> QED
  BY <1>6, <1>7

\* The other steps leave the client and the emitter, and begin with an empty wire.
LEMMA BlockRests ==
  ASSUME Typed, OneStep, phase' # "switched", Within,
         ~\E event \in EventsOf : EmitsOne(event), ~\E frame \in WireFrames : ReadsOne(frame)
  PROVE  Within' /\ Entering' /\ emitter.open = client.block
<1>1. /\ Idle /\ UNCHANGED <<road, client, emitter>>
      /\ wire' = <<>> \/ \E x \in WireFrames : x.f \in {"end", "error"} /\ wire' = <<x>>
  BY RestingWire
<1>2. ~Shuts1' /\ (\A i, o : ~InWire(i, o)')
  <2>1. CASE wire' = <<>>
    BY <2>1 DEF Shuts1, InWire
  <2>2. ASSUME NEW x \in WireFrames, x.f \in {"end", "error"}, wire' = <<x>> PROVE ~Shuts1' /\ (\A i, o : ~InWire(i, o)')
    <3>1. Head(wire') = x
      BY <2>2, HeadIs
    <3>2. \A n \in DOMAIN wire' : wire'[n] = x
      BY <2>2
    <3> QED
      BY <2>2, <3>1, <3>2 DEF Shuts1, InWire
  <2> QED
    BY <1>1, <2>1, <2>2
<1>3. emitter.open = client.block
  <2>1. wire = <<>> /\ events = <<>> /\ ~Shuts1 /\ ~Shows(wire, {"open"})
    BY <1>1, Short DEF Idle, Shuts1
  <2>2. \A i : ~ToEnd(i)
    BY <2>1 DEF ToEnd, Ends
  <2> QED
    BY <2>1, <2>2 DEF Within
<1>4. Within'
  BY <1>1, <1>2, <1>3 DEF Within
<1>5. Entering'
  BY <1>2 DEF Entering
<1> QED
  BY <1>3, <1>4, <1>5

\* The item that the emitter has open is with the client, or on its way.
LEMMA OpenGivenStep ==
  ASSUME Typed, Told, road[2] # "chat", Entering, OpenGiven, OneStep, phase' # "switched"
  PROVE  OpenGiven'
<1> SUFFICES ASSUME NEW i, NEW o, Opened1(i, o)', i # None PROVE Has(i, o)'
  BY DEF OpenGiven
<1>1. CASE Resting
  <2>1. Opened1(i, o)
    BY <1>1 DEF Resting, Opened1
  <2>2. Has(i, o)
    BY <2>1 DEF OpenGiven
  <2>3. InClient(i, o)
    BY <1>1, <2>2, RestsHas DEF Has
  <2> QED
    BY <1>1, <2>3, RestsHas DEF Has
<1>2. ASSUME NEW event \in EventsOf, EmitsOne(event) PROVE Has(i, o)'
  <2>0. Emission(event) /\ wire = <<>>
    BY <1>2 DEF EmitsOne
  <2>1. CASE event.e = "ItemStart"
    <3>1. emitter'.open = event.i /\ emitter'.owner = event.o
      BY <2>0, <2>1 DEF Emission, EmitsStart, EmitsItem, EmitsCall, EmitsDelta, EmitsEnd, EmitsNothing, EmitsReason, EmitsDone
    <3>2. InWire(event.i, event.o)'
      BY <2>0, <2>1, EmitFrames DEF InWire
    <3> QED
      BY <3>1, <3>2 DEF Opened1, Has
  <2>2. CASE event.e # "ItemStart"
    <3>1. emitter'.open = None \/ (emitter'.open = emitter.open /\ emitter'.owner = emitter.owner)
      BY <2>0, <2>2 DEF Emission, EmitsStart, EmitsItem, EmitsCall, EmitsDelta, EmitsEnd, EmitsNothing, EmitsReason, EmitsDone,
         SameBlock, AllShut
    <3>2. Opened1(i, o)
      BY <3>1 DEF Opened1
    <3>3. Has(i, o)
      BY <3>2 DEF OpenGiven
    <3>4. InClient(i, o)'
      BY <1>2, <3>3, EmitsHas DEF Has
    <3> QED
      BY <3>4 DEF Has
  <2> QED
    BY <2>1, <2>2
<1>3. ASSUME NEW frame \in WireFrames, ReadsOne(frame) PROVE Has(i, o)'
  <2>1. Opened1(i, o)
    BY <1>3 DEF ReadsOne, Opened1
  <2>2. Has(i, o)
    BY <2>1 DEF OpenGiven
  <2>3. frame.f = "open" => InWire(frame.i, frame.o)
    BY <1>3, ReadsHas
  <2>4. frame.f = "open" => Opened1(frame.i, frame.o)
    BY <2>3 DEF Entering
  <2>5. frame.f = "open" /\ frame.i = i => frame.o = o
    BY <2>1, <2>4 DEF Opened1
  <2> QED
    BY <1>3, <2>2, <2>5, ReadsHas
<1> QED
  BY <1>1, <1>2, <1>3, Moves

(* ----------------- which item the upstream is speaking of -------------- *)

LEMMA NowIdle ==
  ASSUME Idle, NEW i
  PROVE  IsNow(i) <=> emitter.open = i
<1>1. \A e : ~Coming(events, e)
  BY EndsCome DEF Idle
<1> QED
  BY <1>1 DEF IsNow

\* What a frame makes of the item that is open.
LEMMA NowParsed ==
  ASSUME Typed, NEW frame \in UpFrames, Outcome(frame), Idle, emitter' = emitter
  PROVE  /\ (road[1] # "chat" /\ frame.f = "open" => IsNow(frame.i)')
         /\ (road[1] # "chat" /\ frame.f \notin {"open", "shut", "stop", "mark"} => \A i : IsNow(i) => IsNow(i)')
         /\ (Silent \/ Quietly(frame) \/ TextGoesOn(frame) \/ CallGoesOn(frame) => \A i : IsNow(i) => IsNow(i)')
         /\ (TextOpens(frame) \/ CallOpens(frame) => \A j : j = parser.next => IsNow(j)')
<1>1. ASSUME ~Coming(events', "ItemStart"), ~Coming(events', "ItemEnd"), ~Coming(events', "Finish"), NEW i, IsNow(i)
      PROVE  IsNow(i)'
  BY <1>1, NowIdle DEF IsNow
<1>2. ASSUME NEW n \in Nat, NEW k \in Kinds, NEW o \in OwnersOf, NEW opens \in BOOLEAN, Lists(Delta(n, k, o), opens)
      PROVE  /\ opens => IsNow(n)'
             /\ ~opens => \A i : IsNow(i) => IsNow(i)'
  <2>1. /\ (Coming(events', "ItemStart") <=> opens)
        /\ \A e : Coming(events', e) => e \in {"Start", "ItemStart", "Delta"}
        /\ \A m \in DOMAIN events' :
              events'[m] = Delta(n, k, o) \/ (events'[m].e = "Start") \/ (opens /\ events'[m] = StartOf(Delta(n, k, o)))
    BY <1>2, ListIs
  <2>2. /\ Delta(n, k, o).e = "Delta" /\ StartOf(Delta(n, k, o)).e = "ItemStart" /\ StartOf(Delta(n, k, o)).i = n
    BY DeltaIs
  <2>3. ~Coming(events', "ItemEnd") /\ ~Coming(events', "Finish")
    BY <2>1
  <2>4. \A m \in DOMAIN events' : events'[m].e = "ItemStart" => events'[m].i = n
    BY <2>1, <2>2
  <2>5. opens => IsNow(n)'
    BY <2>1, <2>4 DEF IsNow, StartsOnly
  <2>6. ~opens => \A i : IsNow(i) => IsNow(i)'
    BY <1>1, <2>1, <2>3
  <2> QED
    BY <2>5, <2>6
<1>3. road[1] # "chat" /\ frame.f = "open" => IsNow(frame.i)'
  <2> SUFFICES ASSUME road[1] # "chat", frame.f = "open" PROVE IsNow(frame.i)'
    OBVIOUS
  <2>1. Numbered1(frame)
    BY NumberedOutcome
  <2> DEFINE x == ItemStart(frame.i, frame.k, Owner(frame.k, frame.i))
  <2>2. events' = <<x>>
    BY <2>1 DEF Numbered1
  <2>3. x.e = "ItemStart" /\ x.i = frame.i
    BY DEF ItemStart
  <2> HIDE DEF x
  <2>4. 1 \in DOMAIN events' /\ \A m \in DOMAIN events' : events'[m] = x
    BY <2>2
  <2>5. Coming(events', "ItemStart") /\ \A m \in DOMAIN events' : events'[m].i = frame.i
    BY <2>3, <2>4 DEF Coming
  <2> QED
    BY <2>5 DEF IsNow, StartsOnly
<1>4. ASSUME road[1] # "chat", frame.f \notin {"open", "shut", "stop", "mark"}, NEW i, IsNow(i) PROVE IsNow(i)'
  <2>1. CASE Numbered1(frame)
    <3> DEFINE x == Delta(frame.i, frame.k, Owner(frame.k, frame.i))
    <3>1. events' = <<x>>
      BY <1>4, <2>1 DEF Numbered1
    <3>2. x.e = "Delta"
      BY DEF Delta
    <3> HIDE DEF x
    <3>3. \A m \in DOMAIN events' : events'[m].e = "Delta"
      BY <3>1, <3>2
    <3> QED
      BY <1>1, <1>4, <3>3 DEF Coming
  <2>2. CASE Silent
    BY <1>1, <1>4, <2>2, Written DEF Silent
  <2>3. CASE Quietly(frame)
    BY <1>1, <1>4, <2>3 DEF Quietly, OnlyOf, Coming
  <2> QED
    BY <1>4, <2>1, <2>2, <2>3 DEF Outcome, TextGoesOn, TextOpens, CallGoesOn, CallOpens, Finishes
<1>5. ASSUME Silent \/ Quietly(frame) \/ TextGoesOn(frame) \/ CallGoesOn(frame), NEW i, IsNow(i) PROVE IsNow(i)'
  <2>1. CASE Silent
    BY <1>1, <1>5, <2>1, Written DEF Silent
  <2>2. CASE Quietly(frame)
    BY <1>1, <1>5, <2>2 DEF Quietly, OnlyOf, Coming
  <2>3. CASE TextGoesOn(frame)
    <3> DEFINE n == parser.next - 1
               o == Owner(frame.k, 0)
               k == frame.k
    <3>1. Lists(Delta(n, k, o), FALSE) /\ n \in Nat /\ k \in Kinds /\ o \in OwnersOf /\ FALSE \in BOOLEAN
      BY <2>3, ParserNumbers DEF TextGoesOn
    <3> HIDE DEF n, o, k
    <3> QED
      BY <1>2, <1>5, <3>1
  <2>4. CASE CallGoesOn(frame)
    <3> DEFINE n == parser.tools[frame.i]
               o == Owner("ToolCall", frame.i)
               k == "ToolCall"
    <3>1. Lists(Delta(n, k, o), FALSE) /\ n \in Nat /\ k \in Kinds /\ o \in OwnersOf /\ FALSE \in BOOLEAN
      BY <2>4, ParserNumbers DEF CallGoesOn
    <3> HIDE DEF n, o, k
    <3> QED
      BY <1>2, <1>5, <3>1
  <2> QED
    BY <1>5, <2>1, <2>2, <2>3, <2>4
<1>6. ASSUME TextOpens(frame) \/ CallOpens(frame), NEW m, m = parser.next PROVE IsNow(m)'
  <2> DEFINE n == parser.next
             o == Owner(frame.k, 0)
             p == Owner("ToolCall", frame.i)
             k == frame.k
             l == "ToolCall"
  <2>1. Lists(Delta(n, k, o), TRUE) \/ Lists(Delta(n, l, p), TRUE)
    BY <1>6 DEF TextOpens, CallOpens
  <2>2. n \in Nat /\ k \in Kinds /\ l \in Kinds /\ o \in OwnersOf /\ p \in OwnersOf /\ TRUE \in BOOLEAN
    BY ParserNumbers
  <2>3. Lists(Delta(m, k, o), TRUE) \/ Lists(Delta(m, l, p), TRUE)
    BY <1>6, <2>1
  <2>4. m \in Nat
    BY <1>6, <2>2
  <2> HIDE DEF n, o, p, k, l
  <2> QED
    BY <1>2, <2>2, <2>3, <2>4
<1> QED
  BY <1>3, <1>4, <1>5, <1>6

LEMMA CurrentGrows ==
  ASSUME Typed, NEW frame \in UpFrames, arrived' = Append(arrived, frame), \A i : IsNow(i) => IsNow(i)',
         NEW i, NEW n \in 0 .. Len(arrived)
  PROVE  /\ (Current(n, i) => Current(n, i)')
         /\ (Current(n, i) /\ n = Len(arrived) /\ frame.f \notin Ending => Current(n + 1, i)')
         /\ (n = Len(arrived) /\ frame.f = "open" /\ frame.i = i => Current(n + 1, i)')
<1>0. /\ Len(arrived) \in Nat /\ DOMAIN arrived = 1 .. Len(arrived) /\ n \in Nat /\ n <= Len(arrived)
      /\ \A m \in DOMAIN arrived : arrived'[m] = arrived[m]
      /\ arrived'[Len(arrived) + 1] = frame
  BY Grown
<1>1. \A m \in 1 .. n : arrived'[m] = arrived[m]
  BY <1>0
<1>2. Current(n, i) => Current(n, i)'
  <2>1. ASSUME NEW m \in 1 .. n, arrived[m].f = "open", arrived[m].i = i, \A l \in m + 1 .. n : arrived[l].f \notin Ending
        PROVE  Current(n, i)'
    <3>1. \A l \in m + 1 .. n : arrived'[l] = arrived[l]
      BY <1>0, <1>1
    <3> QED
      BY <1>1, <2>1, <3>1 DEF Current
  <2>2. ASSUME \A l \in 1 .. n : arrived[l].f \notin Ending, IsNow(i) PROVE Current(n, i)'
    BY <1>1, <2>2 DEF Current
  <2> QED
    BY <2>1, <2>2 DEF Current
<1>3. ASSUME Current(n, i), n = Len(arrived), frame.f \notin Ending PROVE Current(n + 1, i)'
  <2>0. arrived'[n + 1] = frame
    BY <1>0, <1>3
  <2>1. ASSUME NEW m \in 1 .. n, arrived[m].f = "open", arrived[m].i = i, \A l \in m + 1 .. n : arrived[l].f \notin Ending
        PROVE  Current(n + 1, i)'
    <3>1. \A l \in m + 1 .. n + 1 : arrived'[l].f \notin Ending
      BY <1>0, <1>1, <1>3, <2>0, <2>1
    <3>2. m \in 1 .. n + 1 /\ arrived'[m] = arrived[m]
      BY <1>0, <1>1
    <3> QED
      BY <2>1, <3>1, <3>2 DEF Current
  <2>2. ASSUME \A l \in 1 .. n : arrived[l].f \notin Ending, IsNow(i) PROVE Current(n + 1, i)'
    <3>1. \A l \in 1 .. n + 1 : arrived'[l].f \notin Ending
      BY <1>0, <1>1, <1>3, <2>0, <2>2
    <3> QED
      BY <2>2, <3>1 DEF Current
  <2> QED
    BY <1>3, <2>1, <2>2 DEF Current
<1>4. ASSUME n = Len(arrived), frame.f = "open", frame.i = i PROVE Current(n + 1, i)'
  <2>1. n + 1 \in 1 .. n + 1 /\ arrived'[n + 1] = frame /\ \A l \in (n + 1) + 1 .. n + 1 : FALSE
    BY <1>0, <1>4
  <2> QED
    BY <1>4, <2>1 DEF Current
<1> QED
  BY <1>2, <1>3, <1>4

LEMMA CurrentShrinks ==
  ASSUME Typed, arrived # <<>>, arrived' = Tail(arrived), NEW i, NEW n \in 0 .. Len(arrived) - 1, Current(n + 1, i),
         arrived[1].f = "open" /\ arrived[1].i = i => IsNow(i)',
         arrived[1].f \notin Ending /\ IsNow(i) => IsNow(i)'
  PROVE  Current(n, i)'
<1>0. /\ Len(arrived) \in Nat /\ DOMAIN arrived = 1 .. Len(arrived) /\ n \in Nat /\ n + 1 <= Len(arrived)
      /\ \A m \in 1 .. n : arrived'[m] = arrived[m + 1]
  <2>1. Len(arrived) \in Nat \ {0} /\ DOMAIN arrived = 1 .. Len(arrived)
    BY ChunkTail
  <2>2. DOMAIN arrived' = 1 .. Len(arrived) - 1 /\ \A m \in DOMAIN arrived' : arrived'[m] = arrived[m + 1]
    BY TailIs DEF Typed
  <2> QED
    BY <2>1, <2>2
<1>1. ASSUME NEW m \in 1 .. n + 1, arrived[m].f = "open", arrived[m].i = i, \A l \in m + 1 .. n + 1 : arrived[l].f \notin Ending
      PROVE  Current(n, i)'
  <2>1. CASE m = 1
    <3>1. \A l \in 1 .. n : l + 1 \in m + 1 .. n + 1
      BY <1>0, <2>1
    <3>2. \A l \in 1 .. n : arrived'[l].f \notin Ending
      BY <1>0, <1>1, <3>1
    <3> QED
      BY <1>1, <2>1, <3>2 DEF Current
  <2>2. CASE m # 1
    <3>1. m - 1 \in 1 .. n /\ arrived'[m - 1] = arrived[m]
      BY <1>0, <2>2
    <3>2. \A l \in (m - 1) + 1 .. n : l \in 1 .. n /\ l + 1 \in m + 1 .. n + 1
      BY <1>0
    <3>3. \A l \in (m - 1) + 1 .. n : arrived'[l].f \notin Ending
      BY <1>0, <1>1, <3>2
    <3> QED
      BY <1>1, <3>1, <3>3 DEF Current
  <2> QED
    BY <2>1, <2>2
<1>2. ASSUME \A l \in 1 .. n + 1 : arrived[l].f \notin Ending, IsNow(i) PROVE Current(n, i)'
  <2>1. \A l \in 1 .. n : l + 1 \in 1 .. n + 1
    BY <1>0
  <2>2. \A l \in 1 .. n : arrived'[l].f \notin Ending
    BY <1>0, <1>2, <2>1
  <2>3. IsNow(i)'
    BY <1>0, <1>2
  <2> QED
    BY <2>2, <2>3 DEF Current
<1> QED
  BY <1>1, <1>2 DEF Current

LEMMA NumberStep ==
  ASSUME Typed, Told, road[2] # "chat", LastShut, ByNumber, OneStep, phase' # "switched"
  PROVE  ByNumber'
<1> SUFFICES ASSUME road[1] # "chat", Live, Live' PROVE ByNumber'
  BY RoadStays, StaysLive DEF ByNumber
<1> PICK l : l = Len(arrived)
  OBVIOUS
<1>0. /\ l \in Nat /\ DOMAIN arrived = 1 .. l /\ Len(up.items) \in Nat
      /\ \A n \in 1 .. l : \A i : arrived[n].f \in {"piece", "shut"} /\ arrived[n].i = i => Current(n - 1, i)
      /\ \A i : up.open /\ ~up.stopped /\ i = Len(up.items) - 1 => Current(l, i)
  <2>1. arrived \in Seq(UpFrames) /\ up.items \in Seq(Kinds)
    BY DEF Typed, IsUp
  <2>2. l \in Nat /\ DOMAIN arrived = 1 .. l /\ Len(up.items) \in Nat
    BY ONLY <2>1, l = Len(arrived)
  <2> QED
    BY <2>2 DEF ByNumber
<1>1. ASSUME NEW frame \in UpFrames, Talks(frame) PROVE ByNumber'
  <2>0. arrived' = Append(arrived, frame) /\ \A i : IsNow(i) => IsNow(i)'
    BY <1>1 DEF Talks, IsNow, StartsOnly
  <2>1. /\ DOMAIN arrived' = 1 .. l + 1 /\ Len(arrived') = l + 1 /\ \A n \in 1 .. l : arrived'[n] = arrived[n]
        /\ arrived'[l + 1] = frame
    BY <1>0, <2>0, Grown
  <2>2. ASSUME NEW n \in DOMAIN arrived', NEW i, arrived'[n].f \in {"piece", "shut"}, arrived'[n].i = i
        PROVE  Current(n - 1, i)'
    <3>1. CASE n \in 1 .. l
      <4>1. Current(n - 1, i)
        BY <1>0, <2>1, <2>2, <3>1
      <4>2. n - 1 \in 0 .. l
        BY <1>0, <3>1
      <4> QED
        BY <2>0, <4>1, <4>2, CurrentGrows
    <3>2. CASE n = l + 1
      <4>1. up.open /\ ~up.stopped /\ i = Len(up.items) - 1
        BY <1>1, <2>1, <2>2, <3>2 DEF Talks, Text1, Call1, Begins1, Item1, Piece1, Shut1, Stop1, Other1
      <4>2. Current(l, i)
        BY <1>0, <4>1
      <4>3. l \in 0 .. l /\ n - 1 = l
        BY <1>0, <3>2
      <4> QED
        BY <2>0, <4>2, <4>3, CurrentGrows
    <3> QED
      BY <1>0, <2>1, <3>1, <3>2
  <2>3. ASSUME up'.open, ~up'.stopped, NEW i, i = Len(up'.items) - 1 PROVE Current(l + 1, i)'
    <3>0. l \in 0 .. l /\ l = Len(arrived)
      BY <1>0
    <3>1. CASE Item1(frame)
      <4>1. frame.f = "open" /\ up'.items = Append(up.items, frame.k) /\ frame.i = Len(up.items)
        BY <3>1 DEF Item1
      <4>2. Len(up'.items) = Len(up.items) + 1
        BY <4>1, AppendIs DEF Typed, IsUp, UpFrames
      <4>3. frame.i = i
        BY <1>0, <2>3, <4>1, <4>2
      <4> QED
        BY <2>0, <3>0, <4>1, <4>3, CurrentGrows
    <3>2. CASE ~Item1(frame)
      <4>1. up.open /\ ~up.stopped /\ up'.items = up.items /\ frame.f \notin Ending
        BY <1>1, <2>3, <3>2 DEF Talks, Text1, Call1, Begins1, Item1, Piece1, Shut1, Stop1, Other1, Rests, Ending
      <4>2. Current(l, i)
        BY <1>0, <2>3, <4>1
      <4> QED
        BY <2>0, <3>0, <4>1, <4>2, CurrentGrows
    <3> QED
      BY <3>1, <3>2
  <2> QED
    BY <2>1, <2>2, <2>3 DEF ByNumber
<1>2. ASSUME NEW frame \in UpFrames, Parses(frame) PROVE ByNumber'
  <2>0. /\ arrived # <<>> /\ arrived' = Tail(arrived) /\ frame = arrived[1] /\ up' = up /\ Outcome(frame) /\ Idle
        /\ emitter' = emitter
    BY <1>2 DEF Parses
  <2>1. /\ l >= 1 /\ DOMAIN arrived' = 1 .. l - 1 /\ Len(arrived') = l - 1 /\ \A n \in 1 .. l - 1 : arrived'[n] = arrived[n + 1]
    <3>1. Len(arrived) \in Nat \ {0}
      BY <2>0, ChunkTail
    <3>2. DOMAIN arrived' = 1 .. Len(arrived) - 1 /\ Len(arrived') = Len(arrived) - 1 /\ \A n \in DOMAIN arrived' : arrived'[n] = arrived[n + 1]
      BY <2>0, TailIs DEF Typed
    <3> QED
      BY <3>1, <3>2
  <2>2. /\ (frame.f = "open" => IsNow(frame.i)')
        /\ (frame.f \notin {"open", "shut", "stop", "mark"} => \A i : IsNow(i) => IsNow(i)')
    BY <2>0, NowParsed
  <2>3. ASSUME NEW n \in 0 .. l - 1, NEW i, Current(n + 1, i), frame.f # "mark" PROVE Current(n, i)'
    <3>1. arrived[1].f = "open" /\ arrived[1].i = i => IsNow(i)'
      BY <2>0, <2>2
    <3>2. arrived[1].f \notin Ending /\ IsNow(i) => IsNow(i)'
      BY <2>0, <2>2, <2>3 DEF Ending
    <3>3. n \in 0 .. Len(arrived) - 1
      OBVIOUS
    <3> QED
      BY <2>0, <2>3, <3>1, <3>2, <3>3, CurrentShrinks
  <2>4. ASSUME NEW n \in DOMAIN arrived', NEW i, arrived'[n].f \in {"piece", "shut"}, arrived'[n].i = i
        PROVE  Current(n - 1, i)'
    <3>1. n \in 1 .. l - 1 /\ n + 1 \in 1 .. l /\ (n + 1) - 1 = n /\ n - 1 \in 0 .. l - 1 /\ (n - 1) + 1 = n /\ 1 < n + 1
      BY <1>0, <2>1
    <3>2. arrived[n + 1].f \in {"piece", "shut"} /\ arrived[n + 1].i = i
      BY <2>1, <2>4, <3>1
    <3>3. Current(n, i)
      BY <1>0, <3>1, <3>2
    <3>4. frame.f # "mark"
      <4>1. 1 \in DOMAIN arrived /\ n + 1 \in DOMAIN arrived
        BY <1>0, <2>1, <3>1
      <4> QED
        BY <2>0, <3>1, <3>2, <4>1 DEF Told, Arrivals, Content
    <3>5. Current((n - 1) + 1, i)
      BY <3>1, <3>3
    <3> QED
      BY <2>3, <3>1, <3>4, <3>5
  <2>5. ASSUME up.open, ~up.stopped, NEW i, i = Len(up.items) - 1 PROVE Current(l - 1, i)'
    <3>1. Current(l, i)
      BY <1>0, <2>5
    <3>2. frame.f # "mark"
      <4>1. 1 \in DOMAIN arrived
        BY <1>0, <2>1
      <4> QED
        BY <2>0, <2>5, <4>1 DEF Told, Arrivals
    <3>3. l - 1 \in 0 .. l - 1 /\ (l - 1) + 1 = l
      BY <1>0, <2>1
    <3>4. Current((l - 1) + 1, i)
      BY <3>1, <3>3
    <3> QED
      BY <2>3, <3>2, <3>3, <3>4
  <2> QED
    BY <2>0, <2>1, <2>4, <2>5 DEF ByNumber
<1>3. CASE ~(\E frame \in UpFrames : Parses(frame)) /\ ~(\E frame \in UpFrames : Talks(frame))
  <2>1. ~Closes
    BY DEF Closes, Live
  <2>2. ASSUME NEW i, IsNow(i) PROVE IsNow(i)'
    BY <1>3, <2>1, <2>2, NowStays
  <2>3. /\ arrived' = arrived /\ up'.items = up.items /\ up'.open = up.open /\ up'.stopped = up.stopped
    BY <1>3, <2>1 DEF OneStep, Quits, Fails, Switch, Full, Trails, EmitsOne, ReadsOne, Rests, Live
  <2>4. ASSUME NEW n, NEW i, Current(n, i) PROVE Current(n, i)'
    BY <2>2, <2>3, <2>4 DEF Current
  <2>5. ASSUME NEW n \in DOMAIN arrived', NEW i, arrived'[n].f \in {"piece", "shut"}, arrived'[n].i = i
        PROVE  Current(n - 1, i)'
    <3>1. Current(n - 1, i)
      BY <1>0, <2>3, <2>5
    <3> QED
      BY <2>4, <3>1
  <2>6. ASSUME up'.open, ~up'.stopped, NEW i, i = Len(up'.items) - 1 PROVE Current(l, i)'
    <3>1. Current(l, i)
      BY <1>0, <2>3, <2>6
    <3> QED
      BY <2>4, <3>1
  <2>7. Len(arrived') = l
    BY <2>3
  <2> QED
    BY <2>5, <2>6, <2>7 DEF ByNumber
<1> QED
  BY <1>1, <1>2, <1>3

(* What a Chat upstream speaks of: its text first, then one call after the other. *)

LEMMA SlotFacts ==
  ASSUME Typed, Prefix
  PROVE  /\ \A t \in Slots : parser.tools[t] # None => t < Len(up.items)
         /\ (NoCalls => parser.next = One(parser.textOpen))
         /\ (~NoCalls => \E s \in Slots : Newest1(s))
<1> PICK l : l = Len(up.items)
  OBVIOUS
<1>0. l \in Nat /\ l <= MaxItems /\ MaxItems \in Nat
  BY TranslationAssumption DEF Typed, IsUp
<1>1. PICK k \in 0 .. l : (\A s \in Slots : parser.tools[s] # None <=> s < k) /\ parser.next = k + One(parser.textOpen)
  BY DEF Prefix
<1>2. \A t \in Slots : parser.tools[t] # None => t < l
  BY <1>0, <1>1 DEF Slots
<1>3. k > 0 => k - 1 \in Slots /\ Newest1(k - 1) /\ ~NoCalls
  <2> SUFFICES ASSUME k > 0 PROVE k - 1 \in Slots /\ Newest1(k - 1) /\ ~NoCalls
    OBVIOUS
  <2>1. k - 1 \in Slots /\ k - 1 < k
    BY <1>0 DEF Slots
  <2>2. parser.tools[k - 1] # None
    BY <1>1, <2>1
  <2>3. \A t \in Slots : t > k - 1 => ~(t < k)
    BY <1>0 DEF Slots
  <2> QED
    BY <1>1, <2>1, <2>2, <2>3 DEF Newest1, NoCalls
<1>4. k = 0 => NoCalls /\ parser.next = One(parser.textOpen)
  <2> SUFFICES ASSUME k = 0 PROVE NoCalls /\ parser.next = One(parser.textOpen)
    OBVIOUS
  <2>1. \A s \in Slots : ~(s < 0)
    BY <1>0 DEF Slots
  <2>2. One(parser.textOpen) \in Nat
    BY DueIsNat
  <2> QED
    BY <1>1, <2>1, <2>2 DEF NoCalls
<1>5. k = 0 \/ k > 0
  BY <1>0
<1> QED
  BY <1>2, <1>3, <1>4, <1>5

\* The upstream says something: text while there is no call, a piece of the newest call or the next.
LEMMA SpokenTalks ==
  ASSUME Typed, Told, Numbers, road[1] = "chat", ~parser.finished, Spoken1, NEW frame \in UpFrames, Talks(frame),
         up'.orderly
  PROVE  Spoken1'
<1>0. /\ UNCHANGED <<road, parser, events, emitter, wire, client>> /\ arrived' = Append(arrived, frame)
      /\ Prefix /\ InTurn
  BY DEF Talks, Numbers, Slotting
<1> PICK l : l = Len(arrived)
  OBVIOUS
<1> PICK u : u = Len(up.items)
  OBVIOUS
<1>1. /\ l \in Nat /\ DOMAIN arrived = 1 .. l /\ DOMAIN arrived' = 1 .. l + 1
      /\ \A n \in 1 .. l : arrived'[n] = arrived[n]
      /\ arrived'[l + 1] = frame /\ u \in Nat
  BY <1>0, Grown DEF Typed, IsUp
<1>2. /\ \A i : IsNow(i)' <=> IsNow(i)
      /\ \A i, o : Given(i, o)' <=> Given(i, o)
      /\ (NoCalls' <=> NoCalls) /\ \A s : Newest1(s)' <=> Newest1(s)
  BY <1>0 DEF IsNow, StartsOnly, Given, InEvents, InWire, InClient, NoCalls, Newest1
<1>3. /\ \A n \in 1 .. l : (Prose(n)' <=> Prose(n)) /\ \A s : Call(n, s)' <=> Call(n, s)
      /\ (Prose(l + 1)' <=> frame.f = "piece" /\ frame.k # "ToolCall")
      /\ \A s : Call(l + 1, s)' <=> frame.f = "piece" /\ frame.k = "ToolCall" /\ frame.i = s
  BY <1>1 DEF Prose, Call
<1>4. /\ (frame.f = "piece" /\ frame.k # "ToolCall" => u = 0 /\ up'.text = frame.k /\ up.text \in {"none", frame.k})
      /\ (frame.f = "piece" /\ frame.k = "ToolCall" => u - 1 <= frame.i /\ frame.i \in Nat)
      /\ (~(frame.f = "piece" /\ frame.k # "ToolCall") => up'.text = up.text)
  <2>1. frame.i \in Nat
    BY DEF UpFrames
  <2>2. up.items = <<>> => u = 0
    OBVIOUS
  <2> QED
    BY <2>1, <2>2 DEF Talks, Text1, Call1, Begins1, Item1, Piece1, Shut1, Stop1, Other1, Rests
<1>5. /\ \A t \in Slots : parser.tools[t] # None => t < u
      /\ \A n \in 1 .. l : \A s \in Slots : Call(n, s) => s < u
      /\ Slots \subseteq Nat
      /\ \A n \in 1 .. l : \A s : Call(n, s) => s \in Slots
  <2>1. Slots \subseteq Nat
    BY TranslationAssumption DEF Slots
  <2>2. \A t \in Slots : parser.tools[t] # None => t < u
    BY <1>0, SlotFacts
  <2>3. \A n \in 1 .. l : \A s \in Slots : Call(n, s) => s < u
    BY <1>0, <1>1 DEF InTurn
  <2>4. \A n \in 1 .. l : \A s : Call(n, s) => s \in Slots
    BY <1>1 DEF Call, Typed, Speaks
  <2> QED
    BY <2>1, <2>2, <2>3, <2>4
<1>6. NewestNow'
  BY <1>0, <1>2 DEF Spoken1, NewestNow
<1>7. TextNow'
  BY <1>0, <1>2 DEF Spoken1, TextNow
<1>8. TextGiven'
  <2>1. parser.textOpen => up'.text = up.text
    BY <1>4 DEF Spoken1, TextGiven
  <2> QED
    BY <1>0, <1>2, <2>1 DEF Spoken1, TextGiven
<1>9. TextFirst'
  <2> SUFFICES ASSUME NEW n \in 1 .. l + 1, Prose(n)'
               PROVE  arrived'[n].k = up'.text /\ NoCalls /\ \A m \in 1 .. l + 1 : \A s : m < n => ~Call(m, s)'
    BY <1>1, <1>2 DEF TextFirst
  <2>1. CASE n \in 1 .. l
    <3>1. Prose(n)
      BY <1>3, <2>1
    <3>2. arrived[n].k = up.text /\ NoCalls /\ \A m \in 1 .. l : \A s : m < n => ~Call(m, s)
      BY <1>1, <2>1, <3>1 DEF Spoken1, TextFirst
    <3>3. up'.text = up.text
      <4>1. arrived[n].k \in Kinds
        <5>1. arrived \in Seq(UpFrames)
          BY DEF Typed
        <5>2. arrived[n] \in UpFrames
          BY <1>1, <2>1, <5>1
        <5> QED
          BY <5>2 DEF UpFrames
      <4>2. up.text # "none"
        BY <3>2, <4>1 DEF Kinds
      <4> QED
        BY <1>4, <4>2
    <3>4. \A m \in 1 .. l + 1 : m < n => m \in 1 .. l
      BY <1>1, <2>1
    <3> QED
      BY <1>1, <1>3, <2>1, <3>2, <3>3, <3>4
  <2>2. CASE n = l + 1
    <3>1. frame.f = "piece" /\ frame.k # "ToolCall"
      BY <1>3, <2>2
    <3>2. u = 0 /\ up'.text = frame.k
      BY <1>4, <3>1
    <3>3. NoCalls
      BY <1>5, <3>2 DEF NoCalls
    <3>4. \A m \in 1 .. l : \A s : ~Call(m, s)
      <4> SUFFICES ASSUME NEW m \in 1 .. l, NEW s, Call(m, s) PROVE FALSE
        OBVIOUS
      <4>1. s \in Slots
        BY <1>5
      <4>2. s < u /\ s \in Nat
        <5>1. s < u
          BY <1>5, <4>1
        <5>2. s \in Nat
          BY <1>5, <4>1
        <5> QED
          BY <5>1, <5>2
      <4> QED
        BY <3>2, <4>2
    <3>5. \A m \in 1 .. l + 1 : m < n => m \in 1 .. l
      BY <1>1, <2>2
    <3> QED
      BY <1>1, <1>3, <2>2, <3>2, <3>3, <3>4, <3>5
  <2> QED
    BY <1>1, <2>1, <2>2
<1>10. CallsLast'
  <2> SUFFICES ASSUME NEW n \in 1 .. l + 1, NEW s \in Slots, Call(n, s)'
               PROVE  /\ \A t \in Slots : parser.tools[t] # None => t <= s
                      /\ \A m \in 1 .. l + 1 : \A t : m < n /\ Call(m, t)' => t <= s
    BY <1>0, <1>1 DEF CallsLast
  <2>1. CASE n \in 1 .. l
    <3>1. Call(n, s)
      BY <1>3, <2>1
    <3>2. /\ \A t \in Slots : parser.tools[t] # None => t <= s
          /\ \A m \in 1 .. l : \A t : m < n /\ Call(m, t) => t <= s
      BY <1>1, <2>1, <3>1 DEF Spoken1, CallsLast
    <3>3. \A m \in 1 .. l + 1 : m < n => m \in 1 .. l
      BY <1>1, <2>1
    <3> QED
      BY <1>3, <3>2, <3>3
  <2>2. CASE n = l + 1
    <3>1. frame.f = "piece" /\ frame.k = "ToolCall" /\ frame.i = s
      BY <1>3, <2>2
    <3>2. u - 1 <= s /\ s \in Nat
      BY <1>4, <3>1
    <3>3. \A t \in Slots : t < u => t <= s
      BY <1>1, <1>5, <3>2
    <3>4. \A t \in Slots : parser.tools[t] # None => t <= s
      BY <1>5, <3>3
    <3>5. \A m \in 1 .. l : \A t : Call(m, t) => t <= s
      BY <1>5, <3>3
    <3>6. \A m \in 1 .. l + 1 : m < n => m \in 1 .. l
      BY <1>1, <2>2
    <3> QED
      BY <1>3, <3>4, <3>5, <3>6
  <2> QED
    BY <1>1, <2>1, <2>2
<1> QED
  BY <1>6, <1>7, <1>8, <1>9, <1>10 DEF Spoken1

\* What was second in the chunk is now first.
LEMMA Shifted ==
  ASSUME Typed, arrived # <<>>, arrived' = Tail(arrived)
  PROVE  /\ \A n \in DOMAIN arrived' :
              /\ n \in Nat /\ n + 1 \in DOMAIN arrived /\ 1 < n + 1 /\ arrived'[n] = arrived[n + 1]
              /\ (Prose(n)' <=> Prose(n + 1)) /\ \A s : Call(n, s)' <=> Call(n + 1, s)
         /\ 1 \in DOMAIN arrived /\ DOMAIN arrived \subseteq Nat
<1>1. /\ \A n \in DOMAIN arrived' : n \in Nat /\ n >= 1 /\ n + 1 \in DOMAIN arrived /\ arrived'[n] = arrived[n + 1]
      /\ 1 \in DOMAIN arrived
  BY ChunkTail
<1>2. \A n \in Nat : n >= 1 => 1 < n + 1
  OBVIOUS
<1>3. DOMAIN arrived \subseteq Nat
  BY DEF Typed
<1> QED
  BY <1>1, <1>2, <1>3 DEF Prose, Call

\* The parser reads a piece: the text comes first, and a call that is new is the newest.
LEMMA SpokenParses ==
  ASSUME Typed, Told, Numbers, road[1] = "chat", ~parser.finished, Spoken1, OneStep, phase' # "switched",
         NEW frame \in UpFrames, Parses(frame), ~parser'.finished
  PROVE  Spoken1'
<1>0. /\ arrived # <<>> /\ arrived' = Tail(arrived) /\ frame = arrived[1] /\ up' = up /\ Outcome(frame) /\ Idle
      /\ emitter' = emitter /\ ~parser.done /\ Prefix
  BY DEF Parses, Told, Knows, Numbers, Slotting
<1>1. /\ \A n \in DOMAIN arrived' :
           /\ n \in Nat /\ n + 1 \in DOMAIN arrived /\ 1 < n + 1 /\ arrived'[n] = arrived[n + 1]
           /\ (Prose(n)' <=> Prose(n + 1)) /\ \A s : Call(n, s)' <=> Call(n + 1, s)
      /\ 1 \in DOMAIN arrived /\ DOMAIN arrived \subseteq Nat
  BY <1>0, Shifted
<1>2. ASSUME NEW i, NEW o, Given(i, o) PROVE Given(i, o)'
  BY <1>2, GivenStays, RoadIs DEF Numbers
<1>3. Slots \subseteq Nat /\ parser.next \in Nat
  BY TranslationAssumption DEF Slots, Typed, IsParser
<1>4. \A m, n \in Nat : m < n => m + 1 < n + 1
  OBVIOUS
<1>5. ASSUME parser'.tools = parser.tools PROVE TextFirst' /\ CallsLast'
  <2>0. NoCalls' <=> NoCalls
    BY <1>5 DEF NoCalls
  <2>1. ASSUME NEW n \in DOMAIN arrived', Prose(n)'
        PROVE  arrived'[n].k = up'.text /\ NoCalls' /\ \A m \in DOMAIN arrived' : \A s : m < n => ~Call(m, s)'
    <3>1. n + 1 \in DOMAIN arrived /\ Prose(n + 1)
      BY <1>1, <2>1
    <3>2. arrived[n + 1].k = up.text /\ NoCalls /\ \A m \in DOMAIN arrived : \A s : m < n + 1 => ~Call(m, s)
      BY <3>1 DEF Spoken1, TextFirst
    <3>3. \A m \in DOMAIN arrived' : m < n => m + 1 < n + 1
      BY <1>1, <1>4
    <3> QED
      BY <1>0, <1>1, <2>0, <3>2, <3>3
  <2>2. ASSUME NEW n \in DOMAIN arrived', NEW s \in Slots, Call(n, s)'
        PROVE  /\ \A t \in Slots : parser'.tools[t] # None => t <= s
               /\ \A m \in DOMAIN arrived' : \A t : m < n /\ Call(m, t)' => t <= s
    <3>1. n + 1 \in DOMAIN arrived /\ Call(n + 1, s)
      BY <1>1, <2>2
    <3>2. /\ \A t \in Slots : parser.tools[t] # None => t <= s
          /\ \A m \in DOMAIN arrived : \A t : m < n + 1 /\ Call(m, t) => t <= s
      BY <3>1 DEF Spoken1, CallsLast
    <3>3. \A m \in DOMAIN arrived' : m < n => m + 1 < n + 1
      BY <1>1, <1>4
    <3> QED
      BY <1>1, <1>5, <3>2, <3>3
  <2> QED
    BY <2>1, <2>2 DEF TextFirst, CallsLast
<1>6. CASE Silent \/ Quietly(frame) \/ TextGoesOn(frame) \/ CallGoesOn(frame)
  <2>1. parser'.tools = parser.tools /\ (parser'.textOpen <=> parser.textOpen)
    BY <1>0, <1>6 DEF Silent, Quietly, TextGoesOn, CallGoesOn, SameParts
  <2>2. ASSUME NEW i, IsNow(i) PROVE IsNow(i)'
    BY <1>0, <1>6, <2>2, NowParsed
  <2>3. (NoCalls' <=> NoCalls) /\ \A s : Newest1(s)' <=> Newest1(s)
    BY <2>1 DEF NoCalls, Newest1
  <2>4. NewestNow'
    BY <2>1, <2>2, <2>3 DEF Spoken1, NewestNow
  <2>5. TextNow'
    BY <2>1, <2>2, <2>3 DEF Spoken1, TextNow
  <2>6. TextGiven'
    BY <1>0, <1>2, <2>1 DEF Spoken1, TextGiven
  <2> QED
    BY <1>5, <2>1, <2>4, <2>5, <2>6 DEF Spoken1
<1>7. CASE TextOpens(frame)
  <2>1. /\ parser'.tools = parser.tools /\ parser'.textOpen /\ ~parser.textOpen /\ frame.f = "piece" /\ frame.k # "ToolCall"
        /\ Lists(Delta(parser.next, frame.k, Owner(frame.k, 0)), TRUE)
    BY <1>7 DEF TextOpens
  <2>2. NoCalls /\ frame.k = up.text
    BY <1>0, <1>1, <2>1 DEF Spoken1, TextFirst, Prose
  <2>3. parser.next = 0
    BY <1>0, <2>1, <2>2, SlotFacts DEF One
  <2>4. NoCalls' /\ \A s \in Slots : ~Newest1(s)'
    BY <2>1, <2>2 DEF NoCalls, Newest1
  <2>5. IsNow(0)'
    <3>1. \A j : j = parser.next => IsNow(j)'
      BY <1>0, <1>7, NowParsed
    <3> QED
      BY <2>3, <3>1
  <2>6. ASSUME NEW o, o = Owner(up'.text, 0) PROVE Given(0, o)'
    <3> DEFINE i == 0
               k == frame.k
               q == Owner(frame.k, 0)
               opens == TRUE
    <3>0. opens /\ i = 0
      OBVIOUS
    <3>1. k \in Kinds /\ q \in OwnersOf /\ opens \in BOOLEAN /\ i \in Nat
      BY ParserNumbers
    <3>2. Lists(Delta(i, k, q), opens)
      BY <2>1, <2>3
    <3>3. o = q
      BY <1>0, <2>2, <2>6
    <3> HIDE DEF i, k, q, opens
    <3>4. /\ \A j, p : InEvents(j, p)' <=> opens /\ j = i /\ p = q
          /\ \A j, l, p : Event("Delta", j, l, p)' <=> j = i /\ l = k /\ p = q
          /\ (Coming(events', "ItemStart") <=> opens)
      BY <3>1, <3>2, ListHas
    <3>5. InEvents(0, q)'
      BY <3>0, <3>4
    <3> QED
      BY <3>3, <3>5 DEF Given
  <2>7. up'.text # "none"
    <3>1. frame.k \in Kinds
      BY DEF UpFrames
    <3> QED
      BY <1>0, <2>2, <3>1 DEF Kinds
  <2>8. NewestNow' /\ TextNow'
    BY <2>1, <2>4, <2>5 DEF NewestNow, TextNow
  <2>9. TextGiven'
    BY <2>6, <2>7 DEF TextGiven
  <2> QED
    BY <1>5, <2>1, <2>8, <2>9 DEF Spoken1
<1>8. CASE CallOpens(frame)
  <2> PICK s0 : s0 = frame.i
    OBVIOUS
  <2> PICK x : x = parser.next
    OBVIOUS
  <2>1. /\ frame.f = "piece" /\ frame.k = "ToolCall" /\ s0 \in Slots /\ parser.tools[s0] = None
        /\ parser'.tools = [parser.tools EXCEPT ![s0] = x] /\ (parser'.textOpen <=> parser.textOpen)
    BY <1>8 DEF CallOpens
  <2>2. Call(1, s0)
    BY <1>0, <2>1 DEF Call
  <2>3. \A t \in Slots : parser.tools[t] # None => t <= s0
    BY <1>1, <2>1, <2>2 DEF Spoken1, CallsLast
  <2>4. x \in Nat /\ x # None
    BY <1>3 DEF None
  <2>5. parser'.tools[s0] = x /\ \A t \in Slots : t # s0 => parser'.tools[t] = parser.tools[t]
    <3>1. parser.tools \in [Slots -> Nat \cup {None}]
      BY DEF Typed, IsParser
    <3> QED
      BY <2>1, <3>1
  <2>6. IsNow(x)'
    BY <1>0, <1>8, NowParsed
  <2>7. NewestNow'
    <3> SUFFICES ASSUME NEW s \in Slots, Newest1(s)' PROVE s = s0
      BY <2>5, <2>6 DEF NewestNow
    <3>1. parser'.tools[s] # None /\ \A t \in Slots : t > s => parser'.tools[t] = None
      BY DEF Newest1
    <3>2. ~(s0 > s)
      BY <2>1, <2>4, <2>5, <3>1
    <3>3. s # s0 => s <= s0
      BY <2>3, <2>5, <3>1
    <3>4. s \in Nat /\ s0 \in Nat
      BY <1>3, <2>1
    <3> QED
      BY <3>2, <3>3, <3>4
  <2>8. TextNow'
    BY <2>1, <2>4, <2>5 DEF TextNow, NoCalls
  <2>9. TextGiven'
    BY <1>0, <1>2, <2>1 DEF Spoken1, TextGiven
  <2>10. TextFirst'
    <3> SUFFICES ASSUME NEW n \in DOMAIN arrived', Prose(n)' PROVE FALSE
      BY DEF TextFirst
    <3>1. n + 1 \in DOMAIN arrived /\ Prose(n + 1) /\ 1 < n + 1
      BY <1>1
    <3>2. ~Call(1, s0)
      BY <1>1, <3>1 DEF Spoken1, TextFirst
    <3> QED
      BY <2>2, <3>2
  <2>11. CallsLast'
    <3> SUFFICES ASSUME NEW n \in DOMAIN arrived', NEW s \in Slots, Call(n, s)'
                 PROVE  /\ \A t \in Slots : parser'.tools[t] # None => t <= s
                        /\ \A m \in DOMAIN arrived' : \A t : m < n /\ Call(m, t)' => t <= s
      BY DEF CallsLast
    <3>1. n + 1 \in DOMAIN arrived /\ Call(n + 1, s) /\ 1 < n + 1
      BY <1>1
    <3>2. /\ \A t \in Slots : parser.tools[t] # None => t <= s
          /\ \A m \in DOMAIN arrived : \A t : m < n + 1 /\ Call(m, t) => t <= s
      BY <3>1 DEF Spoken1, CallsLast
    <3>3. \A m \in DOMAIN arrived' : m < n => m + 1 < n + 1
      BY <1>1, <1>4
    <3>4. s0 <= s
      BY <1>1, <2>2, <3>1, <3>2
    <3>5. \A t \in Slots : parser'.tools[t] # None => t <= s
      BY <2>5, <3>2, <3>4
    <3>6. \A m \in DOMAIN arrived' : \A t : m < n /\ Call(m, t)' => t <= s
      BY <1>1, <3>2, <3>3
    <3> QED
      BY <3>5, <3>6
  <2> QED
    BY <2>7, <2>8, <2>9, <2>10, <2>11 DEF Spoken1
<1>9. ~Numbered1(frame) /\ ~Finishes(frame)
  BY DEF Numbered1, Finishes
<1> QED
  BY <1>0, <1>6, <1>7, <1>8, <1>9 DEF Outcome

\* The other steps say nothing to the parser.
LEMMA SlotStays ==
  ASSUME Typed, Told, Numbers, LastShut, BySlot, OneStep, phase' # "switched", up'.orderly
  PROVE  BySlot'
<1> SUFFICES ASSUME road[1] = "chat", ~parser'.finished PROVE Spoken1'
  BY RoadStays DEF BySlot
<1>1. ~parser.finished /\ Spoken1
  BY SlottingStep DEF BySlot
<1>2. CASE \E frame \in UpFrames : Parses(frame)
  BY <1>1, <1>2, SpokenParses
<1>3. CASE \E frame \in UpFrames : Talks(frame)
  BY <1>1, <1>3, SpokenTalks
<1>4. CASE ~(\E frame \in UpFrames : Parses(frame)) /\ ~(\E frame \in UpFrames : Talks(frame))
  <2>1. /\ parser'.tools = parser.tools /\ (parser'.textOpen <=> parser.textOpen)
    <3>1. CASE Closes
      <4>1. Silent /\ ~parser.done
        BY <1>1, <3>1 DEF Closes, Finishes, Told, Knows
      <4> QED
        BY <4>1 DEF Silent
    <3>2. CASE ~Closes
      BY <1>4, <3>2, ParserRests
    <3> QED
      BY <3>1, <3>2
  <2>2. ASSUME NEW i, IsNow(i) PROVE IsNow(i)'
    <3>1. CASE Closes
      <4>1. Silent /\ Idle /\ emitter' = emitter /\ events' = <<>>
        BY <1>1, <3>1 DEF Closes, Finishes, Silent
      <4>2. emitter.open = i
        BY <2>2, <4>1, NowIdle
      <4> QED
        BY <4>1, <4>2 DEF IsNow, Coming
    <3>2. CASE ~Closes
      BY <1>4, <2>2, <3>2, NowStays, RoadIs
    <3> QED
      BY <3>1, <3>2
  <2>3. ASSUME NEW i, NEW o, Given(i, o) PROVE Given(i, o)'
    BY <2>3, GivenStays, RoadIs DEF Numbers
  <2>4. up'.text = up.text /\ (arrived' = arrived \/ arrived' = <<>>)
    <3>1. arrived' = arrived \/ arrived' = <<>>
      BY <1>4, ParserRests
    <3>2. up'.text = up.text
      BY <1>4 DEF OneStep, Quits, Fails, Switch, Full, Closes, Trails, EmitsOne, ReadsOne, Rests
    <3> QED
      BY <3>1, <3>2
  <2>5. (NoCalls' <=> NoCalls) /\ \A s : Newest1(s)' <=> Newest1(s)
    BY <2>1 DEF NoCalls, Newest1
  <2>6. NewestNow'
    BY <1>1, <2>1, <2>2, <2>5 DEF Spoken1, NewestNow
  <2>7. TextNow'
    BY <1>1, <2>1, <2>2, <2>5 DEF Spoken1, TextNow
  <2>8. TextGiven'
    BY <1>1, <2>1, <2>3, <2>4 DEF Spoken1, TextGiven
  <2>9. TextFirst' /\ CallsLast'
    <3>1. CASE arrived' = arrived
      BY <1>1, <2>1, <2>4, <2>5, <3>1 DEF Spoken1, TextFirst, CallsLast, Prose, Call
    <3>2. CASE arrived' = <<>>
      <4>1. DOMAIN arrived' = {}
        BY <3>2
      <4> QED
        BY <4>1 DEF TextFirst, CallsLast
    <3> QED
      BY <2>4, <3>1, <3>2
  <2> QED
    BY <2>6, <2>7, <2>8, <2>9 DEF Spoken1
<1> QED
  BY <1>2, <1>3, <1>4

\* An item is ended by the frame that says so, or when a Chat upstream finishes.
LEMMA EndsParsed ==
  ASSUME Typed, NEW frame \in UpFrames, Outcome(frame), Coming(events', "ItemEnd")
  PROVE  \/ Numbered1(frame) /\ frame.f = "shut"
         \/ Finishes(frame) /\ road[1] = "chat" /\ ~parser.finished
<1>1. ASSUME NEW n \in Nat, NEW k \in Kinds, NEW o \in OwnersOf, NEW opens \in BOOLEAN, Lists(Delta(n, k, o), opens)
      PROVE  FALSE
  <2>1. \A e : Coming(events', e) => e \in {"Start", "ItemStart", "Delta"}
    BY <1>1, ListIs
  <2> QED
    BY <2>1
<1>2. ~TextGoesOn(frame)
  <2> SUFFICES ASSUME TextGoesOn(frame) PROVE FALSE
    OBVIOUS
  <2> DEFINE n == parser.next - 1
             o == Owner(frame.k, 0)
             k == frame.k
             opens == FALSE
  <2>1. Lists(Delta(n, k, o), opens) /\ n \in Nat /\ k \in Kinds /\ o \in OwnersOf /\ opens \in BOOLEAN
    BY ParserNumbers DEF TextGoesOn
  <2> HIDE DEF n, o, k, opens
  <2> QED
    BY <1>1, <2>1
<1>3. ~TextOpens(frame)
  <2> SUFFICES ASSUME TextOpens(frame) PROVE FALSE
    OBVIOUS
  <2> DEFINE n == parser.next
             o == Owner(frame.k, 0)
             k == frame.k
             opens == TRUE
  <2>1. Lists(Delta(n, k, o), opens) /\ n \in Nat /\ k \in Kinds /\ o \in OwnersOf /\ opens \in BOOLEAN
    BY ParserNumbers DEF TextOpens
  <2> HIDE DEF n, o, k, opens
  <2> QED
    BY <1>1, <2>1
<1>4. ~CallGoesOn(frame)
  <2> SUFFICES ASSUME CallGoesOn(frame) PROVE FALSE
    OBVIOUS
  <2> DEFINE n == parser.tools[frame.i]
             o == Owner("ToolCall", frame.i)
             k == "ToolCall"
             opens == FALSE
  <2>1. Lists(Delta(n, k, o), opens) /\ n \in Nat /\ k \in Kinds /\ o \in OwnersOf /\ opens \in BOOLEAN
    BY ParserNumbers DEF CallGoesOn
  <2> HIDE DEF n, o, k, opens
  <2> QED
    BY <1>1, <2>1
<1>5. ~CallOpens(frame)
  <2> SUFFICES ASSUME CallOpens(frame) PROVE FALSE
    OBVIOUS
  <2> DEFINE n == parser.next
             o == Owner("ToolCall", frame.i)
             k == "ToolCall"
             opens == TRUE
  <2>1. Lists(Delta(n, k, o), opens) /\ n \in Nat /\ k \in Kinds /\ o \in OwnersOf /\ opens \in BOOLEAN
    BY ParserNumbers DEF CallOpens
  <2> HIDE DEF n, o, k, opens
  <2> QED
    BY <1>1, <2>1
<1>6. ~Silent
  BY Written DEF Silent
<1>7. ~Quietly(frame)
  BY DEF Quietly, OnlyOf, Coming
<1>8. Numbered1(frame) => frame.f = "shut"
  <2> SUFFICES ASSUME Numbered1(frame), frame.f # "shut" PROVE FALSE
    OBVIOUS
  <2> DEFINE x == Delta(frame.i, frame.k, Owner(frame.k, frame.i))
             y == ItemStart(frame.i, frame.k, Owner(frame.k, frame.i))
  <2>1. events' = <<x>> \/ events' = <<y>>
    BY DEF Numbered1
  <2>2. x.e # "ItemEnd" /\ y.e # "ItemEnd"
    BY DEF Delta, ItemStart
  <2> HIDE DEF x, y
  <2>3. \A n \in DOMAIN events' : events'[n] = x \/ events'[n] = y
    BY <2>1
  <2> QED
    BY <2>2, <2>3 DEF Coming
<1>9. Finishes(frame) => road[1] = "chat" /\ ~parser.finished
  BY DEF Finishes
<1> QED
  BY <1>2, <1>3, <1>4, <1>5, <1>6, <1>7, <1>8, <1>9 DEF Outcome

\* What ends is what is open.
LEMMA EndsOpenStep ==
  ASSUME Typed, Told, Numbers, road[2] # "chat", ByNumber, BySlot, EndsOpen, OneStep, phase' # "switched"
  PROVE  EndsOpen'
<1>1. ASSUME NEW frame \in UpFrames, Finishes(frame), Idle, emitter' = emitter, road[1] = "chat", ~parser.finished
      PROVE  EndsOpen'
  <2>0. Spoken1 /\ Prefix
    BY <1>1 DEF BySlot, Numbers, Slotting
  <2>1. /\ parser.textOpen => Ends(0)'
        /\ \A s \in Slots : \A i : i = parser.tools[s] /\ i # None => Ends(i)'
    BY <1>1 DEF Finishes, Ends
  <2>2. CASE NoCalls
    <3>1. CASE parser.textOpen
      <4>1. IsNow(0)
        BY <2>0, <2>2, <3>1 DEF Spoken1, TextNow
      <4>2. emitter.open = 0
        BY <1>1, <4>1, NowIdle
      <4> QED
        BY <1>1, <2>1, <3>1, <4>2 DEF EndsOpen
    <3>2. CASE ~parser.textOpen
      <4>1. IsNow(None)
        BY <2>0, <2>2, <3>2 DEF Spoken1, TextNow
      <4>2. emitter.open = None
        BY <1>1, <4>1, NowIdle
      <4> QED
        BY <1>1, <4>2 DEF EndsOpen
    <3> QED
      BY <3>1, <3>2
  <2>3. CASE ~NoCalls
    <3>1. PICK s \in Slots : Newest1(s)
      BY <2>0, <2>3, SlotFacts
    <3>2. PICK i : i = parser.tools[s]
      OBVIOUS
    <3>3. i # None /\ IsNow(i)
      BY <2>0, <3>1, <3>2 DEF Spoken1, NewestNow, Newest1
    <3>4. emitter.open = i
      BY <1>1, <3>3, NowIdle
    <3>5. Ends(i)'
      BY <2>1, <3>2, <3>3
    <3> QED
      BY <1>1, <3>4, <3>5 DEF EndsOpen
  <2> QED
    BY <2>2, <2>3
<1>2. ASSUME NEW frame \in UpFrames, Parses(frame) PROVE EndsOpen'
  <2>0. Outcome(frame) /\ Idle /\ Live /\ emitter' = emitter /\ arrived # <<>> /\ frame = arrived[1]
    BY <1>2 DEF Parses
  <2>1. CASE Coming(events', "ItemEnd")
    <3>1. CASE Numbered1(frame) /\ frame.f = "shut"
      <4>0. 1 \in DOMAIN arrived /\ \A n : n \notin 1 .. 1 - 1
        BY <2>0 DEF Typed
      <4>1. Current(1 - 1, frame.i)
        BY <2>0, <3>1, <4>0 DEF ByNumber, Numbered1
      <4>2. IsNow(frame.i)
        BY <4>0, <4>1 DEF Current
      <4>3. emitter.open = frame.i
        BY <2>0, <4>2, NowIdle
      <4> DEFINE x == ItemEnd(frame.i)
      <4>4. events' = <<x>>
        BY <3>1 DEF Numbered1
      <4>5. x.e = "ItemEnd" /\ x.i = frame.i
        BY Written DEF UpFrames
      <4> HIDE DEF x
      <4>6. 1 \in DOMAIN events' /\ events'[1] = x
        BY <4>4
      <4>7. Ends(frame.i)'
        BY <4>5, <4>6 DEF Ends
      <4> QED
        BY <2>0, <4>3, <4>7 DEF EndsOpen
    <3>2. CASE Finishes(frame) /\ road[1] = "chat" /\ ~parser.finished
      BY <1>1, <2>0, <3>2
    <3> QED
      BY <2>0, <2>1, <3>1, <3>2, EndsParsed
  <2> QED
    BY <2>1 DEF EndsOpen
<1>3. CASE Closes
  <2>0. Outcome(Sends("mark")) /\ Sends("mark") \in UpFrames /\ Sends("mark").f = "mark" /\ Idle /\ emitter' = emitter
    BY <1>3, Ends1 DEF Closes
  <2>1. CASE Coming(events', "ItemEnd")
    <3>1. ~Numbered1(Sends("mark"))
      BY <2>0 DEF Numbered1
    <3>2. Finishes(Sends("mark")) /\ road[1] = "chat" /\ ~parser.finished
      BY <2>0, <2>1, <3>1, EndsParsed
    <3> QED
      BY <1>1, <2>0, <3>2
  <2> QED
    BY <2>1 DEF EndsOpen
<1>4. ASSUME NEW event \in EventsOf, EmitsOne(event) PROVE EndsOpen'
  <2>0. Emission(event)
    BY <1>4 DEF EmitsOne
  <2> SUFFICES ASSUME Coming(events', "ItemEnd"), NEW i, emitter'.open = i, i # None PROVE Ends(i)'
    BY DEF EndsOpen
  <2>1. Coming(events, "ItemEnd") /\ event.e \in {"Start", "Usage", "ItemEnd"}
    <3>1. /\ Coming(events, "ItemEnd")
          /\ event.e \notin {"ItemStart", "Delta", "Finish", "Done"}
      BY <1>4, EventsLeft
    <3>2. event.e \in EventNames
      BY DEF EventsOf
    <3> QED
      BY <3>1, <3>2 DEF EventNames
  <2>2. event.e \in {"Start", "Usage"} /\ emitter.open = i
    BY <2>0, <2>1 DEF Emission, EmitsStart, EmitsItem, EmitsCall, EmitsDelta, EmitsEnd, EmitsNothing, EmitsReason,
       EmitsDone, SameBlock, AllShut
  <2>3. Ends(i)
    BY <2>1, <2>2 DEF EndsOpen
  <2>4. Ends(i) <=> (event.e = "ItemEnd" /\ event.i = i) \/ Ends(i)'
    BY <1>4, EventsLeft
  <2> QED
    BY <2>2, <2>3, <2>4
<1>5. CASE events' = events /\ emitter' = emitter
  BY <1>5 DEF EndsOpen, Ends
<1> QED
  BY <1>2, <1>3, <1>4, <1>5 DEF OneStep, Talks, Quits, Fails, Switch, Full, Trails, ReadsOne

(* ------------------- a piece is for the item that is open -------------- *)

\* The parser makes a piece of an item only when the upstream speaks of it.
LEMMA PieceNow ==
  ASSUME Typed, Told, Numbers, Numbered', road[2] # "chat", ByNumber, BySlot, OneStep, phase' # "switched",
         NEW frame \in UpFrames, Parses(frame), NEW i, NEW k, NEW o, Event("Delta", i, k, o)'
  PROVE  IsNow(i)' /\ Given(i, o)'
<1>0. /\ Outcome(frame) /\ Idle /\ Live /\ emitter' = emitter /\ arrived # <<>> /\ frame = arrived[1] /\ road' = road
      /\ IsParser(parser')
  BY DEF Parses
<1>1. 1 \in DOMAIN arrived /\ \A n : n \notin 1 .. 1 - 1
  BY <1>0 DEF Typed
<1>2. frame.f \in Content => ~parser.finished
  BY <1>0, <1>1 DEF Told, Arrivals
<1>3. frame.f = "piece"
  <2>1. Coming(events', "Delta")
    BY DEF Event, Coming
  <2> QED
    BY <1>0, <1>2, <2>1, Comes DEF Told
<1>4. CASE road[1] # "chat"
  <2>1. Given(i, o)'
    BY <1>0, <1>4 DEF Numbered, NumberedEvents, There
  <2>2. Numbered1(frame)
    BY <1>0, <1>3, <1>4, NumberedOutcome
  <2>3. i = frame.i
    <3> DEFINE x == Delta(frame.i, frame.k, Owner(frame.k, frame.i))
    <3>1. events' = <<x>>
      BY <1>3, <2>2 DEF Numbered1
    <3>2. x.i = frame.i
      BY DEF Delta
    <3> HIDE DEF x
    <3>3. \A n \in DOMAIN events' : events'[n].i = frame.i
      BY <3>1, <3>2
    <3> QED
      BY <3>3 DEF Event
  <2>4. Current(1 - 1, i)
    BY <1>0, <1>1, <1>3, <1>4, <2>3 DEF ByNumber
  <2>5. IsNow(i)
    BY <1>1, <2>4 DEF Current
  <2>6. IsNow(i)'
    BY <1>0, <1>3, <1>4, <2>5, NowParsed
  <2> QED
    BY <2>1, <2>6
<1>5. CASE road[1] = "chat"
  <2>0. ~parser.finished /\ Spoken1 /\ Prefix /\ SlotsGiven /\ Traffic
    BY <1>2, <1>3, <1>5 DEF Content, BySlot, Numbers, Slotting
  <2>1. CASE frame.k # "ToolCall" /\ parser.textOpen
    <3>1. TextGoesOn(frame)
      BY <1>0, <1>2, <1>3, <1>5, <2>0, <2>1 DEF Outcome, Silent, Quietly, TextOpens, CallGoesOn, CallOpens, Numbered1, Finishes
    <3>2. NoCalls /\ frame.k = up.text
      BY <1>0, <1>1, <1>3, <2>0, <2>1 DEF Spoken1, TextFirst, Prose
    <3>3. parser.next - 1 = 0
      BY <2>0, <2>1, <3>2, SlotFacts DEF One
    <3> DEFINE j == 0
               q == Owner(frame.k, 0)
               l == frame.k
               opens == FALSE
    <3>4. Lists(Delta(j, l, q), opens)
      BY <3>1, <3>3 DEF TextGoesOn
    <3>5. j \in Nat /\ l \in Kinds /\ q \in OwnersOf /\ opens \in BOOLEAN
      BY ParserNumbers
    <3> HIDE DEF j, q, l, opens
    <3>6. /\ \A a, b : InEvents(a, b)' <=> opens /\ a = j /\ b = q
          /\ \A a, c, b : Event("Delta", a, c, b)' <=> a = j /\ c = l /\ b = q
          /\ (Coming(events', "ItemStart") <=> opens)
      BY <3>4, <3>5, ListHas
    <3>7. i = j /\ o = q
      BY <3>6
    <3>8. IsNow(0)
      BY <2>0, <2>1, <3>2 DEF Spoken1, TextNow
    <3>9. Given(0, o)
      BY <2>0, <2>1, <3>2, <3>7 DEF Spoken1, TextGiven, q
    <3>10. i = 0
      BY <3>7 DEF j
    <3>11. IsNow(i)'
      BY <1>0, <3>1, <3>8, <3>10, NowParsed
    <3>12. Given(i, o)'
      BY <2>0, <3>9, <3>10, GivenStays
    <3> QED
      BY <3>11, <3>12
  <2>2. CASE frame.k # "ToolCall" /\ ~parser.textOpen
    <3>1. TextOpens(frame)
      BY <1>0, <1>2, <1>3, <1>5, <2>0, <2>2 DEF Outcome, Silent, Quietly, TextGoesOn, CallGoesOn, CallOpens, Numbered1, Finishes
    <3> DEFINE j == parser.next
               q == Owner(frame.k, 0)
               l == frame.k
               opens == TRUE
    <3>4. Lists(Delta(j, l, q), opens)
      BY <3>1 DEF TextOpens
    <3>5. j \in Nat /\ l \in Kinds /\ q \in OwnersOf /\ opens \in BOOLEAN
      BY ParserNumbers
    <3>a. opens
      OBVIOUS
    <3> HIDE DEF j, q, l, opens
    <3>6. /\ \A a, b : InEvents(a, b)' <=> opens /\ a = j /\ b = q
          /\ \A a, c, b : Event("Delta", a, c, b)' <=> a = j /\ c = l /\ b = q
          /\ (Coming(events', "ItemStart") <=> opens)
      BY <3>4, <3>5, ListHas
    <3>7. i = j /\ o = q
      BY <3>6
    <3>8. InEvents(i, o)'
      BY <3>6, <3>7, <3>a
    <3>9. IsNow(i)'
      <4>1. i = parser.next
        BY <3>7 DEF j
      <4>2. \A b : b = parser.next => IsNow(b)'
        BY <1>0, <3>1, NowParsed
      <4> QED
        BY <4>1, <4>2
    <3> QED
      BY <3>8, <3>9 DEF Given
  <2>3. CASE frame.k = "ToolCall"
    <3>0. frame.i \in Slots
      BY <1>0, <1>1, <1>3, <1>5, <2>3 DEF Typed, Speaks
    <3>1. CASE parser.tools[frame.i] # None
      <4>1. CallGoesOn(frame)
        BY <1>0, <1>2, <1>3, <1>5, <2>0, <2>3, <3>1 DEF Outcome, Silent, Quietly, TextGoesOn, TextOpens, CallOpens, Numbered1, Finishes
      <4> DEFINE j == parser.tools[frame.i]
                 q == Owner("ToolCall", frame.i)
                 l == "ToolCall"
                 opens == FALSE
      <4>4. Lists(Delta(j, l, q), opens)
        BY <4>1 DEF CallGoesOn
      <4>5. j \in Nat /\ l \in Kinds /\ q \in OwnersOf /\ opens \in BOOLEAN
        BY <3>0, <3>1, ParserNumbers
      <4> HIDE DEF j, q, l, opens
      <4>6. /\ \A a, b : InEvents(a, b)' <=> opens /\ a = j /\ b = q
            /\ \A a, c, b : Event("Delta", a, c, b)' <=> a = j /\ c = l /\ b = q
            /\ (Coming(events', "ItemStart") <=> opens)
        BY <4>4, <4>5, ListHas
      <4>7. i = j /\ o = q
        BY <4>6
      <4>8. i = parser.tools[frame.i] /\ i # None /\ o = Owner("ToolCall", frame.i)
        BY <3>1, <4>7 DEF j, q
      <4>9. Newest1(frame.i)
        <5>1. Call(1, frame.i)
          BY <1>0, <1>3, <2>3 DEF Call
        <5>2. \A t \in Slots : parser.tools[t] # None => t <= frame.i
          BY <1>1, <2>0, <3>0, <5>1 DEF Spoken1, CallsLast
        <5>3. \A t \in Slots : t > frame.i => ~(t <= frame.i)
          BY <3>0, TranslationAssumption DEF Slots
        <5> QED
          BY <3>1, <5>2, <5>3 DEF Newest1
      <4>10. IsNow(i)
        BY <2>0, <3>0, <4>8, <4>9 DEF Spoken1, NewestNow
      <4>11. IsNow(i)'
        BY <1>0, <4>1, <4>10, NowParsed
      <4>12. Given(i, o)
        BY <2>0, <3>0, <4>8 DEF SlotsGiven
      <4>13. Given(i, o)'
        BY <2>0, <4>12, GivenStays
      <4> QED
        BY <4>11, <4>13
    <3>2. CASE parser.tools[frame.i] = None
      <4>1. CallOpens(frame)
        BY <1>0, <1>2, <1>3, <1>5, <2>0, <2>3, <3>2 DEF Outcome, Silent, Quietly, TextGoesOn, TextOpens, CallGoesOn, Numbered1, Finishes
      <4> DEFINE j == parser.next
                 q == Owner("ToolCall", frame.i)
                 l == "ToolCall"
                 opens == TRUE
      <4>4. Lists(Delta(j, l, q), opens)
        BY <4>1 DEF CallOpens
      <4>5. j \in Nat /\ l \in Kinds /\ q \in OwnersOf /\ opens \in BOOLEAN
        BY ParserNumbers
      <4>a. opens
        OBVIOUS
      <4> HIDE DEF j, q, l, opens
      <4>6. /\ \A a, b : InEvents(a, b)' <=> opens /\ a = j /\ b = q
            /\ \A a, c, b : Event("Delta", a, c, b)' <=> a = j /\ c = l /\ b = q
            /\ (Coming(events', "ItemStart") <=> opens)
        BY <4>4, <4>5, ListHas
      <4>7. i = j /\ o = q
        BY <4>6
      <4>8. InEvents(i, o)'
        BY <4>6, <4>7, <4>a
      <4>9. IsNow(i)'
        <5>1. i = parser.next
          BY <4>7 DEF j
        <5>2. \A b : b = parser.next => IsNow(b)'
          BY <1>0, <4>1, NowParsed
        <5> QED
          BY <5>1, <5>2
      <4> QED
        BY <4>8, <4>9 DEF Given
    <3> QED
      BY <3>1, <3>2
  <2> QED
    BY <2>1, <2>2, <2>3
<1> QED
  BY <1>4, <1>5

LEMMA DeltasStep ==
  ASSUME Typed, Told, Numbers, Numbered', road[2] # "chat", LastShut, ByNumber, BySlot, DeltasNow, OneStep,
         phase' # "switched"
  PROVE  DeltasNow'
<1> SUFFICES ASSUME NEW i, NEW k, NEW o, Event("Delta", i, k, o)' PROVE IsNow(i)' /\ Given(i, o)'
  BY DEF DeltasNow
<1>1. CASE \E frame \in UpFrames : Parses(frame)
  BY <1>1, PieceNow
<1>2. CASE Closes
  <2>1. Outcome(Sends("mark")) /\ Sends("mark") \in UpFrames /\ Sends("mark").f = "mark" /\ IsParser(parser')
    BY <1>2, Ends1 DEF Closes
  <2>2. ~Coming(events', "Delta")
    BY <2>1, Comes DEF Told, Content
  <2> QED
    BY <2>2 DEF Event, Coming
<1>3. CASE ~(\E frame \in UpFrames : Parses(frame)) /\ ~Closes
  <2>1. Event("Delta", i, k, o)
    <3>1. CASE \E event \in EventsOf : EmitsOne(event)
      BY <3>1, EventsLeft
    <3>2. CASE events' = events
      BY <3>2 DEF Event
    <3> QED
      BY <1>3, <3>1, <3>2 DEF OneStep, Talks, Quits, Fails, Switch, Full, Trails, ReadsOne
  <2>2. IsNow(i) /\ Given(i, o)
    BY <2>1 DEF DeltasNow
  <2>3. IsNow(i)'
    BY <1>3, <2>2, NowStays
  <2>4. Given(i, o)'
    <3>1. CASE road[1] = "chat"
      BY <2>2, <3>1, GivenStays DEF Numbers
    <3>2. CASE road[1] # "chat"
      BY <3>2, RoadStays DEF Numbered, NumberedEvents, There
    <3> QED
      BY <3>1, <3>2
  <2> QED
    BY <2>3, <2>4
<1> QED
  BY <1>1, <1>2, <1>3

(* -------------- what the closing frames hold, and where pieces go ------ *)

\* A piece that goes out is of the item that the client has open.
LEMMA DeltaOpen ==
  ASSUME Typed, Told, road[2] # "chat", Within, DeltasNow, OpenGiven,
         NEW event \in EventsOf, EmitsOne(event), event.e = "Delta"
  PROVE  /\ emitter.open = event.i /\ event.i # None /\ client.block = event.i
         /\ InClient(event.i, event.o) /\ emitter.owner = event.o
<1>0. wire = <<>> /\ events # <<>> /\ event = Head(events) /\ event.i \in Nat
  BY DEF EmitsOne, EventsOf
<1>1. ~Coming(events, "ItemStart") /\ ~Coming(events, "ItemEnd") /\ ~Coming(events, "Finish")
  <2>1. /\ \A e : Coming(events, e) <=> event.e = e \/ Coming(events', e)
        /\ \A e \in {"ItemStart", "Delta", "ItemEnd", "Finish"} : ~Coming(events', e)
    BY EventsLeft
  <2> QED
    BY <2>1
<1>2. Event("Delta", event.i, event.k, event.o)
  BY EventsLeft
<1>3. IsNow(event.i) /\ Given(event.i, event.o)
  BY <1>2 DEF DeltasNow
<1>4. emitter.open = event.i
  BY <1>1, <1>3 DEF IsNow
<1>5. InClient(event.i, event.o)
  <2>1. ~InEvents(event.i, event.o) /\ ~InWire(event.i, event.o)
    BY <1>0, DeltaLast
  <2> QED
    BY <1>3, <2>1 DEF Given
<1>6. event.i # None
  BY <1>0 DEF None
<1>7. client.block = event.i
  <2> PICK b : b = client.block
    OBVIOUS
  <2>1. ~Shows(wire, {"open"}) /\ ~Shuts1
    BY <1>0, Short DEF Shuts1
  <2>2. emitter.open = b \/ ToEnd(b)
    BY <2>1 DEF Within
  <2>3. ~ToEnd(b)
    BY <1>1, EndsCome DEF ToEnd
  <2> QED
    BY <1>4, <2>2, <2>3
<1>8. emitter.owner = event.o
  <2> PICK p : p = emitter.owner
    OBVIOUS
  <2>1. Has(event.i, p)
    BY <1>4, <1>6 DEF OpenGiven, Opened1
  <2>2. ~InWire(event.i, p)
    BY <1>0, DeltaLast
  <2> QED
    BY <1>5, <2>1, <2>2 DEF Has, InClient
<1> QED
  BY <1>4, <1>5, <1>6, <1>7, <1>8

\* What one event does to the text that is kept.
LEMMA KeptEmits ==
  ASSUME Typed, road[2] # "chat", EmptyKept, NEW event \in EventsOf, EmitsOne(event), event.e # "Delta"
  PROVE  /\ \/ emitter'.kept = Nothing
            \/ emitter'.kept = emitter.kept /\ emitter'.owner = emitter.owner /\ emitter'.open = emitter.open
         /\ \A n \in DOMAIN wire' : wire'[n].f = "shut" =>
              wire'[n].kept = Nothing \/ (wire'[n].kept = emitter.kept /\ wire'[n].o = emitter.owner)
         /\ (road[2] = "responses" => Held' + emitter'.kept.pieces = emitter.kept.pieces)
<1>0. Emission(event) /\ emitter.kept.pieces \in Nat /\ Nothing.pieces = 0
  BY FrameIs DEF EmitsOne, Typed, IsEmitter, KeptOf
<1> DEFINE Sh == \A n \in DOMAIN wire' : wire'[n].f = "shut" =>
                   wire'[n].kept = Nothing \/ (wire'[n].kept = emitter.kept /\ wire'[n].o = emitter.owner)
<1>1. ASSUME NEW x, wire' = <<x>>, x.f # "shut" PROVE Held' = 0 /\ Sh
  <2>1. Head(wire') = x
    BY <1>1, HeadIs
  <2>2. \A n \in DOMAIN wire' : wire'[n] = x
    BY <1>1
  <2> QED
    BY <1>1, <2>1, <2>2 DEF Held, Shuts1
<1>2. ASSUME wire' = <<>> PROVE Held' = 0 /\ Sh
  BY <1>2 DEF Held, Shuts1
<1>3. ASSUME NEW x, x.f # "shut", ClosesFirst(x) PROVE Held' = emitter.kept.pieces /\ Sh
  <2>1. CASE wire' = <<x>> /\ emitter.open = None
    BY <1>0, <1>1, <1>3, <2>1 DEF EmptyKept
  <2>2. ASSUME NEW y \in WireFrames, wire' = <<y, x>>, y.f = "shut", y.o = emitter.owner, y.kept = emitter.kept
        PROVE  Held' = emitter.kept.pieces /\ Sh
    <3>1. Head(wire') = y /\ wire' # <<>>
      BY <2>2, HeadIs
    <3>2. \A n \in DOMAIN wire' : wire'[n] = x \/ wire'[n] = y
      BY <2>2
    <3> QED
      BY <1>3, <2>2, <3>1, <3>2 DEF Held, Shuts1
  <2> QED
    BY <1>3, <2>1, <2>2 DEF ClosesFirst
<1> HIDE DEF Sh
<1>4. CASE Held' = 0 /\ Sh /\ emitter'.kept = emitter.kept /\ emitter'.owner = emitter.owner /\ emitter'.open = emitter.open
  BY <1>0, <1>4 DEF Sh
<1>5. CASE Held' = emitter.kept.pieces /\ Sh /\ emitter'.kept = Nothing
  BY <1>0, <1>5 DEF Sh
<1>6. CASE EmitsStart(event)
  <2>1. PICK x \in WireFrames : x.f = "begin" /\ (wire' = <<x>> \/ \E y \in WireFrames : y.f = "progress" /\ wire' = <<x, y>>)
    BY <1>6 DEF EmitsStart
  <2>2. Held' = 0 /\ Sh
    <3>1. CASE wire' = <<x>>
      BY <1>1, <2>1, <3>1
    <3>2. ASSUME NEW y \in WireFrames, y.f = "progress", wire' = <<x, y>> PROVE Held' = 0 /\ Sh
      <4>1. Head(wire') = x
        BY <3>2, HeadIs
      <4>2. \A n \in DOMAIN wire' : wire'[n] = x \/ wire'[n] = y
        BY <3>2
      <4> QED
        BY <2>1, <3>2, <4>1, <4>2 DEF Held, Shuts1, Sh
    <3> QED
      BY <2>1, <3>1, <3>2
  <2> QED
    BY <1>4, <1>6, <2>2 DEF EmitsStart, SameBlock
<1>7. CASE EmitsItem(event)
  <2>1. PICK x : x.f # "shut" /\ ClosesFirst(x)
    BY <1>7 DEF EmitsItem, IsAbout
  <2> QED
    BY <1>3, <1>5, <1>7, <2>1 DEF EmitsItem
<1>8. CASE EmitsEnd(event)
  <2>1. emitter'.kept = Nothing
    BY <1>8 DEF EmitsEnd, AllShut
  <2>2. ASSUME road[2] = "messages", NEW x, IsAbout(x, "shut", event), wire' = <<x>> PROVE Sh
    <3>1. \A n \in DOMAIN wire' : wire'[n] = x
      BY <2>2
    <3> QED
      BY <2>2, <3>1 DEF Sh, IsAbout
  <2>3. ASSUME emitter.open = None, wire' = <<>> PROVE Held' = emitter.kept.pieces /\ Sh
    BY <1>0, <1>2, <2>3 DEF EmptyKept
  <2>4. ASSUME NEW y \in WireFrames, wire' = <<y>>, y.f = "shut", y.o = emitter.owner, y.kept = emitter.kept
        PROVE  Held' = emitter.kept.pieces /\ Sh
    <3>1. Head(wire') = y /\ wire' # <<>>
      BY <2>4, HeadIs
    <3>2. \A n \in DOMAIN wire' : wire'[n] = y
      BY <2>4
    <3> QED
      BY <2>4, <3>1, <3>2 DEF Held, Shuts1, Sh
  <2>5. CASE road[2] = "messages"
    <3>1. Sh
      BY <1>8, <2>2, <2>5 DEF EmitsEnd
    <3> QED
      BY <2>1, <2>5, <3>1 DEF Sh
  <2>6. CASE road[2] # "messages"
    <3>1. Held' = emitter.kept.pieces /\ Sh
      BY <1>8, <2>3, <2>4, <2>6 DEF EmitsEnd
    <3> QED
      BY <1>5, <2>1, <3>1
  <2> QED
    BY <2>5, <2>6
<1>9. CASE EmitsNothing(event)
  BY <1>2, <1>4, <1>9 DEF EmitsNothing, SameBlock
<1>10. CASE EmitsReason(event)
  <2>1. PICK x : x.f # "shut" /\ ClosesFirst(x)
    BY <1>10 DEF EmitsReason, Reason
  <2>2. emitter'.kept = Nothing
    BY <1>10 DEF EmitsReason, AllShut
  <2> QED
    BY <1>3, <1>5, <2>1, <2>2
<1>11. CASE EmitsDone(event)
  <2>1. CASE road[2] = "messages"
    <3>1. PICK x \in WireFrames : x.f = "end" /\ wire' = <<x>>
      BY <1>11, <2>1 DEF EmitsDone
    <3>2. Held' = 0 /\ Sh
      BY <1>1, <3>1
    <3> QED
      BY <1>4, <1>11, <2>1, <3>2 DEF EmitsDone, SameBlock
  <2>2. CASE road[2] = "responses"
    <3>1. PICK x \in WireFrames : x.f = "end" /\ ClosesFirst(x)
      BY <1>11, <2>2 DEF EmitsDone
    <3>2. emitter'.kept = Nothing
      BY <1>11, <2>2 DEF EmitsDone, AllShut
    <3> QED
      BY <1>3, <1>5, <3>1, <3>2
  <2> QED
    BY <1>11, <2>1, <2>2 DEF EmitsDone
<1> QED
  BY <1>0, <1>6, <1>7, <1>8, <1>9, <1>10, <1>11 DEF Emission, EmitsCall, EmitsDelta

\* An event goes out: what the closing frame will hold is what the item's pieces held.
LEMMA WholeEmits ==
  ASSUME Typed, Told, road[2] # "chat", Within, DeltasNow, OpenGiven, Whole, NEW event \in EventsOf, EmitsOne(event)
  PROVE  Whole'
<1>0. /\ wire = <<>> /\ client' = client /\ road' = road /\ Emission(event) /\ IsEmitter(emitter')
      /\ EmptyKept /\ OwnKept /\ Clean /\ Balance
  BY DEF EmitsOne, Whole
<1>1. /\ Nothing.pieces = 0 /\ Nothing.owners = {} /\ Clean'
      /\ emitter.kept.pieces \in Nat /\ emitter'.kept.pieces \in Nat /\ client.got \in Nat /\ client.final \in Nat
  BY <1>0, FrameIs DEF Clean, Typed, IsEmitter, KeptOf, IsClient
<1> DEFINE Sum == client.final + emitter.kept.pieces
           One0 == One(Shows(wire, {"delta"}))
           One1 == One(Shows(wire', {"delta"}))
<1>2. (Shows(wire', {"delta"}) <=> event.e = "Delta") /\ ~Shows(wire, {"delta"}) /\ ~Shuts1
  <2>1. Shows(wire', {"delta"}) <=> event.e = "Delta"
    BY <1>0, EmitShows
  <2> QED
    BY <1>0, <2>1, Short DEF Shuts1
<1>3. road[2] = "responses" => Sum = client.got
  <2>1. Held = 0 /\ One0 = 0
    BY <1>2 DEF Held, One
  <2> QED
    BY <1>0, <1>1, <2>1 DEF Balance
<1>4. \A n \in DOMAIN wire' : wire'[n].f = "delta" =>
        event.e = "Delta" /\ wire'[n].o = event.o /\ wire'[n].i = event.i
  BY <1>0, EmitFrames
<1>5. CASE event.e # "Delta"
  <2>1. /\ \/ emitter'.kept = Nothing
           \/ emitter'.kept = emitter.kept /\ emitter'.owner = emitter.owner /\ emitter'.open = emitter.open
        /\ \A n \in DOMAIN wire' : wire'[n].f = "shut" =>
             wire'[n].kept = Nothing \/ (wire'[n].kept = emitter.kept /\ wire'[n].o = emitter.owner)
        /\ (road[2] = "responses" => Held' + emitter'.kept.pieces = emitter.kept.pieces)
    BY <1>0, <1>5, KeptEmits
  <2>2. EmptyKept' /\ OwnKept'
    BY <1>0, <1>1, <2>1 DEF EmptyKept, OwnKept
  <2>3. ShutKept'
    BY <1>0, <1>1, <2>1 DEF ShutKept, OwnKept
  <2>4. Placed'
    BY <1>4, <1>5 DEF Placed, Brings
  <2>5. Balance'
    <3> SUFFICES ASSUME road[2] = "responses" PROVE client.final + Held' + emitter'.kept.pieces = client.got + One1
      BY <1>0 DEF Balance
    <3>1. One1 = 0
      BY <1>2, <1>5 DEF One
    <3>2. Held' + emitter'.kept.pieces = emitter.kept.pieces
      BY <2>1
    <3>3. Held' \in Nat
      <4>1. wire' \in Seq(WireFrames)
        BY DEF EmitsOne
      <4>2. wire' # <<>> => Head(wire').kept.pieces \in Nat
        <5> SUFFICES ASSUME wire' # <<>> PROVE Head(wire').kept.pieces \in Nat
          OBVIOUS
        <5>1. Head(wire') \in WireFrames
          BY <4>1, TailIs
        <5> QED
          BY <5>1 DEF WireFrames, KeptOf
      <4> QED
        BY <4>2 DEF Held, Shuts1
    <3> QED
      BY <1>1, <1>3, <3>1, <3>2, <3>3
  <2> QED
    BY <1>1, <2>2, <2>3, <2>4, <2>5 DEF Whole
<1>6. CASE event.e = "Delta"
  <2>1. /\ emitter.open = event.i /\ event.i # None /\ client.block = event.i
        /\ InClient(event.i, event.o) /\ emitter.owner = event.o
    BY <1>6, DeltaOpen
  <2>2. EmitsDelta(event)
    BY <1>0, <1>6 DEF Emission, EmitsStart, EmitsItem, EmitsCall, EmitsEnd, EmitsNothing, EmitsReason, EmitsDone
  <2>3. /\ emitter'.open = emitter.open /\ emitter'.owner = emitter.owner
        /\ emitter'.kept = (IF road[2] = "responses"
                              THEN [pieces |-> emitter.kept.pieces + 1, owners |-> emitter.kept.owners \cup {event.o}]
                              ELSE emitter.kept)
    BY <2>1, <2>2 DEF EmitsDelta
  <2>4. PICK x \in WireFrames : x.f = "delta" /\ wire' = <<x>>
    BY <2>2 DEF EmitsDelta
  <2>5. Head(wire') = x /\ \A n \in DOMAIN wire' : wire'[n] = x
    BY <2>4, HeadIs
  <2>6. EmptyKept'
    BY <2>1, <2>3 DEF EmptyKept
  <2>7. OwnKept'
    BY <1>0, <2>1, <2>3 DEF OwnKept
  <2>8. ShutKept'
    BY <2>4, <2>5 DEF ShutKept
  <2>9. Placed'
    BY <1>0, <1>4, <2>1 DEF Placed, Brings, InClient
  <2>10. Balance'
    <3> SUFFICES ASSUME road[2] = "responses" PROVE client.final + Held' + emitter'.kept.pieces = client.got + One1
      BY <1>0 DEF Balance
    <3>1. One1 = 1
      BY <1>2, <1>6 DEF One
    <3>2. Held' = 0
      BY <2>4, <2>5 DEF Held, Shuts1
    <3>3. emitter'.kept.pieces = emitter.kept.pieces + 1
      BY <2>3
    <3> QED
      BY <1>1, <1>3, <3>1, <3>2, <3>3
  <2> QED
    BY <1>1, <2>6, <2>7, <2>8, <2>9, <2>10 DEF Whole
<1> QED
  BY <1>5, <1>6

\* The client reads a frame: a piece in its place, or a closing frame with the item's own pieces.
LEMMA WholeReads ==
  ASSUME Typed, Told, road[2] # "chat", Whole, NEW frame \in WireFrames, ReadsOne(frame)
  PROVE  Whole'
<1>0. /\ wire # <<>> /\ frame = Head(wire) /\ wire' = Tail(wire) /\ wire \in Seq(WireFrames) /\ Chain(wire)
      /\ Reading(frame) /\ UNCHANGED <<road, emitter>>
      /\ EmptyKept /\ OwnKept /\ ShutKept /\ Placed /\ Clean /\ Balance
  BY DEF ReadsOne, Typed, Told, Whole
<1>1. EmptyKept' /\ OwnKept'
  BY <1>0 DEF EmptyKept, OwnKept
<1>2. /\ \A n \in DOMAIN wire' : wire'[n].f \notin {"shut", "delta"}
      /\ (Shows(wire, {"delta"}) <=> frame.f = "delta") /\ ~Shows(wire', {"delta"})
  <2>1. \A n \in DOMAIN Tail(wire) : Tail(wire)[n].f \in {"progress", "open", "why", "noted", "end"}
    BY <1>0, WireTail
  <2>2. \A fs : Shows(wire, fs) <=> (frame.f \in fs \/ Shows(Tail(wire), fs))
    BY <1>0, WireTail
  <2>3. ~Shows(Tail(wire), {"delta"})
    BY <2>1 DEF Shows
  <2> QED
    BY <1>0, <2>1, <2>2, <2>3
<1>3. ShutKept' /\ Placed'
  BY <1>2 DEF ShutKept, Placed, Brings
<1>4. Clean'
  <2>1. frame.f = "delta" => Place(frame) = frame.o
    <3>1. frame.f = "delta" => Brings(frame.i, frame.o)
      BY ReadsHas
    <3> QED
      BY <1>0, <3>1 DEF Placed, InClient, Place
  <2>2. frame.f = "shut" => frame.kept.owners \subseteq {frame.o}
    <3>1. frame = wire[1] /\ 1 \in DOMAIN wire
      BY <1>0, TailIs
    <3> QED
      BY <1>0, <3>1 DEF ShutKept
  <2>3. \A o, s : s \subseteq {o} => Misread(o, s) = {}
    BY DEF Misread
  <2>4. frame.f = "delta" => Misread(Place(frame), {frame.o}) = {}
    BY <2>1, <2>3
  <2>5. frame.f = "shut" => Misread(frame.o, frame.kept.owners) = {}
    BY <2>2, <2>3
  <2> QED
    BY <1>0, <2>4, <2>5 DEF Clean, Reading
<1>5. Balance'
  <2> SUFFICES ASSUME road[2] = "responses"
               PROVE client'.final + Held' + emitter.kept.pieces = client'.got + One(Shows(wire', {"delta"}))
    BY <1>0 DEF Balance
  <2>1. Held' = 0
    <3>1. wire' # <<>> => 1 \in DOMAIN wire' /\ Head(wire') = wire'[1]
      <4>1. wire' \in Seq(WireFrames)
        BY DEF ReadsOne
      <4> QED
        BY <4>1, TailIs
    <3> QED
      BY <1>2, <3>1 DEF Held, Shuts1
  <2>2. Held = IF frame.f = "shut" THEN frame.kept.pieces ELSE 0
    BY <1>0 DEF Held, Shuts1
  <2>3. One(Shows(wire', {"delta"})) = 0 /\ One(Shows(wire, {"delta"})) = IF frame.f = "delta" THEN 1 ELSE 0
    BY <1>2 DEF One
  <2>4. client'.got = client.got + IF frame.f = "delta" THEN 1 ELSE 0
    BY <1>0 DEF Reading, One
  <2>5. client'.final = client.final + Held
    BY <1>0, <2>2 DEF Reading
  <2>6. /\ client.got \in Nat /\ client.final \in Nat /\ emitter.kept.pieces \in Nat /\ frame.kept.pieces \in Nat
    BY DEF Typed, IsClient, IsEmitter, KeptOf, WireFrames
  <2>7. client.final + Held + emitter.kept.pieces = client.got + One(Shows(wire, {"delta"}))
    BY <1>0 DEF Balance
  <2> DEFINE d == IF frame.f = "delta" THEN 1 ELSE 0
             h == Held
             h1 == Held'
             o0 == One(Shows(wire, {"delta"}))
             o1 == One(Shows(wire', {"delta"}))
  <2>8. h1 = 0 /\ o1 = 0 /\ o0 = d /\ h \in Nat /\ d \in Nat /\ client'.got = client.got + d /\ client'.final = client.final + h
        /\ client.final + h + emitter.kept.pieces = client.got + o0
    BY <2>1, <2>2, <2>3, <2>4, <2>5, <2>6, <2>7
  <2> HIDE DEF d, h, h1, o0, o1
  <2>9. client'.final + h1 + emitter.kept.pieces = client'.got + o1
    BY <2>6, <2>8
  <2> QED
    BY <2>9 DEF h1, o1
<1> QED
  BY <1>1, <1>3, <1>4, <1>5 DEF Whole

LEMMA WholeStep ==
  ASSUME Typed, Told, road[2] # "chat", Within, DeltasNow, OpenGiven, Whole, OneStep, phase' # "switched"
  PROVE  Whole'
<1>1. CASE \E event \in EventsOf : EmitsOne(event)
  BY <1>1, WholeEmits
<1>2. CASE \E frame \in WireFrames : ReadsOne(frame)
  BY <1>2, WholeReads
<1>3. CASE ~(\E event \in EventsOf : EmitsOne(event)) /\ ~(\E frame \in WireFrames : ReadsOne(frame))
  <2>1. /\ wire = <<>> /\ UNCHANGED <<road, client, emitter>>
        /\ wire' = <<>> \/ \E x \in WireFrames : x.f \in {"end", "error"} /\ wire' = <<x>>
    BY <1>3, RestingWire DEF Idle
  <2>2. /\ \A n \in DOMAIN wire' : wire'[n].f \notin {"shut", "delta"}
        /\ ~Shuts1' /\ ~Shuts1
        /\ ~Shows(wire', {"delta"}) /\ ~Shows(wire, {"delta"})
    <3>1. CASE wire' = <<>>
      BY <2>1, <3>1, Short DEF Shuts1
    <3>2. ASSUME NEW x \in WireFrames, x.f \in {"end", "error"}, wire' = <<x>>
          PROVE  /\ \A n \in DOMAIN wire' : wire'[n].f \notin {"shut", "delta"}
                 /\ ~Shuts1' /\ ~Shuts1
                 /\ ~Shows(wire', {"delta"}) /\ ~Shows(wire, {"delta"})
      <4>1. Head(wire') = x /\ \A n \in DOMAIN wire' : wire'[n] = x
        BY <3>2, HeadIs
      <4> QED
        BY <2>1, <3>2, <4>1, Short DEF Shuts1, Shows
    <3> QED
      BY <2>1, <3>1, <3>2
  <2>3. EmptyKept' /\ OwnKept' /\ Clean'
    BY <2>1 DEF Whole, EmptyKept, OwnKept, Clean
  <2>4. ShutKept' /\ Placed'
    BY <2>2 DEF ShutKept, Placed, Brings
  <2>5. Balance'
    <3>1. Held' = Held /\ One(Shows(wire', {"delta"})) = One(Shows(wire, {"delta"}))
      BY <2>2 DEF Held, One
    <3> QED
      BY <2>1, <3>1 DEF Whole, Balance
  <2> QED
    BY <2>3, <2>4, <2>5 DEF Whole
<1> QED
  BY <1>1, <1>2, <1>3

(* ------------------- the stream of an orderly upstream ----------------- *)

\* What the client's protocol forbids does not come, but that an item is closed again.
LEMMA NoBreach ==
  ASSUME Typed, Told, Single, NEW frame \in WireFrames, ReadsOne(frame),
         road[2] # "chat" => LastShut /\ Entering /\ Within /\ Placed
  PROVE  Breach(frame) \subseteq {"shut again"}
<1>0. /\ wire # <<>> /\ frame = Head(wire) /\ wire \in Seq(WireFrames) /\ Chain(wire) /\ BeginsOnce /\ EndsLast
  BY DEF ReadsOne, Typed, Told, Single
<1>1. \A fs : Shows(wire, fs) <=> (frame.f \in fs \/ Shows(Tail(wire), fs))
  BY <1>0, WireTail
<1>2. ~(client.ends + client.errors > 0)
  BY <1>0 DEF EndsLast
<1>3. ~(frame.f = "begin" /\ client.begun)
  BY <1>0, <1>1 DEF BeginsOnce
<1>4. ~(frame.f = "why" /\ client.reasons > 0)
  <2> SUFFICES ASSUME frame.f = "why" PROVE ~(client.reasons > 0)
    OBVIOUS
  <2>1. Shows(wire, Reason)
    BY <1>1 DEF Reason
  <2> DEFINE x == One(Shows(wire, Reason))
             y == One(Coming(events, "Finish"))
             z == One(parser.finished)
  <2>2. x = 1 /\ y \in Nat /\ z \in {0, 1} /\ client.reasons \in Nat
    BY <2>1 DEF One, Typed, IsClient
  <2>3. client.reasons + x + y = z
    BY DEF Told, Sums
  <2> HIDE DEF x, y, z
  <2> QED
    BY <2>2, <2>3
<1>5. CASE road[2] = "chat"
  BY <1>2, <1>3, <1>4, <1>5 DEF Breach
<1>6. CASE road[2] # "chat"
  <2>0. LastShut /\ Entering /\ Within /\ Placed
    BY <1>6
  <2>1. ~(frame.f = "open" /\ client.block # None)
    <3> SUFFICES ASSUME frame.f = "open" PROVE client.block = None
      OBVIOUS
    <3>1. InWire(frame.i, frame.o)
      BY ReadsHas
    <3>2. ~Shuts1
      BY <1>0 DEF Shuts1
    <3> QED
      BY <2>0, <3>1, <3>2 DEF Entering
  <2>2. frame.f = "delta" => client.block = frame.i /\ Place(frame) = frame.o
    <3> SUFFICES ASSUME frame.f = "delta" PROVE client.block = frame.i /\ Place(frame) = frame.o
      OBVIOUS
    <3>1. Brings(frame.i, frame.o)
      BY ReadsHas
    <3> QED
      BY <2>0, <3>1 DEF Placed, InClient, Place
  <2>3. ~(frame.f = "end" /\ client.block # None)
    <3> SUFFICES ASSUME frame.f = "end" PROVE client.block = None
      OBVIOUS
    <3> PICK b : b = client.block
      OBVIOUS
    <3>1. Shows(wire, {"end"})
      BY <1>1
    <3>2. parser.finished /\ events = <<>>
      BY <1>6, <3>1, EndKnown
    <3>3. \A e : ~Coming(events, e)
      BY <3>2, EndsCome
    <3>4. emitter.open = None
      BY <2>0, <3>2, <3>3 DEF LastShut
    <3>5. ~Shows(wire, {"open"}) /\ ~Shuts1
      <4>1. Tail(wire) = <<>>
        BY <1>0, WireTail
      <4>2. ~Shows(Tail(wire), {"open"})
        BY <4>1, Short
      <4>3. ~Shows(wire, {"open"})
        BY <1>1, <4>2
      <4>4. ~Shuts1
        BY <1>0 DEF Shuts1
      <4> QED
        BY <4>3, <4>4
    <3>6. emitter.open = b \/ ToEnd(b)
      BY <2>0, <3>5 DEF Within
    <3>7. ~ToEnd(b)
      BY <3>3, EndsCome DEF ToEnd
    <3> QED
      BY <3>4, <3>6, <3>7
  <2> QED
    BY <1>2, <1>3, <1>4, <1>6, <2>1, <2>2, <2>3 DEF Breach
<1> QED
  BY <1>5, <1>6

LEMMA OrderlyWas ==
  ASSUME OneStep, up'.orderly
  PROVE  up.orderly
BY DEF OneStep, Talks, Parses, Quits, Fails, Switch, Full, Closes, Trails, EmitsOne, ReadsOne

LEMMA SaneStep ==
  ASSUME Typed, Typed', Told, Numbers, Numbered', road[2] # "chat", Sane, OneStep, phase' # "switched", up'.orderly
  PROVE  Sane'
<1>0. /\ LastShut /\ OpensEarly /\ Entering /\ Within /\ EndsOpen /\ OpenGiven
      /\ DeltasNow /\ ByNumber /\ BySlot /\ Whole
  BY DEF Sane
<1>1. LastShut' /\ OpensEarly'
  BY <1>0, ShutStep
<1>2. Within' /\ Entering'
  <2>1. CASE \E event \in EventsOf : EmitsOne(event)
    BY <1>0, <2>1, BlockEmits
  <2>2. CASE \E frame \in WireFrames : ReadsOne(frame)
    BY <1>0, <2>2, BlockReads
  <2>3. CASE ~(\E event \in EventsOf : EmitsOne(event)) /\ ~(\E frame \in WireFrames : ReadsOne(frame))
    BY <1>0, <2>3, BlockRests
  <2> QED
    BY <2>1, <2>2, <2>3
<1>3. EndsOpen'
  BY <1>0, EndsOpenStep
<1>4. OpenGiven'
  BY <1>0, OpenGivenStep
<1>5. DeltasNow'
  BY <1>0, DeltasStep
<1>6. ByNumber'
  BY <1>0, NumberStep
<1>7. BySlot'
  BY <1>0, SlotStays
<1>8. Whole'
  BY <1>0, WholeStep
<1> QED
  BY <1>1, <1>2, <1>3, <1>4, <1>5, <1>6, <1>7, <1>8 DEF Sane

\* A step of an upstream that is still orderly keeps the stream as its client's protocol wants it.
LEMMA NeatStep ==
  ASSUME Typed, Typed', Told, Numbers, Numbered', Neat, OneStep, phase' # "switched"
  PROVE  Neat'
<1> SUFFICES ASSUME up'.orderly PROVE Neat'
  BY DEF Neat
<1>1. Single /\ client.breaches \subseteq {"shut again"} /\ (road[2] # "chat" => Sane)
  BY OrderlyWas DEF Neat
<1>2. Single'
  BY <1>1, BeginsStep, EndsStep DEF Single
<1>3. road[2] # "chat" => Sane'
  BY <1>1, SaneStep
<1>4. client'.breaches \subseteq {"shut again"}
  <2>1. ASSUME NEW frame \in WireFrames, ReadsOne(frame) PROVE client'.breaches \subseteq {"shut again"}
    <3>1. Breach(frame) \subseteq {"shut again"}
      BY <1>1, <2>1, NoBreach DEF Sane, Whole
    <3>2. client'.breaches = client.breaches \cup Breach(frame)
      BY <2>1 DEF ReadsOne, Reading
    <3> QED
      BY <1>1, <3>1, <3>2
  <2>2. CASE client' = client
    BY <1>1, <2>2
  <2> QED
    BY <2>1, <2>2 DEF OneStep, Talks, Parses, Quits, Fails, Switch, Full, Closes, Trails, EmitsOne
<1> QED
  BY <1>2, <1>3, <1>4, RoadStays DEF Neat

\* It begins so.
LEMMA NeatBegins ==
  ASSUME Init
  PROVE  Neat
<1>0. /\ up = NewUpstream /\ arrived = <<>> /\ parser = NewParser /\ events = <<>>
      /\ emitter = NewEmitter /\ wire = <<>> /\ client = NewClient /\ phase = "sniff"
  BY DEF Init
<1>1. /\ parser.finished = FALSE /\ parser.started = FALSE /\ parser.textOpen = FALSE
      /\ \A s \in Slots : parser.tools[s] = None
  BY <1>0, NewTools DEF NewParser
<1>2. /\ emitter.open = None /\ emitter.kept = Nothing
  BY <1>0 DEF NewEmitter
<1>3. /\ client.begun = FALSE /\ client.block = None /\ client.got = 0 /\ client.final = 0 /\ client.ends = 0
      /\ client.errors = 0 /\ client.misplaced = {} /\ client.spoilt = {} /\ client.breaches = {}
      /\ DOMAIN client.items = {}
  BY <1>0 DEF NewClient
<1>4. up.open = FALSE /\ up.over = "no" /\ up.marked = FALSE
  BY <1>0 DEF NewUpstream
<1>5. /\ DOMAIN arrived = {} /\ DOMAIN events = {} /\ DOMAIN wire = {} /\ ~Shuts1
      /\ \A e : ~Coming(events, e) /\ \A fs : ~Shows(wire, fs)
  BY <1>0, EndsCome, Short DEF Shuts1
<1>6. Single
  BY <1>0, <1>1, <1>3, <1>4, <1>5 DEF Single, BeginsOnce, EndsLast, Begun, Starts
<1>7. LastShut /\ OpensEarly /\ EndsOpen
  BY <1>1, <1>2, <1>5 DEF LastShut, OpensEarly, EndsOpen
<1>8. Entering /\ OpenGiven
  BY <1>2, <1>5 DEF Entering, InWire, OpenGiven, Opened1
<1>9. Within
  BY <1>2, <1>3, <1>5 DEF Within
<1>10. DeltasNow
  BY <1>5 DEF DeltasNow, Event
<1>11. ByNumber
  BY <1>4, <1>5 DEF ByNumber
<1>12. BySlot
  <2>1. IsNow(None)
    BY <1>2, <1>5 DEF IsNow
  <2>2. NewestNow /\ TextNow /\ TextGiven
    BY <1>1, <2>1 DEF NewestNow, Newest1, TextNow, TextGiven
  <2>3. TextFirst /\ CallsLast
    BY <1>5 DEF TextFirst, CallsLast
  <2> QED
    BY <2>2, <2>3 DEF BySlot, Spoken1
<1>13. Whole
  <2>1. Nothing.pieces = 0 /\ Nothing.owners = {}
    BY FrameIs
  <2>2. EmptyKept /\ OwnKept /\ ShutKept /\ Placed /\ Clean
    BY <1>2, <1>3, <1>5, <2>1 DEF EmptyKept, OwnKept, ShutKept, Placed, Brings, Clean
  <2>3. Balance
    BY <1>2, <1>3, <1>5, <2>1 DEF Balance, Held, One
  <2> QED
    BY <2>2, <2>3 DEF Whole
<1> QED
  BY <1>3, <1>6, <1>7, <1>8, <1>9, <1>10, <1>11, <1>12, <1>13 DEF Neat, Sane

LEMMA NeatRests ==
  ASSUME Neat, UNCHANGED vars
  PROVE  Neat'
<1> USE DEF vars
<1> SUFFICES ASSUME up.orderly PROVE Neat'
  BY DEF Neat
<1>0. Single /\ client.breaches \subseteq {"shut again"} /\ (road[2] # "chat" => Sane)
  BY DEF Neat
<1>1. Single'
  BY <1>0 DEF Single, BeginsOnce, EndsLast, Begun, Starts
<1>2. ASSUME Sane PROVE Sane'
  <2>0. /\ LastShut /\ OpensEarly /\ Entering /\ Within /\ EndsOpen /\ OpenGiven
        /\ DeltasNow /\ ByNumber /\ BySlot /\ Whole
    BY <1>2 DEF Sane
  <2>1. /\ \A i : (Ends(i)' <=> Ends(i)) /\ (ToEnd(i)' <=> ToEnd(i))
        /\ \A i : StartsOnly(i)' <=> StartsOnly(i)
        /\ \A i, o : (InEvents(i, o)' <=> InEvents(i, o)) /\ (InWire(i, o)' <=> InWire(i, o))
        /\ \A i, o : (InClient(i, o)' <=> InClient(i, o)) /\ (Brings(i, o)' <=> Brings(i, o))
        /\ \A i, o : Opened1(i, o)' <=> Opened1(i, o)
        /\ \A e, i, k, o : Event(e, i, k, o)' <=> Event(e, i, k, o)
    BY DEF Ends, ToEnd, StartsOnly, InEvents, InWire, InClient, Brings, Opened1, Event
  <2>2. \A i : IsNow(i)' <=> IsNow(i)
    BY <2>1 DEF IsNow
  <2>3. \A i, o : (Given(i, o)' <=> Given(i, o)) /\ (Has(i, o)' <=> Has(i, o))
    BY <2>1 DEF Given, Has
  <2>4. \A n, i : Current(n, i)' <=> Current(n, i)
    BY <2>2 DEF Current
  <2>5. (Shuts1' <=> Shuts1) /\ Held' = Held
    BY DEF Shuts1, Held
  <2>6. LastShut' /\ OpensEarly'
    BY <2>0 DEF LastShut, OpensEarly
  <2>7. Entering'
    BY <2>0, <2>1, <2>5 DEF Entering
  <2>8. Within'
    BY <2>0, <2>1, <2>5 DEF Within
  <2>9. EndsOpen'
    BY <2>0, <2>1 DEF EndsOpen
  <2>10. OpenGiven'
    BY <2>0, <2>1, <2>3 DEF OpenGiven
  <2>11. DeltasNow'
    BY <2>0, <2>1, <2>2, <2>3 DEF DeltasNow
  <2>12. ByNumber'
    BY <2>0, <2>4 DEF ByNumber, Live
  <2>13. BySlot'
    <3> SUFFICES ASSUME Spoken1 PROVE Spoken1'
      BY <2>0 DEF BySlot
    <3>1. (NoCalls' <=> NoCalls) /\ \A s : Newest1(s)' <=> Newest1(s)
      BY DEF NoCalls, Newest1
    <3>2. \A n : (Prose(n)' <=> Prose(n)) /\ \A s : Call(n, s)' <=> Call(n, s)
      BY DEF Prose, Call
    <3>3. NewestNow'
      BY <2>2, <3>1 DEF Spoken1, NewestNow
    <3>4. TextNow'
      BY <2>2, <3>1 DEF Spoken1, TextNow
    <3>5. TextGiven'
      BY <2>3 DEF Spoken1, TextGiven
    <3>6. TextFirst'
      BY <3>1, <3>2 DEF Spoken1, TextFirst
    <3>7. CallsLast'
      BY <3>2 DEF Spoken1, CallsLast
    <3> QED
      BY <3>3, <3>4, <3>5, <3>6, <3>7 DEF Spoken1
  <2>14. Whole'
    <3>1. EmptyKept' /\ OwnKept' /\ Clean'
      BY <2>0 DEF Whole, EmptyKept, OwnKept, Clean
    <3>2. ShutKept'
      BY <2>0 DEF Whole, ShutKept
    <3>3. Placed'
      BY <2>0, <2>1 DEF Whole, Placed
    <3>4. Balance'
      BY <2>0, <2>5 DEF Whole, Balance
    <3> QED
      BY <3>1, <3>2, <3>3, <3>4 DEF Whole
  <2> QED
    BY <2>6, <2>7, <2>8, <2>9, <2>10, <2>11, <2>12, <2>13, <2>14 DEF Sane
<1>3. road' = road /\ client' = client
  OBVIOUS
<1> QED
  BY <1>0, <1>1, <1>2, <1>3 DEF Neat

LEMMA TranslationBegins == Init => TranslationInv
BY StreamBegins, NeatBegins DEF Init, TranslationInv

LEMMA TranslationStep ==
  ASSUME TranslationInv, [Next]_vars
  PROVE  TranslationInv'
<1>0. StreamInv /\ StreamInv'
  BY StreamStep, StreamRests DEF TranslationInv
<1>1. ASSUME Next PROVE phase' # "switched" => Neat'
  <2> SUFFICES ASSUME phase' # "switched" PROVE Neat'
    OBVIOUS
  <2>1. phase # "switched" /\ Typed /\ Streaming /\ Neat
    BY <1>0, <1>1, SwitchedRests DEF StreamInv, TranslationInv
  <2>2. Typed' /\ Streaming'
    BY <1>0 DEF StreamInv
  <2>3. OneStep
    BY <1>1, <2>1, Stepping DEF Streaming, Told, Ready, Arrivals, Content
  <2> QED
    BY <2>1, <2>2, <2>3, NeatStep DEF Streaming
<1>2. ASSUME UNCHANGED vars PROVE phase' # "switched" => Neat'
  <2>1. phase' = phase
    BY <1>2 DEF vars
  <2> QED
    BY <1>2, <2>1, NeatRests DEF TranslationInv
<1> QED
  BY <1>0, <1>1, <1>2 DEF TranslationInv

\* The stream of an orderly upstream has its frames where its client's protocol wants them.
LEMMA NestedHolds ==
  ASSUME TranslationInv
  PROVE  Nested
<1>1. CASE phase = "switched"
  <2>1. client = NewClient
    BY <1>1 DEF TranslationInv, StreamInv, Frozen
  <2>2. client.breaches = {}
    BY <2>1 DEF NewClient
  <2> QED
    BY <2>2 DEF Nested
<1>2. CASE phase # "switched"
  BY <1>2 DEF TranslationInv, Neat, Nested
<1> QED
  BY <1>1, <1>2

\* Once it has ended, the closing frames held all that the pieces held, each its own item's.
LEMMA FinalHolds ==
  ASSUME TranslationInv
  PROVE  FinalIsWhole
<1> SUFFICES ASSUME road[2] = "responses", up.orderly, client.ends = 1, wire = <<>>
             PROVE  client.final = client.got /\ client.spoilt = client.misplaced
  BY DEF FinalIsWhole
<1>1. phase # "switched"
  BY DEF TranslationInv, StreamInv, Frozen, NewClient
<1>2. Typed /\ Told /\ LastShut /\ Whole
  BY <1>1 DEF TranslationInv, StreamInv, Streaming, Neat, Sane
<1>3. client.ends > 0 /\ road[2] # "chat"
  OBVIOUS
<1>4. parser.finished /\ events = <<>>
  BY <1>2, <1>3, EndKnown
<1>5. emitter.open = None
  BY <1>2, <1>4, EndsCome DEF LastShut
<1>6. emitter.kept.pieces = 0
  BY <1>2, <1>5, FrameIs DEF Whole, EmptyKept
<1>7. Held = 0 /\ One(Shows(wire, {"delta"})) = 0
  BY Short DEF Held, Shuts1, One
<1>8. client.final \in Nat /\ client.got \in Nat
  BY <1>2 DEF Typed, IsClient
<1>9. client.final = client.got
  BY <1>2, <1>6, <1>7, <1>8 DEF Whole, Balance
<1> QED
  BY <1>2, <1>9 DEF Whole, Clean

(* ------------------------------- theorems ------------------------------ *)

\* The translation of streams: what holds in every reachable state.
THEOREM TranslationKeepsOrder == Spec => []TranslationInv
<1>1. Init => TranslationInv
  BY TranslationBegins
<1>2. TranslationInv /\ [Next]_vars => TranslationInv'
  BY TranslationStep
<1> QED
  BY <1>1, <1>2, PTL DEF Spec

\* Types and bounds; the end of a stream is told once, with its reason before it; an upstream
\* that sends its items one by one is read as the client's protocol wants it: the items do not
\* nest, each piece is in its item, each item is closed, and nothing comes after the end.
THEOREM StreamsAreWellFormed == Spec => []WellFormed
<1>1. TranslationInv => WellFormed
  <2> SUFFICES ASSUME TranslationInv PROVE WellFormed
    OBVIOUS
  <2>1. StreamInv
    BY DEF TranslationInv
  <2> QED
    BY <2>1, TypesHold, EndsHold, NestedHolds DEF WellFormed
<1> QED
  BY <1>1, TranslationKeepsOrder, PTL

\* Each piece that the upstream sent before it failed reaches the client; a piece of a call
\* reaches that call, however the upstream mixes its calls; and the closing frames of an
\* orderly stream hold what the pieces held.
THEOREM StreamsKeepFragments == Spec => []FragmentsKept
<1>1. TranslationInv => FragmentsKept
  <2> SUFFICES ASSUME TranslationInv PROVE FragmentsKept
    OBVIOUS
  <2>1. StreamInv
    BY DEF TranslationInv
  <2> QED
    BY <2>1, NothingLost, FinalHolds DEF FragmentsKept
<1> QED
  BY <1>1, TranslationKeepsOrder, PTL
=============================================================================
