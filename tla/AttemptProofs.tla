--------------------------- MODULE AttemptProofs ---------------------------
(***************************************************************************)
(* Proofs about Attempt, for any upstream, any number of requests, levels  *)
(* and retries, and facts that age and are cleared at any moment: the      *)
(* shapes that go out, what is learnt from refusals and what a request     *)
(* finds with it, and the order of the endpoints.                          *)
(***************************************************************************)
EXTENDS MCAttempt, SubsequenceProofs, TLAPS

-----------------------------------------------------------------------------
(* The ladder of levels.                                                    *)

\* A set of numbers has a least one.
LEMMA LeastOne ==
  ASSUME NEW S \in SUBSET Nat, S # {}
  PROVE  \E l \in S : \A h \in S : l <= h
<1> SUFFICES ASSUME \A l \in S : \E h \in S : h < l PROVE FALSE
  OBVIOUS
<1> DEFINE Z == {n \in Nat : \A h \in S : n <= h}
<1>1. 0 \in Z
  OBVIOUS
<1>2. \A n \in Z : n + 1 \in Z
  <2> SUFFICES ASSUME NEW n \in Z, NEW h \in S PROVE n + 1 <= h
    OBVIOUS
  <2>1. n # h
    BY DEF Z
  <2> QED
    BY <2>1
<1>3. Z = Nat
  BY <1>1, <1>2, Induction
<1>4. PICK h \in S : TRUE
  OBVIOUS
<1>5. h + 1 \in Z
  BY <1>3, <1>4
<1> QED
  BY <1>4, <1>5

\* And the greatest one if it is bounded.
LEMMA Extremes ==
  ASSUME NEW S \in SUBSET Levels, S # {}
  PROVE  /\ Lowest(S) \in S /\ \A h \in S : Lowest(S) <= h
         /\ Highest(S) \in S /\ \A h \in S : Highest(S) >= h
<1> USE AttemptAssumption DEF Levels
<1>1. \E l \in S : \A h \in S : l <= h
  BY LeastOne
<1>2. \E l \in S : \A h \in S : l >= h
  <2> DEFINE T == {n \in Nat : MaxLevel - n \in S}
  <2>1. T # {}
    <3>1. PICK l \in S : TRUE
      OBVIOUS
    <3>2. MaxLevel - l \in Nat /\ MaxLevel - (MaxLevel - l) = l
      BY <3>1
    <3> QED
      BY <3>1, <3>2
  <2>2. PICK n \in T : \A m \in T : n <= m
    BY <2>1, LeastOne
  <2>3. \A h \in S : MaxLevel - n >= h
    <3> SUFFICES ASSUME NEW h \in S PROVE MaxLevel - n >= h
      OBVIOUS
    <3>1. MaxLevel - h \in T
      <4>1. MaxLevel - h \in Nat /\ MaxLevel - (MaxLevel - h) = h
        OBVIOUS
      <4> QED
        BY <4>1
    <3> QED
      BY <2>2, <3>1
  <2> QED
    BY <2>2, <2>3
<1> QED
  BY <1>1, <1>2 DEF Lowest, Highest

\* What is known of the levels contradicts nothing, and none is known to be
\* refused when it is left out.
Sound(facts) ==
  /\ facts.accepted \in SUBSET Levels /\ facts.rejected \in SUBSET Levels
  /\ facts.accepted \cap facts.rejected = {}
  /\ facts.omitted = FALSE

\* EffortFacts::plan sends a level that is not known to be refused; it sends none
\* only when this level and all the stronger ones are.
LEMMA PlanIsOpen ==
  ASSUME NEW facts, Sound(facts), NEW l \in Levels
  PROVE  \/ Plan(facts, l) \in Levels \ facts.rejected
         \/ Plan(facts, l) = Omit /\ \A h \in Levels : h >= l => h \in facts.rejected
<1> DEFINE untried == Levels \ facts.rejected
<1>1. CASE l \in untried
  BY <1>1 DEF Plan
<1>2. CASE l \notin untried /\ Above(l, facts.accepted) # {}
  <2>1. Above(l, facts.accepted) \in SUBSET Levels
    BY DEF Sound, Above
  <2>2. Lowest(Above(l, facts.accepted)) \in Above(l, facts.accepted)
    BY <1>2, <2>1, Extremes
  <2>3. Lowest(Above(l, facts.accepted)) \in untried
    BY <2>2 DEF Sound, Above
  <2>4. Plan(facts, l) = Lowest(Above(l, facts.accepted))
    BY <1>2 DEF Plan
  <2> QED
    BY <2>3, <2>4
<1>3. CASE l \notin untried /\ Above(l, facts.accepted) = {} /\ Above(l, untried) # {}
  <2>1. Above(l, untried) \in SUBSET Levels
    BY DEF Above
  <2>2. Lowest(Above(l, untried)) \in Above(l, untried)
    BY <1>3, <2>1, Extremes
  <2>3. Lowest(Above(l, untried)) \in untried
    BY <2>2 DEF Above
  <2>4. Plan(facts, l) = Lowest(Above(l, untried))
    BY <1>3 DEF Plan
  <2> QED
    BY <2>3, <2>4
<1>4. CASE l \notin untried /\ Above(l, facts.accepted) = {} /\ Above(l, untried) = {}
  <2>1. Plan(facts, l) = Omit
    BY <1>4 DEF Plan, Sound
  <2>2. ASSUME NEW h \in Levels, h >= l PROVE h \in facts.rejected
    <3>1. CASE h = l
      BY <1>4, <3>1
    <3>2. CASE h > l
      BY <1>4, <3>2 DEF Above
    <3> QED
      BY <2>2, <3>1, <3>2, AttemptAssumption DEF Levels
  <2> QED
    BY <2>1, <2>2
<1> QED
  BY <1>1, <1>2, <1>3, <1>4

-----------------------------------------------------------------------------
(* Types, and what a request has where it is.                               *)

Fit == [accepted : SUBSET Levels, rejected : SUBSET Levels, omitted : BOOLEAN,
        yes : 0..Life, no : 0..Life]

Request == [pc : {"idle", "planned", "sent", "refused", "missing"},
            endpoint : Endpoints \cup {"none"}, shapes : Seq(Shapes),
            refused : SUBSET Endpoints, lost : BOOLEAN]

\* A request that has sent something has sent one shape at least, and none twice.
Sending(q) ==
  /\ q.pc # "idle" => q.endpoint \in Endpoints
  /\ q.pc \in {"sent", "refused"} => q.shapes # <<>>
  /\ q.pc \in {"idle", "planned"} => q.shapes = <<>>
  /\ q.pc = "idle" => q.refused = {}
  /\ Len(q.shapes) <= MaxRetries + 1
  /\ \A i, j \in DOMAIN q.shapes : q.shapes[i] = q.shapes[j] => i = j

\* What the account knows is sound, also when a part of it is old.
LEMMA FactsSound ==
  ASSUME NEW f \in Fit, f.accepted \cap f.rejected = {}, f.omitted = FALSE
  PROVE  Sound(Facts(f)) /\ Facts(f).rejected \in SUBSET f.rejected
BY DEF Sound, Facts, Fit

\* EffortFit::note keeps the facts apart.
LEMMA NotesTyped ==
  ASSUME NEW f \in Fit, f.accepted \cap f.rejected = {}, f.omitted = FALSE, NEW l \in Levels
  PROVE  /\ Accepted(f, l) \in Fit /\ Accepted(f, l).omitted = FALSE
         /\ Accepted(f, l).accepted \cap Accepted(f, l).rejected = {}
         /\ Rejected(f, l) \in Fit /\ Rejected(f, l).omitted = FALSE
         /\ Rejected(f, l).accepted \cap Rejected(f, l).rejected = {}
<1>1. Life \in 0..Life
  BY AttemptAssumption
<1> QED
  BY <1>1 DEF Accepted, Rejected, Fit

\* A level that is folded is a level.
LEMMA FoldedLevel ==
  ASSUME NEW l \in Levels
  PROVE  Folded(l) \in Levels
BY AttemptAssumption DEF Folded, Levels

\* align_thinking makes a shape.
LEMMA ShapeTyped ==
  ASSUME setup \in Setups, NEW f \in Fit, f.accepted \cap f.rejected = {}, f.omitted = FALSE,
         NEW e
  PROVE  ShapeFor(e, f) \in Shapes
<1>1. setup.asks \in Shapes
  BY AttemptAssumption DEF Setup
<1>2. Sound(Facts(f))
  BY FactsSound
<1>3. CASE e # "messages"
  BY <1>3 DEF ShapeFor, Shapes
<1>4. CASE e = "messages" /\ setup.asks \in Levels
  <2>1. Folded(setup.asks) \in Levels
    BY <1>4, FoldedLevel
  <2>2. Plan(Facts(f), Folded(setup.asks)) \in Levels \cup {Omit}
    BY <1>2, <2>1, PlanIsOpen
  <2>3. ShapeFor(e, f) = Plan(Facts(f), Folded(setup.asks))
    BY <1>4 DEF ShapeFor
  <2> QED
    BY <2>2, <2>3 DEF Shapes
<1>5. CASE e = "messages" /\ setup.asks \notin Levels
  BY <1>1, <1>5 DEF ShapeFor
<1> QED
  BY <1>3, <1>4, <1>5

\* One more shape, that has not gone out yet.
LEMMA NewShape ==
  ASSUME NEW s \in Seq(Shapes), NEW x \in Shapes,
         \A i, j \in DOMAIN s : s[i] = s[j] => i = j, \A i \in DOMAIN s : s[i] # x
  PROVE  LET t == Append(s, x) IN
         /\ t \in Seq(Shapes) /\ t # <<>> /\ Len(t) = Len(s) + 1
         /\ \A i \in DOMAIN s : i \in DOMAIN t /\ t[i] = s[i]
         /\ \A i \in DOMAIN t : i \in DOMAIN s \/ i = Len(t)
         /\ t[Len(t)] = x
         /\ \A i, j \in DOMAIN t : t[i] = t[j] => i = j
<1> DEFINE t == Append(s, x)
<1>1. /\ t \in Seq(Shapes) /\ Len(t) = Len(s) + 1 /\ DOMAIN t = 1..Len(t) /\ Len(s) \in Nat
      /\ DOMAIN s = 1..Len(s) /\ t[Len(t)] = x /\ t # <<>>
      /\ \A i \in 1..Len(s) : t[i] = s[i]
  OBVIOUS
<1> HIDE DEF t
<1>2. /\ \A i \in DOMAIN s : i \in DOMAIN t /\ t[i] = s[i]
      /\ \A i \in DOMAIN t : i \in DOMAIN s \/ i = Len(t)
  BY <1>1
<1>3. \A i, j \in DOMAIN t : t[i] = t[j] => i = j
  BY <1>1, <1>2
<1> QED
  BY <1>1, <1>2, <1>3 DEF t

-----------------------------------------------------------------------------
(* The order of the endpoints.                                              *)

\* Two sequences, one behind the other.
LEMMA Joined ==
  ASSUME NEW T, NEW s \in Seq(T), NEW t \in Seq(T)
  PROVE  /\ s \o t \in Seq(T)
         /\ Elements(s \o t) = Elements(s) \cup Elements(t)
         /\ s # <<>> => (s \o t)[1] = s[1]
         /\ s = <<>> => s \o t = t
<1> DEFINE u == s \o t
           n == Len(s)
<1>1. /\ u \in Seq(T) /\ DOMAIN u = 1..(n + Len(t))
      /\ DOMAIN s = 1..n /\ DOMAIN t = 1..Len(t) /\ n \in Nat /\ Len(t) \in Nat
      /\ \A i \in 1..(n + Len(t)) : u[i] = IF i <= n THEN s[i] ELSE t[i - n]
  OBVIOUS
<1> HIDE DEF u, n
<1>2. ASSUME NEW i \in DOMAIN s PROVE i \in DOMAIN u /\ u[i] = s[i]
  BY <1>1
<1>3. ASSUME NEW i \in DOMAIN t PROVE n + i \in DOMAIN u /\ u[n + i] = t[i]
  BY <1>1
<1>4. ASSUME NEW i \in DOMAIN u
      PROVE  \/ i \in DOMAIN s /\ u[i] = s[i]
             \/ i - n \in DOMAIN t /\ u[i] = t[i - n]
  BY <1>1
<1>5. Elements(u) \subseteq Elements(s) \cup Elements(t)
  BY <1>4 DEF Elements
<1>6. Elements(s) \subseteq Elements(u) /\ Elements(t) \subseteq Elements(u)
  BY <1>2, <1>3 DEF Elements
<1>7. s # <<>> => u[1] = s[1]
  <2> SUFFICES ASSUME s # <<>> PROVE u[1] = s[1]
    OBVIOUS
  <2>1. 1 \in DOMAIN s
    OBVIOUS
  <2> QED
    BY <1>2, <2>1
<1>8. s = <<>> => s \o t = t
  OBVIOUS
<1> QED
  BY <1>1, <1>5, <1>6, <1>7, <1>8 DEF u

\* Nothing is in an empty sequence, and in no other is nothing.
LEMMA EmptyOrNot ==
  ASSUME NEW T, NEW s \in Seq(T)
  PROVE  /\ s = <<>> <=> Elements(s) = {}
         /\ s # <<>> => s[1] \in Elements(s)
         /\ Elements(s) \subseteq T
<1>1. s # <<>> => 1 \in DOMAIN s
  OBVIOUS
<1>2. s = <<>> => DOMAIN s = {}
  OBVIOUS
<1>3. \A i \in DOMAIN s : s[i] \in T
  OBVIOUS
<1> QED
  BY <1>1, <1>2, <1>3 DEF Elements

\* The search for the endpoint of the request's own protocol ends with it.
LEMMA UptoOwn ==
  ASSUME NEW T, NEW s \in Seq(T), NEW d
  PROVE  LET upto == SelectInSeq(s, LAMBDA e : e = d)
             near == IF upto = 0 THEN s ELSE SubSeq(s, 1, upto)
         IN  /\ near \in Seq(T)
             /\ Elements(near) \subseteq Elements(s)
             /\ d \in Elements(s) => d \in Elements(near)
             /\ d \notin Elements(s) => near = s
<1> DEFINE I == {i \in 1..Len(s) : s[i] = d}
           upto == SelectInSeq(s, LAMBDA e : e = d)
           near == IF upto = 0 THEN s ELSE SubSeq(s, 1, upto)
<1>1. upto = IF I # {} THEN Min(I) ELSE 0
  BY DEF SelectInSeq
<1>2. /\ I \in SUBSET Nat /\ 0 \notin I /\ DOMAIN s = 1..Len(s) /\ Len(s) \in Nat
      /\ I # {} <=> d \in Elements(s)
  <2>1. DOMAIN s = 1..Len(s) /\ Len(s) \in Nat
    OBVIOUS
  <2> QED
    BY <2>1 DEF Elements
<1>3. I # {} => Min(I) \in I
  <2> SUFFICES ASSUME I # {} PROVE Min(I) \in I
    OBVIOUS
  <2> HIDE DEF I
  <2>1. \E l \in I : \A h \in I : l <= h
    BY <1>2, LeastOne
  <2> QED
    BY <2>1 DEF Min
<1> HIDE DEF upto
<1>4. /\ near \in Seq(T)
      /\ Elements(near) \subseteq Elements(s)
      /\ d \in Elements(s) => d \in Elements(near)
      /\ d \notin Elements(s) => near = s
  <2>1. CASE I = {}
    BY <1>1, <1>2, <2>1
  <2>2. CASE I # {}
    <3>1. upto \in 1..Len(s) /\ s[upto] = d /\ near = SubSeq(s, 1, upto)
      BY <1>1, <1>2, <1>3, <2>2
    <3>2. /\ near \in Seq(T) /\ DOMAIN near = 1..upto /\ \A i \in 1..upto : near[i] = s[i]
      <4>1. near \in Seq(T) /\ Len(near) = upto /\ \A i \in 1..upto : near[i] = s[i]
        BY <3>1, SubSeqProperties
      <4> QED
        BY <4>1
    <3> HIDE DEF near
    <3>3. upto \in 1..upto /\ 1..upto \subseteq 1..Len(s)
      BY <3>1, <1>2
    <3>4. Elements(near) \subseteq Elements(s)
      BY <1>2, <3>2, <3>3 DEF Elements
    <3>5. d \in Elements(near)
      BY <3>1, <3>2, <3>3 DEF Elements
    <3> QED
      BY <1>2, <2>2, <3>2, <3>4, <3>5
  <2> QED
    BY <2>1, <2>2
<1> QED
  BY <1>4 DEF upto

\* An endpoint that loses a part of the request is behind those that lose nothing.
InPlace(e, refused) ==
  e # setup.down /\ setup.fidelity[e] = "degraded"
  => \A f \in ToSet(Ordered) : (f = setup.down \/ setup.fidelity[f] = "lossless") => f \in refused

\* Three members make a sequence.
LEMMA ThreeOf ==
  ASSUME NEW T, NEW a \in T, NEW b \in T, NEW c \in T
  PROVE  <<a, b, c>> \in Seq(T)
OBVIOUS

\* endpoint_choices: the first endpoint of the plan was not refused, and what
\* loses a part of the request is first only if nothing better is left.
LEMMA BestFirst ==
  ASSUME setup \in Setups, NEW refused \in SUBSET Endpoints, EndpointChoices(refused) # <<>>
  PROVE  /\ Head(EndpointChoices(refused)) \in Endpoints
         /\ InPlace(Head(EndpointChoices(refused)), refused)
<1>1. setup.down \in Endpoints /\ setup.preferred \in Endpoints
  BY AttemptAssumption DEF Setup, Endpoints
<1>2. CASE setup.down = "count"
  <2>1. EndpointChoices(refused) = <<"count">>
    BY <1>2 DEF EndpointChoices
  <2>2. Head(EndpointChoices(refused)) = "count"
    BY <2>1
  <2> QED
    BY <1>1, <1>2, <2>2 DEF InPlace
<1>3. CASE setup.down # "count"
  <2> DEFINE left == Keep(Ordered, Endpoints \ refused)
             upto == SelectInSeq(left, LAMBDA e : e = setup.down)
             near == IF upto = 0 THEN left ELSE SubSeq(left, 1, upto)
             able == Keep(near, {e \in Endpoints : e = setup.down \/ Expresses(e)})
             of(t) == Keep(able, {e \in Endpoints : Tier(e) = t})
             two == of(1) \o of(2)
             three == two \o of(3)
             four == three \o of(4)
             better == four \o of(5)
             best == better \o of(6)
             m == IF Len(best) < MaxEndpoints THEN Len(best) ELSE MaxEndpoints
  <2>1. EndpointChoices(refused) = SubSeq(best, 1, m)
    BY <1>3 DEF EndpointChoices
  <2>2. Ordered \in Seq(Endpoints)
    <3>1. Inference \in Seq(Endpoints)
      <4>1. /\ DOMAIN Inference = 1..3
            /\ Inference[1] = "chat" /\ Inference[2] = "responses" /\ Inference[3] = "messages"
        BY DEF Inference
      <4>2. {"chat", "responses", "messages"} \subseteq Endpoints
        BY <4>1 DEF Endpoints, ToSet
      <4> QED
        BY <4>2, ThreeOf DEF Inference
    <3>2. <<setup.preferred>> \in Seq(Endpoints) /\ <<setup.down>> \in Seq(Endpoints)
      BY <1>1
    <3>3. /\ Keep(<<setup.preferred>>, Endpoints \ {setup.down}) \in Seq(Endpoints)
          /\ Keep(Inference, Endpoints \ {setup.down, setup.preferred}) \in Seq(Endpoints)
      BY <3>1, <3>2, KeepElements
    <3> QED
      BY <3>2, <3>3, Joined DEF Ordered
  <2>3. /\ left \in Seq(Endpoints)
        /\ Elements(left) = Elements(Ordered) \cap (Endpoints \ refused)
    BY <2>2, KeepElements
  <2> HIDE DEF left
  <2>4. /\ near \in Seq(Endpoints) /\ Elements(near) \subseteq Elements(left)
        /\ setup.down \in Elements(left) => setup.down \in Elements(near)
        /\ setup.down \notin Elements(left) => near = left
    <3> DEFINE d == setup.down
    <3> HIDE DEF d
    <3>1. LET k == SelectInSeq(left, LAMBDA e : e = d)
              l == IF k = 0 THEN left ELSE SubSeq(left, 1, k)
          IN  /\ l \in Seq(Endpoints)
              /\ Elements(l) \subseteq Elements(left)
              /\ d \in Elements(left) => d \in Elements(l)
              /\ d \notin Elements(left) => l = left
      BY <2>3, UptoOwn
    <3> QED
      BY <3>1 DEF d
  <2> HIDE DEF near
  <2>5. /\ able \in Seq(Endpoints)
        /\ Elements(able) = Elements(near)
                              \cap {e \in Endpoints : e = setup.down \/ Expresses(e)}
    BY <2>4, KeepElements
  <2> HIDE DEF able
  <2>6. \A t : /\ of(t) \in Seq(Endpoints)
               /\ Elements(of(t)) = Elements(able) \cap {e \in Endpoints : Tier(e) = t}
    BY <2>5, KeepElements
  <2> HIDE DEF of
  <2>7. /\ better \in Seq(Endpoints)
        /\ Elements(better) = Elements(of(1)) \cup Elements(of(2)) \cup Elements(of(3))
                                \cup Elements(of(4)) \cup Elements(of(5))
    <3>1. two \in Seq(Endpoints) /\ Elements(two) = Elements(of(1)) \cup Elements(of(2))
      BY <2>6, Joined
    <3> HIDE DEF two
    <3>2. three \in Seq(Endpoints) /\ Elements(three) = Elements(two) \cup Elements(of(3))
      BY <2>6, <3>1, Joined
    <3> HIDE DEF three
    <3>3. four \in Seq(Endpoints) /\ Elements(four) = Elements(three) \cup Elements(of(4))
      BY <2>6, <3>2, Joined
    <3> HIDE DEF four
    <3>4. better \in Seq(Endpoints) /\ Elements(better) = Elements(four) \cup Elements(of(5))
      BY <2>6, <3>3, Joined
    <3> HIDE DEF better
    <3> QED
      BY <3>1, <3>2, <3>3, <3>4
  <2> HIDE DEF better
  <2>8. /\ best \in Seq(Endpoints) /\ Elements(best) = Elements(better) \cup Elements(of(6))
        /\ better # <<>> => best[1] = better[1]
    BY <2>6, <2>7, Joined
  <2> HIDE DEF best
  <2>9. best # <<>> /\ Head(EndpointChoices(refused)) = best[1]
    <3>1. Len(best) \in Nat /\ MaxEndpoints \in Nat \ {0} /\ m \in Nat /\ m <= Len(best)
      BY <2>8, AttemptAssumption
    <3>2. SubSeq(best, 1, m) # <<>>
      BY <2>1
    <3>3. \A i \in 1..m : best[i] \in Endpoints
      BY <2>8, <3>1
    <3>4. Len(SubSeq(best, 1, m)) = m /\ \A i \in 1..m : SubSeq(best, 1, m)[i] = best[i]
      <4> HIDE DEF m
      <4>1. m + 1 - 1 = m
        BY <3>1
      <4> QED
        BY <2>8, <3>1
    <3>5. m # 0
      <4> HIDE DEF m
      <4> QED
        BY <3>2, <3>4, <2>8
    <3>6. Head(SubSeq(best, 1, m)) = best[1]
      <4> HIDE DEF m
      <4> QED
        BY <3>1, <3>4, <3>5, <2>8
    <3>7. best # <<>>
      BY <3>1, <3>5
    <3> QED
      BY <2>1, <3>6, <3>7
  <2> DEFINE e == best[1]
  <2>10. e \in Elements(best) /\ e \in Endpoints
    BY <2>8, <2>9, EmptyOrNot
  <2> HIDE DEF e
  <2>11. \A f : Tier(f) \in 1..6
    BY DEF Tier
  <2>12. ASSUME e # setup.down, setup.fidelity[e] = "degraded",
                NEW f \in ToSet(Ordered), f = setup.down \/ setup.fidelity[f] = "lossless",
                f \notin refused
         PROVE  FALSE
    <3>1. Tier(e) = 6
      BY <2>12 DEF Tier
    <3>2. better = <<>>
      <4> SUFFICES ASSUME better # <<>> PROVE FALSE
        OBVIOUS
      <4>1. e = better[1]
        BY <2>8 DEF e
      <4>2. e \in Elements(better)
        BY <2>7, <4>1, EmptyOrNot
      <4>3. Tier(e) \in 1..5
        BY <2>6, <2>7, <4>2
      <4> QED
        BY <3>1, <4>3
    <3>3. Elements(better) = {}
      BY <2>7, <3>2, EmptyOrNot
    <3>4. \A g \in Elements(able) : Tier(g) = 6
      <4> SUFFICES ASSUME NEW g \in Elements(able), Tier(g) \in 1..5 PROVE FALSE
        BY <2>11
      <4>1. g \in Endpoints
        BY <2>5
      <4>2. g \in Elements(of(Tier(g)))
        BY <2>6, <4>1
      <4>3. Tier(g) = 1 \/ Tier(g) = 2 \/ Tier(g) = 3 \/ Tier(g) = 4 \/ Tier(g) = 5
        OBVIOUS
      <4>4. g \in Elements(better)
        BY <2>7, <4>2, <4>3
      <4> QED
        BY <3>3, <4>4
    <3>5. f \in Elements(left)
      <4>1. f \in Elements(Ordered)
        BY <2>12 DEF ToSet, Elements
      <4>2. f \in Endpoints
        BY <2>2, <4>1, EmptyOrNot
      <4> QED
        BY <2>3, <2>12, <4>1, <4>2
    <3>6. setup.down \notin Elements(left)
      <4> SUFFICES ASSUME setup.down \in Elements(left) PROVE FALSE
        OBVIOUS
      <4>1. setup.down \in Elements(able)
        BY <1>1, <2>4, <2>5
      <4>2. Tier(setup.down) # 6
        BY DEF Tier
      <4> QED
        BY <3>4, <4>1, <4>2
    <3>7. setup.fidelity[f] = "lossless" /\ f \in Elements(near)
      BY <2>4, <2>12, <3>5, <3>6
    <3>8. f \in Elements(able)
      <4>1. f \in Endpoints /\ Expresses(f)
        BY <2>4, <3>7, EmptyOrNot DEF Expresses
      <4> QED
        BY <2>5, <3>7, <4>1
    <3>9. Tier(f) # 6
      BY <3>7 DEF Tier
    <3> QED
      BY <3>4, <3>8, <3>9
  <2> QED
    BY <2>9, <2>10, <2>12 DEF InPlace, e
<1> QED
  BY <1>2, <1>3

-----------------------------------------------------------------------------
(* What the steps keep.                                                     *)

\* Facts that agree; a refusal that is noted is one the upstream gave.
Known(f) ==
  /\ f \in Fit /\ f.accepted \cap f.rejected = {} /\ f.omitted = FALSE
  /\ \A l \in Levels : setup.takes[l] = "yes" => l \notin f.rejected

\* An upstream that takes a level always or never, and a request for a level.
Settled == setup.asks \in Levels /\ \A l \in Levels : setup.takes[l] # "maybe"

\* Neither the level that is asked for nor a stronger one is taken.
NoneTaken == \A h \in Levels : h >= Folded(setup.asks) => setup.takes[h] = "no"

\* The ladder so far: what went out before is known to be refused, unless facts
\* were forgotten since, and no level went out only after all the stronger ones.
Climbs(q, f) ==
  q.pc \in {"sent", "refused"} =>
    \A i \in DOMAIN q.shapes :
      /\ q.shapes[i] = Omit => NoneTaken
      /\ q.shapes[i] \in Levels => q.endpoint = "messages"
      /\ ~q.lost /\ (i < Len(q.shapes) \/ q.pc = "refused")
         => q.shapes[i] \in Facts(f).rejected

\* What holds of a request: its endpoint is not behind a better one that was not
\* refused, and it goes on after a refusal that it met.
Holds(q, f) ==
  /\ q \in Request /\ Sending(q)
  /\ q.pc = "refused" => Last(q.shapes) \in Levels /\ Refuses(Last(q.shapes))
  /\ q.pc \in {"planned", "sent", "refused"} => InPlace(q.endpoint, q.refused)
  /\ Settled => Climbs(q, f)

AttemptInv ==
  /\ setup \in Setups /\ supported \in [Endpoints -> 0..Life] /\ Known(fit)
  /\ req \in [Requests -> Request] /\ \A r \in Requests : Holds(req[r], fit)
  /\ ended.result \in Results \cup {"none"}
  /\ GuessIsFree /\ TakenIsFound

\* No facts are taken away from a request that still counts on them.
Lasts(f, g) == Settled => Facts(f).rejected \subseteq Facts(g).rejected

LEMMA HoldsOn ==
  ASSUME NEW q, NEW f, NEW g, Holds(q, f), Lasts(f, g)
  PROVE  Holds(q, g)
BY DEF Holds, Lasts, Climbs

\* The upstream stays what it is.
LEMMA SameSetup ==
  ASSUME setup' = setup, AttemptInv,
         supported' \in [Endpoints -> 0..Life], Known(fit'),
         req' \in [Requests -> Request], \A r \in Requests : Holds(req'[r], fit'),
         ended'.result \in Results \cup {"none"}, GuessIsFree', TakenIsFound'
  PROVE  AttemptInv'
<1>1. setup' \in Setups
  BY DEF AttemptInv
<1>2. Known(fit)'
  BY DEF Known
<1>3. \A e, s : InPlace(e, s)' <=> InPlace(e, s)
  BY DEF InPlace, Ordered
<1>4. Settled' <=> Settled
  BY DEF Settled
<1>5. NoneTaken' <=> NoneTaken
  BY DEF NoneTaken, Folded
<1>6. ASSUME NEW r \in Requests PROVE Holds(req[r], fit)'
  <2>1. Holds(req'[r], fit')
    OBVIOUS
  <2>2. InPlace(req'[r].endpoint, req'[r].refused) => InPlace(req[r].endpoint, req[r].refused)'
    BY DEF InPlace, Ordered
  <2>3. Climbs(req'[r], fit') => Climbs(req[r], fit)'
    BY <1>5 DEF Climbs, Facts
  <2>4. Refuses(Last(req'[r].shapes)) => Refuses(Last(req[r].shapes))'
    BY DEF Refuses, Last
  <2> QED
    BY <2>1, <2>2, <2>3, <2>4, <1>4 DEF Holds, Sending, Last
<1> QED
  BY <1>1, <1>2, <1>6 DEF AttemptInv

\* One request moves on, and facts are added.
LEMMA OneMoves ==
  ASSUME AttemptInv, setup' = setup, NEW r \in Requests, NEW q,
         req' = [req EXCEPT ![r] = q], Holds(q, fit'),
         supported' \in [Endpoints -> 0..Life], Known(fit'), Lasts(fit, fit'),
         ended'.result \in Results \cup {"none"}, GuessIsFree', TakenIsFound'
  PROVE  AttemptInv'
<1>1. q \in Request
  BY DEF Holds
<1>2. req' \in [Requests -> Request] /\ req'[r] = q /\ \A p \in Requests \ {r} : req'[p] = req[p]
  BY <1>1 DEF AttemptInv
<1>3. \A p \in Requests \ {r} : Holds(req[p], fit')
  <2> DEFINE f == fit  g == fit'
  <2>1. \A p \in Requests \ {r} : Holds(req[p], f)
    BY DEF AttemptInv
  <2>2. Lasts(f, g)
    OBVIOUS
  <2> HIDE DEF f, g
  <2>3. \A p \in Requests \ {r} : Holds(req[p], g)
    BY <2>1, <2>2, HoldsOn
  <2> QED
    BY <2>3 DEF g
<1>4. \A p \in Requests : Holds(req'[p], fit')
  <2> SUFFICES ASSUME NEW p \in Requests PROVE Holds(req'[p], fit')
    OBVIOUS
  <2>1. CASE p = r
    BY <1>2, <2>1
  <2>2. CASE p # r
    BY <1>2, <1>3, <2>2
  <2> QED
    BY <2>1, <2>2
<1> QED
  BY <1>2, <1>4, SameSetup

\* A step that ends nothing shows nothing of what was found.
LEMMA NothingEnded ==
  ASSUME ended' = None
  PROVE  /\ ended'.result \in Results \cup {"none"} /\ GuessIsFree' /\ TakenIsFound'
BY DEF None, GuessIsFree, TakenIsFound

\* A request that is done.
LEMMA IdleHolds ==
  ASSUME NEW f
  PROVE  Idle \in Request /\ Holds(Idle, f)
<1>1. Idle \in Request /\ Idle.pc = "idle" /\ Idle.shapes = <<>> /\ Idle.refused = {}
  BY DEF Idle, Request
<1>2. Len(<<>>) <= MaxRetries + 1 /\ \A i \in DOMAIN <<>> : FALSE
  BY AttemptAssumption
<1>3. Sending(Idle)
  BY <1>1, <1>2 DEF Sending
<1> QED
  BY <1>1, <1>3 DEF Holds, Climbs

LEMMA InitHolds == Init => AttemptInv
<1> SUFFICES ASSUME Init PROVE AttemptInv
  OBVIOUS
<1>1. 0 \in 0..Life
  BY AttemptAssumption
<1>2. Known(Unknown)
  BY <1>1 DEF Known, Unknown, Fit
<1>3. Idle \in Request /\ Holds(Idle, fit)
  BY IdleHolds
<1> QED
  BY <1>1, <1>2, <1>3 DEF Init, AttemptInv, None, GuessIsFree, TakenIsFound

\* An attempt ends: what is said of its endpoint and of its level.
LEMMA EndsWell ==
  ASSUME AttemptInv, setup' = setup, NEW r \in Requests, NEW result \in Results, NEW outcome,
         Ends(r, result, outcome),
         supported' \in [Endpoints -> 0..Life], Known(fit'), Lasts(fit, fit'),
         req[r].endpoint \in setup.served \/ outcome \notin {"fault", "key_invalid"},
         result = "effort" /\ outcome = "neutral" /\ ~req[r].lost /\ Settled
           => NoneTaken /\ setup.takes[Omit] # "yes"
  PROVE  AttemptInv'
<1>1. /\ req' = [req EXCEPT ![r] = Idle]
      /\ ended'.result = result /\ ended'.outcome = outcome
      /\ ended'.endpoint = req[r].endpoint /\ ended'.lost = req[r].lost
  BY DEF Ends
<1>2. Holds(Idle, fit')
  BY IdleHolds
<1>3. ended'.result \in Results \cup {"none"} /\ GuessIsFree'
  BY <1>1 DEF GuessIsFree
<1>4. TakenIsFound'
  BY <1>1 DEF TakenIsFound, Settled, NoneTaken, Folded
<1> QED
  BY <1>1, <1>2, <1>3, <1>4, OneMoves

\* What is known and supported does not change.
LEMMA SameFacts ==
  ASSUME AttemptInv, UNCHANGED <<setup, supported, fit>>
  PROVE  /\ setup' = setup /\ supported' \in [Endpoints -> 0..Life]
         /\ Known(fit') /\ Lasts(fit, fit')
BY DEF AttemptInv, Lasts

LEMMA EndsAsItWas ==
  ASSUME AttemptInv, UNCHANGED <<setup, supported, fit>>,
         NEW r \in Requests, NEW result \in Results, NEW outcome, Ends(r, result, outcome),
         req[r].endpoint \in setup.served \/ outcome \notin {"fault", "key_invalid"},
         result = "effort" /\ outcome = "neutral" /\ ~req[r].lost /\ Settled
           => NoneTaken /\ setup.takes[Omit] # "yes"
  PROVE  AttemptInv'
<1>1. /\ setup' = setup /\ supported' \in [Endpoints -> 0..Life]
      /\ Known(fit') /\ Lasts(fit, fit')
  BY SameFacts
<1> QED
  BY <1>1, EndsWell

\* And a request that only moves.
LEMMA MovesAsItWas ==
  ASSUME AttemptInv, UNCHANGED <<setup, supported, fit>>, NEW r \in Requests, NEW q,
         Goes(r, q), Holds(q, fit)
  PROVE  AttemptInv'
<1>1. /\ setup' = setup /\ supported' \in [Endpoints -> 0..Life]
      /\ Known(fit') /\ Lasts(fit, fit')
  BY SameFacts
<1>2. req' = [req EXCEPT ![r] = q] /\ ended' = None /\ Holds(q, fit')
  BY DEF Goes
<1>3. ended'.result \in Results \cup {"none"} /\ GuessIsFree' /\ TakenIsFound'
  BY <1>2, NothingEnded
<1> QED
  BY <1>1, <1>2, <1>3, OneMoves

-----------------------------------------------------------------------------
(* Step by step.                                                            *)

\* A plan is followed from its head.
LEMMA ToHolds ==
  ASSUME AttemptInv, NEW r \in Requests,
         EndpointChoices(req[r].refused) # <<>>
  PROVE  Holds(To(r, EndpointChoices(req[r].refused)), fit)
<1> DEFINE e == Head(EndpointChoices(req[r].refused))
           q == To(r, EndpointChoices(req[r].refused))
<1>1. setup \in Setups /\ req[r] \in Request /\ req[r].refused \in SUBSET Endpoints
  BY DEF AttemptInv, Holds, Request
<1>2. e \in Endpoints /\ InPlace(e, req[r].refused)
  BY <1>1, BestFirst
<1>3. q = [req[r] EXCEPT !.pc = "planned", !.endpoint = e, !.shapes = <<>>]
  BY DEF To
<1> HIDE DEF e, q
<1>4. /\ q \in Request /\ q.pc = "planned" /\ q.endpoint = e /\ q.shapes = <<>>
      /\ q.refused = req[r].refused
  <2> DEFINE o == req[r]
  <2>1. o \in Request
    BY <1>1
  <2>2. <<>> \in Seq(Shapes)
    OBVIOUS
  <2>3. q = [o EXCEPT !.pc = "planned", !.endpoint = e, !.shapes = <<>>]
    BY <1>3
  <2> HIDE DEF o
  <2>4. /\ q \in Request /\ q.pc = "planned" /\ q.endpoint = e /\ q.shapes = <<>>
        /\ q.refused = o.refused
    BY <1>2, <2>1, <2>2, <2>3 DEF Request
  <2> QED
    BY <2>4 DEF o
<1>5. Len(<<>>) <= MaxRetries + 1 /\ \A i \in DOMAIN <<>> : FALSE
  BY AttemptAssumption
<1>6. Sending(q)
  BY <1>2, <1>4, <1>5 DEF Sending
<1>7. Holds(q, fit)
  BY <1>2, <1>4, <1>6 DEF Holds, Climbs
<1> QED
  BY <1>7 DEF q

LEMMA StartKeeps ==
  ASSUME AttemptInv, NEW r \in Requests, Start(r)
  PROVE  AttemptInv'
<1>1. req[r].refused = {}
  BY DEF Start, AttemptInv, Holds, Sending
<1>2. Holds(To(r, EndpointChoices({})), fit)
  BY <1>1, ToHolds DEF Start
<1> QED
  BY <1>2, MovesAsItWas DEF Start

LEMMA ReplanKeeps ==
  ASSUME AttemptInv, NEW r \in Requests, Replan(r)
  PROVE  AttemptInv'
<1>1. CASE Ends(r, "switch", Missing)
  <2>1. "switch" \in Results /\ Missing \notin {"fault", "key_invalid"}
    BY DEF Results, Missing
  <2> QED
    BY <1>1, <2>1, EndsAsItWas DEF Replan
<1>2. CASE EndpointChoices(req[r].refused) # <<>>
           /\ Goes(r, To(r, EndpointChoices(req[r].refused)))
  BY <1>2, ToHolds, MovesAsItWas DEF Replan
<1> QED
  BY <1>1, <1>2 DEF Replan

\* What is sent for a level: one that is not known to be refused, or none when all
\* the stronger ones are.
LEMMA SentIsOpen ==
  ASSUME setup \in Setups, NEW f, Known(f), Settled, NEW e, ShapeFor(e, f) # Plain
  PROVE  /\ e = "messages"
         /\ ShapeFor(e, f) \notin Facts(f).rejected
         /\ ShapeFor(e, f) = Omit => NoneTaken
<1>1. /\ Sound(Facts(f)) /\ Facts(f).rejected \subseteq f.rejected
      /\ Facts(f).rejected \subseteq Levels
  BY FactsSound DEF Known, Sound
<1>2. /\ setup.asks \in Levels /\ Folded(setup.asks) \in Levels
      /\ \A l \in Levels : setup.takes[l] \in {"yes", "no"}
  <2>1. setup.takes \in [Levels \cup {Omit} -> {"yes", "no", "maybe"}]
    BY AttemptAssumption DEF Setup
  <2> QED
    BY <2>1, FoldedLevel DEF Settled
<1>3. e = "messages"
  BY DEF ShapeFor
<1>4. ShapeFor(e, f) = Plan(Facts(f), Folded(setup.asks))
  BY <1>2, <1>3 DEF ShapeFor
<1>5. \/ ShapeFor(e, f) \in Levels \ Facts(f).rejected
      \/ /\ ShapeFor(e, f) = Omit
         /\ \A h \in Levels : h >= Folded(setup.asks) => h \in Facts(f).rejected
  BY <1>1, <1>2, <1>4, PlanIsOpen
<1>6. Omit \notin Levels
  BY AttemptAssumption DEF Levels
<1>7. (\A h \in Levels : h >= Folded(setup.asks) => h \in Facts(f).rejected) => NoneTaken
  BY <1>1, <1>2 DEF NoneTaken, Known
<1> QED
  BY <1>1, <1>3, <1>5, <1>6, <1>7

LEMMA PrepareKeeps ==
  ASSUME AttemptInv, NEW r \in Requests, Prepare(r)
  PROVE  AttemptInv'
<1> DEFINE s == ShapeFor(req[r].endpoint, fit)
           q == [req[r] EXCEPT !.pc = "sent", !.shapes = <<s>>]
<1>1. Goes(r, q)
  BY DEF Prepare
<1>2. /\ setup \in Setups /\ Known(fit) /\ Holds(req[r], fit) /\ req[r].pc = "planned"
  BY DEF AttemptInv, Prepare
<1>3. s \in Shapes
  BY <1>2, ShapeTyped DEF Known
<1>4. /\ <<s>> \in Seq(Shapes) /\ Len(<<s>>) = 1 /\ <<s>> # <<>>
      /\ DOMAIN <<s>> = {1} /\ <<s>>[1] = s
  <2> HIDE DEF s
  <2> QED
    BY <1>3
<1>5. Settled => /\ s = Omit => NoneTaken
                 /\ s \in Levels => req[r].endpoint = "messages"
  <2>1. {Omit} \cup Levels \subseteq Shapes /\ Plain \notin Levels
    BY AttemptAssumption DEF Shapes, Levels
  <2>2. CASE s # Plain
    BY <1>2, <2>2, SentIsOpen
  <2>3. CASE s = Plain
    BY <2>1, <2>3, AttemptAssumption
  <2> QED
    BY <2>2, <2>3
<1>6. Sending(q) /\ q \in Request
  <2>1. /\ q.pc = "sent" /\ q.shapes = <<s>> /\ q.endpoint = req[r].endpoint
        /\ q \in Request /\ q.refused = req[r].refused
    BY <1>2, <1>4 DEF Holds, Request
  <2> HIDE DEF s, q
  <2>2. 1 <= MaxRetries + 1
    BY AttemptAssumption
  <2> QED
    BY <1>2, <1>4, <2>1, <2>2 DEF Holds, Sending
<1>7. Settled => Climbs(q, fit)
  <2>1. /\ q.pc = "sent" /\ q.shapes = <<s>> /\ q.endpoint = req[r].endpoint
    BY <1>2 DEF Holds, Request
  <2> HIDE DEF s, q
  <2> QED
    BY <1>4, <1>5, <2>1 DEF Climbs
<1>8. Holds(q, fit)
  <2>1. /\ q.pc = "sent" /\ q.endpoint = req[r].endpoint /\ q.refused = req[r].refused
    BY <1>2 DEF Holds, Request
  <2> HIDE DEF s, q
  <2> QED
    BY <1>2, <1>6, <1>7, <2>1 DEF Holds
<1> QED
  BY <1>1, <1>8, MovesAsItWas DEF Prepare

\* A level that is taken was not known to be refused, if it is always taken.
LEMMA SucceedsKeeps ==
  ASSUME AttemptInv, NEW r \in Requests, Succeeds(r)
  PROVE  AttemptInv'
<1> DEFINE s == Shape(r)
<1>1. /\ setup' = setup /\ setup \in Setups /\ Known(fit) /\ Life \in 0..Life
      /\ supported' \in [Endpoints -> 0..Life]
  <2>1. setup' = setup /\ supported' = [supported EXCEPT ![req[r].endpoint] = Life]
    BY DEF Succeeds
  <2>2. setup \in Setups /\ Known(fit) /\ supported \in [Endpoints -> 0..Life]
    BY DEF AttemptInv
  <2>3. Life \in 0..Life
    BY AttemptAssumption
  <2> QED
    BY <2>1, <2>2, <2>3
<1>2. Takes(s) /\ fit' = IF s \in Levels THEN Accepted(fit, s) ELSE fit
  BY DEF Succeeds
<1>3. \A l \in Levels : setup.takes[l] \in {"yes", "no", "maybe"} /\ l # Plain
  <2>1. setup.takes \in [Levels \cup {Omit} -> {"yes", "no", "maybe"}]
    BY <1>1, AttemptAssumption DEF Setup
  <2> QED
    BY <2>1, AttemptAssumption DEF Levels
<1> HIDE DEF s
<1>4. Known(fit')
  <2>1. CASE s \in Levels
    <3>1. /\ Accepted(fit, s) \in Fit /\ Accepted(fit, s).omitted = FALSE
          /\ Accepted(fit, s).accepted \cap Accepted(fit, s).rejected = {}
      BY <1>1, <2>1, NotesTyped DEF Known
    <3>2. Accepted(fit, s).rejected \subseteq fit.rejected
      BY <1>1 DEF Accepted, Fit, Known
    <3> QED
      BY <1>1, <1>2, <2>1, <3>1, <3>2 DEF Known
  <2> QED
    BY <1>1, <1>2, <2>1
<1>5. Lasts(fit, fit')
  <2> SUFFICES ASSUME Settled, s \in Levels
               PROVE  Facts(fit).rejected \subseteq Facts(Accepted(fit, s)).rejected
    BY <1>2 DEF Lasts
  <2>1. setup.takes[s] = "yes"
    BY <1>2, <1>3 DEF Takes, Settled
  <2>2. s \notin fit.rejected
    BY <1>1, <2>1 DEF Known
  <2>3. Accepted(fit, s).rejected = fit.rejected /\ Accepted(fit, s).no = fit.no
    BY <1>1, <2>2 DEF Accepted, Known, Fit
  <2> QED
    BY <2>3 DEF Facts
<1>6. Ends(r, "ok", "success") /\ "ok" \in Results
  BY DEF Succeeds, Results
<1> QED
  BY <1>1, <1>4, <1>5, <1>6, EndsWell

\* A refusal that is noted.
LEMMA NotedIsKnown ==
  ASSUME AttemptInv, NEW r \in Requests, Shape(r) \in Levels, Refuses(Shape(r))
  PROVE  /\ Known(Noted(r)) /\ Lasts(fit, Noted(r))
         /\ Shape(r) \in Facts(Noted(r)).rejected
         /\ Facts(fit).rejected \subseteq Facts(Noted(r)).rejected
<1> DEFINE l == Shape(r)
<1>1. Known(fit) /\ l \in Levels /\ setup.takes[l] # "yes" /\ Noted(r) = Rejected(fit, l)
  BY DEF AttemptInv, Refuses, Noted
<1> HIDE DEF l
<1>2. /\ Rejected(fit, l) \in Fit /\ Rejected(fit, l).omitted = FALSE
      /\ Rejected(fit, l).accepted \cap Rejected(fit, l).rejected = {}
  BY <1>1, NotesTyped DEF Known
<1>3. /\ Rejected(fit, l).rejected = fit.rejected \cup {l}
      /\ Rejected(fit, l).no = Life
  BY <1>1 DEF Rejected, Fit, Known
<1>4. Known(Noted(r))
  BY <1>1, <1>2, <1>3 DEF Known
<1>5. /\ l \in Facts(Noted(r)).rejected
      /\ Facts(fit).rejected \subseteq Facts(Noted(r)).rejected
  <2>1. Life > 0
    BY AttemptAssumption
  <2> QED
    BY <1>1, <1>3, <2>1 DEF Facts
<1> QED
  BY <1>4, <1>5 DEF Lasts, l

LEMMA RefusesLevelKeeps ==
  ASSUME AttemptInv, NEW r \in Requests, RefusesLevel(r)
  PROVE  AttemptInv'
<1> DEFINE o == req[r]
           q == [o EXCEPT !.pc = "refused"]
<1>1. /\ o.pc = "sent" /\ Shape(r) \in Levels /\ Refuses(Shape(r)) /\ Shape(r) = Last(o.shapes)
      /\ fit' = Noted(r) /\ req' = [req EXCEPT ![r] = q] /\ ended' = None
      /\ setup' = setup /\ supported' = supported
  BY DEF RefusesLevel, Serves, Goes, Shape
<1>2. /\ Known(fit') /\ Lasts(fit, fit') /\ Shape(r) \in Facts(fit').rejected
      /\ Facts(fit).rejected \subseteq Facts(fit').rejected
  BY <1>1, NotedIsKnown
<1>3. Holds(o, fit) /\ supported' \in [Endpoints -> 0..Life]
  BY <1>1 DEF AttemptInv
<1> HIDE DEF o
<1>4. /\ q \in Request /\ q.pc = "refused" /\ q.shapes = o.shapes /\ q.endpoint = o.endpoint
      /\ q.refused = o.refused /\ q.lost = o.lost
  BY <1>3 DEF Holds, Request
<1> HIDE DEF q
<1>5. Sending(q)
  BY <1>1, <1>3, <1>4 DEF Holds, Sending
<1>6. o.shapes \in Seq(Shapes)
  BY <1>3 DEF Holds, Request
<1>7. Settled => Climbs(q, fit')
  <2> SUFFICES ASSUME Settled, NEW i \in DOMAIN q.shapes
               PROVE  /\ q.shapes[i] = Omit => NoneTaken
                      /\ q.shapes[i] \in Levels => q.endpoint = "messages"
                      /\ ~q.lost => q.shapes[i] \in Facts(fit').rejected
    BY DEF Climbs
  <2>1. Climbs(o, fit)
    BY <1>3 DEF Holds
  <2>2. i \in DOMAIN o.shapes /\ i <= Len(o.shapes) /\ Len(o.shapes) \in Nat /\ i \in Nat
    BY <1>4, <1>6
  <2>3. CASE i = Len(o.shapes)
    BY <1>1, <1>2, <1>4, <2>1, <2>2, <2>3 DEF Climbs, Last
  <2>4. CASE i < Len(o.shapes)
    BY <1>1, <1>2, <1>4, <2>1, <2>2, <2>4 DEF Climbs
  <2> QED
    BY <2>2, <2>3, <2>4
<1>8. Holds(q, fit')
  BY <1>1, <1>3, <1>4, <1>5, <1>7 DEF Holds
<1>9. ended'.result \in Results \cup {"none"} /\ GuessIsFree' /\ TakenIsFound'
  BY <1>1, NothingEnded
<1> QED
  BY <1>1, <1>2, <1>3, <1>8, <1>9, OneMoves

\* A request that is refused a level does not run out of shapes, nor does it come to
\* one again, unless facts were forgotten: no more levels than there are go out.
LEMMA NeverOut ==
  ASSUME AttemptInv, NEW r \in Requests, req[r].pc = "refused", ~req[r].lost, Settled
  PROVE  /\ Len(req[r].shapes) <= MaxRetries
         /\ ~SentBefore(r, ShapeFor(req[r].endpoint, Noted(r)))
<1> DEFINE o == req[r]  s == req[r].shapes  n == Len(req[r].shapes)
           R == Facts(Noted(r)).rejected  next == ShapeFor(req[r].endpoint, Noted(r))
<1>1. /\ Holds(o, fit) /\ setup \in Setups /\ o.pc = "refused" /\ ~o.lost
  BY DEF AttemptInv
<1>2. Shape(r) \in Levels /\ Refuses(Shape(r))
  BY <1>1 DEF Holds, Shape
<1>3. Known(Noted(r)) /\ Facts(fit).rejected \subseteq R
  BY <1>2, NotedIsKnown
<1>4. R \in SUBSET Levels
  BY <1>3, FactsSound DEF Known, Sound
<1>5. \A i \in DOMAIN s : s[i] \in R
  BY <1>1, <1>3 DEF Holds, Climbs
<1>6. s \in Seq(Shapes) /\ \A i, j \in DOMAIN s : s[i] = s[j] => i = j
  BY <1>1 DEF Holds, Request, Sending
<1>7. n <= MaxRetries
  <2> HIDE DEF s, R
  <2> DEFINE F == {s[i] : i \in 1..Len(s)}
  <2>1. Len(s) \in Nat /\ DOMAIN s = 1..Len(s) /\ Len(s) <= Len(s)
    BY <1>6
  <2>2. IsFiniteSet(F) /\ Cardinality(F) = Len(s)
    <3> DEFINE k == Len(s)
    <3>1. k \in Nat /\ k <= Len(s)
      BY <2>1
    <3> HIDE DEF k
    <3>2. /\ IsFiniteSet({s[i] : i \in 1..k}) /\ Cardinality({s[i] : i \in 1..k}) = k
      BY <1>6, <3>1, FirstOnes
    <3> QED
      BY <3>2 DEF k
  <2>3. F \subseteq Levels
    BY <1>4, <1>5, <2>1
  <2>4. IsFiniteSet(Levels) /\ Cardinality(Levels) = MaxLevel + 1
    <3>1. MaxLevel \in Nat /\ ~(0 > MaxLevel) /\ MaxLevel - 0 + 1 = MaxLevel + 1
      BY AttemptAssumption
    <3>2. 0 \in Int /\ MaxLevel \in Int
      BY <3>1
    <3>3. /\ IsFiniteSet(0..MaxLevel)
          /\ Cardinality(0..MaxLevel) = IF 0 > MaxLevel THEN 0 ELSE MaxLevel - 0 + 1
      BY <3>2, FS_Interval
    <3> QED
      BY <3>1, <3>3 DEF Levels
  <2>5. Cardinality(F) <= Cardinality(Levels)
    <3> HIDE DEF F
    <3> QED
      BY <2>3, <2>4, FS_Subset
  <2>6. Len(s) <= MaxRetries
    <3> HIDE DEF F
    <3> QED
      BY <2>1, <2>2, <2>4, <2>5, AttemptAssumption
  <2> QED
    BY <2>6 DEF s
<1>8. next \notin R
  <2>1. CASE next # Plain
    BY <1>1, <1>3, <2>1, SentIsOpen
  <2>2. CASE next = Plain
    BY <1>4, <2>2, AttemptAssumption DEF Levels
  <2> QED
    BY <2>1, <2>2
<1>9. ~SentBefore(r, next)
  BY <1>5, <1>8 DEF SentBefore
<1> QED
  BY <1>7, <1>9

LEMMA RetryKeeps ==
  ASSUME AttemptInv, NEW r \in Requests, Retry(r)
  PROVE  AttemptInv'
<1> DEFINE o == req[r]
           s == ShapeFor(req[r].endpoint, Noted(r))
           t == Append(req[r].shapes, s)
           q == [req[r] EXCEPT !.pc = "sent", !.shapes = Append(@, s)]
<1>1. /\ Holds(o, fit) /\ setup \in Setups /\ o.pc = "refused" /\ "effort" \in Results
      /\ setup' = setup /\ supported' = supported /\ supported' \in [Endpoints -> 0..Life]
  BY DEF AttemptInv, Retry, Results
<1>2. Shape(r) \in Levels /\ Refuses(Shape(r))
  BY <1>1 DEF Holds, Shape
<1>3. /\ Known(Noted(r)) /\ Lasts(fit, Noted(r)) /\ Known(fit)
      /\ Facts(fit).rejected \subseteq Facts(Noted(r)).rejected
  BY <1>2, NotedIsKnown DEF AttemptInv
<1>4. CASE Len(req[r].shapes) > MaxRetries
  <2>1. Ends(r, "effort", "neutral") /\ UNCHANGED <<setup, supported, fit>>
    BY <1>4 DEF Retry
  <2>2. req[r].lost \/ ~Settled
    <3>1. Len(req[r].shapes) \in Nat /\ MaxRetries \in Nat
      BY <1>1, AttemptAssumption DEF Holds, Request
    <3> QED
      BY <1>1, <1>4, <3>1, NeverOut
  <2> QED
    BY <1>1, <2>1, <2>2, EndsAsItWas
<1>5. CASE ~(Len(req[r].shapes) > MaxRetries) /\ SentBefore(r, s)
  <2>1. Ends(r, "effort", "neutral") /\ fit' = Noted(r)
    BY <1>5 DEF Retry
  <2>2. req[r].lost \/ ~Settled
    BY <1>1, <1>5, NeverOut
  <2> QED
    BY <1>1, <1>3, <2>1, <2>2, EndsWell
<1>6. CASE ~(Len(req[r].shapes) > MaxRetries) /\ ~SentBefore(r, s)
  <2>1. req' = [req EXCEPT ![r] = q] /\ ended' = None /\ fit' = Noted(r)
    BY <1>6 DEF Retry, Goes
  <2>2. o.shapes \in Seq(Shapes) /\ Len(o.shapes) \in Nat /\ Len(o.shapes) <= MaxRetries
    BY <1>1, <1>6, AttemptAssumption DEF Holds, Request
  <2>3. s \in Shapes
    BY <1>1, <1>3, ShapeTyped DEF Known
  <2>4. \A i \in DOMAIN o.shapes : o.shapes[i] # s
    BY <1>6 DEF SentBefore
  <2>5. \A i, j \in DOMAIN o.shapes : o.shapes[i] = o.shapes[j] => i = j
    BY <1>1 DEF Holds, Sending
  <2>6. Settled => /\ s = Omit => NoneTaken
                   /\ s \in Levels => o.endpoint = "messages"
    <3>1. CASE s # Plain
      BY <1>1, <1>3, <3>1, SentIsOpen
    <3>2. CASE s = Plain
      BY <3>2, AttemptAssumption DEF Levels
    <3> QED
      BY <3>1, <3>2
  <2>7. t = Append(o.shapes, s) /\ q = [o EXCEPT !.pc = "sent", !.shapes = t]
    OBVIOUS
  <2> HIDE DEF o, s, q
  <2>8. /\ t \in Seq(Shapes) /\ t # <<>> /\ Len(t) = Len(o.shapes) + 1
        /\ \A i \in DOMAIN o.shapes : i \in DOMAIN t /\ t[i] = o.shapes[i]
        /\ \A i \in DOMAIN t : i \in DOMAIN o.shapes \/ i = Len(t)
        /\ t[Len(t)] = s
        /\ \A i, j \in DOMAIN t : t[i] = t[j] => i = j
    <3> DEFINE p == o.shapes
    <3>1. p \in Seq(Shapes) /\ t = Append(p, s)
      BY <2>2, <2>7
    <3>2. /\ \A i \in DOMAIN p : p[i] # s
          /\ \A i, j \in DOMAIN p : p[i] = p[j] => i = j
      BY <2>4, <2>5
    <3> HIDE DEF p, t
    <3>3. LET u == Append(p, s) IN
          /\ u \in Seq(Shapes) /\ u # <<>> /\ Len(u) = Len(p) + 1
          /\ \A i \in DOMAIN p : i \in DOMAIN u /\ u[i] = p[i]
          /\ \A i \in DOMAIN u : i \in DOMAIN p \/ i = Len(u)
          /\ u[Len(u)] = s
          /\ \A i, j \in DOMAIN u : u[i] = u[j] => i = j
      BY <2>3, <3>1, <3>2, NewShape
    <3> QED
      BY <3>1, <3>3 DEF p
  <2> HIDE DEF t
  <2>9. /\ q \in Request /\ q.pc = "sent" /\ q.shapes = t /\ q.endpoint = o.endpoint
        /\ q.refused = o.refused /\ q.lost = o.lost
    BY <1>1, <2>7, <2>8 DEF Holds, Request
  <2>10. Sending(q)
    <3>1. Len(t) <= MaxRetries + 1
      BY <2>2, <2>8, AttemptAssumption
    <3> QED
      BY <1>1, <2>8, <2>9, <3>1 DEF Holds, Sending
  <2>11. Settled => Climbs(q, fit')
    <3> SUFFICES ASSUME Settled, NEW i \in DOMAIN t
                 PROVE  /\ t[i] = Omit => NoneTaken
                        /\ t[i] \in Levels => o.endpoint = "messages"
                        /\ ~o.lost /\ i < Len(t) => t[i] \in Facts(fit').rejected
      BY <2>9 DEF Climbs
    <3>1. CASE i \in DOMAIN o.shapes
      BY <1>1, <1>3, <2>1, <2>8, <3>1 DEF Holds, Climbs
    <3>2. CASE i = Len(t)
      BY <2>2, <2>6, <2>8, <3>2
    <3> QED
      BY <2>8, <3>1, <3>2
  <2>12. Holds(q, fit')
    BY <1>1, <2>9, <2>10, <2>11 DEF Holds
  <2>13. ended'.result \in Results \cup {"none"} /\ GuessIsFree' /\ TakenIsFound'
    BY <2>1, NothingEnded
  <2> QED
    BY <1>1, <1>3, <2>1, <2>12, <2>13, OneMoves
<1> QED
  BY <1>4, <1>5, <1>6

\* The upstream refuses to think without a level: the request had come to this only
\* behind all the stronger ones.
LEMMA RefusesOmissionKeeps ==
  ASSUME AttemptInv, NEW r \in Requests, RefusesOmission(r)
  PROVE  AttemptInv'
<1> DEFINE o == req[r]
<1>1. /\ o.pc = "sent" /\ o.endpoint \in setup.served /\ Shape(r) = Omit /\ Refuses(Omit)
      /\ Ends(r, "effort", "neutral") /\ UNCHANGED <<setup, supported, fit>>
      /\ Holds(o, fit)
  BY DEF RefusesOmission, Serves, AttemptInv
<1>2. setup.takes[Omit] # "yes"
  BY <1>1 DEF Refuses
<1>3. Settled => NoneTaken
  <2>1. o.shapes \in Seq(Shapes) /\ o.shapes # <<>>
    BY <1>1 DEF Holds, Sending, Request
  <2>2. Len(o.shapes) \in DOMAIN o.shapes /\ o.shapes[Len(o.shapes)] = Omit
    BY <1>1, <2>1 DEF Shape, Last
  <2> QED
    BY <1>1, <2>2 DEF Holds, Climbs
<1>4. "effort" \in Results
  BY DEF Results
<1> QED
  BY <1>1, <1>2, <1>3, <1>4, EndsAsItWas

LEMMA EndpointRefusedKeeps ==
  ASSUME AttemptInv, NEW r \in Requests, EndpointRefused(r)
  PROVE  AttemptInv'
<1> DEFINE o == req[r]
           q == [req[r] EXCEPT !.pc = "missing", !.refused = @ \cup {req[r].endpoint}]
<1>1. UNCHANGED <<setup, supported, fit>> /\ o.pc = "sent" /\ Holds(o, fit)
  BY DEF EndpointRefused, AttemptInv
<1>2. CASE Ends(r, "final", "neutral")
  <2>1. "final" \in Results
    BY DEF Results
  <2> QED
    BY <1>1, <1>2, <2>1, EndsAsItWas
<1>3. CASE Goes(r, q)
  <2>1. q = [o EXCEPT !.pc = "missing", !.refused = o.refused \cup {o.endpoint}]
    BY <1>1 DEF Holds, Request
  <2> HIDE DEF q, o
  <2>2. o \in Request /\ Sending(o) /\ o.endpoint \in Endpoints
    BY <1>1 DEF Holds, Sending
  <2>3. /\ q \in Request /\ q.pc = "missing" /\ q.shapes = o.shapes
        /\ q.endpoint = o.endpoint
    BY <2>1, <2>2 DEF Request
  <2>4. Holds(q, fit)
    BY <1>1, <2>2, <2>3 DEF Holds, Sending, Climbs
  <2> QED
    BY <1>1, <1>3, <2>4, MovesAsItWas
<1> QED
  BY <1>2, <1>3 DEF EndpointRefused

\* The other ends, and none of them blames an endpoint that is not there.
LEMMA OtherEndsKeep ==
  ASSUME AttemptInv, NEW r \in Requests,
         \/ \E status \in {"404", "405"} : PreferredMissing(r, status)
         \/ \E how \in DOMAIN Refusals : Fails(r, how)
         \/ TimeOver(r)
  PROVE  AttemptInv'
<1>1. \E result \in Results : \E outcome :
        /\ Ends(r, result, outcome)
        /\ req[r].endpoint \in setup.served \/ outcome \notin {"fault", "key_invalid"}
        /\ result # "effort"
  <2>1. ASSUME NEW status \in {"404", "405"}, PreferredMissing(r, status)
        PROVE  Ends(r, "switch", "neutral") \/ Ends(r, "final", "neutral")
    BY <2>1 DEF PreferredMissing, Missing
  <2>2. ASSUME NEW how \in DOMAIN Refusals, Fails(r, how)
        PROVE  /\ req[r].endpoint \in setup.served
               /\ Ends(r, Refusals[how][1], Refusals[how][2])
               /\ Refusals[how][1] \in Results /\ Refusals[how][1] # "effort"
    BY <2>2 DEF Fails, Serves, Refusals, Results
  <2>3. ASSUME TimeOver(r)
        PROVE  \/ Ends(r, "timeout", "neutral") \/ Ends(r, "late", "neutral")
               \/ Ends(r, "switch", "neutral")
    BY <2>3 DEF TimeOver, Missing
  <2>4. {"timeout", "late", "switch", "final"} \subseteq Results
    BY DEF Results
  <2> QED
    BY <2>1, <2>2, <2>3, <2>4
<1>2. UNCHANGED <<setup, supported, fit>>
  BY DEF PreferredMissing, Fails, TimeOver
<1> QED
  BY <1>1, <1>2, EndsAsItWas

-----------------------------------------------------------------------------
(* Facts are forgotten.                                                     *)

\* A request that counts on facts that are forgotten is marked.
LEMMA LosingKeeps ==
  ASSUME AttemptInv, NEW loss \in BOOLEAN, req' = Losing(loss), setup' = setup,
         supported' \in [Endpoints -> 0..Life], Known(fit'), ended' = None,
         ~loss => Lasts(fit, fit')
  PROVE  AttemptInv'
<1>1. ASSUME NEW r \in Requests PROVE Holds(req'[r], fit')
  <2> DEFINE o == req[r]  q == req'[r]
  <2>1. o \in Request /\ Holds(o, fit)
    BY DEF AttemptInv, Holds
  <2>2. q = IF Active(r) /\ loss THEN [o EXCEPT !.lost = TRUE] ELSE o
    BY DEF Losing
  <2>3. CASE ~loss
    <3>1. q = o /\ Lasts(fit, fit')
      BY <2>2, <2>3
    <3>2. Holds(o, fit')
      BY <2>1, <3>1, HoldsOn
    <3> QED
      BY <3>1, <3>2
  <2>4. CASE loss /\ Active(r)
    <3>1. q = [o EXCEPT !.lost = TRUE]
      BY <2>2, <2>4
    <3> HIDE DEF o, q
    <3>2. /\ q \in Request /\ q.pc = o.pc /\ q.shapes = o.shapes /\ q.endpoint = o.endpoint
          /\ q.refused = o.refused /\ q.lost = TRUE
      BY <2>1, <3>1 DEF Request
    <3>3. Holds(q, fit')
      BY <2>1, <3>2 DEF Holds, Sending, Climbs
    <3> QED
      BY <3>3 DEF q
  <2>5. CASE loss /\ ~Active(r)
    <3>1. q = o /\ o.pc = "idle"
      BY <2>2, <2>5 DEF Active
    <3> HIDE DEF o, q
    <3>2. Holds(q, fit')
      BY <2>1, <3>1 DEF Holds, Climbs
    <3> QED
      BY <3>2 DEF q
  <2> QED
    BY <2>3, <2>4, <2>5
<1>2. req' \in [Requests -> Request]
  <2>1. \A r \in Requests : req'[r] \in Request
    BY <1>1 DEF Holds
  <2> QED
    BY <2>1 DEF Losing
<1>3. ended'.result \in Results \cup {"none"} /\ GuessIsFree' /\ TakenIsFound'
  BY NothingEnded
<1> QED
  BY <1>1, <1>2, <1>3, SameSetup

LEMMA AgesKeeps ==
  ASSUME AttemptInv, Ages
  PROVE  AttemptInv'
<1> DEFINE g == fit'  loss == 1 \in {fit.yes, fit.no}
<1>1. /\ setup' = setup /\ ended' = None /\ req' = Losing(loss)
      /\ fit' = [fit EXCEPT !.yes = IF @ = 0 THEN 0 ELSE @ - 1, !.no = IF @ = 0 THEN 0 ELSE @ - 1]
  BY DEF Ages
<1>2. fit \in Fit /\ Known(fit)
  BY DEF AttemptInv, Known
<1>3. /\ g.accepted = fit.accepted /\ g.rejected = fit.rejected /\ g.omitted = fit.omitted
      /\ g.yes = (IF fit.yes = 0 THEN 0 ELSE fit.yes - 1)
      /\ g.no = (IF fit.no = 0 THEN 0 ELSE fit.no - 1)
      /\ g = [accepted |-> g.accepted, rejected |-> g.rejected, omitted |-> g.omitted,
              yes |-> g.yes, no |-> g.no]
  BY <1>1, <1>2 DEF Fit
<1>4. g.yes \in 0..Life /\ g.no \in 0..Life
  <2>1. fit.yes \in 0..Life /\ fit.no \in 0..Life /\ Life \in Nat
    BY <1>2, AttemptAssumption DEF Fit
  <2> HIDE DEF g
  <2> QED
    BY <1>3, <2>1
<1>5. Known(fit')
  <2> HIDE DEF g
  <2>1. g \in Fit
    BY <1>2, <1>3, <1>4 DEF Fit
  <2>2. Known(g)
    BY <1>2, <1>3, <2>1 DEF Known
  <2> QED
    BY <2>2 DEF g
<1>6. supported' \in [Endpoints -> 0..Life]
  <2>1. supported \in [Endpoints -> 0..Life]
    BY DEF AttemptInv
  <2>2. \A e \in Endpoints : (IF supported[e] = 0 THEN 0 ELSE supported[e] - 1) \in 0..Life
    BY <2>1, AttemptAssumption
  <2> QED
    BY <2>2 DEF Ages
<1>7. ~loss => Lasts(fit, fit')
  <2> SUFFICES ASSUME fit.no # 1 PROVE Facts(fit).rejected \subseteq Facts(g).rejected
    BY DEF Lasts
  <2>1. fit.no \in Nat
    BY <1>2, AttemptAssumption DEF Fit
  <2> HIDE DEF g
  <2> QED
    BY <1>3, <2>1 DEF Facts
<1>8. loss \in BOOLEAN
  OBVIOUS
<1> HIDE DEF loss
<1> QED
  BY <1>1, <1>5, <1>6, <1>7, <1>8, LosingKeeps

LEMMA ClearKeeps ==
  ASSUME AttemptInv, Clear
  PROVE  AttemptInv'
<1>1. 0 \in 0..Life
  BY AttemptAssumption
<1>2. supported' \in [Endpoints -> 0..Life]
  BY <1>1 DEF Clear
<1>3. Known(Unknown)
  BY <1>1 DEF Known, Unknown, Fit
<1> QED
  BY <1>2, <1>3, LosingKeeps DEF Clear

-----------------------------------------------------------------------------
(* The theorems.                                                            *)

LEMMA NextKeeps ==
  ASSUME AttemptInv, [Next]_vars
  PROVE  AttemptInv'
<1>1. CASE Ages
  BY <1>1, AgesKeeps
<1>2. CASE Clear
  BY <1>2, ClearKeeps
<1>3. ASSUME NEW r \in Requests,
             \/ Start(r) \/ Prepare(r) \/ Succeeds(r) \/ RefusesLevel(r) \/ Retry(r)
             \/ RefusesOmission(r) \/ EndpointRefused(r) \/ Replan(r) \/ TimeOver(r)
             \/ \E status \in {"404", "405"} : PreferredMissing(r, status)
             \/ \E how \in DOMAIN Refusals : Fails(r, how)
      PROVE  AttemptInv'
  BY <1>3, StartKeeps, PrepareKeeps, SucceedsKeeps, RefusesLevelKeeps, RetryKeeps,
     RefusesOmissionKeeps, EndpointRefusedKeeps, ReplanKeeps, OtherEndsKeep
<1>4. CASE UNCHANGED vars
  <2>1. /\ setup' = setup /\ supported' = supported /\ fit' = fit /\ req' = req /\ ended' = ended
    BY <1>4 DEF vars
  <2>2. GuessIsFree' /\ TakenIsFound'
    BY <2>1 DEF AttemptInv, GuessIsFree, TakenIsFound, Folded
  <2> QED
    BY <2>1, <2>2, SameSetup DEF AttemptInv
<1> QED
  BY <1>1, <1>2, <1>3, <1>4 DEF Next

LEMMA AttemptAlways == Spec => []AttemptInv
<1>1. Init => AttemptInv
  BY InitHolds
<1>2. AttemptInv /\ [Next]_vars => AttemptInv'
  BY NextKeeps
<1> QED
  BY <1>1, <1>2, PTL DEF Spec

\* However the facts change while a request runs, each shape goes to an endpoint
\* once, and never more shapes than there are retries.  (sent_shapes.)
THEOREM ShapesGoOnce == Spec => []SentOnce
<1>1. AttemptInv => SentOnce
  <2> SUFFICES ASSUME AttemptInv PROVE TypeOK /\ ShapesDiffer
    BY DEF SentOnce
  <2>1. \A r \in Requests : req[r] \in Request /\ Sending(req[r])
    BY DEF AttemptInv, Holds
  <2>2. ShapesDiffer
    BY <2>1 DEF ShapesDiffer, Sending
  <2>3. fit \in Fit /\ fit.accepted \cap fit.rejected = {}
    BY DEF AttemptInv, Known
  <2>4. TypeOK
    BY <2>1, <2>3, AttemptAssumption DEF AttemptInv, TypeOK, Fit, Request, Sending
  <2> QED
    BY <2>2, <2>4
<1> QED
  BY <1>1, AttemptAlways, PTL

\* A level that the upstream always takes is never held for refused.
\* (EffortFacts::reject.)
THEOREM NoFalseRefusal == Spec => []TakenIsNotRefused
<1>1. AttemptInv => TakenIsNotRefused
  <2> SUFFICES ASSUME AttemptInv PROVE TakenIsNotRefused
    OBVIOUS
  <2>1. Known(fit) /\ Facts(fit).rejected \subseteq fit.rejected
    BY FactsSound DEF AttemptInv, Known
  <2> QED
    BY <2>1 DEF TakenIsNotRefused, Known
<1> QED
  BY <1>1, AttemptAlways, PTL

\* A request gives up on its level only when the upstream takes neither this one nor
\* a stronger one, nor none, unless facts are forgotten under it.
\* (EffortFacts::plan with the retries of walk_endpoints.)
THEOREM LadderFindsTaken == Spec => []TakenIsFound
<1>1. AttemptInv => TakenIsFound
  BY DEF AttemptInv
<1> QED
  BY <1>1, AttemptAlways, PTL

\* An endpoint that loses a part of the request is asked only when those that lose
\* nothing have refused, and a guessed endpoint that is not there is nobody's fault.
\* (endpoint_choices, tier and classify_outcome.)
THEOREM EndpointsAreInOrder == Spec => []EndpointsInOrder
<1>1. AttemptInv => EndpointsInOrder
  <2> SUFFICES ASSUME AttemptInv PROVE DegradedLast /\ GuessIsFree
    BY DEF EndpointsInOrder
  <2>1. \A r \in Requests : req[r].pc = "sent" => InPlace(req[r].endpoint, req[r].refused)
    BY DEF AttemptInv, Holds
  <2>2. DegradedLast
    BY <2>1 DEF DegradedLast, InPlace
  <2> QED
    BY <2>2 DEF AttemptInv
<1> QED
  BY <1>1, AttemptAlways, PTL
=============================================================================
