---------------------------- MODULE GatewayProofs ----------------------------
(***************************************************************************)
(* Theorems about Gateway (core/src/gateway_ll.c) for every set of module  *)
(* handles, every naming of the modules and every set of calls that fail.  *)
(***************************************************************************)
EXTENDS Gateway, FiniteSetTheorems, NaturalsInduction, WellFoundedInduction, TLAPS

USE DEF brokerVars, eventVars, vars, NameOf, MayFail

-----------------------------------------------------------------------------
(* Vectors *)

\* A vector that holds each of its elements once.
Once(s) == \A i, j \in DOMAIN s : s[i] = s[j] => i = j

\* A set of numbers with an element has a least one.
LEMMA LeastNumber ==
  ASSUME NEW T \in SUBSET Nat, T # {}
  PROVE  \E n \in T : \A k \in T : n <= k
<1>1. IsWellFoundedOn(OpToRel(<, Nat), Nat)
  BY NatLessThanWellFounded
<1>2. PICK n \in T : \A k \in T : ~(<<k, n>> \in OpToRel(<, Nat))
  BY <1>1, WFMin
<1>3. \A x, y \in Nat : <<y, x>> \in OpToRel(<, Nat) <=> y < x
  BY DEF OpToRel
<1>4. \A x, y \in Nat : ~(y < x) => x <= y
  OBVIOUS
<1> QED BY <1>2, <1>3, <1>4

LEMMA EndsOf ==
  ASSUME NEW S, NEW s \in Seq(S)
  PROVE  /\ \A x \in S : Append(s, x) \in Seq(S) /\ Append(s, x) # <<>>
                         /\ Append(s, x)[Len(Append(s, x))] = x
         /\ s # <<>> => /\ Head(s) = s[1] /\ Head(s) \in S /\ Tail(s) \in Seq(S)
                        /\ Len(s) = 1 => Tail(s) = <<>>
                        /\ Len(s) # 1 => /\ Tail(s) # <<>>
                                         /\ Tail(s)[Len(Tail(s))] = s[Len(s)]
<1>1. \A x \in S : Append(s, x) \in Seq(S) /\ Append(s, x) # <<>>
                   /\ Append(s, x)[Len(Append(s, x))] = x
  OBVIOUS
<1>2. ASSUME s # <<>>
      PROVE  /\ Head(s) = s[1] /\ Head(s) \in S /\ Tail(s) \in Seq(S)
             /\ Len(s) = 1 => Tail(s) = <<>>
             /\ Len(s) # 1 => Tail(s) # <<>> /\ Tail(s)[Len(Tail(s))] = s[Len(s)]
  <2>1. /\ Head(s) = s[1] /\ Head(s) \in S /\ Tail(s) \in Seq(S)
        /\ Len(s) \in Nat /\ Len(s) > 0 /\ Len(Tail(s)) = Len(s) - 1
        /\ \A i \in 1..(Len(s) - 1) : Tail(s)[i] = s[i + 1]
    BY <1>2
  <2>2. \A t \in Seq(S) : t = <<>> <=> Len(t) = 0
    OBVIOUS
  <2>3. Len(s) # 1 => Len(s) - 1 \in 1..(Len(s) - 1) /\ (Len(s) - 1) + 1 = Len(s)
    BY <2>1
  <2>4. Len(s) # 1 => Tail(s)[Len(Tail(s))] = s[Len(s)]
    BY <2>1, <2>3
  <2>5. Len(s) = 1 <=> Len(Tail(s)) = 0
    BY <2>1
  <2> QED BY <2>1, <2>2, <2>4, <2>5
<1> QED BY <1>1, <1>2

LEMMA AppendSet ==
  ASSUME NEW S, NEW s \in Seq(S), NEW x \in S
  PROVE  /\ Append(s, x) \in Seq(S) /\ Len(Append(s, x)) = Len(s) + 1
         /\ ToSet(Append(s, x)) = ToSet(s) \cup {x}
         /\ Once(s) /\ x \notin ToSet(s) => Once(Append(s, x))
<1> DEFINE t == Append(s, x)
<1>1. /\ t \in Seq(S) /\ Len(t) = Len(s) + 1
      /\ DOMAIN t = DOMAIN s \cup {Len(s) + 1}
      /\ \A i \in DOMAIN s : t[i] = s[i] /\ i # Len(s) + 1
      /\ t[Len(s) + 1] = x
  OBVIOUS
<1> HIDE DEF t
<1>2. ToSet(t) = ToSet(s) \cup {x}
  BY <1>1 DEF ToSet
<1>3. Once(s) /\ x \notin ToSet(s) => Once(t)
  BY <1>1 DEF Once, ToSet
<1> QED BY <1>1, <1>2, <1>3 DEF t

\* The prefixes that Without goes through.
Filtered(f, s, R, n) ==
  f = [i \in 0..n |-> IF i = 0 THEN <<>>
                      ELSE IF s[i] \in R THEN f[i - 1]
                      ELSE Append(f[i - 1], s[i])]

LEMMA FilteredExists ==
  ASSUME NEW s, NEW R, NEW N \in Nat
  PROVE  \E f : Filtered(f, s, R, N)
<1> DEFINE T == {n \in Nat : ~ \E f : Filtered(f, s, R, n)}
<1> SUFFICES ASSUME T # {} PROVE FALSE
  OBVIOUS
<1>1. PICK n \in T : \A k \in T : n <= k
  BY LeastNumber
<1>2. CASE n = 0
  <2>1. Filtered([i \in 0..0 |-> <<>>], s, R, 0)
    BY DEF Filtered
  <2> QED BY <1>1, <1>2, <2>1
<1>3. CASE n # 0
  <2>1. n - 1 \in Nat /\ n \in Nat /\ ~(n <= n - 1)
    BY <1>1, <1>3
  <2>2. PICK f : Filtered(f, s, R, n - 1)
    BY <1>1, <2>1
  <2> DEFINE v == IF s[n] \in R THEN f[n - 1] ELSE Append(f[n - 1], s[n])
             g == [i \in 0..n |-> IF i = n THEN v ELSE f[i]]
  <2> HIDE DEF v
  <2>3. \A i \in 0..n : i # n => i \in 0..(n - 1) /\ (i # 0 => i - 1 \in 0..(n - 1) /\ i - 1 # n)
    BY <2>1
  <2>4. n - 1 \in 0..n /\ n - 1 # n /\ n \in 0..n
    BY <2>1
  <2>5. /\ DOMAIN g = 0..n /\ g[n] = v
        /\ \A i \in 0..n : i # n => g[i] = f[i]
    BY <2>4
  <2>g. g = [i \in 0..n |-> g[i]]
    OBVIOUS
  <2> HIDE DEF g
  <2>6. \A i \in 0..n : g[i] = IF i = 0 THEN <<>>
                               ELSE IF s[i] \in R THEN g[i - 1]
                               ELSE Append(g[i - 1], s[i])
    <3> SUFFICES ASSUME NEW i \in 0..n
                 PROVE  g[i] = IF i = 0 THEN <<>>
                               ELSE IF s[i] \in R THEN g[i - 1]
                               ELSE Append(g[i - 1], s[i])
      OBVIOUS
    <3>1. CASE i = n
      BY <1>3, <2>4, <2>5, <3>1 DEF v
    <3>2. CASE i # n
      <4>1. i \in 0..(n - 1) /\ g[i] = f[i]
        BY <2>3, <2>5, <3>2
      <4>2. i # 0 => g[i - 1] = f[i - 1]
        <5>1. i # 0 => i - 1 \in 0..n /\ i - 1 # n
          BY <2>1
        <5> QED BY <2>5, <5>1
      <4> QED BY <2>2, <4>1, <4>2 DEF Filtered
    <3> QED BY <3>1, <3>2
  <2>7. Filtered(g, s, R, n)
    BY <2>g, <2>6 DEF Filtered
  <2> QED BY <1>1, <2>7
<1> QED BY <1>2, <1>3

\* The first n elements of s.
Prefix(s, n) == {s[k] : k \in 1..n}

LEMMA FilteredIs ==
  ASSUME NEW S, NEW s \in Seq(S), NEW R
  PROVE  \A f : Filtered(f, s, R, Len(s)) =>
           \A n \in 0..Len(s) :
             /\ f[n] \in Seq(S)
             /\ ToSet(f[n]) = Prefix(s, n) \ R
             /\ Once(s) => Once(f[n])
<1> SUFFICES ASSUME NEW f, Filtered(f, s, R, Len(s))
             PROVE  \A n \in 0..Len(s) :
                      /\ f[n] \in Seq(S)
                      /\ ToSet(f[n]) = Prefix(s, n) \ R
                      /\ Once(s) => Once(f[n])
  OBVIOUS
<1> DEFINE P(n) == /\ f[n] \in Seq(S)
                   /\ ToSet(f[n]) = Prefix(s, n) \ R
                   /\ Once(s) => Once(f[n])
           T == {n \in 0..Len(s) : ~P(n)}
<1> SUFFICES ASSUME T # {} PROVE FALSE
  OBVIOUS
<1>0. Len(s) \in Nat /\ DOMAIN s = 1..Len(s)
  OBVIOUS
<1>1. PICK n \in T : \A k \in T : n <= k
  <2>1. T \in SUBSET Nat
    BY <1>0
  <2> QED BY <2>1, LeastNumber
<1>2. CASE n = 0
  <2>1. f[0] = <<>>
    BY <1>0 DEF Filtered
  <2>2. ToSet(<<>>) = {} /\ Once(<<>>) /\ <<>> \in Seq(S)
    BY DEF ToSet, Once
  <2>3. Prefix(s, 0) = {}
    BY DEF Prefix
  <2> QED BY <1>1, <1>2, <2>1, <2>2, <2>3
<1>3. CASE n # 0
  <2>1. n \in 1..Len(s) /\ n - 1 \in 0..Len(s) /\ ~(n <= n - 1)
    BY <1>0, <1>1, <1>3
  <2>2. P(n - 1)
    BY <1>1, <2>1
  <2>3. f[n] = IF s[n] \in R THEN f[n - 1] ELSE Append(f[n - 1], s[n])
    BY <1>3, <2>1 DEF Filtered
  <2>4. s[n] \in S /\ \A k \in 1..(n - 1) : k \in DOMAIN s /\ k # n
    BY <1>0, <2>1
  <2>5. Prefix(s, n) = Prefix(s, n - 1) \cup {s[n]}
    <3>1. 1..n = 1..(n - 1) \cup {n}
      BY <2>1
    <3> QED BY <3>1 DEF Prefix
  <2>6. CASE s[n] \in R
    BY <1>1, <2>2, <2>3, <2>5, <2>6
  <2>7. CASE s[n] \notin R
    <3>1. Once(s) => s[n] \notin ToSet(f[n - 1])
      BY <1>0, <2>1, <2>2, <2>4 DEF Once, Prefix
    <3> DEFINE t == f[n - 1]
    <3>2. f[n] = Append(t, s[n]) /\ t \in Seq(S) /\ s[n] \in S
      BY <2>2, <2>3, <2>4, <2>7
    <3>3. ToSet(t) = Prefix(s, n - 1) \ R /\ (Once(s) => Once(t))
      BY <2>2
    <3> HIDE DEF t
    <3>4. /\ f[n] \in Seq(S) /\ ToSet(f[n]) = ToSet(t) \cup {s[n]}
          /\ Once(t) /\ s[n] \notin ToSet(t) => Once(f[n])
      BY <3>2, AppendSet
    <3>5. ToSet(f[n]) = Prefix(s, n) \ R
      BY <2>5, <2>7, <3>3, <3>4
    <3>6. Once(s) => Once(f[n])
      BY <3>1, <3>3, <3>4 DEF t
    <3> QED BY <1>1, <3>4, <3>5, <3>6
  <2> QED BY <2>6, <2>7
<1> QED BY <1>2, <1>3

\* What VECTOR_erase leaves: the other elements, none of them twice.
LEMMA WithoutIs ==
  ASSUME NEW S, NEW s \in Seq(S), NEW R
  PROVE  /\ Without(s, R) \in Seq(S)
         /\ ToSet(Without(s, R)) = ToSet(s) \ R
         /\ Once(s) => Once(Without(s, R))
<1> DEFINE kept == CHOOSE g : Filtered(g, s, R, Len(s))
<1>0. Len(s) \in Nat /\ DOMAIN s = 1..Len(s)
  OBVIOUS
<1>1. Without(s, R) = kept[Len(s)]
  BY DEF Without, Filtered
<1>2. \E f : Filtered(f, s, R, Len(s))
  BY <1>0, FilteredExists
<1>3. Filtered(kept, s, R, Len(s))
  BY <1>2
<1> HIDE DEF kept
<1>4. PICK f : f = kept /\ Filtered(f, s, R, Len(s))
  BY <1>3
<1>5. Len(s) \in 0..Len(s) /\ Prefix(s, Len(s)) = ToSet(s)
  BY <1>0 DEF ToSet, Prefix
<1>6. \A n \in 0..Len(s) :
        /\ f[n] \in Seq(S)
        /\ ToSet(f[n]) = Prefix(s, n) \ R
        /\ Once(s) => Once(f[n])
  BY <1>4, FilteredIs
<1> QED BY <1>1, <1>4, <1>5, <1>6

\* A vector without repetitions is as long as its set is large.
LEMMA OnceCounts ==
  ASSUME NEW S, NEW s \in Seq(S), Once(s)
  PROVE  IsFiniteSet(ToSet(s)) /\ Cardinality(ToSet(s)) = Len(s)
<1>1. Len(s) \in Nat /\ s \in [1..Len(s) -> S]
  OBVIOUS
<1>2. s \in Bijection(1..Len(s), ToSet(s))
  BY <1>1 DEF Bijection, Injection, Surjection, IsInjective, ToSet, Once
<1>3. ExistsBijection(1..Len(s), ToSet(s))
  BY <1>2 DEF ExistsBijection
<1> QED BY <1>1, <1>3, FS_CountingElements, FS_NatBijection

LEMMA WithoutOne ==
  ASSUME NEW S, NEW s \in Seq(S), Once(s), NEW x \in ToSet(s)
  PROVE  Len(Without(s, {x})) = Len(s) - 1
<1>1. /\ Without(s, {x}) \in Seq(S) /\ Once(Without(s, {x}))
      /\ ToSet(Without(s, {x})) = ToSet(s) \ {x}
  BY WithoutIs
<1>2. Cardinality(ToSet(Without(s, {x}))) = Len(Without(s, {x}))
  BY <1>1, OnceCounts
<1>3. IsFiniteSet(ToSet(s)) /\ Cardinality(ToSet(s)) = Len(s)
  BY OnceCounts
<1>4. Cardinality(ToSet(s) \ {x}) = Cardinality(ToSet(s)) - 1
  BY <1>3, FS_RemoveElement
<1> QED BY <1>1, <1>2, <1>3, <1>4

-----------------------------------------------------------------------------
(* Modules, links and subscriptions *)

\* The vectors hold different modules with different names, all of them alive,
\* and different links between them.
Structure ==
  /\ modules \in Seq(Handles) /\ links \in Seq(Link)
  /\ Members = live
  /\ Once(modules) /\ \A h, k \in Members : NameOf[h] = NameOf[k] => h = k
  /\ Once(links)
  /\ \A l \in ToSet(links) : l.sink \in Members /\ l.source \in Members \cup {All}

Edge(s, t) == [source |-> s, sink |-> t]

\* How often t is to be subscribed to s in a gateway of modules N and links E.
Asked(N, E, s, t) ==
  (IF Edge(s, t) \in E THEN 1 ELSE 0)
  + (IF s \in N /\ s # t /\ Edge(All, t) \in E THEN 1 ELSE 0)

Subscriptions == [Handles -> [Handles -> Nat]]
Brokered == attached \subseteq Handles /\ subs \in Subscriptions
Exact ==
  BrokerWorks => \A s, t \in Handles : subs[t][s] = Asked(Members, ToSet(links), s, t)
Referenced == refs = 1 + Len(modules)

\* A gateway between two of its operations.
Consistent == Structure /\ Brokered /\ Exact /\ Referenced

LEMMA LinkIs ==
  /\ \A l \in Link : l = Edge(l.source, l.sink) /\ l.sink \in Handles
                     /\ l.source \in Handles \cup {All}
  /\ \A s \in Handles \cup {All}, t \in Handles :
       Edge(s, t) \in Link /\ Edge(s, t).source = s /\ Edge(s, t).sink = t
  BY DEF Link, Edge

LEMMA SetOfSeq ==
  ASSUME NEW S, NEW s \in Seq(S)
  PROVE  ToSet(s) \subseteq S /\ \A x \in ToSet(s) : \E i \in 1..Len(s) : s[i] = x
  BY DEF ToSet

LEMMA AnySinksAre ==
  ASSUME links \in Seq(Link), NEW h \in Handles, NEW s, NEW t \in Handles
  PROVE  <<s, t>> \in AnySinks(h, Len(links)) <=> s = h /\ Edge(All, t) \in ToSet(links)
<1>1. ASSUME <<s, t>> \in AnySinks(h, Len(links))
      PROVE  s = h /\ Edge(All, t) \in ToSet(links)
  <2>1. PICK i \in 1..Len(links) : links[i].source = All /\ <<s, t>> = <<h, links[i].sink>>
    BY <1>1 DEF AnySinks
  <2>2. links[i] \in Link /\ links[i] \in ToSet(links)
    BY DEF ToSet
  <2> QED BY <2>1, <2>2, LinkIs
<1>2. ASSUME s = h, Edge(All, t) \in ToSet(links)
      PROVE  <<s, t>> \in AnySinks(h, Len(links))
  <2>1. PICK i \in 1..Len(links) : links[i] = Edge(All, t)
    BY <1>2, SetOfSeq
  <2>2. links[i].source = All /\ links[i].sink = t
    BY <2>1 DEF Edge
  <2> QED BY <1>2, <2>1, <2>2 DEF AnySinks
<1> QED BY <1>1, <1>2

LEMMA BrokerLinksAre ==
  ASSUME modules \in Seq(Handles), NEW l \in Link, NEW s, NEW t
  PROVE  <<s, t>> \in BrokerLinks(l) <=>
           t = l.sink /\ IF l.source = All THEN s \in Members /\ s # t ELSE s = l.source
<1>1. CASE l.source = All
  <2>1. ASSUME <<s, t>> \in BrokerLinks(l) PROVE t = l.sink /\ s \in Members /\ s # t
    <3>1. PICK i \in 1..Len(modules) : modules[i] # l.sink /\ <<s, t>> = <<modules[i], l.sink>>
      BY <1>1, <2>1 DEF BrokerLinks, AnySources
    <3> QED BY <3>1 DEF Members, ToSet
  <2>2. ASSUME t = l.sink, s \in Members, s # t PROVE <<s, t>> \in BrokerLinks(l)
    <3>1. PICK i \in 1..Len(modules) : modules[i] = s
      BY <2>2, SetOfSeq DEF Members
    <3> QED BY <1>1, <2>2, <3>1 DEF BrokerLinks, AnySources
  <2> QED BY <1>1, <2>1, <2>2
<1>2. CASE l.source # All
  BY <1>2 DEF BrokerLinks
<1> QED BY <1>1, <1>2

LEMMA SubscribedIs ==
  ASSUME NEW S \in Subscriptions, NEW P
  PROVE  /\ Subscribed(S, P) \in Subscriptions /\ Unsubscribed(S, P) \in Subscriptions
         /\ \A s, t \in Handles :
              /\ S[t][s] \in Nat
              /\ Subscribed(S, P)[t][s] = S[t][s] + (IF <<s, t>> \in P THEN 1 ELSE 0)
              /\ Unsubscribed(S, P)[t][s] =
                   S[t][s] - (IF <<s, t>> \in P /\ S[t][s] > 0 THEN 1 ELSE 0)
  BY DEF Subscribed, Unsubscribed, Subscriptions

LEMMA NoSubsIs == NoSubs \in [Handles -> Nat] /\ \A s \in Handles : NoSubs[s] = 0
  BY DEF NoSubs

LEMMA MembersAre ==
  ASSUME Structure
  PROVE  /\ Members \subseteq Handles /\ ToSet(links) \subseteq Link
         /\ \A s, t : Edge(s, t) \in ToSet(links) =>
                        t \in Members /\ s \in Members \cup {All}
  BY SetOfSeq DEF Structure, Members, Edge

-----------------------------------------------------------------------------
(* Operations *)

LEMMA AddModuleKeeps ==
  ASSUME Consistent, NEW h \in Handles, gateway_addmodule_internal(h), UNCHANGED setup
  PROVE  /\ Consistent' /\ Members' = Members \cup {h} /\ ToSet(links)' = ToSet(links)
<1> DEFINE S == [subs EXCEPT ![h] = NoSubs]
<1>1. /\ h \notin live /\ NameOf[h] \notin Names
      /\ modules' = Append(modules, h) /\ live' = live \cup {h}
      /\ attached' = attached \cup {h} /\ refs' = refs + 1 /\ links' = links
      /\ subs' = Subscribed(S, AnySinks(h, Len(links)))
  BY DEF gateway_addmodule_internal, CanAdd
<1>2. /\ Members \subseteq Handles /\ h \notin Members
      /\ \A s, t : Edge(s, t) \in ToSet(links) => t \in Members /\ s \in Members \cup {All}
  BY <1>1, MembersAre DEF Consistent, Structure
<1>3. /\ modules' \in Seq(Handles) /\ Len(modules') = Len(modules) + 1
      /\ Members' = Members \cup {h} /\ Once(modules')
  BY <1>1, <1>2, AppendSet DEF Consistent, Structure, Members
<1>4. Structure'
  <2>1. \A a, b \in Members' : NameOf'[a] = NameOf'[b] => a = b
    BY <1>1, <1>3 DEF Consistent, Structure, Names
  <2> QED BY <1>1, <1>3, <2>1 DEF Consistent, Structure
<1>5. /\ S \in Subscriptions
      /\ \A s, t \in Handles : S[t][s] = IF t = h THEN 0 ELSE subs[t][s]
  BY NoSubsIs DEF Consistent, Brokered, Subscriptions
<1> HIDE DEF S
<1>6. Brokered'
  BY <1>1, <1>5, SubscribedIs DEF Consistent, Brokered
<1>7. Exact'
  <2> SUFFICES ASSUME BrokerWorks, NEW s \in Handles, NEW t \in Handles
               PROVE  subs'[t][s] = Asked(Members', ToSet(links), s, t)
    BY <1>1 DEF Exact, BrokerWorks
  <2>1. subs'[t][s] = S[t][s] + (IF s = h /\ Edge(All, t) \in ToSet(links) THEN 1 ELSE 0)
    <3>1. <<s, t>> \in AnySinks(h, Len(links)) <=> s = h /\ Edge(All, t) \in ToSet(links)
      BY AnySinksAre DEF Consistent, Structure
    <3> QED BY <1>1, <1>5, <3>1, SubscribedIs
  <2>2. subs[t][s] = Asked(Members, ToSet(links), s, t)
    BY DEF Consistent, Exact
  <2>3. CASE t = h
    BY <1>2, <1>5, <2>1, <2>3 DEF Asked
  <2>4. CASE t # h
    <3>1. S[t][s] = Asked(Members, ToSet(links), s, t)
      BY <1>5, <2>2, <2>4
    <3>2. CASE s = h
      <4>1. Edge(s, t) \notin ToSet(links) /\ s # All
        BY <1>2, <3>2, NameAssumption
      <4> QED BY <1>2, <1>3, <2>1, <2>4, <3>1, <3>2, <4>1 DEF Asked
    <3>3. CASE s # h
      BY <1>3, <2>1, <3>1, <3>3 DEF Asked
    <3> QED BY <3>2, <3>3
  <2> QED BY <2>3, <2>4
<1>8. Referenced'
  BY <1>1, <1>3 DEF Consistent, Referenced, Structure
<1> QED BY <1>1, <1>3, <1>4, <1>6, <1>7, <1>8 DEF Consistent

LEMMA AddModuleUndone ==
  ASSUME Consistent, NEW h \in Handles, gateway_addmodule_undone(h), UNCHANGED setup
  PROVE  Consistent' /\ UNCHANGED <<modules, links>>
<1>1. UNCHANGED <<modules, links, live, refs>> /\ attached' \subseteq Handles
  BY DEF gateway_addmodule_undone, Consistent, Brokered
<1>2. subs' \in Subscriptions /\ (BrokerWorks => subs' = subs)
  <2>1. CASE subs' = subs
    BY <2>1 DEF Consistent, Brokered
  <2>2. CASE /\ "Broker_AddLink" \in MayFail
             /\ \E n \in 1..Len(links) :
                  subs' = Unsubscribed(Subscribed(subs, AnySinks(h, n - 1)),
                                       AnySinks(h, Len(links)))
    BY <2>2, SubscribedIs DEF Consistent, Brokered, BrokerWorks, BrokerCalls
  <2> QED BY <2>1, <2>2 DEF gateway_addmodule_undone
<1>3. Structure' /\ Referenced'
  BY <1>1 DEF Consistent, Structure, Referenced, Members
<1>4. Exact'
  BY <1>1, <1>2 DEF Consistent, Exact, BrokerWorks, Members
<1> QED BY <1>1, <1>2, <1>3, <1>4 DEF Consistent, Brokered

LEMMA RemoveModuleKeeps ==
  ASSUME Consistent, NEW h \in Members, gateway_removemodule_internal(h), UNCHANGED setup
  PROVE  /\ Consistent' /\ Members' = Members \ {h}
         /\ ToSet(links)' = {l \in ToSet(links) : h \notin {l.source, l.sink}}
<1> DEFINE mine == {l \in ToSet(links) : Naming(h, l)}
           fromAny == UNION {BrokerLinks(l) : l \in {k \in mine : k.source = All}}
           regular == UNION {BrokerLinks(l) : l \in {k \in mine : k.source # All}}
           one == Unsubscribed(subs, AnySinks(h, Len(links)))
           two == Unsubscribed(one, fromAny)
           left == Unsubscribed(two, regular)
<1>0. /\ Members \subseteq Handles /\ h \in Handles /\ h # All /\ ToSet(links) \subseteq Link
      /\ \A s, t : Edge(s, t) \in ToSet(links) => t \in Members /\ s \in Members \cup {All}
  BY MembersAre, NameAssumption DEF Consistent
<1>1. /\ \/ subs' = [left EXCEPT ![h] = NoSubs] /\ attached' = attached \ {h}
         \/ "Broker_RemoveModule" \in MayFail /\ subs' = left /\ UNCHANGED attached
      /\ links' = Without(links, mine) /\ modules' = Without(modules, {h})
      /\ live' = live \ {h} /\ refs' = refs - 1
  BY DEF gateway_removemodule_internal
<1>2. /\ modules' \in Seq(Handles) /\ Members' = Members \ {h} /\ Once(modules')
      /\ Len(modules') = Len(modules) - 1
  BY <1>1, WithoutIs, WithoutOne DEF Consistent, Structure, Members
<1>3. /\ links' \in Seq(Link) /\ Once(links') /\ ToSet(links)' = ToSet(links) \ mine
  BY <1>1, WithoutIs DEF Consistent, Structure
<1>4. ToSet(links)' = {l \in ToSet(links) : h \notin {l.source, l.sink}}
  BY <1>3 DEF Naming
<1>5. Structure'
  <2>1. \A a, b \in Members' : NameOf'[a] = NameOf'[b] => a = b
    BY <1>2 DEF Consistent, Structure
  <2>2. \A l \in ToSet(links)' : l.sink \in Members' /\ l.source \in Members' \cup {All}
    BY <1>2, <1>4 DEF Consistent, Structure
  <2> QED BY <1>1, <1>2, <1>3, <2>1, <2>2 DEF Consistent, Structure
<1>6. Referenced'
  BY <1>1, <1>2 DEF Consistent, Structure, Referenced
<1>7. /\ one \in Subscriptions /\ two \in Subscriptions /\ left \in Subscriptions
      /\ \A s, t \in Handles :
           /\ one[t][s] \in Nat /\ two[t][s] \in Nat
           /\ one[t][s] = subs[t][s] - (IF <<s, t>> \in AnySinks(h, Len(links))
                                           /\ subs[t][s] > 0 THEN 1 ELSE 0)
           /\ two[t][s] = one[t][s] - (IF <<s, t>> \in fromAny /\ one[t][s] > 0
                                       THEN 1 ELSE 0)
           /\ left[t][s] = two[t][s] - (IF <<s, t>> \in regular /\ two[t][s] > 0
                                        THEN 1 ELSE 0)
  <2> HIDE DEF fromAny, regular
  <2>1. /\ one \in Subscriptions
        /\ \A s, t \in Handles :
             one[t][s] = subs[t][s] - (IF <<s, t>> \in AnySinks(h, Len(links))
                                          /\ subs[t][s] > 0 THEN 1 ELSE 0)
    BY SubscribedIs DEF Consistent, Brokered
  <2> HIDE DEF one
  <2>2. /\ two \in Subscriptions
        /\ \A s, t \in Handles :
             /\ one[t][s] \in Nat
             /\ two[t][s] = one[t][s] - (IF <<s, t>> \in fromAny /\ one[t][s] > 0
                                         THEN 1 ELSE 0)
    BY <2>1, SubscribedIs
  <2> HIDE DEF two
  <2>3. /\ left \in Subscriptions
        /\ \A s, t \in Handles :
             /\ two[t][s] \in Nat
             /\ left[t][s] = two[t][s] - (IF <<s, t>> \in regular /\ two[t][s] > 0
                                          THEN 1 ELSE 0)
    BY <2>2, SubscribedIs
  <2> QED BY <2>1, <2>2, <2>3
<1>8. \A s, t \in Handles : t # h =>
        /\ <<s, t>> \in AnySinks(h, Len(links)) <=> s = h /\ Edge(All, t) \in ToSet(links)
        /\ <<s, t>> \notin fromAny
        /\ <<s, t>> \in regular <=> s = h /\ Edge(s, t) \in ToSet(links)
  <2> SUFFICES ASSUME NEW s \in Handles, NEW t \in Handles, t # h
               PROVE  /\ <<s, t>> \in AnySinks(h, Len(links)) <=>
                           s = h /\ Edge(All, t) \in ToSet(links)
                      /\ <<s, t>> \notin fromAny
                      /\ <<s, t>> \in regular <=> s = h /\ Edge(s, t) \in ToSet(links)
    OBVIOUS
  <2>1. \A l \in Link : <<s, t>> \in BrokerLinks(l) <=>
           t = l.sink /\ IF l.source = All THEN s \in Members /\ s # t ELSE s = l.source
    BY BrokerLinksAre DEF Consistent, Structure
  <2>2. <<s, t>> \notin fromAny
    BY <1>0, <2>1 DEF Naming
  <2>3. ASSUME <<s, t>> \in regular PROVE s = h /\ Edge(s, t) \in ToSet(links)
    <3>1. PICK l \in mine : l.source # All /\ <<s, t>> \in BrokerLinks(l)
      BY <2>3
    <3>2. l \in Link /\ l = Edge(s, t) /\ l.source = s /\ l.sink = t
      BY <1>0, <2>1, <3>1, LinkIs
    <3> QED BY <3>2 DEF Naming
  <2>4. ASSUME s = h, Edge(s, t) \in ToSet(links) PROVE <<s, t>> \in regular
    <3>1. Edge(s, t) \in mine /\ Edge(s, t).source # All /\ Edge(s, t) \in Link
          /\ Edge(s, t).source = s /\ Edge(s, t).sink = t
      BY <1>0, <2>4 DEF Naming, Edge
    <3>2. <<s, t>> \in BrokerLinks(Edge(s, t))
      BY <2>1, <3>1
    <3> QED BY <3>1, <3>2
  <2>5. <<s, t>> \in AnySinks(h, Len(links)) <=> s = h /\ Edge(All, t) \in ToSet(links)
    BY <1>0, AnySinksAre DEF Consistent, Structure
  <2> QED BY <2>2, <2>3, <2>4, <2>5
<1>9. Edge(All, h) \notin ToSet(links)' /\ \A s, t : Edge(s, t) \in ToSet(links)' <=>
                       Edge(s, t) \in ToSet(links) /\ s # h /\ t # h
  BY <1>4 DEF Edge
<1> HIDE DEF left, two, one, fromAny, regular, mine
<1>10. Brokered'
  BY <1>0, <1>1, <1>7, NoSubsIs DEF Consistent, Brokered, Subscriptions
<1>11. Exact'
  <2> SUFFICES ASSUME BrokerWorks, NEW s \in Handles, NEW t \in Handles
               PROVE  subs'[t][s] = Asked(Members', ToSet(links)', s, t)
    BY DEF Exact, BrokerWorks
  <2>1. subs' = [left EXCEPT ![h] = NoSubs]
    BY <1>1 DEF BrokerWorks, BrokerCalls
  <2>2. subs[t][s] = Asked(Members, ToSet(links), s, t)
    BY DEF Consistent, Exact
  <2>5. subs[t][s] \in Nat
    BY DEF Consistent, Brokered, Subscriptions
  <2>6. /\ one[t][s] \in Nat /\ two[t][s] \in Nat
        /\ one[t][s] = subs[t][s] - (IF <<s, t>> \in AnySinks(h, Len(links))
                                        /\ subs[t][s] > 0 THEN 1 ELSE 0)
        /\ two[t][s] = one[t][s] - (IF <<s, t>> \in fromAny /\ one[t][s] > 0
                                    THEN 1 ELSE 0)
        /\ left[t][s] = two[t][s] - (IF <<s, t>> \in regular /\ two[t][s] > 0
                                     THEN 1 ELSE 0)
    BY <1>7
  <2>3. CASE t = h
    <3>1. subs'[t][s] = 0
      BY <1>7, <2>1, <2>3, NoSubsIs DEF Subscriptions
    <3> QED BY <1>9, <2>3, <3>1 DEF Asked
  <2>4. CASE t # h
    <3>1. subs'[t][s] = left[t][s]
      BY <1>7, <2>1, <2>4 DEF Subscriptions
    <3>2. CASE s = h
      <4>1. left[t][s] = 0
        <5>0. /\ <<s, t>> \in AnySinks(h, Len(links)) <=> Edge(All, t) \in ToSet(links)
              /\ <<s, t>> \notin fromAny
              /\ <<s, t>> \in regular <=> Edge(s, t) \in ToSet(links)
          BY <1>8, <2>4, <3>2
        <5>1. /\ one[t][s] = subs[t][s] - (IF Edge(All, t) \in ToSet(links)
                                               /\ subs[t][s] > 0 THEN 1 ELSE 0)
              /\ two[t][s] = one[t][s]
              /\ left[t][s] = two[t][s] - (IF Edge(s, t) \in ToSet(links) /\ two[t][s] > 0
                                           THEN 1 ELSE 0)
          BY <2>5, <2>6, <5>0
        <5>2. subs[t][s] = (IF Edge(s, t) \in ToSet(links) THEN 1 ELSE 0)
                           + (IF Edge(All, t) \in ToSet(links) THEN 1 ELSE 0)
          BY <1>0, <2>2, <2>4, <3>2 DEF Asked
        <5> QED BY <5>1, <5>2
      <4> QED BY <1>2, <1>9, <3>1, <3>2, <4>1 DEF Asked
    <3>3. CASE s # h
      <4>1. left[t][s] = subs[t][s]
        <5>1. /\ <<s, t>> \notin AnySinks(h, Len(links))
              /\ <<s, t>> \notin fromAny /\ <<s, t>> \notin regular
          BY <1>8, <2>4, <3>3
        <5> QED BY <2>5, <2>6, <5>1
      <4>2. /\ Edge(s, t) \in ToSet(links)' <=> Edge(s, t) \in ToSet(links)
            /\ Edge(All, t) \in ToSet(links)' <=> Edge(All, t) \in ToSet(links)
            /\ s \in Members' <=> s \in Members
        BY <1>0, <1>2, <1>9, <2>4, <3>3
      <4> QED BY <2>2, <3>1, <4>1, <4>2 DEF Asked
    <3> QED BY <3>2, <3>3
  <2> QED BY <2>3, <2>4
<1> QED BY <1>2, <1>4, <1>5, <1>6, <1>10, <1>11 DEF Consistent

\* A link that is added is one the gateway did not have, between modules it has.
LEMMA AddLinkKeeps ==
  ASSUME Consistent, NEW l \in Link, gateway_addlink_internal(l), UNCHANGED setup
  PROVE  /\ Consistent' /\ Members' = Members /\ ToSet(links)' = ToSet(links) \cup {l}
         /\ l \in [source : Members \cup {All}, sink : Members]
<1>1. /\ l \notin ToSet(links) /\ l.sink \in Members /\ l.source \in Members \cup {All}
      /\ links' = Append(links, l) /\ subs' = Subscribed(subs, BrokerLinks(l))
      /\ UNCHANGED <<modules, live, attached, refs>>
  BY DEF gateway_addlink_internal, CanLink
<1>2. /\ links' \in Seq(Link) /\ Once(links') /\ ToSet(links)' = ToSet(links) \cup {l}
      /\ Members' = Members
  BY <1>1, AppendSet DEF Consistent, Structure, Members
<1>3. Structure' /\ Referenced'
  BY <1>1, <1>2 DEF Consistent, Structure, Referenced
<1>4. Brokered'
  BY <1>1, SubscribedIs DEF Consistent, Brokered
<1>5. Exact'
  <2> SUFFICES ASSUME BrokerWorks, NEW s \in Handles, NEW t \in Handles
               PROVE  subs'[t][s] = Asked(Members, ToSet(links)', s, t)
    BY <1>2 DEF Exact, BrokerWorks
  <2>1. subs'[t][s] = subs[t][s] + (IF <<s, t>> \in BrokerLinks(l) THEN 1 ELSE 0)
    BY <1>1, SubscribedIs DEF Consistent, Brokered
  <2>2. subs[t][s] = Asked(Members, ToSet(links), s, t)
    BY DEF Consistent, Exact
  <2>3. <<s, t>> \in BrokerLinks(l) <=>
          t = l.sink /\ IF l.source = All THEN s \in Members /\ s # t ELSE s = l.source
    BY BrokerLinksAre DEF Consistent, Structure
  <2>4. s # All
    BY NameAssumption
  <2>5. /\ l = Edge(s, t) <=> l.source = s /\ l.sink = t
        /\ l = Edge(All, t) <=> l.source = All /\ l.sink = t
    BY LinkIs DEF Edge
  <2> QED BY <1>1, <1>2, <2>1, <2>2, <2>3, <2>4, <2>5 DEF Asked
<1>6. l \in [source : Members \cup {All}, sink : Members]
  BY <1>1 DEF Link
<1> QED BY <1>2, <1>3, <1>4, <1>5, <1>6 DEF Consistent

LEMMA AddLinkUndone ==
  ASSUME Consistent, NEW l \in Link, gateway_addlink_undone(l), UNCHANGED setup
  PROVE  Consistent' /\ UNCHANGED <<modules, links>>
<1>1. UNCHANGED <<modules, links, live, attached, refs>>
  BY DEF gateway_addlink_undone
<1>2. subs' \in Subscriptions /\ (BrokerWorks => subs' = subs)
  <2>1. CASE subs' = subs
    BY <2>1 DEF Consistent, Brokered
  <2>2. CASE /\ "Broker_AddLink" \in MayFail
             /\ \E n \in 1..Len(modules) :
                  subs' = Unsubscribed(Subscribed(subs, AnySources(l.sink, n - 1)),
                                       BrokerLinks(l))
    BY <2>2, SubscribedIs DEF Consistent, Brokered, BrokerWorks, BrokerCalls
  <2> QED BY <2>1, <2>2 DEF gateway_addlink_undone
<1>3. Structure' /\ Referenced'
  BY <1>1 DEF Consistent, Structure, Referenced, Members
<1>4. Exact'
  BY <1>1, <1>2 DEF Consistent, Exact, BrokerWorks, Members
<1> QED BY <1>1, <1>2, <1>3, <1>4 DEF Consistent, Brokered

LEMMA RemoveLinkKeeps ==
  ASSUME Consistent, NEW l, gateway_removelink_internal(l), UNCHANGED setup
  PROVE  /\ Consistent' /\ Members' = Members /\ ToSet(links)' = ToSet(links) \ {l}
         /\ l \in [source : Members \cup {All}, sink : Members]
<1>1. /\ l \in ToSet(links) /\ subs' = Unsubscribed(subs, BrokerLinks(l))
      /\ links' = Without(links, {l})
      /\ UNCHANGED <<modules, live, attached, refs>>
  BY DEF gateway_removelink_internal
<1>2. /\ links' \in Seq(Link) /\ Once(links') /\ ToSet(links)' = ToSet(links) \ {l}
      /\ Members' = Members /\ l \in Link
  BY <1>1, WithoutIs, MembersAre DEF Consistent, Structure, Members
<1>3. Structure' /\ Referenced'
  BY <1>1, <1>2 DEF Consistent, Structure, Referenced
<1>4. Brokered'
  BY <1>1, SubscribedIs DEF Consistent, Brokered
<1>5. Exact'
  <2> SUFFICES ASSUME BrokerWorks, NEW s \in Handles, NEW t \in Handles
               PROVE  subs'[t][s] = Asked(Members, ToSet(links)', s, t)
    BY <1>2 DEF Exact, BrokerWorks
  <2>1. subs'[t][s] = subs[t][s] - (IF <<s, t>> \in BrokerLinks(l) /\ subs[t][s] > 0
                                    THEN 1 ELSE 0)
    BY <1>1, SubscribedIs DEF Consistent, Brokered
  <2>2. subs[t][s] = Asked(Members, ToSet(links), s, t)
    BY DEF Consistent, Exact
  <2>3. <<s, t>> \in BrokerLinks(l) <=>
          t = l.sink /\ IF l.source = All THEN s \in Members /\ s # t ELSE s = l.source
    BY <1>2, BrokerLinksAre DEF Consistent, Structure
  <2>4. s # All
    BY NameAssumption
  <2>5. /\ l = Edge(s, t) <=> l.source = s /\ l.sink = t
        /\ l = Edge(All, t) <=> l.source = All /\ l.sink = t
    BY <1>2, LinkIs DEF Edge
  <2>6. /\ Edge(s, t) \in ToSet(links)' <=> Edge(s, t) \in ToSet(links) /\ l # Edge(s, t)
        /\ Edge(All, t) \in ToSet(links)' <=>
             Edge(All, t) \in ToSet(links) /\ l # Edge(All, t)
    BY <1>2
  <2>7. CASE l = Edge(s, t)
    <3>1. <<s, t>> \in BrokerLinks(l) /\ l # Edge(All, t) /\ Edge(s, t) \in ToSet(links)
      BY <1>1, <2>3, <2>4, <2>5, <2>7
    <3> QED BY <2>1, <2>2, <2>6, <2>7, <3>1 DEF Asked
  <2>8. CASE l = Edge(All, t)
    <3>1. /\ <<s, t>> \in BrokerLinks(l) <=> s \in Members /\ s # t
          /\ l # Edge(s, t) /\ Edge(All, t) \in ToSet(links)
      BY <1>1, <2>3, <2>4, <2>5, <2>8
    <3> QED BY <2>1, <2>2, <2>6, <2>8, <3>1 DEF Asked
  <2>9. CASE l # Edge(s, t) /\ l # Edge(All, t)
    <3>1. <<s, t>> \notin BrokerLinks(l)
      BY <2>3, <2>5, <2>9
    <3> QED BY <2>1, <2>2, <2>6, <2>9, <3>1 DEF Asked
  <2> QED BY <2>7, <2>8, <2>9
<1>6. l \in [source : Members \cup {All}, sink : Members]
  BY <1>1, <1>2 DEF Link, Consistent, Structure
<1> QED BY <1>2, <1>3, <1>4, <1>5, <1>6 DEF Consistent

-----------------------------------------------------------------------------
(* Module lists *)

LEMMA ListIs ==
  ASSUME NEW ms \in Seq(Handles), NEW ls \in Seq(Link),
         \A l \in ToSet(ls) : l.source \in ToSet(ms) \cup {All}
  PROVE  Gateway_LL_GetModuleList(ms, ls) \in ModuleLists \cup {NoList}
<1> DEFINE f == [h \in ToSet(ms) |->
                   IF [source |-> All, sink |-> h] \in ToSet(ls) THEN {All}
                   ELSE {l.source : l \in {k \in ToSet(ls) : k.sink = h}}]
<1>1. f \in [ToSet(ms) -> SUBSET (ToSet(ms) \cup {All})]
  OBVIOUS
<1>2. ToSet(ms) \in SUBSET Handles
  BY SetOfSeq
<1>3. f \in ModuleLists
  BY <1>1, <1>2 DEF ModuleLists
<1> QED BY <1>3 DEF Gateway_LL_GetModuleList

Events ==
  /\ errored \in BOOLEAN
  /\ lists \in Seq(ModuleLists) /\ seen \in ModuleLists \cup {NoList}

\* The list that the callback will have been called with when it has caught up.
Latest(first, queue) == IF queue = <<>> THEN first ELSE queue[Len(queue)]
Observed == phase = "up" /\ ~errored =>
              Latest(seen, lists) = Gateway_LL_GetModuleList(modules, links)

LEMMA LatestIs ==
  ASSUME NEW queue \in Seq(ModuleLists), NEW first
  PROVE  /\ Last(<<first>> \o queue) = Latest(first, queue)
         /\ \A list \in ModuleLists : Latest(first, Append(queue, list)) = list
         /\ queue # <<>> => Latest(Head(queue), Tail(queue)) = Latest(first, queue)
<1>1. Last(<<first>> \o queue) = Latest(first, queue)
  <2> DEFINE t == <<first>> \o queue
  <2>1. /\ Len(t) = Len(queue) + 1 /\ t[1] = first
        /\ \A i \in 1..Len(queue) : t[i + 1] = queue[i]
    OBVIOUS
  <2> HIDE DEF t
  <2>2. CASE queue = <<>>
    BY <2>1, <2>2 DEF Last, Latest, t
  <2>3. CASE queue # <<>>
    <3>1. Len(queue) \in 1..Len(queue)
      BY <2>3
    <3>2. t[Len(t)] = queue[Len(queue)]
      BY <2>1, <3>1
    <3> QED BY <2>3, <3>2 DEF Last, Latest, t
  <2> QED BY <2>2, <2>3
<1>2. ASSUME NEW list \in ModuleLists PROVE Latest(first, Append(queue, list)) = list
  BY EndsOf DEF Latest
<1>3. ASSUME queue # <<>> PROVE Latest(Head(queue), Tail(queue)) = Latest(first, queue)
  BY <1>3, EndsOf DEF Latest
<1> QED BY <1>1, <1>2, <1>3

\* What is reported is on its way to the callback, or the event system is silent
\* for good.
LEMMA ReportKeeps ==
  ASSUME Events, Structure', EventSystem_ReportEvent(modules', links')
  PROVE  Events' /\ (~errored' => Latest(seen', lists') =
                                   Gateway_LL_GetModuleList(modules', links'))
<1> DEFINE list == Gateway_LL_GetModuleList(modules', links')
<1>1. list \in ModuleLists \cup {NoList}
  <2>1. /\ modules' \in Seq(Handles) /\ links' \in Seq(Link)
        /\ \A l \in ToSet(links') : l.source \in ToSet(modules') \cup {All}
    BY DEF Structure, Members
  <2> QED BY <2>1, ListIs
<1> HIDE DEF list
<1>2. CASE list # NoList /\ lists' = Append(lists, list) /\ UNCHANGED <<errored, seen>>
  <2>1. list \in ModuleLists /\ lists \in Seq(ModuleLists)
    BY <1>1, <1>2 DEF Events
  <2>2. lists' \in Seq(ModuleLists) /\ Latest(seen', lists') = list
    BY <1>2, <2>1, EndsOf DEF Latest
  <2> QED BY <1>2, <2>2 DEF Events, list
<1>3. CASE errored' = TRUE /\ UNCHANGED <<lists, seen>>
  BY <1>3 DEF Events
<1> QED BY <1>2, <1>3 DEF EventSystem_ReportEvent, list

-----------------------------------------------------------------------------
(* The life of a gateway *)

\* Between two operations the gateway, its broker and its callback agree; a
\* gateway that does not exist holds nothing.
Inv ==
  /\ setup \in Setups
  /\ phase \in {"none", "creating", "up", "draining", "destroying"}
  /\ Structure /\ Brokered
  /\ phase = "none" => modules = <<>> /\ links = <<>> /\ refs = 0
  /\ phase # "none" => Exact /\ Referenced
  /\ Events /\ Observed

\* What an operation does to the graph.
GraphChange ==
  \/ \E h \in Handles : Members' = Members \cup {h} /\ ToSet(links)' = ToSet(links)
  \/ \E h \in Handles : /\ Members' = Members \ {h}
                        /\ ToSet(links)' = {l \in ToSet(links) : h \notin {l.source, l.sink}}
  \/ \E l \in [source : Members \cup {All}, sink : Members] :
       /\ Members' = Members
       /\ ToSet(links)' \in {ToSet(links) \cup {l}, ToSet(links) \ {l}}
  \/ Members' = Members /\ ToSet(links)' = ToSet(links)

LEMMA SameGraph ==
  ASSUME UNCHANGED <<modules, links>>
  PROVE  GraphChange
  BY DEF GraphChange, Members

LEMMA InvInit == Init => Inv
<1> SUFFICES ASSUME Init PROVE Inv
  OBVIOUS
<1>1. Members = {} /\ ToSet(links) = {}
  BY DEF Init, Members, ToSet
<1>2. Structure
  BY <1>1 DEF Init, Structure, Once
<1>3. Brokered
  BY NoSubsIs DEF Init, Brokered, Subscriptions
<1>4. Events
  <2>1. <<>> \in Seq(ModuleLists)
    OBVIOUS
  <2> QED BY <2>1 DEF Init, Events
<1>5. Observed
  BY DEF Init, Observed
<1> QED BY <1>2, <1>3, <1>4, <1>5 DEF Init, Inv

LEMMA CreateKeeps ==
  ASSUME Inv, Gateway_LL_Create, UNCHANGED setup
  PROVE  Inv' /\ GraphChange
<1>1. /\ phase = "none" /\ phase' = "creating" /\ refs' = 1 /\ attached' = {}
      /\ subs' = [t \in Handles |-> NoSubs] /\ modules = <<>> /\ links = <<>>
      /\ UNCHANGED <<modules, links, live, errored, lists, seen>>
  BY DEF Gateway_LL_Create, Inv
<1>2. Members = {} /\ ToSet(links) = {}
  BY <1>1 DEF Members, ToSet
<1>3. Structure' /\ Events' /\ Observed' /\ Brokered' /\ Referenced'
  BY <1>1 DEF Inv, Structure, Events, Observed, Brokered, Subscriptions, NoSubs, Members,
              Referenced
<1>4. Exact'
  <2>1. Members' = {} /\ ToSet(links)' = {}
    BY <1>1, <1>2 DEF Members
  <2> QED BY <1>1, <2>1 DEF Exact, Asked, NoSubs
<1> QED BY <1>1, <1>3, <1>4, SameGraph DEF Inv

LEMMA EntryKeeps ==
  ASSUME Inv, CreateEntry, UNCHANGED setup
  PROVE  Inv' /\ GraphChange
<1>1. /\ phase = "creating" /\ UNCHANGED <<phase, errored, lists, seen>> /\ Consistent
  BY DEF CreateEntry, Inv, Consistent
<1>2. Consistent' /\ GraphChange
  <2>1. ASSUME NEW h \in Handles, gateway_addmodule_internal(h)
        PROVE  Consistent' /\ GraphChange
    BY <1>1, <2>1, AddModuleKeeps DEF GraphChange
  <2>2. ASSUME NEW l \in Link, gateway_addlink_internal(l)
        PROVE  Consistent' /\ GraphChange
    BY <1>1, <2>2, AddLinkKeeps DEF GraphChange
  <2> QED BY <2>1, <2>2 DEF CreateEntry
<1> QED BY <1>1, <1>2 DEF Inv, Consistent, Events, Observed

LEMMA CreateFailsKeeps ==
  ASSUME Inv, CreateFails, UNCHANGED setup
  PROVE  Inv' /\ GraphChange
<1>1. /\ phase' = "destroying" /\ UNCHANGED <<errored, lists, seen>> /\ Consistent
  BY DEF CreateFails, Inv, Consistent
<1>2. Consistent' /\ UNCHANGED <<modules, links>>
  <2>1. CASE UNCHANGED <<modules, links, live, attached, subs, refs>>
    BY <1>1, <2>1 DEF Consistent, Structure, Brokered, Exact, Referenced, BrokerWorks, Members
  <2>2. ASSUME NEW h \in Handles, gateway_addmodule_undone(h)
        PROVE  Consistent' /\ UNCHANGED <<modules, links>>
    BY <1>1, <2>2, AddModuleUndone
  <2>3. ASSUME NEW l \in Link, gateway_addlink_undone(l)
        PROVE  Consistent' /\ UNCHANGED <<modules, links>>
    BY <1>1, <2>3, AddLinkUndone
  <2> QED BY <2>1, <2>2, <2>3 DEF CreateFails
<1> QED BY <1>1, <1>2, SameGraph DEF Inv, Consistent, Events, Observed

LEMMA UpKeeps ==
  ASSUME Inv, UpNext, UNCHANGED setup
  PROVE  Inv' /\ GraphChange
<1>1. phase = "up" /\ phase' = "up" /\ Consistent /\ Events /\ Observed
  BY DEF UpNext, Inv, Consistent
\* A change that is reported, and a call that fails.
<1>2. ASSUME Consistent', EventSystem_ReportEvent(modules', links') PROVE Inv'
  <2>1. Events' /\ (~errored' => Latest(seen', lists') =
                                   Gateway_LL_GetModuleList(modules', links'))
    BY <1>1, <1>2, ReportKeeps DEF Consistent
  <2> QED BY <1>1, <1>2, <2>1 DEF Inv, Consistent, Observed
<1>3. ASSUME Consistent', UNCHANGED <<modules, links, errored, lists, seen>>
      PROVE  Inv' /\ GraphChange
  BY <1>1, <1>3, SameGraph DEF Inv, Consistent, Events, Observed
<1>4. ASSUME NEW h \in Handles, Gateway_LL_AddModule(h) PROVE Inv' /\ GraphChange
  <2>1. CASE gateway_addmodule_internal(h) /\ EventSystem_ReportEvent(modules', links)
    <3>1. Consistent' /\ GraphChange
      BY <1>1, <2>1, AddModuleKeeps DEF GraphChange
    <3>2. links' = links
      BY <2>1 DEF gateway_addmodule_internal
    <3> QED BY <1>2, <2>1, <3>1, <3>2
  <2>2. CASE gateway_addmodule_undone(h) /\ UNCHANGED eventVars
    BY <1>1, <1>3, <2>2, AddModuleUndone
  <2> QED BY <1>4, <2>1, <2>2 DEF Gateway_LL_AddModule
<1>5. ASSUME NEW h \in Handles, Gateway_LL_RemoveModule(h) PROVE Inv' /\ GraphChange
  <2>1. Consistent' /\ GraphChange
    BY <1>1, <1>5, RemoveModuleKeeps DEF Gateway_LL_RemoveModule, GraphChange
  <2> QED BY <1>2, <1>5, <2>1 DEF Gateway_LL_RemoveModule
<1>6. ASSUME NEW l \in Link, Gateway_LL_AddLink(l) PROVE Inv' /\ GraphChange
  <2>1. CASE gateway_addlink_internal(l) /\ EventSystem_ReportEvent(modules, links')
    <3>1. Consistent' /\ GraphChange
      BY <1>1, <2>1, AddLinkKeeps DEF GraphChange
    <3>2. modules' = modules
      BY <2>1 DEF gateway_addlink_internal
    <3> QED BY <1>2, <2>1, <3>1, <3>2
  <2>2. CASE gateway_addlink_undone(l) /\ UNCHANGED eventVars
    BY <1>1, <1>3, <2>2, AddLinkUndone
  <2> QED BY <1>6, <2>1, <2>2 DEF Gateway_LL_AddLink
<1>7. ASSUME NEW l \in Link, Gateway_LL_RemoveLink(l) PROVE Inv' /\ GraphChange
  <2>1. gateway_removelink_internal(l) /\ EventSystem_ReportEvent(modules, links')
    BY <1>7 DEF Gateway_LL_RemoveLink
  <2>2. Consistent' /\ GraphChange
    BY <1>1, <2>1, RemoveLinkKeeps DEF GraphChange
  <2>3. modules' = modules
    BY <2>1 DEF gateway_removelink_internal
  <2> QED BY <1>2, <2>1, <2>2, <2>3
<1> QED BY <1>4, <1>5, <1>6, <1>7 DEF UpNext

LEMMA DestroyKeeps ==
  ASSUME Inv, DestroyNext, UNCHANGED setup
  PROVE  Inv' /\ GraphChange
<1>1. phase = "destroying" /\ UNCHANGED <<errored, lists, seen>> /\ Consistent
  BY DEF DestroyNext, Inv, Consistent
<1>2. CASE links # <<>> /\ gateway_removelink_internal(Head(links)) /\ UNCHANGED phase
  <2>1. Consistent' /\ GraphChange
    BY <1>1, <1>2, RemoveLinkKeeps DEF GraphChange
  <2> QED BY <1>1, <1>2, <2>1 DEF Inv, Consistent, Events, Observed
<1>3. CASE links = <<>> /\ modules # <<>> /\ gateway_removemodule_internal(Head(modules))
           /\ UNCHANGED phase
  <2>1. PICK h \in Members : h = Head(modules)
    BY <1>1, <1>3 DEF Consistent, Structure, Members, ToSet
  <2>2. h \in Handles
    BY <1>1, MembersAre DEF Consistent
  <2>3. Consistent' /\ GraphChange
    BY <1>1, <1>3, <2>1, <2>2, RemoveModuleKeeps DEF GraphChange
  <2> QED BY <1>1, <1>3, <2>3 DEF Inv, Consistent, Events, Observed
<1>4. CASE /\ links = <<>> /\ modules = <<>> /\ phase' = "none" /\ refs' = refs - 1
           /\ UNCHANGED <<modules, links, live, attached, subs>>
  <2>1. refs' = 0
    BY <1>1, <1>4 DEF Consistent, Referenced
  <2>2. Structure' /\ Brokered' /\ Events' /\ Observed'
    BY <1>1, <1>4 DEF Inv, Structure, Brokered, Events, Observed, Members
  <2> QED BY <1>4, <2>1, <2>2, SameGraph DEF Inv
<1> QED BY <1>2, <1>3, <1>4 DEF DestroyNext

LEMMA ThreadsKeep ==
  ASSUME Inv, CreateReturns \/ CallbackThread \/ Gateway_LL_Destroy \/ EventSystem_Destroy,
         UNCHANGED setup
  PROVE  Inv' /\ GraphChange
<1>0. /\ phase # "none" /\ phase' \in {"up", "draining", "destroying"}
      /\ UNCHANGED <<modules, links, live, attached, subs, refs>> /\ Consistent
  BY DEF CreateReturns, CallbackThread, Gateway_LL_Destroy, EventSystem_Destroy, Inv, Consistent
<1>1. Consistent' /\ GraphChange
  BY <1>0, SameGraph DEF Consistent, Structure, Brokered, Exact, Referenced, BrokerWorks, Members
<1>2. Events' /\ Observed'
  <2>1. CASE CreateReturns
    <3>1. Gateway_LL_GetModuleList(modules, links) \in ModuleLists \cup {NoList}
      BY ListIs DEF Inv, Structure, Members
    <3>2. /\ seen' = Gateway_LL_GetModuleList(modules, links) /\ lists' = <<>>
          /\ errored' = FALSE
      BY <2>1 DEF CreateReturns
    <3>3. Latest(seen', lists') = seen'
      BY <3>2 DEF Latest
    <3>4. <<>> \in Seq(ModuleLists)
      OBVIOUS
    <3>5. Events'
      BY <3>1, <3>2, <3>4 DEF Events
    <3> QED BY <1>0, <3>2, <3>3, <3>5 DEF Observed
  <2>2. CASE CallbackThread
    <3>1. /\ lists # <<>> /\ seen' = Head(lists) /\ lists' = Tail(lists)
          /\ UNCHANGED <<phase, modules, links, errored>> /\ lists \in Seq(ModuleLists)
      BY <2>2 DEF CallbackThread, Inv, Events
    <3>2. seen' \in ModuleLists /\ lists' \in Seq(ModuleLists)
      BY <3>1
    <3>3. Latest(seen', lists') = Latest(seen, lists)
      BY <3>1, LatestIs
    <3> QED BY <3>1, <3>2, <3>3 DEF Inv, Events, Observed
  <2>3. CASE Gateway_LL_Destroy
    BY <2>3 DEF Gateway_LL_Destroy, Inv, Events, Observed
  <2>4. CASE EventSystem_Destroy
    BY <2>4 DEF EventSystem_Destroy, Inv, Events, Observed
  <2> QED BY <2>1, <2>2, <2>3, <2>4
<1> QED BY <1>0, <1>1, <1>2 DEF Inv, Consistent

LEMMA InvStep == Inv /\ [Next]_vars => Inv' /\ GraphChange
<1> SUFFICES ASSUME Inv, [Next]_vars PROVE Inv' /\ GraphChange
  OBVIOUS
<1>1. CASE UNCHANGED vars
  <2>1. Structure' /\ Brokered' /\ Exact' = Exact /\ Referenced' = Referenced
    BY <1>1 DEF Inv, Structure, Brokered, Exact, Referenced, BrokerWorks, Members
  <2>2. Events' /\ Observed'
    BY <1>1 DEF Inv, Events, Observed
  <2> QED BY <1>1, <2>1, <2>2, SameGraph DEF Inv
<1>2. CASE Next
  BY <1>2, CreateKeeps, EntryKeeps, CreateFailsKeeps, UpKeeps, DestroyKeeps, ThreadsKeep
     DEF Next
<1> QED BY <1>1, <1>2

LEMMA InvAlways == Spec => []Inv
  BY InvInit, InvStep, PTL DEF Spec

-----------------------------------------------------------------------------
(* What follows *)

LEMMA NamesCount ==
  ASSUME Structure
  PROVE  Cardinality(Names) = Len(modules)
<1> DEFINE f == [i \in 1..Len(modules) |-> NameOf[modules[i]]]
<1>1. Len(modules) \in Nat /\ DOMAIN modules = 1..Len(modules)
  BY DEF Structure
<1>2. \A i \in 1..Len(modules) : modules[i] \in Members
  BY <1>1 DEF Members, ToSet
<1>3. \A n \in Names : \E i \in 1..Len(modules) : n = NameOf[modules[i]]
  BY <1>1 DEF Names, Members, ToSet
<1>4. \A i, j \in 1..Len(modules) : NameOf[modules[i]] = NameOf[modules[j]] => i = j
  BY <1>1, <1>2 DEF Structure, Once
<1>5. f \in [1..Len(modules) -> Names]
  BY <1>2 DEF Names
<1>6. f \in Bijection(1..Len(modules), Names)
  BY <1>3, <1>4, <1>5 DEF Bijection, Injection, Surjection, IsInjective
<1>7. ExistsBijection(1..Len(modules), Names)
  BY <1>6 DEF ExistsBijection
<1> QED BY <1>1, <1>7, FS_CountingElements

\* Whatever calls fail, the gateway's vectors hold the modules that are alive,
\* once and under different names, its links join modules it has, and the broker
\* is referenced once by the gateway and once by each module: nothing that
\* gateway_ll.c took is lost or given back twice.
THEOREM GatewayCorrect == Spec => []GatewayInv
<1>1. Inv => GatewayInv
  <2> SUFFICES ASSUME Inv PROVE GatewayInv
    OBVIOUS
  <2>1. Structure /\ Brokered /\ Events /\ Len(modules) \in Nat
    BY DEF Inv, Structure
  <2>2. refs = IF phase = "none" THEN 0 ELSE 1 + Len(modules)
    BY DEF Inv, Referenced
  <2>3. phase = "none" => Len(modules) = 0
    BY DEF Inv
  <2>4. TypeOK
    <3>1. Members \subseteq Handles
      BY <2>1, MembersAre
    <3> QED BY <2>1, <2>2, <3>1 DEF TypeOK, Inv, Structure, Brokered, Subscriptions, Events
  <2>5. ModulesAreHeld
    BY <2>1, <2>2, NamesCount DEF ModulesAreHeld, Structure
  <2> QED BY <2>4, <2>5 DEF GatewayInv
<1> QED BY <1>1, InvAlways, PTL

\* A link stands for a subscription of t to s, and as many do as are asked for.
LEMMA LinksCount ==
  ASSUME Structure, NEW s \in Handles, NEW t \in Handles
  PROVE  Cardinality({l \in ToSet(links) : <<s, t>> \in BrokerLinks(l)}) =
           Asked(Members, ToSet(links), s, t)
<1> DEFINE L == {l \in ToSet(links) : <<s, t>> \in BrokerLinks(l)}
           one == Edge(s, t) \in ToSet(links)
           any == s \in Members /\ s # t /\ Edge(All, t) \in ToSet(links)
<1>1. ToSet(links) \subseteq Link /\ s # All /\ Edge(s, t) # Edge(All, t)
  BY MembersAre, NameAssumption DEF Edge
<1>2. \A l \in Link : <<s, t>> \in BrokerLinks(l) <=>
        t = l.sink /\ IF l.source = All THEN s \in Members /\ s # t ELSE s = l.source
  BY BrokerLinksAre DEF Structure
<1>3. \A l \in Link : /\ l = Edge(s, t) <=> l.source = s /\ l.sink = t
                      /\ l = Edge(All, t) <=> l.source = All /\ l.sink = t
  BY LinkIs DEF Edge
<1>4. L = (IF one THEN {Edge(s, t)} ELSE {}) \cup (IF any THEN {Edge(All, t)} ELSE {})
  <2>1. \A l \in L : (one /\ l = Edge(s, t)) \/ (any /\ l = Edge(All, t))
    BY <1>1, <1>2, <1>3
  <2>2. /\ one => Edge(s, t) \in L
        /\ any => Edge(All, t) \in L
    BY <1>1, <1>2, <1>3
  <2> HIDE DEF L, one, any
  <2> QED BY <2>1, <2>2
<1> HIDE DEF L
<1>5. CASE one /\ any
  <2>1. L = {Edge(s, t)} \cup {Edge(All, t)} /\ Edge(All, t) \notin {Edge(s, t)}
    BY <1>1, <1>4, <1>5
  <2> DEFINE K == {Edge(s, t)}
  <2>2. IsFiniteSet(K) /\ Cardinality(K) = 1
    BY FS_Singleton
  <2>3. L = K \cup {Edge(All, t)} /\ Edge(All, t) \notin K
    BY <2>1
  <2> HIDE DEF K
  <2>4. Cardinality(L) = 2
    BY <2>2, <2>3, FS_AddElement
  <2> QED BY <1>5, <2>4 DEF Asked, L
<1>6. CASE one /\ ~any
  <2>1. Cardinality(L) = 1
    BY <1>4, <1>6, FS_Singleton
  <2> QED BY <1>6, <2>1 DEF Asked, L
<1>7. CASE ~one /\ any
  <2>1. Cardinality(L) = 1
    BY <1>4, <1>7, FS_Singleton
  <2> QED BY <1>7, <2>1 DEF Asked, L
<1>8. CASE ~one /\ ~any
  <2>1. Cardinality(L) = 0
    BY <1>4, <1>8, FS_EmptySet
  <2> QED BY <1>8, <2>1 DEF Asked, L
<1> QED BY <1>5, <1>6, <1>7, <1>8

\* A broker that does what it is asked has each sink subscribed to each source
\* once for every link that says so, those from "*" included: links come and go
\* without disturbing each other, and a call that fails leaves nothing behind.
THEOREM SubscriptionsExact == Spec => []SubscriptionsAreExact
<1>1. Inv => SubscriptionsAreExact
  BY LinksCount DEF Inv, Exact, SubscriptionsAreExact, SubscriptionsMatchLinks
<1> QED BY <1>1, InvAlways, PTL

\* While the event system works, the last module list that the callback gets, or
\* has got, shows the gateway's modules and links as they are.
THEOREM ObserverCorrect == Spec => []ObserverIsUpToDate
<1>1. Inv => ObserverIsUpToDate
  BY LatestIs DEF Inv, Events, Observed, ObserverIsUpToDate
<1> QED BY <1>1, InvAlways, PTL

-----------------------------------------------------------------------------
(* Refinement of Topology *)

Routes == IF BrokerWorks THEN Routed ELSE Wanted
RoutesFollow == Routes = Graph!RoutesOf(Members, ToSet(links))

LEMMA RoutesAre == Inv => RoutesFollow
<1> SUFFICES ASSUME Inv PROVE RoutesFollow
  OBVIOUS
<1> DEFINE R == Graph!RoutesOf(Members, ToSet(links))
<1>0. /\ Members \subseteq Handles /\ ToSet(links) \subseteq Link /\ All \notin Handles
      /\ \A s, t : Edge(s, t) \in ToSet(links) => t \in Members /\ s \in Members \cup {All}
  BY MembersAre, NameAssumption DEF Inv
<1>1. \A s, t \in Handles :
        <<s, t>> \in R <=> \/ Edge(s, t) \in ToSet(links)
                           \/ s \in Members /\ s # t /\ Edge(All, t) \in ToSet(links)
  <2> SUFFICES ASSUME NEW s \in Handles, NEW t \in Handles
               PROVE  <<s, t>> \in R <=>
                        \/ Edge(s, t) \in ToSet(links)
                        \/ s \in Members /\ s # t /\ Edge(All, t) \in ToSet(links)
    OBVIOUS
  <2>1. ASSUME <<s, t>> \in {<<e.source, e.sink>> : e \in {f \in ToSet(links) : f.source # All}}
        PROVE  Edge(s, t) \in ToSet(links)
    <3>1. PICK e \in ToSet(links) : <<s, t>> = <<e.source, e.sink>>
      BY <2>1
    <3>2. e = Edge(s, t)
      BY <1>0, <3>1, LinkIs
    <3> QED BY <3>1, <3>2
  <2>2. ASSUME Edge(s, t) \in ToSet(links)
        PROVE  <<s, t>> \in {<<e.source, e.sink>> : e \in {f \in ToSet(links) : f.source # All}}
    <3>1. Edge(s, t).source = s /\ Edge(s, t).sink = t /\ s # All
      BY <1>0 DEF Edge
    <3> QED BY <2>2, <3>1
  <2>3. <<s, t>> \in {r \in Members \X Members :
                        r[1] # r[2] /\ [source |-> All, sink |-> r[2]] \in ToSet(links)}
          <=> s \in Members /\ s # t /\ Edge(All, t) \in ToSet(links)
    BY <1>0 DEF Edge
  <2> QED BY <2>1, <2>2, <2>3 DEF Graph!RoutesOf
<1>2. R \subseteq Handles \X Handles
  <2>1. \A e \in ToSet(links) : e.source # All => <<e.source, e.sink>> \in Handles \X Handles
    BY <1>0, LinkIs
  <2> QED BY <1>0, <2>1 DEF Graph!RoutesOf
<1>3. Routes \subseteq Handles \X Handles
  <2>1. \A l \in ToSet(links) : BrokerLinks(l) \subseteq Handles \X Handles
    <3> SUFFICES ASSUME NEW l \in ToSet(links) PROVE BrokerLinks(l) \subseteq Handles \X Handles
      OBVIOUS
    <3>1. l \in Link /\ l.sink \in Handles /\ l.source \in Handles \cup {All}
      BY <1>0, LinkIs
    <3>2. \A i \in 1..Len(modules) : modules[i] \in Handles
      BY DEF Inv, Structure
    <3> QED BY <3>1, <3>2 DEF BrokerLinks, AnySources
  <2> QED BY <2>1 DEF Routes, Routed, Wanted
<1>4. \A s, t \in Handles :
        <<s, t>> \in Routes <=> \/ Edge(s, t) \in ToSet(links)
                                \/ s \in Members /\ s # t /\ Edge(All, t) \in ToSet(links)
  <2> SUFFICES ASSUME NEW s \in Handles, NEW t \in Handles
               PROVE  <<s, t>> \in Routes <=>
                        \/ Edge(s, t) \in ToSet(links)
                        \/ s \in Members /\ s # t /\ Edge(All, t) \in ToSet(links)
    OBVIOUS
  <2>1. CASE BrokerWorks
    <3>1. <<s, t>> \in Routes <=> phase # "none" /\ subs[t][s] > 0
      BY <2>1 DEF Routes, Routed
    <3>2. CASE phase = "none"
      <4>1. ToSet(links) = {}
        BY <3>2 DEF Inv, ToSet
      <4> QED BY <3>1, <3>2, <4>1
    <3>3. CASE phase # "none"
      <4>1. subs[t][s] = Asked(Members, ToSet(links), s, t)
        BY <2>1, <3>3 DEF Inv, Exact
      <4> QED BY <3>1, <3>3, <4>1 DEF Asked
    <3> QED BY <3>2, <3>3
  <2>2. CASE ~BrokerWorks
    <3>1. <<s, t>> \in Routes <=> \E l \in ToSet(links) : <<s, t>> \in BrokerLinks(l)
      BY <2>2 DEF Routes, Wanted
    <3>2. \A l \in Link : <<s, t>> \in BrokerLinks(l) <=>
            t = l.sink /\ IF l.source = All THEN s \in Members /\ s # t ELSE s = l.source
      BY BrokerLinksAre DEF Inv, Structure
    <3>3. \A l \in Link : /\ l = Edge(s, t) <=> l.source = s /\ l.sink = t
                          /\ l = Edge(All, t) <=> l.source = All /\ l.sink = t
      BY LinkIs DEF Edge
    <3>4. ASSUME NEW l \in ToSet(links), <<s, t>> \in BrokerLinks(l)
          PROVE  \/ Edge(s, t) \in ToSet(links)
                 \/ s \in Members /\ s # t /\ Edge(All, t) \in ToSet(links)
      BY <1>0, <3>2, <3>3, <3>4
    <3>5. ASSUME \/ Edge(s, t) \in ToSet(links)
                 \/ s \in Members /\ s # t /\ Edge(All, t) \in ToSet(links)
          PROVE  \E l \in ToSet(links) : <<s, t>> \in BrokerLinks(l)
      <4>1. s # All
        BY <1>0
      <4> QED BY <1>0, <3>2, <3>3, <3>5, <4>1
    <3> QED BY <3>1, <3>4, <3>5
  <2> QED BY <2>1, <2>2
<1> HIDE DEF R
<1>5. Routes = R
  BY <1>1, <1>2, <1>3, <1>4
<1> QED BY <1>5 DEF R, RoutesFollow

\* Every call changes the graph by one module with its links, or by one link, or
\* not at all, also when it fails half way; and the routes of a broker that works
\* are those of the links, at any time.
THEOREM GatewayIsGraph == Spec => TopologySpec
<1>1. Init => Graph!Init
  <2> SUFFICES ASSUME Init PROVE Graph!Init
    OBVIOUS
  <2>1. Members = {} /\ ToSet(links) = {}
    BY DEF Init, Members, ToSet
  <2>2. Routed = {} /\ Wanted = {}
    BY <2>1 DEF Init, Routed, Wanted
  <2> QED BY <2>1, <2>2 DEF Graph!Init
<1>2. /\ GraphChange /\ RoutesFollow /\ RoutesFollow'
      => [Graph!Next]_(Graph!topologyVars)
  <2> SUFFICES ASSUME GraphChange, RoutesFollow, RoutesFollow'
               PROVE  Graph!Next \/ UNCHANGED Graph!topologyVars
    OBVIOUS
  <2>1. /\ Routes = Graph!RoutesOf(Members, ToSet(links))
        /\ Routes' = Graph!RoutesOf(Members', ToSet(links)')
    BY DEF RoutesFollow, Graph!RoutesOf
  <2>2. CASE \E h \in Handles : Members' = Members \cup {h} /\ ToSet(links)' = ToSet(links)
    BY <2>1, <2>2 DEF Graph!Next, Graph!AddNode, Routes
  <2>3. CASE \E h \in Handles :
               /\ Members' = Members \ {h}
               /\ ToSet(links)' = {l \in ToSet(links) : h \notin {l.source, l.sink}}
    BY <2>1, <2>3 DEF Graph!Next, Graph!RemoveNode, Routes
  <2>4. CASE \E l \in [source : Members \cup {All}, sink : Members] :
               /\ Members' = Members
               /\ ToSet(links)' \in {ToSet(links) \cup {l}, ToSet(links) \ {l}}
    BY <2>1, <2>4 DEF Graph!Next, Graph!AddEdge, Graph!RemoveEdge, Graph!Edges, Routes
  <2>5. CASE Members' = Members /\ ToSet(links)' = ToSet(links)
    BY <2>1, <2>5 DEF Graph!topologyVars, Routes
  <2> QED BY <2>2, <2>3, <2>4, <2>5 DEF GraphChange
<1> QED BY <1>1, <1>2, InvAlways, InvStep, RoutesAre, PTL
         DEF Spec, TopologySpec, Graph!Spec
=============================================================================
