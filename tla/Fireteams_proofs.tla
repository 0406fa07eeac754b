-------------------------- MODULE Fireteams_proofs --------------------------
(***************************************************************************)
(* Theorems about Fireteams, for any number of clients, fireteams and      *)
(* members: nobody is on two fireteams, no fireteam is of two teams or has *)
(* another's name, and no bot inherits one.                                *)
(***************************************************************************)
EXTENDS Fireteams, TLAPS, FiniteSetTheorems, WellFoundedInduction

-----------------------------------------------------------------------------
(* The inductive invariant                                                 *)

\* The orders in which clients may have joined a fireteam: each once.
JoinOrders ==
    {s \in Seq(Clients) :
        /\ Len(s) <= MAX_FIRETEAM_MEMBERS
        /\ \A i, j \in DOMAIN s : s[i] = s[j] => i = j}

Lists ==
    [Fireteams -> [ident : 0..(MAX_FIRETEAMS \div 2), priv : BOOLEAN, joinOrder : JoinOrders]]

\* A list in which nobody is on two fireteams.
Good(ft) ==
    /\ ft \in Lists
    /\ \A f, g \in Fireteams : f # g => Members(ft[f]) \cap Members(ft[g]) = {}

\* The fireteam f of the list is of one team, and has a name of its own there.
OfOneTeam(ft, tm, f) ==
    /\ tm[Leader(ft[f])] \in Sides
    /\ \A c \in Members(ft[f]) : tm[c] = tm[Leader(ft[f])]
    /\ \A g \in OfTeam(ft, tm, tm[Leader(ft[f])]) \ {f} : ft[g].ident # ft[f].ident

Agrees(ft, tm) == \A f \in InUse(ft) : OfOneTeam(ft, tm, f)

Offers == [to : Clients, kind : Range(Kinds), about : Clients \cup {None}, same : BOOLEAN]

\* Offers may be so: those of some kinds are about a client.
AboutSomebody == {"application", "invitation", "proposition"}

Asked(o) == o \subseteq Offers /\ \A x \in o : x.kind \in AboutSomebody => x.about \in Clients

States == {"disconnected", "connecting", "connected"}
Teams  == Sides \cup {"spectator", "free"}

Typed ==
    /\ conn \in [Clients -> States] /\ team \in [Clients -> Teams] /\ Asked(offers)
    /\ odd \in BOOLEAN /\ g_autoFireteams \in AutoFireteams

Inv == Typed /\ Good(fireTeams) /\ (odd \/ Agrees(fireTeams, team))

-----------------------------------------------------------------------------
(* Sets of numbers, and sequences without repetition                       *)

LEMMA NatMinimum ==
    ASSUME NEW T, T \subseteq Nat, T # {}
    PROVE  \E x \in T : \A y \in T : x <= y
  <1>1. IsWellFoundedOn(OpToRel(<, Nat), Nat)
    BY NatLessThanWellFounded
  <1>2. PICK x \in T : \A y \in T : ~(<<y, x>> \in OpToRel(<, Nat))
    BY <1>1, WFMin
  <1>3. \A y \in T : ~(y < x)
    BY <1>2 DEF OpToRel
  <1> QED
    BY <1>3

LEMMA MinIn ==
    ASSUME NEW T, T \subseteq Nat, T # {}
    PROVE  Min(T) \in T
  BY NatMinimum DEF Min

\* The elements of a sequence that may be a fireteam's.
LEMMA Joined ==
    ASSUME NEW s \in JoinOrders
    PROVE  /\ s \in Seq(Clients) /\ Len(s) \in Nat /\ Len(s) <= MAX_FIRETEAM_MEMBERS
           /\ DOMAIN s = 1..Len(s)
           /\ \A i, j \in 1..Len(s) : s[i] = s[j] => i = j
           /\ \A i \in 1..Len(s) : s[i] \in Clients
           /\ Range(s) = {s[i] : i \in 1..Len(s)}
           /\ s # <<>> => Len(s) > 0 /\ Head(s) = s[1] /\ Head(s) \in Range(s)
  BY DEF JoinOrders, Range

\* One sequence after another.
LEMMA Concatenated ==
    ASSUME NEW s \in Seq(Clients), NEW t \in Seq(Clients)
    PROVE  /\ s \o t \in Seq(Clients) /\ Len(s \o t) = Len(s) + Len(t)
           /\ \A k \in 1..(Len(s) + Len(t)) :
                (s \o t)[k] = IF k <= Len(s) THEN s[k] ELSE t[k - Len(s)]
  OBVIOUS

\* A sequence without its i-th element.
LEMMA SequenceRemoveAt ==
    ASSUME NEW s \in Seq(Clients), NEW i \in 1..Len(s)
    PROVE  LET q == SubSeq(s, 1, i - 1) \o SubSeq(s, i + 1, Len(s))
           IN  /\ q \in Seq(Clients) /\ Len(q) = Len(s) - 1
               /\ \A k \in 1..(Len(s) - 1) : q[k] = IF k < i THEN s[k] ELSE s[k + 1]
  <1> DEFINE a == SubSeq(s, 1, i - 1)
             b == SubSeq(s, i + 1, Len(s))
             q == a \o b
  <1>1. /\ a \in Seq(Clients) /\ Len(a) = i - 1
        /\ \A k \in 1..(i - 1) : a[k] = s[k]
    OBVIOUS
  <1>2. /\ b \in Seq(Clients) /\ Len(b) = Len(s) - i
        /\ \A k \in 1..(Len(s) - i) : b[k] = s[k + i]
    OBVIOUS
  <1> HIDE DEF a, b
  <1>3. /\ q \in Seq(Clients) /\ Len(q) = Len(a) + Len(b)
        /\ \A k \in 1..(Len(a) + Len(b)) : q[k] = IF k <= Len(a) THEN a[k] ELSE b[k - Len(a)]
    BY <1>1, <1>2, Concatenated
  <1> HIDE DEF q
  <1>4. /\ Len(q) = Len(s) - 1 /\ Len(s) \in Nat
        /\ \A k \in 1..(Len(s) - 1) : q[k] = IF k <= i - 1 THEN a[k] ELSE b[k - (i - 1)]
    <2>1. Len(a) + Len(b) = Len(s) - 1 /\ Len(a) = i - 1
      BY <1>1, <1>2
    <2> QED
      BY <1>3, <2>1
  <1>5. ASSUME NEW k \in 1..(Len(s) - 1)
        PROVE  q[k] = IF k < i THEN s[k] ELSE s[k + 1]
    <2>1. CASE k < i
      <3>1. k \in 1..(i - 1) /\ k <= i - 1
        BY <2>1
      <3> QED
        BY <1>1, <1>4, <2>1, <3>1
    <2>2. CASE k >= i
      <3>1. k - (i - 1) \in 1..(Len(s) - i) /\ (k - (i - 1)) + i = k + 1
        BY <1>4, <2>2
      <3>2. b[k - (i - 1)] = s[k + 1]
        BY <1>2, <3>1
      <3> QED
        BY <1>4, <2>2, <3>2
    <2> QED
      BY <1>4, <2>1, <2>2
  <1> QED
    BY <1>3, <1>4, <1>5 DEF a, b, q

\* What a fireteam's order is without a member.
LEMMA Without ==
    ASSUME NEW s \in JoinOrders, NEW c \in Range(s)
    PROVE  LET q == RemoveFirst(s, c)
           IN  /\ q \in JoinOrders /\ Len(q) = Len(s) - 1
               /\ Range(q) = Range(s) \ {c}
               /\ s[1] # c => q # <<>> /\ q[1] = s[1]
  <1> DEFINE I == {i \in 1..Len(s) : s[i] = c}
             i == Min(I)
             q == RemoveFirst(s, c)
  <1>1. /\ s \in Seq(Clients) /\ Len(s) \in Nat /\ Len(s) <= MAX_FIRETEAM_MEMBERS
        /\ \A j, k \in 1..Len(s) : s[j] = s[k] => j = k
        /\ \A j \in 1..Len(s) : s[j] \in Clients
        /\ Range(s) = {s[j] : j \in 1..Len(s)}
    BY Joined
  <1>2. I # {} /\ I \subseteq Nat
    BY <1>1
  <1>3. i \in 1..Len(s) /\ s[i] = c
    BY <1>2, MinIn
  <1>4. q = SubSeq(s, 1, i - 1) \o SubSeq(s, i + 1, Len(s))
    BY <1>2, <1>3 DEF RemoveFirst, RemoveAt, SelectInSeq
  <1> HIDE DEF i, I, q
  <1>5. /\ q \in Seq(Clients) /\ Len(q) = Len(s) - 1
        /\ \A k \in 1..(Len(s) - 1) : q[k] = IF k < i THEN s[k] ELSE s[k + 1]
    BY <1>1, <1>3, <1>4, SequenceRemoveAt
  <1>6. \A j, k \in 1..(Len(s) - 1) : q[j] = q[k] => j = k
    <2> SUFFICES ASSUME NEW j \in 1..(Len(s) - 1), NEW k \in 1..(Len(s) - 1), q[j] = q[k]
                 PROVE  j = k
      OBVIOUS
    <2> DEFINE jj == IF j < i THEN j ELSE j + 1
               kk == IF k < i THEN k ELSE k + 1
    <2>1. jj \in 1..Len(s) /\ kk \in 1..Len(s) /\ s[jj] = s[kk]
      BY <1>1, <1>3, <1>5
    <2>2. jj = kk
      BY <1>1, <2>1
    <2> QED
      BY <1>3, <2>2
  <1>7. q \in JoinOrders
    BY <1>1, <1>5, <1>6, FireteamsAssumption DEF JoinOrders
  <1>8. Range(q) = {q[k] : k \in 1..(Len(s) - 1)}
    BY <1>5, <1>7, Joined
  <1>9. Range(q) = Range(s) \ {c}
    <2>1. ASSUME NEW x \in Range(q)
          PROVE  x \in Range(s) /\ x # c
      <3>1. PICK k \in 1..(Len(s) - 1) : x = q[k]
        BY <1>8
      <3> DEFINE kk == IF k < i THEN k ELSE k + 1
      <3>2. kk \in 1..Len(s) /\ x = s[kk] /\ kk # i
        BY <1>1, <1>3, <1>5, <3>1
      <3> QED
        BY <1>1, <1>3, <3>2
    <2>2. ASSUME NEW x \in Range(s), x # c
          PROVE  x \in Range(q)
      <3>1. PICK j \in 1..Len(s) : x = s[j]
        BY <1>1
      <3>2. j # i
        BY <1>3, <2>2, <3>1
      <3> DEFINE k == IF j < i THEN j ELSE j - 1
      <3>3. k \in 1..(Len(s) - 1) /\ q[k] = x
        <4>1. CASE j < i
          BY <1>1, <1>3, <1>5, <3>1, <4>1
        <4>2. CASE j > i
          <5>1. j - 1 \in 1..(Len(s) - 1) /\ ~(j - 1 < i) /\ (j - 1) + 1 = j
            BY <1>1, <1>3, <4>2
          <5>2. q[j - 1] = s[j]
            BY <1>5, <5>1
          <5> QED
            BY <1>3, <3>1, <4>2, <5>1, <5>2
        <4> QED
          BY <1>3, <3>2, <4>1, <4>2
      <3> QED
        BY <1>8, <3>3
    <2> QED
      BY <2>1, <2>2
  <1>10. ASSUME s[1] # c
         PROVE  q # <<>> /\ q[1] = s[1]
    <2>1. i > 1 /\ 1 \in 1..(Len(s) - 1)
      BY <1>1, <1>3, <1>10
    <2> QED
      BY <1>3, <1>5, <2>1
  <1> QED
    BY <1>5, <1>7, <1>9, <1>10 DEF q

\* Whoever inherits a fireteam is on it, and a human if there is one on it.
LEMMA Heir ==
    ASSUME NEW s \in JoinOrders, s # <<>>
    PROVE  LET q == HeirFirst(s)
           IN  /\ q \in JoinOrders /\ Len(q) = Len(s) /\ Range(q) = Range(s)
               /\ ~(Range(s) \subseteq Bots) => Head(q) \notin Bots
  <1> DEFINE I == {i \in 1..Len(s) : s[i] \notin Bots}
             m == IF I # {} THEN Min(I) ELSE 0
             h == Max({1, m})
             q == HeirFirst(s)
  <1>1. /\ s \in Seq(Clients) /\ Len(s) \in Nat /\ Len(s) <= MAX_FIRETEAM_MEMBERS
        /\ \A j, k \in 1..Len(s) : s[j] = s[k] => j = k
        /\ \A j \in 1..Len(s) : s[j] \in Clients
        /\ Range(s) = {s[j] : j \in 1..Len(s)} /\ Len(s) > 0
    BY Joined
  <1>2. I # {} => m \in I
    BY MinIn
  <1>3. m \in 0..Len(s)
    BY <1>1, <1>2
  <1>4. q = [s EXCEPT ![1] = s[h], ![h] = s[1]]
    BY DEF HeirFirst, SelectInSeq
  <1> HIDE DEF m
  <1>5. h = IF m = 0 THEN 1 ELSE m
    <2>1. h \in {1, m} /\ \A y \in {1, m} : h >= y
      <3>1. \E x \in {1, m} : \A y \in {1, m} : x >= y
        BY <1>3
      <3> QED
        BY <3>1 DEF Max
    <2> QED
      BY <1>3, <2>1
  <1> HIDE DEF h, I, q
  <1>6. h \in 1..Len(s)
    BY <1>1, <1>3, <1>5
  <1>7. /\ q \in Seq(Clients) /\ Len(q) = Len(s)
        /\ \A k \in 1..Len(s) : q[k] = IF k = h THEN s[1] ELSE IF k = 1 THEN s[h] ELSE s[k]
    BY <1>1, <1>4, <1>6
  <1> DEFINE p(k) == IF k = h THEN 1 ELSE IF k = 1 THEN h ELSE k
  <1>8. \A k \in 1..Len(s) : p(k) \in 1..Len(s) /\ q[k] = s[p(k)] /\ p(p(k)) = k
    BY <1>1, <1>6, <1>7
  <1> HIDE DEF p
  <1>9. \A j, k \in 1..Len(s) : q[j] = q[k] => j = k
    BY <1>1, <1>8
  <1>10. q \in JoinOrders
    BY <1>1, <1>7, <1>9, FireteamsAssumption DEF JoinOrders
  <1>11. Range(q) = {q[k] : k \in 1..Len(s)} /\ Head(q) = q[1]
    BY <1>1, <1>7, <1>10, Joined
  <1>12. Range(q) = Range(s)
    BY <1>1, <1>8, <1>11
  <1>13. ASSUME ~(Range(s) \subseteq Bots)
         PROVE  Head(q) \notin Bots
    <2>1. I # {}
      BY <1>1, <1>13 DEF I
    <2>2. h \in I
      BY <1>2, <1>5, <2>1 DEF I
    <2>3. q[1] = s[h]
      BY <1>1, <1>6, <1>7
    <2> QED
      BY <1>11, <2>2, <2>3 DEF I
  <1> QED
    BY <1>7, <1>10, <1>12, <1>13 DEF q

-----------------------------------------------------------------------------
(* Lists of fireteams                                                      *)

Records == [ident : 0..(MAX_FIRETEAMS \div 2), priv : BOOLEAN, joinOrder : JoinOrders]

LEMMA Fireteam ==
    ASSUME NEW ft, Good(ft), NEW f \in Fireteams
    PROVE  /\ ft[f] \in Records /\ ft[f].joinOrder \in JoinOrders
           /\ ft[f].ident \in 0..(MAX_FIRETEAMS \div 2) /\ ft[f].priv \in BOOLEAN
           /\ Members(ft[f]) \subseteq Clients
           /\ f \in InUse(ft) <=> ft[f].joinOrder # <<>>
           /\ \A c \in Members(ft[f]) : f \in InUse(ft)
           /\ f \in InUse(ft) => Leader(ft[f]) \in Members(ft[f]) /\ Leader(ft[f]) = ft[f].joinOrder[1]
  <1>1. /\ ft[f] \in Records /\ ft[f].joinOrder \in JoinOrders
        /\ ft[f].ident \in 0..(MAX_FIRETEAMS \div 2) /\ ft[f].priv \in BOOLEAN
    BY DEF Good, Lists, Records
  <1> DEFINE s == ft[f].joinOrder
  <1>2. /\ s \in Seq(Clients) /\ Len(s) \in Nat
        /\ \A i \in 1..Len(s) : s[i] \in Clients
        /\ Range(s) = {s[i] : i \in 1..Len(s)}
        /\ s # <<>> => Len(s) > 0 /\ Head(s) = s[1] /\ Head(s) \in Range(s)
    BY <1>1, Joined
  <1>3. s = <<>> => Range(s) = {}
    BY <1>2
  <1> QED
    BY <1>1, <1>2, <1>3 DEF Members, Leader, InUse

LEMMA OnOne ==
    ASSUME NEW ft, Good(ft), NEW c
    PROVE  /\ \A f : f \in On(ft, c) <=> f \in Fireteams /\ c \in Members(ft[f])
           /\ \A f, g \in On(ft, c) : f = g
           /\ On(ft, c) # {} => Min(On(ft, c)) \in On(ft, c) /\ c \in Clients
  <1>1. \A f : f \in On(ft, c) <=> f \in Fireteams /\ c \in Members(ft[f])
    BY Fireteam DEF On, InUse
  <1>2. \A f, g \in On(ft, c) : f = g
    BY <1>1 DEF Good
  <1>3. On(ft, c) \subseteq Nat
    BY FireteamsAssumption DEF On, InUse, Fireteams
  <1>4. On(ft, c) # {} => Min(On(ft, c)) \in On(ft, c)
    BY <1>3, MinIn
  <1>5. On(ft, c) # {} => c \in Clients
    BY <1>1, Fireteam
  <1> QED
    BY <1>1, <1>2, <1>4, <1>5

LEMMA LedOne ==
    ASSUME NEW ft, Good(ft), NEW c
    PROVE  /\ \A f : f \in Led(ft, c) <=> f \in InUse(ft) /\ Leader(ft[f]) = c
           /\ Led(ft, c) # {} => Min(Led(ft, c)) \in Led(ft, c)
           /\ Led(ft, c) \subseteq On(ft, c)
  <1>1. Led(ft, c) \subseteq Nat
    BY FireteamsAssumption DEF Led, InUse, Fireteams
  <1>2. Led(ft, c) \subseteq On(ft, c)
    BY Fireteam DEF Led, On, InUse
  <1> QED
    BY <1>1, <1>2, MinIn DEF Led

\* One fireteam of the list replaced.
LEMMA Replaced ==
    ASSUME NEW ft, Good(ft), NEW f \in Fireteams, NEW t \in Records,
           \A c \in Members(t) : c \in Members(ft[f]) \/ On(ft, c) = {}
    PROVE  LET new == [ft EXCEPT ![f] = t]
           IN  /\ Good(new) /\ new[f] = t
               /\ \A g \in Fireteams : g # f => new[g] = ft[g]
  <1> DEFINE new == [ft EXCEPT ![f] = t]
  <1>1. ft \in [Fireteams -> Records]
    BY DEF Good, Lists, Records
  <1>2. /\ new \in [Fireteams -> Records] /\ new[f] = t
        /\ \A g \in Fireteams : g # f => new[g] = ft[g]
    BY <1>1
  <1> HIDE DEF new
  <1>3. ASSUME NEW g \in Fireteams, g # f
        PROVE  Members(t) \cap Members(ft[g]) = {}
    <2>1. ASSUME NEW c, c \in Members(t), c \in Members(ft[g])
          PROVE  FALSE
      <3>1. g \in On(ft, c)
        BY <2>1, OnOne
      <3>2. c \in Members(ft[f])
        BY <2>1, <3>1
      <3> QED
        BY <1>3, <2>1, <3>2 DEF Good
    <2> QED
      BY <2>1
  <1>4. ASSUME NEW g \in Fireteams, NEW h \in Fireteams, g # h
        PROVE  Members(new[g]) \cap Members(new[h]) = {}
    <2>1. CASE g # f /\ h # f
      BY <1>2, <1>4, <2>1 DEF Good
    <2>2. CASE g = f
      BY <1>2, <1>3, <1>4, <2>2
    <2>3. CASE h = f
      BY <1>2, <1>3, <1>4, <2>3
    <2> QED
      BY <2>1, <2>2, <2>3
  <1>5. Good(new)
    BY <1>2, <1>4 DEF Good, Lists, Records
  <1> QED
    BY <1>2, <1>5 DEF new

\* Teams agree with a list as long as the teams of the members do not change.
LEMMA AgreesElsewhere ==
    ASSUME NEW ft, Good(ft), NEW tm, NEW now, Agrees(ft, tm),
           \A f \in Fireteams : \A c \in Members(ft[f]) : now[c] = tm[c]
    PROVE  Agrees(ft, now)
  <1>1. \A f \in InUse(ft) : f \in Fireteams /\ Leader(ft[f]) \in Members(ft[f])
                             /\ now[Leader(ft[f])] = tm[Leader(ft[f])]
    BY Fireteam DEF InUse
  <1>2. \A t : OfTeam(ft, now, t) = OfTeam(ft, tm, t)
    BY <1>1 DEF OfTeam
  <1> SUFFICES ASSUME NEW f \in InUse(ft)
               PROVE  OfOneTeam(ft, now, f)
    BY DEF Agrees
  <1>3. OfOneTeam(ft, tm, f)
    BY DEF Agrees
  <1> QED
    BY <1>1, <1>2, <1>3 DEF OfOneTeam

\* They agree when the fireteams lose members.
LEMMA SmallerAgrees ==
    ASSUME NEW ft, Good(ft), NEW new, Good(new), NEW tm, Agrees(ft, tm),
           \A f \in InUse(new) : /\ f \in InUse(ft) /\ new[f].ident = ft[f].ident
                                 /\ Members(new[f]) \subseteq Members(ft[f])
    PROVE  Agrees(new, tm)
  <1>1. \A f \in InUse(new) : f \in Fireteams /\ Leader(new[f]) \in Members(new[f])
    BY Fireteam DEF InUse
  <1>2. \A f \in InUse(new) : \A c \in Members(new[f]) : tm[c] = tm[Leader(ft[f])]
    BY DEF Agrees, OfOneTeam
  <1>3. \A f \in InUse(new) : tm[Leader(new[f])] = tm[Leader(ft[f])]
    BY <1>1, <1>2
  <1>4. \A t : OfTeam(new, tm, t) \subseteq OfTeam(ft, tm, t)
    BY <1>3 DEF OfTeam
  <1> SUFFICES ASSUME NEW f \in InUse(new)
               PROVE  OfOneTeam(new, tm, f)
    BY DEF Agrees
  <1>5. OfOneTeam(ft, tm, f)
    BY DEF Agrees
  <1>6. \A g \in OfTeam(new, tm, tm[Leader(new[f])]) : g \in InUse(new)
    BY DEF OfTeam
  <1> QED
    BY <1>2, <1>3, <1>4, <1>5, <1>6 DEF OfOneTeam

\* They agree when one fireteam is given another content of one team.
LEMMA ReplacedAgrees ==
    ASSUME NEW ft, Good(ft), NEW f \in Fireteams, NEW t \in Records, NEW tm, Agrees(ft, tm),
           NEW new, Good(new), new[f] = t, \A g \in Fireteams : g # f => new[g] = ft[g],
           t.joinOrder # <<>>, tm[Leader(t)] \in Sides,
           \A c \in Members(t) : tm[c] = tm[Leader(t)],
           \A g \in OfTeam(ft, tm, tm[Leader(t)]) \ {f} : ft[g].ident # t.ident
    PROVE  Agrees(new, tm)
  <1>1. \A g : g \in InUse(new) <=> g = f \/ (g \in InUse(ft) /\ g # f)
    BY Fireteam DEF InUse
  <1>2. \A team1 : \A g : g \in OfTeam(new, tm, team1) /\ g # f => g \in OfTeam(ft, tm, team1)
    BY <1>1 DEF OfTeam, InUse
  <1>3. f \in OfTeam(new, tm, tm[Leader(t)])
    BY <1>1 DEF OfTeam
  <1> SUFFICES ASSUME NEW g \in InUse(new)
               PROVE  OfOneTeam(new, tm, g)
    BY DEF Agrees
  <1>4. CASE g = f
    <2>1. \A h \in OfTeam(new, tm, tm[Leader(t)]) \ {f} :
             h \in OfTeam(ft, tm, tm[Leader(t)]) \ {f} /\ new[h] = ft[h]
      BY <1>2 DEF OfTeam, InUse
    <2> QED
      BY <1>4, <2>1 DEF OfOneTeam
  <1>5. CASE g # f
    <2>1. g \in InUse(ft) /\ new[g] = ft[g] /\ g \in Fireteams
      BY <1>1, <1>5 DEF InUse
    <2>2. OfOneTeam(ft, tm, g)
      BY <2>1 DEF Agrees
    <2>3. ASSUME NEW h \in OfTeam(new, tm, tm[Leader(ft[g])]) \ {g}
          PROVE  new[h].ident # ft[g].ident
      <3>1. CASE h = f
        <4>1. tm[Leader(t)] = tm[Leader(ft[g])]
          BY <2>3, <3>1 DEF OfTeam
        <4>2. g \in OfTeam(ft, tm, tm[Leader(t)]) \ {f}
          BY <1>5, <2>1, <4>1 DEF OfTeam
        <4> QED
          BY <3>1, <4>2
      <3>2. CASE h # f
        <4>1. h \in OfTeam(ft, tm, tm[Leader(ft[g])]) \ {g} /\ new[h] = ft[h]
          BY <1>2, <2>3, <3>2 DEF OfTeam, InUse
        <4> QED
          BY <2>2, <4>1 DEF OfOneTeam
      <3> QED
        BY <3>1, <3>2
    <2> QED
      BY <2>1, <2>2, <2>3 DEF OfOneTeam
  <1> QED
    BY <1>4, <1>5

\* A fireteam with another order.
LEMMA Reordered ==
    ASSUME NEW t \in Records, NEW s \in JoinOrders
    PROVE  LET u == [t EXCEPT !.joinOrder = s]
           IN  /\ u \in Records /\ u.joinOrder = s /\ u.ident = t.ident
               /\ Members(u) = Range(s) /\ Leader(u) = Head(s)
  <1> DEFINE u == [t EXCEPT !.joinOrder = s]
  <1>1. u \in Records /\ u.joinOrder = s /\ u.ident = t.ident
    BY DEF Records
  <1> HIDE DEF u
  <1> QED
    BY <1>1 DEF Members, Leader, u

LEMMA UnusedIsEmpty ==
    Unused \in Records /\ Unused.joinOrder = <<>> /\ Members(Unused) = {}
  <1>1. <<>> \in JoinOrders
    BY FireteamsAssumption DEF JoinOrders
  <1>2. 0 \in 0..(MAX_FIRETEAMS \div 2)
    BY FireteamsAssumption
  <1>3. Unused \in Records /\ Unused.joinOrder = <<>>
    BY <1>1, <1>2 DEF Unused, Records
  <1>4. Range(<<>>) = {}
    BY DEF Range
  <1> QED
    BY <1>3, <1>4 DEF Members

\* The list r is the list ft without the client c.
LeftBy(ft, r, c) ==
    /\ Good(r)
    /\ \A f \in Fireteams : c \notin Members(r[f]) /\ Members(r[f]) \subseteq Members(ft[f])
    /\ \A f \in InUse(r) :
          /\ f \in InUse(ft) /\ r[f].ident = ft[f].ident
          /\ Leader(r[f]) = Leader(ft[f]) \/ (Leader(ft[f]) = c /\ Leader(r[f]) \notin Bots)
    /\ \A f \in InUse(ft) \ InUse(r) : Leader(ft[f]) = c

LEMMA OneLeftBy ==
    ASSUME NEW ft, Good(ft), NEW f \in Fireteams, NEW t \in Records, NEW c \in Members(ft[f]),
           Members(t) = Members(ft[f]) \ {c} \/ t.joinOrder = <<>>,
           t.joinOrder = <<>> => Leader(ft[f]) = c /\ Members(t) = {},
           t.joinOrder # <<>> =>
              /\ t.ident = ft[f].ident
              /\ Leader(t) = Leader(ft[f]) \/ (Leader(ft[f]) = c /\ Leader(t) \notin Bots)
    PROVE  LeftBy(ft, [ft EXCEPT ![f] = t], c)
  <1> DEFINE r == [ft EXCEPT ![f] = t]
  <1>1. Members(t) \subseteq Members(ft[f]) /\ c \notin Members(t)
    OBVIOUS
  <1>2. Good(r) /\ r[f] = t /\ \A g \in Fireteams : g # f => r[g] = ft[g]
    BY <1>1, Replaced
  <1> HIDE DEF r
  <1>3. \A g \in Fireteams : g # f => c \notin Members(ft[g])
    BY DEF Good
  <1>4. f \in InUse(ft)
    BY Fireteam
  <1>5. \A g \in Fireteams : c \notin Members(r[g]) /\ Members(r[g]) \subseteq Members(ft[g])
    BY <1>1, <1>2, <1>3
  <1>6. ASSUME NEW g \in InUse(r)
        PROVE  /\ g \in InUse(ft) /\ r[g].ident = ft[g].ident
               /\ Leader(r[g]) = Leader(ft[g]) \/ (Leader(ft[g]) = c /\ Leader(r[g]) \notin Bots)
    <2>1. g \in Fireteams /\ r[g].joinOrder # <<>>
      BY <1>6 DEF InUse
    <2>2. CASE g = f
      BY <1>2, <1>4, <2>1, <2>2
    <2>3. CASE g # f
      BY <1>2, <2>1, <2>3 DEF InUse
    <2> QED
      BY <2>2, <2>3
  <1>7. ASSUME NEW g \in InUse(ft) \ InUse(r)
        PROVE  Leader(ft[g]) = c
    <2>1. g \in Fireteams /\ r[g].joinOrder = <<>> /\ ft[g].joinOrder # <<>>
      BY <1>7 DEF InUse
    <2>2. g = f
      BY <1>2, <2>1
    <2> QED
      BY <1>2, <2>1, <2>2
  <1> QED
    BY <1>2, <1>5, <1>6, <1>7 DEF LeftBy, r

\* What leaving does, whoever leaves.
LEMMA Removed ==
    ASSUME NEW ft, Good(ft), NEW c
    PROVE  LeftBy(ft, G_RemoveClientFromFireteams(ft, c), c)
  <1> DEFINE f == Min(On(ft, c))
             rest == RemoveFirst(ft[f].joinOrder, c)
  <1>1. CASE On(ft, c) = {}
    <2>1. G_RemoveClientFromFireteams(ft, c) = ft
      BY <1>1 DEF G_RemoveClientFromFireteams
    <2>2. \A g \in Fireteams : c \notin Members(ft[g])
      BY <1>1, OnOne
    <2> QED
      BY <2>1, <2>2 DEF LeftBy
  <1>2. CASE On(ft, c) # {}
    <2>1. f \in Fireteams /\ c \in Members(ft[f])
      BY <1>2, OnOne
    <2>2. /\ ft[f] \in Records /\ ft[f].joinOrder \in JoinOrders
          /\ f \in InUse(ft) /\ ft[f].joinOrder # <<>>
          /\ Leader(ft[f]) \in Members(ft[f]) /\ Leader(ft[f]) = ft[f].joinOrder[1]
      BY <2>1, Fireteam
    <2>3. /\ rest \in JoinOrders /\ Len(rest) = Len(ft[f].joinOrder) - 1
          /\ Range(rest) = Members(ft[f]) \ {c}
          /\ Leader(ft[f]) # c => rest # <<>> /\ rest[1] = Leader(ft[f])
      BY <2>1, <2>2, Without DEF Members
    <2>4. ft \in [Fireteams -> Records]
      BY DEF Good, Lists, Records
    <2> HIDE DEF f, rest
    <2>5. G_RemoveClientFromFireteams(ft, c) =
             IF c # Leader(ft[f]) THEN [ft EXCEPT ![f].joinOrder = rest]
             ELSE IF G_OnlyBotsInFireteam(rest) THEN [ft EXCEPT ![f] = Unused]
             ELSE [ft EXCEPT ![f].joinOrder = HeirFirst(rest)]
      BY <1>2 DEF G_RemoveClientFromFireteams, f, rest
    <2>6. \A s : [ft EXCEPT ![f].joinOrder = s] = [ft EXCEPT ![f] = [ft[f] EXCEPT !.joinOrder = s]]
      OBVIOUS
    <2>7. CASE c # Leader(ft[f])
      <3> DEFINE t == [ft[f] EXCEPT !.joinOrder = rest]
      <3>1. /\ t \in Records /\ t.joinOrder = rest /\ t.ident = ft[f].ident
            /\ Members(t) = Members(ft[f]) \ {c} /\ Leader(t) = Head(rest)
        BY <2>2, <2>3, Reordered
      <3>2. rest # <<>> /\ Head(rest) = Leader(ft[f])
        BY <2>3, <2>7, Joined
      <3> HIDE DEF t
      <3>3. LeftBy(ft, [ft EXCEPT ![f] = t], c)
        BY <2>1, <2>7, <3>1, <3>2, OneLeftBy
      <3> QED
        BY <2>5, <2>6, <2>7, <3>3 DEF t
    <2>8. CASE c = Leader(ft[f]) /\ G_OnlyBotsInFireteam(rest)
      <3>1. LeftBy(ft, [ft EXCEPT ![f] = Unused], c)
        BY <2>1, <2>8, UnusedIsEmpty, OneLeftBy
      <3> QED
        BY <2>5, <2>8, <3>1
    <2>9. CASE c = Leader(ft[f]) /\ ~G_OnlyBotsInFireteam(rest)
      <3> DEFINE s == HeirFirst(rest)
                 t == [ft[f] EXCEPT !.joinOrder = s]
      <3>1. rest # <<>> /\ ~(Range(rest) \subseteq Bots)
        BY <2>9 DEF G_OnlyBotsInFireteam, Range
      <3>2. s \in JoinOrders /\ Range(s) = Range(rest) /\ Head(s) \notin Bots
        BY <2>3, <3>1, Heir
      <3>3. s # <<>>
        BY <3>1, <3>2 DEF Range
      <3> HIDE DEF s
      <3>4. /\ t \in Records /\ t.joinOrder = s /\ t.ident = ft[f].ident
            /\ Members(t) = Range(s) /\ Leader(t) = Head(s)
        BY <2>2, <3>2, Reordered
      <3> HIDE DEF t
      <3>5. LeftBy(ft, [ft EXCEPT ![f] = t], c)
        BY <2>1, <2>3, <2>9, <3>2, <3>3, <3>4, OneLeftBy
      <3> QED
        BY <2>5, <2>6, <2>9, <3>5 DEF s, t
    <2> QED
      BY <2>7, <2>8, <2>9
  <1> QED
    BY <1>1, <1>2

\* The others are as much of one team as before.
LEMMA RemovedAgrees ==
    ASSUME NEW ft, Good(ft), NEW r, NEW c, LeftBy(ft, r, c), NEW tm, Agrees(ft, tm)
    PROVE  Agrees(r, tm) /\ \A now : (\A d \in Clients \ {c} : now[d] = tm[d]) => Agrees(r, now)
  <1>1. Good(r) /\ \A f \in InUse(r) : f \in Fireteams
    BY DEF LeftBy, InUse
  <1>2. Agrees(r, tm)
    BY <1>1, SmallerAgrees DEF LeftBy
  <1>3. ASSUME NEW now, \A d \in Clients \ {c} : now[d] = tm[d]
        PROVE  Agrees(r, now)
    <2>1. \A f \in Fireteams : \A d \in Members(r[f]) : now[d] = tm[d]
      BY <1>1, <1>3, Fireteam DEF LeftBy
    <2> QED
      BY <1>1, <1>2, <2>1, AgreesElsewhere
  <1> QED
    BY <1>2, <1>3

\* The list r is the list ft with the client c added to a fireteam or leader of a new one,
\* or is the same.
JoinedBy(ft, r, c) ==
    /\ Good(r)
    /\ \A f \in InUse(ft) : f \in InUse(r) /\ Leader(r[f]) = Leader(ft[f])
    /\ \A f \in InUse(r) \ InUse(ft) : Leader(r[f]) = c

\* There are as many names as a team may have fireteams.
LEMMA FreeIdent ==
    ASSUME NEW ft, Good(ft), NEW tm, NEW t,
           Cardinality(OfTeam(ft, tm, t)) < MAX_FIRETEAMS \div 2
    PROVE  /\ G_FindFreeFireteamIdent(ft, tm, t) \in 1..(MAX_FIRETEAMS \div 2)
           /\ \A g \in OfTeam(ft, tm, t) : ft[g].ident # G_FindFreeFireteamIdent(ft, tm, t)
  <1> DEFINE S == OfTeam(ft, tm, t)
             h == [g \in S |-> ft[g].ident]
             T == {ft[g].ident : g \in S}
             n == MAX_FIRETEAMS \div 2
             N == 1..n
  <1>1. n \in Nat /\ MAX_FIRETEAMS \in Nat
    BY FireteamsAssumption
  <1>2. S \subseteq Fireteams
    BY DEF OfTeam, InUse
  <1>3. IsFiniteSet(Fireteams)
    BY <1>1, FS_Interval DEF Fireteams
  <1>4. IsFiniteSet(S) /\ Cardinality(S) \in Nat
    BY <1>2, <1>3, FS_Subset, FS_CardinalityType
  <1>5. h \in Surjection(S, T)
    BY DEF Surjection
  <1>6. IsFiniteSet(T) /\ Cardinality(T) <= Cardinality(S) /\ Cardinality(T) \in Nat
    BY <1>4, <1>5, FS_Surjection, FS_CardinalityType
  <1>7. Cardinality(N) = n
    <2>1. Cardinality(N) = IF 1 > n THEN 0 ELSE n - 1 + 1
      BY <1>1, FS_Interval
    <2> QED
      BY <1>1, <2>1
  <1> HIDE DEF S, T, n
  <1>8. Cardinality(S) < n
    BY DEF S, n
  <1>9. ~(N \subseteq T)
    <2>1. SUFFICES ASSUME N \subseteq T PROVE FALSE
      OBVIOUS
    <2>2. Cardinality(N) <= Cardinality(T)
      BY <1>6, <2>1, FS_Subset
    <2> QED
      BY <1>1, <1>4, <1>6, <1>7, <1>8, <2>2
  <1>10. N \ T # {} /\ N \ T \subseteq Nat
    BY <1>9
  <1>11. Min(N \ T) \in N \ T
    BY <1>10, MinIn
  <1>12. G_FindFreeFireteamIdent(ft, tm, t) = Min(N \ T)
    BY DEF G_FindFreeFireteamIdent, n, S, T
  <1> QED
    BY <1>11, <1>12 DEF S, T, n

\* A sequence of one client.
LEMMA Alone ==
    ASSUME NEW c \in Clients
    PROVE  <<c>> \in JoinOrders /\ <<c>> # <<>> /\ Range(<<c>>) = {c} /\ Head(<<c>>) = c
  <1> DEFINE s == <<c>>
  <1>1. s \in Seq(Clients) /\ Len(s) = 1 /\ DOMAIN s = {1} /\ s[1] = c /\ Head(s) = c
    OBVIOUS
  <1> HIDE DEF s
  <1>2. s \in JoinOrders
    BY <1>1, FireteamsAssumption DEF JoinOrders
  <1>3. Range(s) = {c} /\ s # <<>>
    BY <1>1 DEF Range
  <1> QED
    BY <1>1, <1>2, <1>3 DEF s

\* What founding a fireteam does, whoever founds it.
LEMMA Registered ==
    ASSUME NEW ft, Good(ft), NEW tm, NEW c \in Clients
    PROVE  LET r == G_RegisterFireteam(ft, tm, c)
           IN  JoinedBy(ft, r, c) /\ (Agrees(ft, tm) => Agrees(r, tm))
  <1> DEFINE r == G_RegisterFireteam(ft, tm, c)
             f == Min(Fireteams \ InUse(ft))
             i == G_FindFreeFireteamIdent(ft, tm, tm[c])
             t == [ident |-> i, priv |-> FALSE, joinOrder |-> <<c>>]
  <1>1. CASE ~MayRegister(ft, tm, c)
    BY <1>1 DEF G_RegisterFireteam, JoinedBy
  <1>2. CASE MayRegister(ft, tm, c)
    <2>1. /\ On(ft, c) = {} /\ InUse(ft) # Fireteams /\ tm[c] \in Sides
          /\ Cardinality(OfTeam(ft, tm, tm[c])) < MAX_FIRETEAMS \div 2
      BY <1>2 DEF MayRegister
    <2>2. f \in Fireteams \ InUse(ft)
      <3>1. Fireteams \ InUse(ft) # {} /\ Fireteams \ InUse(ft) \subseteq Nat
        BY <2>1, FireteamsAssumption DEF InUse, Fireteams
      <3> QED
        BY <3>1, MinIn
    <2>3. /\ i \in 1..(MAX_FIRETEAMS \div 2)
          /\ \A g \in OfTeam(ft, tm, tm[c]) : ft[g].ident # i
      BY <2>1, FreeIdent
    <2>4. r = [ft EXCEPT ![f] = t]
      BY <1>2 DEF G_RegisterFireteam
    <2> HIDE DEF f, i, r
    <2>5. t \in Records /\ t.joinOrder = <<c>> /\ t.ident = i
      <3>1. <<c>> \in JoinOrders /\ i \in 0..(MAX_FIRETEAMS \div 2)
        BY <2>3, Alone, FireteamsAssumption
      <3> QED
        BY <3>1 DEF Records
    <2>6. Members(t) = {c} /\ Leader(t) = c /\ t.joinOrder # <<>>
      BY <2>5, Alone DEF Members, Leader
    <2> HIDE DEF t
    <2>7. Good(r) /\ r[f] = t /\ \A g \in Fireteams : g # f => r[g] = ft[g]
      <3>1. f \in Fireteams /\ \A d \in Members(t) : d \in Members(ft[f]) \/ On(ft, d) = {}
        BY <2>1, <2>2, <2>6
      <3>2. t \in Records
        BY <2>5
      <3> DEFINE u == [ft EXCEPT ![f] = t]
      <3>3. Good(u) /\ u[f] = t /\ \A g \in Fireteams : g # f => u[g] = ft[g]
        BY <3>1, <3>2, Replaced
      <3> QED
        BY <2>4, <3>3
    <2>8. \A g \in InUse(ft) : g \in InUse(r) /\ Leader(r[g]) = Leader(ft[g])
      BY <2>2, <2>7 DEF InUse
    <2>9. \A g \in InUse(r) \ InUse(ft) : Leader(r[g]) = c
      BY <2>6, <2>7 DEF InUse
    <2>10. ASSUME Agrees(ft, tm)
           PROVE  Agrees(r, tm)
      <3>1. /\ f \in Fireteams /\ t \in Records /\ t.joinOrder # <<>>
            /\ tm[Leader(t)] \in Sides /\ \A d \in Members(t) : tm[d] = tm[Leader(t)]
        BY <2>1, <2>2, <2>5, <2>6
      <3>2. \A g \in OfTeam(ft, tm, tm[Leader(t)]) \ {f} : ft[g].ident # t.ident
        BY <2>3, <2>5, <2>6
      <3> QED
        BY <2>7, <2>10, <3>1, <3>2, ReplacedAgrees
    <2> QED
      BY <2>7, <2>8, <2>9, <2>10 DEF JoinedBy, r
  <1> QED
    BY <1>1, <1>2

\* The order of a fireteam a client has joined.
LEMMA Appended ==
    ASSUME NEW s \in JoinOrders, NEW c \in Clients, c \notin Range(s), s # <<>>,
           Len(s) < MAX_FIRETEAM_MEMBERS
    PROVE  LET q == Append(s, c)
           IN  /\ q \in JoinOrders /\ q # <<>> /\ Range(q) = Range(s) \cup {c}
               /\ Head(q) = Head(s)
  <1> DEFINE q == Append(s, c)
  <1>1. /\ s \in Seq(Clients) /\ Len(s) \in Nat
        /\ \A j, k \in 1..Len(s) : s[j] = s[k] => j = k
        /\ \A j \in 1..Len(s) : s[j] \in Clients
        /\ Range(s) = {s[j] : j \in 1..Len(s)} /\ Len(s) > 0 /\ Head(s) = s[1]
    BY Joined
  <1>2. /\ q \in Seq(Clients) /\ Len(q) = Len(s) + 1
        /\ \A k \in 1..Len(s) : q[k] = s[k]
        /\ q[Len(s) + 1] = c
    BY <1>1
  <1> HIDE DEF q
  <1>3. \A j, k \in 1..(Len(s) + 1) : q[j] = q[k] => j = k
    BY <1>1, <1>2
  <1>4. q \in JoinOrders
    BY <1>1, <1>2, <1>3, FireteamsAssumption DEF JoinOrders
  <1>5. Range(q) = {q[k] : k \in 1..(Len(s) + 1)} /\ q # <<>> /\ Head(q) = q[1]
    BY <1>1, <1>2, <1>4, Joined
  <1>6. Range(q) = Range(s) \cup {c}
    BY <1>1, <1>2, <1>5
  <1> QED
    BY <1>1, <1>2, <1>4, <1>5, <1>6 DEF q

\* What joining a fireteam does, whoever joins whose.
LEMMA Added ==
    ASSUME NEW ft, Good(ft), NEW tm, NEW c \in Clients, NEW leader
    PROVE  LET r == G_AddClientToFireteam(ft, tm, c, leader)
           IN  JoinedBy(ft, r, c) /\ (Agrees(ft, tm) => Agrees(r, tm))
  <1> DEFINE r == G_AddClientToFireteam(ft, tm, c, leader)
             f == Min(Led(ft, leader))
             s == Append(ft[f].joinOrder, c)
             t == [ft[f] EXCEPT !.joinOrder = s]
             no == tm[c] # tm[leader] \/ Led(ft, leader) = {} \/ On(ft, c) # {} \/ Full(ft[f])
  <1>1. CASE no
    <2>1. r = ft
      BY <1>1 DEF G_AddClientToFireteam
    <2> QED
      BY <2>1 DEF JoinedBy
  <1>2. CASE ~no
    <2>1. f \in InUse(ft) /\ Leader(ft[f]) = leader /\ f \in Fireteams
      BY <1>2, LedOne DEF InUse
    <2>2. /\ ft[f] \in Records /\ ft[f].joinOrder \in JoinOrders
          /\ ft[f].joinOrder # <<>> /\ c \notin Members(ft[f])
      BY <1>2, <2>1, Fireteam, OnOne
    <2>3. Len(ft[f].joinOrder) < MAX_FIRETEAM_MEMBERS
      BY <1>2, <2>2, Joined, FireteamsAssumption DEF Full
    <2>4. s \in JoinOrders /\ s # <<>> /\ Range(s) = Members(ft[f]) \cup {c} /\ Head(s) = leader
      BY <2>1, <2>2, <2>3, Appended DEF Members, Leader
    <2>5. r = [ft EXCEPT ![f].joinOrder = Append(@, c)]
      BY <1>2 DEF G_AddClientToFireteam
    <2> HIDE DEF r, f
    <2>6. r = [ft EXCEPT ![f] = t]
      BY <2>5
    <2> HIDE DEF s
    <2>7. /\ t \in Records /\ t.joinOrder = s /\ t.ident = ft[f].ident
          /\ Members(t) = Members(ft[f]) \cup {c} /\ Leader(t) = leader
      BY <2>2, <2>4, Reordered
    <2> HIDE DEF t
    <2>8. Good(r) /\ r[f] = t /\ \A g \in Fireteams : g # f => r[g] = ft[g]
      <3>1. \A d \in Members(t) : d \in Members(ft[f]) \/ On(ft, d) = {}
        BY <1>2, <2>7 DEF f
      <3> DEFINE u == [ft EXCEPT ![f] = t]
      <3>2. Good(u) /\ u[f] = t /\ \A g \in Fireteams : g # f => u[g] = ft[g]
        BY <2>1, <2>7, <3>1, Replaced
      <3> QED
        BY <2>6, <3>2
    <2>9. \A g \in InUse(ft) : g \in InUse(r) /\ Leader(r[g]) = Leader(ft[g])
      BY <2>1, <2>4, <2>7, <2>8 DEF InUse
    <2>10. \A g \in InUse(r) : g \in InUse(ft)
      BY <2>1, <2>8 DEF InUse
    <2>11. ASSUME Agrees(ft, tm)
           PROVE  Agrees(r, tm)
      <3>1. OfOneTeam(ft, tm, f)
        BY <2>1, <2>11 DEF Agrees
      <3>2. /\ tm[Leader(t)] \in Sides /\ \A d \in Members(t) : tm[d] = tm[Leader(t)]
            /\ \A g \in OfTeam(ft, tm, tm[Leader(t)]) \ {f} : ft[g].ident # t.ident
        BY <1>2, <2>1, <2>7, <3>1 DEF OfOneTeam
      <3> QED
        BY <2>1, <2>4, <2>7, <2>8, <2>11, <3>2, ReplacedAgrees
    <2> QED
      BY <2>8, <2>9, <2>10, <2>11 DEF JoinedBy, r
  <1> QED
    BY <1>1, <1>2

\* A fireteam keeps its leader, or gets a human.
LedOn(ft, r) ==
    \A f \in InUse(ft) \cap InUse(r) : Leader(r[f]) = Leader(ft[f]) \/ Leader(r[f]) \notin Bots

\* The list r may follow the list ft while the teams are tm.
Follows(ft, r, tm) == Good(r) /\ LedOn(ft, r) /\ (Agrees(ft, tm) => Agrees(r, tm))

LEMMA JoinedFollows ==
    ASSUME NEW ft, NEW r, NEW c, JoinedBy(ft, r, c)
    PROVE  Good(r) /\ LedOn(ft, r)
  BY DEF JoinedBy, LedOn

LEMMA LeftFollows ==
    ASSUME NEW ft, NEW r, NEW c, LeftBy(ft, r, c)
    PROVE  Good(r) /\ LedOn(ft, r)
  BY DEF LeftBy, LedOn

\* One client leaves and comes back: a fireteam it led may be its own again.
LEMMA LeftAndJoinedFollows ==
    ASSUME NEW ft, NEW q, NEW r, NEW c, LeftBy(ft, q, c), JoinedBy(q, r, c)
    PROVE  Good(r) /\ LedOn(ft, r)
  <1>1. ASSUME NEW f \in InUse(ft) \cap InUse(r)
        PROVE  Leader(r[f]) = Leader(ft[f]) \/ Leader(r[f]) \notin Bots
    <2>1. CASE f \in InUse(q)
      BY <2>1 DEF LeftBy, JoinedBy
    <2>2. CASE f \notin InUse(q)
      BY <2>2 DEF LeftBy, JoinedBy
    <2> QED
      BY <2>1, <2>2
  <1> QED
    BY <1>1 DEF LedOn, JoinedBy

\* What disbanding a fireteam does.
LEMMA Disbanded ==
    ASSUME NEW ft, Good(ft), NEW f \in InUse(ft), NEW tm
    PROVE  Follows(ft, [ft EXCEPT ![f] = Unused], tm)
  <1> DEFINE r == [ft EXCEPT ![f] = Unused]
  <1>1. f \in Fireteams
    BY DEF InUse
  <1>2. Good(r) /\ r[f] = Unused /\ \A g \in Fireteams : g # f => r[g] = ft[g]
    BY <1>1, UnusedIsEmpty, Replaced
  <1> HIDE DEF r
  <1>3. \A g \in InUse(r) : g \in InUse(ft) /\ r[g] = ft[g]
    BY <1>2, UnusedIsEmpty DEF InUse
  <1>4. LedOn(ft, r)
    BY <1>3 DEF LedOn
  <1>5. ASSUME Agrees(ft, tm) PROVE Agrees(r, tm)
    BY <1>2, <1>3, <1>5, SmallerAgrees
  <1> QED
    BY <1>2, <1>4, <1>5 DEF Follows, r

\* A fireteam made private or public.
LEMMA MadePrivate ==
    ASSUME NEW ft, Good(ft), NEW f \in InUse(ft), NEW tm, NEW p \in BOOLEAN
    PROVE  Follows(ft, [ft EXCEPT ![f].priv = p], tm)
  <1> DEFINE t == [ft[f] EXCEPT !.priv = p]
             r == [ft EXCEPT ![f] = t]
  <1>1. f \in Fireteams /\ ft[f] \in Records
    BY Fireteam DEF InUse
  <1>2. t \in Records /\ t.joinOrder = ft[f].joinOrder /\ t.ident = ft[f].ident
    BY <1>1 DEF Records
  <1>3. Members(t) = Members(ft[f]) /\ Leader(t) = Leader(ft[f])
    BY <1>2 DEF Members, Leader
  <1>4. [ft EXCEPT ![f].priv = p] = r
    OBVIOUS
  <1> HIDE DEF t
  <1>5. Good(r) /\ r[f] = t /\ \A g \in Fireteams : g # f => r[g] = ft[g]
    BY <1>1, <1>2, <1>3, Replaced
  <1> HIDE DEF r
  <1>6. \A g \in InUse(r) : /\ g \in InUse(ft) /\ r[g].ident = ft[g].ident
                            /\ Members(r[g]) \subseteq Members(ft[g])
                            /\ Leader(r[g]) = Leader(ft[g])
    BY <1>2, <1>3, <1>5 DEF InUse
  <1>7. LedOn(ft, r)
    BY <1>6 DEF LedOn
  <1>8. ASSUME Agrees(ft, tm) PROVE Agrees(r, tm)
    BY <1>5, <1>6, <1>8, SmallerAgrees
  <1> QED
    BY <1>4, <1>5, <1>7, <1>8 DEF Follows

\* A fireteam handed on to another of its members, a human.
LEMMA HandedOn ==
    ASSUME NEW ft, Good(ft), NEW f \in InUse(ft), NEW tm, NEW d \in Members(ft[f]), d \notin Bots
    PROVE  Follows(ft, [ft EXCEPT ![f].joinOrder = <<d>> \o RemoveFirst(@, d)], tm)
  <1> DEFINE s == ft[f].joinOrder
             q == RemoveFirst(s, d)
             a == <<d>>
             o == a \o q
             t == [ft[f] EXCEPT !.joinOrder = o]
             r == [ft EXCEPT ![f] = t]
  <1>1. f \in Fireteams /\ ft[f] \in Records /\ s \in JoinOrders /\ d \in Clients
    BY Fireteam DEF InUse
  <1>2. d \in Range(s) /\ Range(s) = Members(ft[f])
    BY DEF Members
  <1>3. q \in JoinOrders /\ Len(q) = Len(s) - 1 /\ Range(q) = Range(s) \ {d}
    BY <1>1, <1>2, Without
  <1>4. /\ q \in Seq(Clients) /\ Len(q) \in Nat
        /\ \A j, k \in 1..Len(q) : q[j] = q[k] => j = k
        /\ Range(q) = {q[k] : k \in 1..Len(q)}
    BY <1>3, Joined
  <1>5. Len(s) \in Nat /\ Len(s) <= MAX_FIRETEAM_MEMBERS
    BY <1>1, Joined
  <1>6. a \in Seq(Clients) /\ Len(a) = 1 /\ a[1] = d
    BY <1>1
  <1>7. [ft EXCEPT ![f].joinOrder = <<d>> \o RemoveFirst(@, d)] = r
    OBVIOUS
  <1> HIDE DEF s, q, a
  <1>8. /\ o \in Seq(Clients) /\ Len(o) = 1 + Len(q)
        /\ \A k \in 1..(1 + Len(q)) : o[k] = IF k <= 1 THEN a[k] ELSE q[k - 1]
    <2>1. /\ o \in Seq(Clients) /\ Len(o) = Len(a) + Len(q)
          /\ \A k \in 1..(Len(a) + Len(q)) : o[k] = IF k <= Len(a) THEN a[k] ELSE q[k - Len(a)]
      BY <1>4, <1>6, Concatenated
    <2> HIDE DEF o
    <2> QED
      BY <1>6, <2>1
  <1> HIDE DEF o
  <1>9. o[1] = d /\ \A k \in 1..Len(q) : o[k + 1] = q[k]
    BY <1>4, <1>6, <1>8
  <1>10. \A j, k \in 1..(1 + Len(q)) : o[j] = o[k] => j = k
    <2> SUFFICES ASSUME NEW j \in 1..(1 + Len(q)), NEW k \in 1..(1 + Len(q)), o[j] = o[k]
                 PROVE  j = k
      OBVIOUS
    <2>1. \A i \in 1..Len(q) : q[i] # d
      BY <1>3, <1>4, ZenonT(60)
    <2>2. CASE j = 1 \/ k = 1
      <3>1. \A i \in 1..(1 + Len(q)) : i # 1 => i - 1 \in 1..Len(q) /\ o[i] = q[i - 1]
        BY <1>4, <1>8
      <3> QED
        BY <1>9, <2>1, <2>2, <3>1
    <2>3. CASE j # 1 /\ k # 1
      <3>1. j - 1 \in 1..Len(q) /\ k - 1 \in 1..Len(q) /\ q[j - 1] = q[k - 1]
        BY <1>4, <1>8, <2>3
      <3>2. j - 1 = k - 1
        BY <1>4, <3>1
      <3> QED
        BY <3>2
    <2> QED
      BY <2>2, <2>3
  <1>11. o \in JoinOrders
    BY <1>3, <1>4, <1>5, <1>8, <1>10, FireteamsAssumption DEF JoinOrders
  <1>12. Range(o) = {o[k] : k \in 1..(1 + Len(q))} /\ o # <<>> /\ Head(o) = d
    BY <1>4, <1>8, <1>9, <1>11, Joined
  <1>13. Range(o) = Range(s)
    <2>1. ASSUME NEW x \in Range(o) PROVE x \in Range(s)
      <3>1. PICK k \in 1..(1 + Len(q)) : x = o[k]
        BY <1>12
      <3>2. CASE k = 1
        BY <1>2, <1>9, <3>1, <3>2
      <3>3. CASE k # 1
        <4>1. k - 1 \in 1..Len(q) /\ x = q[k - 1]
          BY <1>4, <1>8, <3>1, <3>3
        <4> QED
          BY <1>3, <1>4, <4>1
      <3> QED
        BY <3>2, <3>3
    <2>2. ASSUME NEW x \in Range(s) PROVE x \in Range(o)
      <3>1. CASE x = d
        <4>1. 1 \in 1..(1 + Len(q))
          BY <1>4
        <4> QED
          BY <1>9, <1>12, <3>1, <4>1
      <3>2. CASE x # d
        <4>1. PICK k \in 1..Len(q) : x = q[k]
          BY <1>3, <1>4, <3>2
        <4>2. k + 1 \in 1..(1 + Len(q)) /\ o[k + 1] = x
          BY <1>4, <1>9, <4>1
        <4> QED
          BY <1>12, <4>2
      <3> QED
        BY <3>1, <3>2
    <2> QED
      BY <2>1, <2>2
  <1>14. /\ t \in Records /\ t.joinOrder = o /\ t.ident = ft[f].ident
         /\ Members(t) = Members(ft[f]) /\ Leader(t) = d
    BY <1>1, <1>2, <1>11, <1>12, <1>13, Reordered
  <1> HIDE DEF t
  <1>15. Good(r) /\ r[f] = t /\ \A g \in Fireteams : g # f => r[g] = ft[g]
    BY <1>1, <1>14, Replaced
  <1> HIDE DEF r
  <1>16. \A g \in InUse(r) : /\ g \in InUse(ft) /\ r[g].ident = ft[g].ident
                             /\ Members(r[g]) \subseteq Members(ft[g])
                             /\ Leader(r[g]) = Leader(ft[g]) \/ Leader(r[g]) \notin Bots
    BY <1>14, <1>15 DEF InUse
  <1>17. LedOn(ft, r)
    BY <1>16 DEF LedOn
  <1>18. ASSUME Agrees(ft, tm) PROVE Agrees(r, tm)
    BY <1>15, <1>16, <1>18, SmallerAgrees
  <1> QED
    BY <1>7, <1>15, <1>17, <1>18 DEF Follows

-----------------------------------------------------------------------------
(* Whole teams                                                             *)

\* The list after some have left.
Shrunk(ft, r) ==
    /\ Good(r)
    /\ \A f \in Fireteams : Members(r[f]) \subseteq Members(ft[f])
    /\ \A f \in InUse(r) :
          /\ f \in InUse(ft) /\ r[f].ident = ft[f].ident
          /\ Leader(r[f]) = Leader(ft[f]) \/ Leader(r[f]) \notin Bots

LEMMA ShrunkByOne ==
    ASSUME NEW ft, NEW q, NEW r, NEW c, Shrunk(ft, q), LeftBy(q, r, c)
    PROVE  Shrunk(ft, r)
  <1>1. \A f \in InUse(r) :
          /\ f \in InUse(q) /\ r[f].ident = q[f].ident
          /\ Leader(r[f]) = Leader(q[f]) \/ Leader(r[f]) \notin Bots
    BY DEF LeftBy
  <1>2. \A f \in InUse(q) :
          /\ f \in InUse(ft) /\ q[f].ident = ft[f].ident
          /\ Leader(q[f]) = Leader(ft[f]) \/ Leader(q[f]) \notin Bots
    BY DEF Shrunk
  <1>3. \A f \in InUse(r) :
          /\ f \in InUse(ft) /\ r[f].ident = ft[f].ident
          /\ Leader(r[f]) = Leader(ft[f]) \/ Leader(r[f]) \notin Bots
    BY <1>1, <1>2
  <1>4. \A f \in Fireteams : Members(r[f]) \subseteq Members(ft[f])
    BY DEF LeftBy, Shrunk
  <1> QED
    BY <1>3, <1>4 DEF LeftBy, Shrunk

\* The lists that follow one another when those of the order leave that move.
Leavings(ft, order, tm, to, n, g) ==
    g = [k \in 0..n |->
            IF k = 0 THEN ft
            ELSE IF to[order[k]] = tm[order[k]] THEN g[k - 1]
            ELSE G_RemoveClientFromFireteams(g[k - 1], order[k])]

LEMMA LeavingsExist ==
    ASSUME NEW ft, NEW order, NEW tm, NEW to, NEW N \in Nat
    PROVE  \E g : Leavings(ft, order, tm, to, N, g)
  <1> DEFINE P(n) == \E g : Leavings(ft, order, tm, to, n, g)
             T == {n \in Nat : ~P(n)}
  <1>1. P(0)
    <2> DEFINE g == [k \in 0..0 |-> ft]
    <2>1. g = [k \in 0..0 |->
                  IF k = 0 THEN ft
                  ELSE IF to[order[k]] = tm[order[k]] THEN g[k - 1]
                  ELSE G_RemoveClientFromFireteams(g[k - 1], order[k])]
      BY \A k \in 0..0 : k = 0
    <2> HIDE DEF g
    <2> QED
      BY <2>1 DEF Leavings
  <1>2. ASSUME NEW n \in Nat, n # 0, P(n - 1)
        PROVE  P(n)
    <2>1. PICK g : Leavings(ft, order, tm, to, n - 1, g)
      BY <1>2
    <2> DEFINE last == IF to[order[n]] = tm[order[n]] THEN g[n - 1]
                       ELSE G_RemoveClientFromFireteams(g[n - 1], order[n])
               h == [k \in 0..n |-> IF k = n THEN last ELSE g[k]]
    <2>2. \A k \in 0..(n - 1) : h[k] = g[k]
      <3>1. \A k \in 0..(n - 1) : k \in 0..n /\ k # n
        BY <1>2
      <3> QED
        BY <3>1
    <2>3. n - 1 \in 0..(n - 1) /\ n \in 0..n /\ h[n] = last
      BY <1>2
    <2>4. \A k \in 0..(n - 1) : g[k] =
             IF k = 0 THEN ft
             ELSE IF to[order[k]] = tm[order[k]] THEN g[k - 1]
             ELSE G_RemoveClientFromFireteams(g[k - 1], order[k])
      BY <2>1 DEF Leavings
    <2> DEFINE body(k) == IF k = 0 THEN ft
                          ELSE IF to[order[k]] = tm[order[k]] THEN h[k - 1]
                          ELSE G_RemoveClientFromFireteams(h[k - 1], order[k])
    <2>5. h = [k \in 0..n |-> h[k]]
      OBVIOUS
    <2> HIDE DEF h
    <2>6. \A k \in 0..n : h[k] = body(k)
      <3> SUFFICES ASSUME NEW k \in 0..n
                   PROVE  h[k] = body(k)
        OBVIOUS
      <3>1. CASE k = n
        <4>1. h[k - 1] = g[n - 1]
          BY <2>2, <2>3, <3>1
        <4> QED
          BY <1>2, <2>3, <3>1, <4>1
      <3>2. CASE k # n
        <4>1. k \in 0..(n - 1) /\ (k # 0 => k - 1 \in 0..(n - 1))
          BY <3>2
        <4>2. h[k] = g[k] /\ (k # 0 => h[k - 1] = g[k - 1])
          BY <2>2, <4>1
        <4> QED
          BY <2>4, <4>1, <4>2
      <3> QED
        BY <3>1, <3>2
    <2>7. h = [k \in 0..n |-> body(k)]
      BY <2>5, <2>6
    <2> QED
      BY <2>7 DEF Leavings
  <1> HIDE DEF P
  <1>3. T = {}
    <2> SUFFICES ASSUME T # {} PROVE FALSE
      OBVIOUS
    <2>1. PICK n \in T : \A m \in T : n <= m
      BY NatMinimum
    <2>2. n # 0 /\ n - 1 \in Nat /\ n - 1 \notin T
      BY <1>1, <2>1
    <2> QED
      BY <1>2, <2>1, <2>2
  <1> QED
    BY <1>3 DEF P

\* After a shuffle, nobody who has moved is on a fireteam.
LEMMA ShuffledOff ==
    ASSUME Good(fireTeams), NEW order \in Seq(Clients), NEW to
    PROVE  LET r == Shuffled(order, to)
           IN  /\ Shrunk(fireTeams, r)
               /\ \A j \in 1..Len(order) :
                    to[order[j]] # team[order[j]] =>
                       \A f \in Fireteams : order[j] \notin Members(r[f])
  <1> DEFINE N == Len(order)
             left[k \in 0..Len(order)] ==
                IF k = 0 THEN fireTeams
                ELSE IF to[order[k]] = team[order[k]] THEN left[k - 1]
                ELSE G_RemoveClientFromFireteams(left[k - 1], order[k])
             Off(k, r) == \A j \in 1..k :
                             to[order[j]] # team[order[j]] =>
                                \A f \in Fireteams : order[j] \notin Members(r[f])
             Q(k) == Shrunk(fireTeams, left[k]) /\ Off(k, left[k])
             T == {k \in 0..N : ~Q(k)}
  <1>1. Shuffled(order, to) = left[N]
    BY DEF Shuffled
  <1>2. N \in Nat
    OBVIOUS
  <1>3. Leavings(fireTeams, order, team, to, N, left)
    <2>1. \E g : Leavings(fireTeams, order, team, to, N, g)
      BY <1>2, LeavingsExist
    <2> QED
      BY <2>1, Zenon DEF Leavings
  <1> HIDE DEF left
  <1>4. \A k \in 0..N : left[k] =
            IF k = 0 THEN fireTeams
            ELSE IF to[order[k]] = team[order[k]] THEN left[k - 1]
            ELSE G_RemoveClientFromFireteams(left[k - 1], order[k])
    BY <1>3 DEF Leavings
  <1>5. Q(0)
    <2>1. left[0] = fireTeams
      BY <1>2, <1>4
    <2> QED
      BY <2>1 DEF Shrunk
  <1>6. ASSUME NEW k \in 0..N, k # 0, Q(k - 1)
        PROVE  Q(k)
    <2>1. k - 1 \in 0..N /\ \A j \in 1..k : j = k \/ j \in 1..(k - 1)
      BY <1>2, <1>6
    <2>2. CASE to[order[k]] = team[order[k]]
      BY <1>4, <1>6, <2>1, <2>2
    <2>3. CASE to[order[k]] # team[order[k]]
      <3>1. Good(left[k - 1])
        BY <1>6 DEF Shrunk
      <3>2. left[k] = G_RemoveClientFromFireteams(left[k - 1], order[k])
        BY <1>4, <1>6, <2>3
      <3>3. LeftBy(left[k - 1], left[k], order[k])
        BY <3>1, <3>2, Removed
      <3>4. Shrunk(fireTeams, left[k])
        BY <1>6, <3>3, ShrunkByOne
      <3>5. Off(k, left[k])
        <4>1. \A f \in Fireteams : order[k] \notin Members(left[k][f])
                                   /\ Members(left[k][f]) \subseteq Members(left[k - 1][f])
          BY <3>3 DEF LeftBy
        <4> QED
          BY <1>6, <2>1, <4>1
      <3> QED
        BY <3>4, <3>5
    <2> QED
      BY <2>2, <2>3
  <1> HIDE DEF Q
  <1>7. T = {}
    <2> SUFFICES ASSUME T # {} PROVE FALSE
      OBVIOUS
    <2>1. T \subseteq Nat
      BY <1>2
    <2>2. PICK n \in T : \A m \in T : n <= m
      BY <2>1, NatMinimum
    <2>3. n # 0 /\ n \in 0..N /\ n - 1 \in 0..N /\ n - 1 \notin T
      BY <1>2, <1>5, <2>2
    <2> QED
      BY <1>6, <2>2, <2>3
  <1>8. Q(N)
    BY <1>2, <1>7
  <1> QED
    BY <1>1, <1>8 DEF Q

\* An order of the players names each of them.
LEMMA OrderOfAll ==
    ASSUME NEW S \in SUBSET Clients, NEW order \in SetToSeqs(S)
    PROVE  /\ order \in Seq(Clients)
           /\ \A c \in S : \E j \in 1..Len(order) : order[j] = c
  <1> DEFINE n == Cardinality(S)
  <1>1. IsFiniteSet(S) /\ n \in Nat
    BY FireteamsAssumption, FS_Subset, FS_CardinalityType
  <1>2. order \in Injection(1..n, S)
    BY DEF SetToSeqs, Injection, IsInjective
  <1>3. order \in [1..n -> S]
    BY DEF SetToSeqs
  <1> HIDE DEF n
  <1>4. order \in Seq(Clients) /\ Len(order) = n
    BY <1>1, <1>3
  <1>5. Cardinality(1..n) = n
    <2>1. Cardinality(1..n) = IF 1 > n THEN 0 ELSE n - 1 + 1
      BY <1>1, FS_Interval
    <2> QED
      BY <1>1, <2>1
  <1>6. order \in Surjection(1..n, S)
    BY <1>1, <1>2, <1>5, FS_Injection DEF n
  <1> QED
    BY <1>4, <1>6 DEF Surjection

\* When the teams are swapped, so are those of the fireteams.
LEMMA SwappedAgrees ==
    ASSUME NEW ft, Good(ft), NEW tm, Agrees(ft, tm), NEW now,
           \A c \in Clients : now[c] = Other(tm[c])
    PROVE  Agrees(ft, now)
  <1>1. \A f \in InUse(ft) : /\ f \in Fireteams /\ Leader(ft[f]) \in Members(ft[f])
                             /\ Members(ft[f]) \subseteq Clients
                             /\ tm[Leader(ft[f])] \in Sides
    BY Fireteam DEF InUse, Agrees, OfOneTeam
  <1>2. Other("axis") = "allies" /\ Other("allies") = "axis"
    BY DEF Other
  <1>3. \A f \in InUse(ft) : now[Leader(ft[f])] = Other(tm[Leader(ft[f])])
    BY <1>1
  <1>4. \A f \in InUse(ft) : now[Leader(ft[f])] \in Sides
    BY <1>1, <1>2, <1>3 DEF Sides
  <1>5. \A f, g \in InUse(ft) : now[Leader(ft[g])] = now[Leader(ft[f])] =>
                                    tm[Leader(ft[g])] = tm[Leader(ft[f])]
    BY <1>1, <1>2, <1>3 DEF Sides
  <1> SUFFICES ASSUME NEW f \in InUse(ft)
               PROVE  OfOneTeam(ft, now, f)
    BY DEF Agrees
  <1>6. OfOneTeam(ft, tm, f)
    BY DEF Agrees
  <1>7. \A c \in Members(ft[f]) : now[c] = now[Leader(ft[f])]
    BY <1>1, <1>3, <1>6 DEF OfOneTeam
  <1>8. \A g \in OfTeam(ft, now, now[Leader(ft[f])]) : g \in OfTeam(ft, tm, tm[Leader(ft[f])])
    BY <1>5 DEF OfTeam
  <1> QED
    BY <1>4, <1>6, <1>7, <1>8 DEF OfOneTeam

-----------------------------------------------------------------------------
(* Offers                                                                  *)

LEMMA KindsAre ==
    /\ \A k : k \in Range(Kinds) <=>
                k \in {"application", "invitation", "proposition", "private", "create", "join"}
    /\ \A k \in Range(Kinds) : k \in AboutSomebody \/ k \in {"private", "create", "join"}
  <1>1. DOMAIN Kinds = {1, 2, 3, 4, 5, 6}
    BY DEF Kinds
  <1>2. /\ Kinds[1] = "application" /\ Kinds[2] = "invitation" /\ Kinds[3] = "proposition"
        /\ Kinds[4] = "private" /\ Kinds[5] = "create" /\ Kinds[6] = "join"
    BY DEF Kinds
  <1>3. Range(Kinds) = {Kinds[i] : i \in {1, 2, 3, 4, 5, 6}}
    BY <1>1 DEF Range
  <1> QED
    BY <1>2, <1>3 DEF AboutSomebody

LEMMA FewerAsked ==
    ASSUME NEW o, Asked(o), NEW p, p \subseteq o
    PROVE  Asked(p)
  BY DEF Asked

LEMMA OneMoreAsked ==
    ASSUME NEW o, Asked(o), NEW to \in Clients, NEW kind \in Range(Kinds),
           NEW about \in Clients \cup {None}, kind \in AboutSomebody => about \in Clients
    PROVE  Asked(Ask(o, to, kind, about))
  <1> DEFINE x == [to |-> to, kind |-> kind, about |-> about, same |-> TRUE]
             p == {y \in o : y.to # to \/ y.kind # kind}
  <1>1. x \in Offers /\ x.kind = kind /\ x.about = about
    BY DEF Offers
  <1>2. Ask(o, to, kind, about) = p \cup {x}
    BY DEF Ask
  <1>3. Asked(p)
    BY FewerAsked
  <1> HIDE DEF x, p
  <1> QED
    BY <1>1, <1>2, <1>3 DEF Asked

LEMMA AskedPrivacy ==
    ASSUME NEW o, Asked(o), NEW ft, NEW tm, NEW c \in Clients
    PROVE  Asked(AskedForPrivacy(ft, tm, c, o))
  <1>1. "private" \in Range(Kinds) /\ ~("private" \in AboutSomebody)
    BY KindsAre DEF AboutSomebody
  <1>2. Asked(Ask(o, c, "private", None))
    BY <1>1, OneMoreAsked
  <1> QED
    BY <1>2 DEF AskedForPrivacy

\* Who is asked something is asked something first.
LEMMA FirstOffer ==
    ASSUME NEW c, \E o \in offers : o.to = c
    PROVE  FirstAsked(c) \in offers /\ FirstAsked(c).to = c
  <1> DEFINE mine == {o \in offers : o.to = c}
             rank(o) == SelectInSeq(Kinds, LAMBDA k : k = o.kind)
             R == {rank(o) : o \in mine}
  <1>1. ASSUME NEW o \in mine
        PROVE  rank(o) \in Nat
    <2> DEFINE I == {i \in 1..Len(Kinds) : Kinds[i] = o.kind}
    <2>1. rank(o) = IF I # {} THEN Min(I) ELSE 0
      BY DEF SelectInSeq
    <2>2. I \subseteq Nat
      BY DEF Kinds
    <2> HIDE DEF I
    <2>3. (IF I # {} THEN Min(I) ELSE 0) \in Nat
      BY <2>2, MinIn
    <2> HIDE DEF rank
    <2> QED
      BY <2>1, <2>3
  <1>2. FirstAsked(c) = CHOOSE o \in mine : \A p \in mine : rank(o) <= rank(p)
    BY DEF FirstAsked
  <1> HIDE DEF rank
  <1>3. R \subseteq Nat /\ R # {}
    BY <1>1
  <1>4. PICK m \in R : \A n \in R : m <= n
    BY <1>3, NatMinimum
  <1>5. \E o \in mine : \A p \in mine : rank(o) <= rank(p)
    BY <1>4
  <1>6. FirstAsked(c) \in mine
    BY <1>2, <1>5
  <1> QED
    BY <1>6

\* Whom an offer is about.
LEMMA Answered ==
    ASSUME Typed, NEW c, NEW kind, MayAnswer(c, kind)
    PROVE  /\ FirstAsked(c) \in offers
           /\ kind \in AboutSomebody => FirstAsked(c).about \in Clients
           /\ Asked(offers \ {FirstAsked(c)})
  <1>1. FirstAsked(c) \in offers /\ FirstAsked(c).kind = kind
    BY FirstOffer DEF MayAnswer
  <1>2. Asked(offers)
    BY DEF Typed
  <1>3. Asked(offers \ {FirstAsked(c)})
    BY <1>2, FewerAsked
  <1> QED
    BY <1>1, <1>2, <1>3 DEF Asked

-----------------------------------------------------------------------------
(* Steps                                                                   *)

LEMMA NothingFollows ==
    ASSUME NEW ft, Good(ft), NEW tm
    PROVE  Follows(ft, ft, tm)
  BY DEF Follows, LedOn

LEMMA RemovalFollows ==
    ASSUME NEW ft, Good(ft), NEW tm, NEW c
    PROVE  Follows(ft, G_RemoveClientFromFireteams(ft, c), tm)
  <1> DEFINE r == G_RemoveClientFromFireteams(ft, c)
  <1>1. LeftBy(ft, r, c)
    BY Removed
  <1> HIDE DEF r
  <1>2. Agrees(ft, tm) => Agrees(r, tm)
    BY <1>1, RemovedAgrees
  <1>3. Good(r) /\ LedOn(ft, r)
    BY <1>1, LeftFollows
  <1> QED
    BY <1>2, <1>3 DEF Follows, r

LEMMA RegistrationFollows ==
    ASSUME NEW ft, Good(ft), NEW tm, NEW c \in Clients
    PROVE  Follows(ft, G_RegisterFireteam(ft, tm, c), tm)
  <1> DEFINE r == G_RegisterFireteam(ft, tm, c)
  <1>1. JoinedBy(ft, r, c) /\ (Agrees(ft, tm) => Agrees(r, tm))
    BY Registered
  <1> HIDE DEF r
  <1>2. Good(r) /\ LedOn(ft, r)
    BY <1>1, JoinedFollows
  <1> QED
    BY <1>1, <1>2 DEF Follows, r

LEMMA AdditionFollows ==
    ASSUME NEW ft, Good(ft), NEW tm, NEW c \in Clients, NEW leader
    PROVE  Follows(ft, G_AddClientToFireteam(ft, tm, c, leader), tm)
  <1> DEFINE r == G_AddClientToFireteam(ft, tm, c, leader)
  <1>1. JoinedBy(ft, r, c) /\ (Agrees(ft, tm) => Agrees(r, tm))
    BY Added
  <1> HIDE DEF r
  <1>2. Good(r) /\ LedOn(ft, r)
    BY <1>1, JoinedFollows
  <1> QED
    BY <1>1, <1>2 DEF Follows, r

LEMMA LeaderIsClient ==
    ASSUME NEW ft, Good(ft), NEW f \in InUse(ft)
    PROVE  Leader(ft[f]) \in Clients
  BY Fireteam DEF InUse

\* A step that leaves the teams alone.
LEMMA TeamsAsTheyAre ==
    ASSUME Inv, conn' \in [Clients -> States], UNCHANGED <<team, odd, g_autoFireteams>>,
           Asked(offers'), Follows(fireTeams, fireTeams', team)
    PROVE  Inv' /\ LedOn(fireTeams, fireTeams')
  <1>1. Typed'
    BY DEF Inv, Typed
  <1>2. Good(fireTeams') /\ (Agrees(fireTeams, team) => Agrees(fireTeams', team))
        /\ LedOn(fireTeams, fireTeams')
    BY DEF Follows
  <1>3. Agrees(fireTeams', team) => Agrees(fireTeams', team')
    OBVIOUS
  <1>4. odd' \/ Agrees(fireTeams', team')
    BY <1>2, <1>3 DEF Inv
  <1> QED
    BY <1>1, <1>2, <1>4 DEF Inv

LEMMA Invited ==
    ASSUME Good(fireTeams), NEW c \in Clients, NEW other \in Clients, NEW o, Asked(o),
           G_InviteToFireTeam(c, other, o)
    PROVE  Asked(offers') /\ Follows(fireTeams, fireTeams', team)
  <1>1. CASE offers' = o /\ UNCHANGED fireTeams
    BY <1>1, NothingFollows
  <1>2. CASE /\ fireTeams' = G_AddClientToFireteam(fireTeams, team, other, c)
             /\ offers' = o
    BY <1>2, AdditionFollows
  <1>3. CASE offers' = Ask(o, other, "invitation", c) /\ UNCHANGED fireTeams
    <2>1. "invitation" \in Range(Kinds)
      BY KindsAre
    <2>2. Asked(Ask(o, other, "invitation", c))
      BY <2>1, OneMoreAsked
    <2> QED
      BY <1>3, <2>2, NothingFollows
  <1> QED
    BY <1>1, <1>2, <1>3 DEF G_InviteToFireTeam

\* What a client does to the fireteams by a command.
LEMMA CommandKeeps ==
    ASSUME Inv, NEW c \in Clients,
           Create(c) \/ G_DestroyFireteam(c) \/ Leave(c) \/ Privacy(c)
    PROVE  Inv' /\ LedOn(fireTeams, fireTeams')
  <1>1. Good(fireTeams) /\ Asked(offers) /\ conn \in [Clients -> States]
    BY DEF Inv, Typed
  <1>2. CASE Create(c)
    <2>1. Follows(fireTeams, fireTeams', team)
      BY <1>1, <1>2, RegistrationFollows DEF Create
    <2>2. Asked(offers')
      BY <1>1, <1>2, AskedPrivacy DEF Create
    <2> QED
      BY <1>1, <1>2, <2>1, <2>2, TeamsAsTheyAre DEF Create
  <1>3. CASE G_DestroyFireteam(c)
    <2>1. Min(Led(fireTeams, c)) \in InUse(fireTeams)
      BY <1>1, <1>3, LedOne DEF G_DestroyFireteam
    <2>2. Follows(fireTeams, [fireTeams EXCEPT ![Min(Led(fireTeams, c))] = Unused], team)
      BY <1>1, <2>1, Disbanded
    <2>3. Follows(fireTeams, fireTeams', team)
      BY <1>3, <2>2 DEF G_DestroyFireteam
    <2> QED
      BY <1>1, <1>3, <2>3, TeamsAsTheyAre DEF G_DestroyFireteam
  <1>4. CASE Leave(c)
    <2>1. Follows(fireTeams, fireTeams', team)
      BY <1>1, <1>4, RemovalFollows DEF Leave
    <2> QED
      BY <1>1, <1>4, <2>1, TeamsAsTheyAre DEF Leave
  <1>5. CASE Privacy(c)
    <2> DEFINE f == Min(Led(fireTeams, c))
    <2>1. f \in InUse(fireTeams)
      BY <1>1, <1>5, LedOne DEF Privacy
    <2>2. fireTeams' = [fireTeams EXCEPT ![f].priv = ~fireTeams[f].priv]
      BY <1>5 DEF Privacy
    <2> HIDE DEF f
    <2> DEFINE p == ~fireTeams[f].priv
    <2>3. p \in BOOLEAN
      OBVIOUS
    <2> HIDE DEF p
    <2>4. Follows(fireTeams, [fireTeams EXCEPT ![f].priv = p], team)
      BY <1>1, <2>1, <2>3, MadePrivate
    <2>5. Follows(fireTeams, fireTeams', team)
      BY <2>2, <2>4 DEF p
    <2> QED
      BY <1>1, <1>5, <2>5, TeamsAsTheyAre DEF Privacy
  <1> QED
    BY <1>2, <1>3, <1>4, <1>5

\* What clients ask one another.
LEMMA RequestKeeps ==
    ASSUME Inv, NEW c \in Clients,
           \/ \E f \in Fireteams : G_ApplyToFireTeam(c, f)
           \/ \E other \in Clients : \/ Invite(c, other) \/ G_ProposeFireTeamPlayer(c, other)
                                     \/ G_KickFireTeamPlayer(c, other)
                                     \/ G_GiveAdminOfFireTeam(c, other)
    PROVE  Inv' /\ LedOn(fireTeams, fireTeams')
  <1>1. /\ Good(fireTeams) /\ Asked(offers) /\ conn \in [Clients -> States]
        /\ Follows(fireTeams, fireTeams, team)
    BY NothingFollows DEF Inv, Typed
  <1>2. CASE \E f \in Fireteams : G_ApplyToFireTeam(c, f)
    <2>1. PICK f \in Fireteams : G_ApplyToFireTeam(c, f)
      BY <1>2
    <2>2. Leader(fireTeams[f]) \in Clients
      BY <1>1, <2>1, LeaderIsClient DEF G_ApplyToFireTeam
    <2>3. "application" \in Range(Kinds)
      BY KindsAre
    <2>4. Asked(Ask(offers, Leader(fireTeams[f]), "application", c))
      BY <1>1, <2>2, <2>3, OneMoreAsked
    <2>5. Asked(offers') /\ Follows(fireTeams, fireTeams', team)
      BY <1>1, <2>1, <2>4 DEF G_ApplyToFireTeam
    <2> QED
      BY <1>1, <2>1, <2>5, TeamsAsTheyAre DEF G_ApplyToFireTeam
  <1>3. ASSUME NEW other \in Clients, Invite(c, other)
        PROVE  Inv' /\ LedOn(fireTeams, fireTeams')
    <2>1. Asked(offers') /\ Follows(fireTeams, fireTeams', team)
      BY <1>1, <1>3, Invited DEF Invite
    <2> QED
      BY <1>1, <1>3, <2>1, TeamsAsTheyAre DEF Invite
  <1>4. ASSUME NEW other \in Clients, G_ProposeFireTeamPlayer(c, other)
        PROVE  Inv' /\ LedOn(fireTeams, fireTeams')
    <2> DEFINE f == Min(On(fireTeams, c))
    <2>1. f \in InUse(fireTeams)
      BY <1>1, <1>4, OnOne DEF G_ProposeFireTeamPlayer, On
    <2>2. Leader(fireTeams[f]) \in Clients
      BY <1>1, <2>1, LeaderIsClient
    <2>3. "proposition" \in Range(Kinds)
      BY KindsAre
    <2>4. offers' = Ask(offers, Leader(fireTeams[f]), "proposition", other)
      BY <1>4 DEF G_ProposeFireTeamPlayer
    <2> HIDE DEF f
    <2>5. Asked(offers') /\ Follows(fireTeams, fireTeams', team)
      <3>1. Asked(Ask(offers, Leader(fireTeams[f]), "proposition", other))
        BY <1>1, <2>2, <2>3, OneMoreAsked
      <3> QED
        BY <1>1, <1>4, <2>4, <3>1 DEF G_ProposeFireTeamPlayer
    <2> QED
      BY <1>1, <1>4, <2>5, TeamsAsTheyAre DEF G_ProposeFireTeamPlayer
  <1>5. ASSUME NEW other \in Clients, G_KickFireTeamPlayer(c, other)
        PROVE  Inv' /\ LedOn(fireTeams, fireTeams')
    <2>1. Follows(fireTeams, fireTeams', team)
      BY <1>1, <1>5, RemovalFollows DEF G_KickFireTeamPlayer
    <2> QED
      BY <1>1, <1>5, <2>1, TeamsAsTheyAre DEF G_KickFireTeamPlayer
  <1>6. ASSUME NEW other \in Clients, G_GiveAdminOfFireTeam(c, other)
        PROVE  Inv' /\ LedOn(fireTeams, fireTeams')
    <2> DEFINE f == Min(Led(fireTeams, c))
    <2>1. /\ Led(fireTeams, c) # {} /\ On(fireTeams, other) # {} /\ other \notin Bots
          /\ f = Min(On(fireTeams, other))
          /\ fireTeams' = [fireTeams EXCEPT ![f].joinOrder = <<other>> \o RemoveFirst(@, other)]
      BY <1>6 DEF G_GiveAdminOfFireTeam, Leads
    <2>2. f \in InUse(fireTeams) /\ other \in Members(fireTeams[f])
      BY <1>1, <2>1, LedOne, OnOne
    <2> HIDE DEF f
    <2>3. Follows(fireTeams,
                  [fireTeams EXCEPT ![f].joinOrder = <<other>> \o RemoveFirst(@, other)], team)
      BY <1>1, <2>1, <2>2, HandedOn
    <2>4. Follows(fireTeams, fireTeams', team)
      BY <2>1, <2>3
    <2> QED
      BY <1>1, <1>6, <2>4, TeamsAsTheyAre DEF G_GiveAdminOfFireTeam
  <1> QED
    BY <1>2, <1>3, <1>4, <1>5, <1>6

\* Whatever is answered.
LEMMA AnswerKeeps ==
    ASSUME Inv, NEW c \in Clients, NEW yes \in BOOLEAN, Cmd_Vote_f(c, yes)
    PROVE  Inv' /\ LedOn(fireTeams, fireTeams')
  <1>1. /\ Good(fireTeams) /\ Asked(offers) /\ conn \in [Clients -> States]
        /\ Follows(fireTeams, fireTeams, team) /\ Typed
    BY NothingFollows DEF Inv, Typed
  <1>2. \A k \in AboutSomebody : MayAnswer(c, k) => FirstAsked(c).about \in Clients
    BY <1>1, Answered
  <1>3. \A k : MayAnswer(c, k) => Asked(offers \ {FirstAsked(c)})
    BY <1>1, Answered
  <1>4. "application" \in AboutSomebody /\ "invitation" \in AboutSomebody
        /\ "proposition" \in AboutSomebody
    BY DEF AboutSomebody
  <1> DEFINE first == FirstAsked(c)
             left  == offers \ {first}
  <1> SUFFICES Asked(offers') /\ Follows(fireTeams, fireTeams', team)
    <2>1. UNCHANGED <<conn, team, odd, g_autoFireteams>>
      BY DEF Cmd_Vote_f
    <2> QED
      BY <1>1, <2>1, TeamsAsTheyAre
  <1>5. CASE AnswerApplication(c, yes)
    <2>1. Asked(left) /\ first.about \in Clients
      BY <1>2, <1>3, <1>4, <1>5 DEF AnswerApplication
    <2>2. Follows(fireTeams, G_AddClientToFireteam(fireTeams, team, first.about, c), team)
      BY <1>1, <2>1, AdditionFollows
    <2>3. /\ fireTeams' = IF yes THEN G_AddClientToFireteam(fireTeams, team, first.about, c)
                          ELSE fireTeams
          /\ offers' = left
      BY <1>5 DEF AnswerApplication
    <2> QED
      BY <1>1, <2>1, <2>2, <2>3
  <1>6. CASE AnswerInvitation(c, yes)
    <2>1. Asked(left)
      BY <1>3, <1>6 DEF AnswerInvitation
    <2>2. Follows(fireTeams, G_AddClientToFireteam(fireTeams, team, c, first.about), team)
      BY <1>1, AdditionFollows
    <2>3. /\ fireTeams' = IF yes THEN G_AddClientToFireteam(fireTeams, team, c, first.about)
                          ELSE fireTeams
          /\ offers' = left
      BY <1>6 DEF AnswerInvitation
    <2> QED
      BY <1>1, <2>1, <2>2, <2>3
  <1>7. CASE AnswerProposition(c, yes)
    <2>1. Asked(left) /\ first.about \in Clients
      BY <1>2, <1>3, <1>4, <1>7 DEF AnswerProposition
    <2>2. G_InviteToFireTeam(c, first.about, left) \/ (offers' = left /\ UNCHANGED fireTeams)
      BY <1>7 DEF AnswerProposition
    <2>3. CASE G_InviteToFireTeam(c, first.about, left)
      BY <1>1, <2>1, <2>3, Invited
    <2>4. CASE offers' = left /\ UNCHANGED fireTeams
      BY <1>1, <2>1, <2>4
    <2> QED
      BY <2>2, <2>3, <2>4
  <1>8. CASE AnswerPrivate(c, yes)
    <2> DEFINE f == Min(Led(fireTeams, c))
    <2>1. Asked(offers')
      BY <1>3, <1>8 DEF AnswerPrivate
    <2>2. \/ fireTeams' = fireTeams
          \/ Led(fireTeams, c) # {} /\ fireTeams' = [fireTeams EXCEPT ![f].priv = TRUE]
      BY <1>8 DEF AnswerPrivate
    <2>3. Led(fireTeams, c) # {} => f \in InUse(fireTeams)
      BY <1>1, LedOne
    <2> HIDE DEF f
    <2>4. ASSUME f \in InUse(fireTeams)
          PROVE  Follows(fireTeams, [fireTeams EXCEPT ![f].priv = TRUE], team)
      BY <1>1, <2>4, MadePrivate
    <2> QED
      BY <1>1, <2>1, <2>2, <2>3, <2>4
  <1>9. CASE AnswerCreate(c, yes)
    <2>1. Asked(left)
      BY <1>3, <1>9 DEF AnswerCreate
    <2>2. Asked(AskedForPrivacy(fireTeams, team, c, left))
      BY <2>1, AskedPrivacy
    <2>3. Follows(fireTeams, G_RegisterFireteam(fireTeams, team, c), team)
      BY <1>1, RegistrationFollows
    <2>4. /\ fireTeams' = IF yes THEN G_RegisterFireteam(fireTeams, team, c) ELSE fireTeams
          /\ offers' = IF yes THEN AskedForPrivacy(fireTeams, team, c, left) ELSE left
      BY <1>9 DEF AnswerCreate
    <2> QED
      BY <1>1, <2>1, <2>2, <2>3, <2>4
  <1>10. CASE AnswerJoin(c, yes)
    <2>1. \E l : fireTeams' = G_AddClientToFireteam(fireTeams, team, c, l)
      BY <1>10 DEF AnswerJoin
    <2>2. Follows(fireTeams, fireTeams', team)
      BY <1>1, <2>1, AdditionFollows
    <2> QED
      BY <1>1, <1>10, <2>2 DEF AnswerJoin
  <1> QED
    BY <1>5, <1>6, <1>7, <1>8, <1>9, <1>10 DEF Cmd_Vote_f

\* What becomes of a client that has come to a team.
LEMMA AutoJoined ==
    ASSUME NEW ft, Good(ft), NEW tm, NEW o, Asked(o), NEW c \in Clients, NEW t
    PROVE  LET r == AutoFireteam(ft, tm, o, c, t)
           IN  JoinedBy(ft, r.ft, c) /\ (Agrees(ft, tm) => Agrees(r.ft, tm)) /\ Asked(r.offers)
  <1> DEFINE r == AutoFireteam(ft, tm, o, c, t)
             Fine(x) == JoinedBy(ft, x, c) /\ (Agrees(ft, tm) => Agrees(x, tm))
             kind == IF FreePublic(ft, tm, t) # {} THEN "join" ELSE "create"
             l == Leader(ft[G_FindFreePublicFireteam(ft, tm, t)])
             added == G_AddClientToFireteam(ft, tm, c, l)
             registered == G_RegisterFireteam(ft, tm, c)
             asked == Ask(o, c, kind, None)
  <1>1. Fine(ft)
    BY DEF JoinedBy
  <1>2. Fine(added)
    BY Added
  <1>3. Fine(registered)
    BY Registered
  <1>4. Asked(asked)
    <2>1. kind \in Range(Kinds) /\ ~(kind \in AboutSomebody)
      BY KindsAre DEF AboutSomebody
    <2> HIDE DEF kind
    <2> QED
      BY <2>1, OneMoreAsked
  <1>5. \/ r = [ft |-> ft, offers |-> o] \/ r = [ft |-> ft, offers |-> asked]
        \/ r = [ft |-> added, offers |-> o] \/ r = [ft |-> registered, offers |-> o]
    BY DEF AutoFireteam
  <1> HIDE DEF r, added, registered, asked
  <1>6. (r.ft = ft \/ r.ft = added \/ r.ft = registered) /\ (r.offers = o \/ r.offers = asked)
    BY <1>5
  <1> QED
    BY <1>1, <1>2, <1>3, <1>4, <1>6 DEF r

LEMMA SetTeamKeeps ==
    ASSUME Inv, NEW c \in Clients, NEW t \in Sides \cup {"spectator"}, SetTeam(c, t)
    PROVE  Inv' /\ LedOn(fireTeams, fireTeams')
  <1> DEFINE now == [team EXCEPT ![c] = t]
             o   == {p \in offers : p.to # c \/ p.kind \notin {"create", "join"}}
             q   == LeavesFireteam(c)
             r   == AutoFireteam(q, now, o, c, t)
  <1>1. /\ Good(fireTeams) /\ Asked(offers) /\ conn \in [Clients -> States]
        /\ team \in [Clients -> Teams]
    BY DEF Inv, Typed
  <1>2. /\ team' = now /\ fireTeams' = r.ft /\ offers' = r.offers
        /\ UNCHANGED <<conn, odd, g_autoFireteams>>
    BY DEF SetTeam
  <1>3. now \in [Clients -> Teams] /\ \A d \in Clients \ {c} : now[d] = team[d]
    BY <1>1 DEF Teams
  <1>4. LeftBy(fireTeams, q, c)
    BY <1>1, Removed DEF LeavesFireteam
  <1>5. Asked(o)
    BY <1>1, FewerAsked
  <1> HIDE DEF now, o, q
  <1>6. /\ JoinedBy(q, r.ft, c) /\ (Agrees(q, now) => Agrees(r.ft, now)) /\ Asked(r.offers)
    <2>1. Good(q)
      BY <1>4 DEF LeftBy
    <2> QED
      BY <1>5, <2>1, AutoJoined
  <1> HIDE DEF r
  <1>7. Good(r.ft) /\ LedOn(fireTeams, r.ft)
    BY <1>4, <1>6, LeftAndJoinedFollows
  <1>8. Agrees(fireTeams, team) => Agrees(r.ft, now)
    BY <1>1, <1>3, <1>4, <1>6, RemovedAgrees
  <1>9. Typed'
    BY <1>1, <1>2, <1>3, <1>6 DEF Typed, Inv
  <1>10. odd' \/ Agrees(fireTeams', team')
    <2>1. odd \/ Agrees(r.ft, now)
      BY <1>8 DEF Inv
    <2> QED
      BY <1>2, <2>1
  <1> QED
    BY <1>2, <1>7, <1>9, <1>10 DEF Inv

LEMMA OtherTeams ==
    ASSUME NEW tm \in [Clients -> Teams]
    PROVE  [c \in Clients |-> Other(tm[c])] \in [Clients -> Teams]
  <1>1. \A t \in Teams : Other(t) \in Teams
    BY DEF Teams, Sides, Other
  <1> QED
    BY <1>1

LEMMA SwapKeeps ==
    ASSUME Inv, G_swapTeams
    PROVE  Inv' /\ LedOn(fireTeams, fireTeams')
  <1>1. /\ Good(fireTeams) /\ Asked(offers) /\ conn \in [Clients -> States]
        /\ team \in [Clients -> Teams]
    BY DEF Inv, Typed
  <1>2. /\ team' = [c \in Clients |-> Other(team[c])]
        /\ UNCHANGED <<fireTeams, offers, odd, g_autoFireteams>>
    BY DEF G_swapTeams
  <1>3. conn' \in [Clients -> States]
    BY <1>1 DEF G_swapTeams, BeginAll, States
  <1>4. team' \in [Clients -> Teams] /\ \A c \in Clients : team'[c] = Other(team[c])
    BY <1>1, <1>2, OtherTeams
  <1>5. Typed'
    BY <1>1, <1>2, <1>3, <1>4 DEF Typed, Inv
  <1>6. Agrees(fireTeams, team) => Agrees(fireTeams, team')
    BY <1>1, <1>4, SwappedAgrees
  <1>7. odd \/ Agrees(fireTeams, team')
    BY <1>6 DEF Inv
  <1>8. odd' \/ Agrees(fireTeams', team')
    BY <1>2, <1>7
  <1> QED
    BY <1>1, <1>2, <1>5, <1>8 DEF Inv, LedOn

LEMMA ShuffleKeeps ==
    ASSUME Inv, G_shuffleTeams
    PROVE  Inv' /\ LedOn(fireTeams, fireTeams')
  <1>1. /\ Good(fireTeams) /\ Asked(offers) /\ conn \in [Clients -> States]
        /\ team \in [Clients -> Teams]
    BY DEF Inv, Typed
  <1>2. OnTeams \in SUBSET Clients
    BY DEF OnTeams
  <1>3. PICK order \in Orders[OnTeams] :
            LET place(c) == SelectInSeq(order, LAMBDA d : d = c) - 1
                to == [c \in Clients |-> IF c \notin OnTeams THEN team[c]
                                         ELSE IF place(c) % 4 \in {0, 3} THEN "axis" ELSE "allies"]
            IN  /\ team' = to /\ fireTeams' = Shuffled(order, to) /\ BeginAll(OnTeams)
                /\ UNCHANGED <<offers, odd, g_autoFireteams>>
    BY DEF G_shuffleTeams
  <1> DEFINE place(c) == SelectInSeq(order, LAMBDA d : d = c) - 1
             to == [c \in Clients |-> IF c \notin OnTeams THEN team[c]
                                      ELSE IF place(c) % 4 \in {0, 3} THEN "axis" ELSE "allies"]
             r == Shuffled(order, to)
  <1>4. /\ team' = to /\ fireTeams' = r /\ BeginAll(OnTeams)
        /\ UNCHANGED <<offers, odd, g_autoFireteams>>
    BY <1>3
  <1> HIDE DEF place
  <1>5. to \in [Clients -> Teams] /\ \A c \in Clients \ OnTeams : to[c] = team[c]
    BY <1>1 DEF Teams, Sides
  <1> HIDE DEF to
  <1>6. order \in SetToSeqs(OnTeams)
    BY <1>2 DEF Orders
  <1>7. /\ order \in Seq(Clients)
        /\ \A c \in OnTeams : \E j \in 1..Len(order) : order[j] = c
    BY <1>2, <1>6, OrderOfAll
  <1>8. /\ Shrunk(fireTeams, r)
        /\ \A j \in 1..Len(order) :
             to[order[j]] # team[order[j]] => \A f \in Fireteams : order[j] \notin Members(r[f])
    BY <1>1, <1>7, ShuffledOff
  <1> HIDE DEF r
  <1>9. Good(r) /\ LedOn(fireTeams, r)
    BY <1>8 DEF Shrunk, LedOn
  <1>10. \A f \in Fireteams : \A d \in Members(r[f]) : to[d] = team[d]
    <2> SUFFICES ASSUME NEW f \in Fireteams, NEW d \in Members(r[f]), to[d] # team[d]
                 PROVE  FALSE
      OBVIOUS
    <2>1. d \in OnTeams
      BY <1>5, <1>9, Fireteam
    <2> QED
      BY <1>7, <1>8, <2>1
  <1>11. ASSUME Agrees(fireTeams, team)
         PROVE  Agrees(r, to)
    <2>1. Agrees(r, team)
      BY <1>1, <1>8, <1>9, <1>11, SmallerAgrees DEF Shrunk, InUse
    <2> QED
      BY <1>9, <1>10, <2>1, AgreesElsewhere
  <1>12. conn' \in [Clients -> States]
    BY <1>1, <1>4 DEF BeginAll, States
  <1>13. Typed'
    BY <1>1, <1>4, <1>5, <1>12 DEF Typed, Inv
  <1>14. odd \/ Agrees(r, to)
    BY <1>11 DEF Inv
  <1>15. odd' \/ Agrees(fireTeams', team')
    BY <1>4, <1>14
  <1> QED
    BY <1>4, <1>9, <1>13, <1>15 DEF Inv

LEMMA DisconnectKeeps ==
    ASSUME Inv, NEW c \in Clients, ClientDisconnect(c)
    PROVE  Inv' /\ LedOn(fireTeams, fireTeams')
  <1> DEFINE q == LeavesFireteam(c)
  <1>1. /\ Good(fireTeams) /\ Asked(offers) /\ conn \in [Clients -> States]
        /\ team \in [Clients -> Teams]
    BY DEF Inv, Typed
  <1>2. /\ team' = [team EXCEPT ![c] = "free"] /\ fireTeams' = q
        /\ offers' = Forgotten(c) /\ UNCHANGED <<odd, g_autoFireteams>>
        /\ conn' = [conn EXCEPT ![c] = "disconnected"]
    BY DEF ClientDisconnect
  <1>3. LeftBy(fireTeams, q, c)
    BY <1>1, Removed DEF LeavesFireteam
  <1> HIDE DEF q
  <1>4. Good(q) /\ LedOn(fireTeams, q)
    BY <1>3, LeftFollows
  <1>5. \A d \in Clients \ {c} : team'[d] = team[d]
    BY <1>1, <1>2
  <1>6. Agrees(fireTeams, team) => Agrees(q, team')
    BY <1>1, <1>3, <1>5, RemovedAgrees
  <1>7. Typed'
    <2>1. conn' \in [Clients -> States] /\ team' \in [Clients -> Teams]
      BY <1>1, <1>2 DEF States, Teams
    <2>2. Asked(offers')
      BY <1>1, <1>2, FewerAsked DEF Forgotten
    <2> QED
      BY <1>2, <2>1, <2>2 DEF Typed, Inv
  <1>8. odd' \/ Agrees(fireTeams', team')
    BY <1>2, <1>6 DEF Inv
  <1> QED
    BY <1>2, <1>4, <1>7, <1>8 DEF Inv

\* A client that comes is on no fireteam, or the state is odd.
LEMMA ConnectKeeps ==
    ASSUME Inv, NEW c \in Clients, ClientConnect(c)
    PROVE  Inv' /\ LedOn(fireTeams, fireTeams')
  <1> DEFINE q == fireTeams'
  <1>1. /\ Good(fireTeams) /\ Asked(offers) /\ conn \in [Clients -> States]
        /\ team \in [Clients -> Teams]
    BY DEF Inv, Typed
  <1>2. /\ conn' = [conn EXCEPT ![c] = "connecting"]
        /\ team' = [team EXCEPT ![c] = "spectator"]
        /\ odd' = (odd \/ On(q, c) # {}) /\ UNCHANGED g_autoFireteams
        /\ q = IF conn[c] = "connected" THEN LeavesFireteam(c) ELSE fireTeams
    BY DEF ClientConnect
  <1>3. Follows(fireTeams, q, team)
    <2>1. Follows(fireTeams, LeavesFireteam(c), team)
      BY <1>1, RemovalFollows DEF LeavesFireteam
    <2> QED
      BY <1>1, <1>2, <2>1, NothingFollows
  <1>4. Typed'
    <2>1. conn' \in [Clients -> States] /\ team' \in [Clients -> Teams]
      BY <1>1, <1>2 DEF States, Teams
    <2>2. Asked(offers')
      <3>1. Asked(Forgotten(c))
        BY <1>1, FewerAsked DEF Forgotten
      <3>2. \A o \in Offers : /\ [o EXCEPT !.same = FALSE] \in Offers
                              /\ [o EXCEPT !.same = FALSE].kind = o.kind
                              /\ [o EXCEPT !.same = FALSE].about = o.about
        BY DEF Offers
      <3>3. \A x \in offers' : \E o \in Forgotten(c) : x = o \/ x = [o EXCEPT !.same = FALSE]
        BY DEF ClientConnect
      <3> QED
        BY <3>1, <3>2, <3>3 DEF Asked
    <2>3. odd' \in BOOLEAN
      BY <1>2 DEF Inv, Typed
    <2> QED
      BY <1>2, <2>1, <2>2, <2>3 DEF Typed, Inv
  <1> HIDE DEF q
  <1>5. Good(q) /\ LedOn(fireTeams, q)
    BY <1>3 DEF Follows
  <1>6. odd' \/ Agrees(q, team')
    <2> SUFFICES ASSUME ~odd, On(q, c) = {} PROVE Agrees(q, team')
      BY <1>2
    <2>1. Agrees(q, team)
      BY <1>3 DEF Inv, Follows
    <2>2. \A f \in Fireteams : \A d \in Members(q[f]) : d # c /\ d \in Clients
      BY <1>5, OnOne, Fireteam
    <2>3. \A f \in Fireteams : \A d \in Members(q[f]) : team'[d] = team[d]
      BY <1>1, <1>2, <2>2
    <2> QED
      BY <1>5, <2>1, <2>3, AgreesElsewhere
  <1> QED
    BY <1>4, <1>5, <1>6 DEF Inv, q

LEMMA BeginKeeps ==
    ASSUME Inv, NEW c \in Clients, ClientBegin(c)
    PROVE  Inv' /\ LedOn(fireTeams, fireTeams')
  <1>1. /\ Good(fireTeams) /\ Asked(offers) /\ conn \in [Clients -> States]
        /\ Follows(fireTeams, fireTeams, team)
    BY NothingFollows DEF Inv, Typed
  <1>2. conn' \in [Clients -> States]
    BY <1>1 DEF ClientBegin, BeginAll, States
  <1>3. Asked(offers') /\ Follows(fireTeams, fireTeams', team)
        /\ UNCHANGED <<team, odd, g_autoFireteams>>
    BY <1>1 DEF ClientBegin
  <1> QED
    BY <1>2, <1>3, TeamsAsTheyAre

LEMMA NothingAsked == Asked({})
  BY DEF Asked

\* Another level, with the teams swapped or not.
LEMMA LevelKeeps ==
    ASSUME Inv, NEW swapteams \in BOOLEAN, G_InitGame(swapteams)
    PROVE  Inv' /\ LedOn(fireTeams, fireTeams')
  <1>1. /\ Good(fireTeams) /\ conn \in [Clients -> States] /\ team \in [Clients -> Teams]
    BY DEF Inv, Typed
  <1>2. /\ conn' = [c \in Clients |-> IF Here(c) THEN "connecting" ELSE conn[c]]
        /\ team' = IF swapteams THEN [c \in Clients |-> Other(team[c])] ELSE team
        /\ offers' = {} /\ UNCHANGED <<fireTeams, odd, g_autoFireteams>>
    BY DEF G_InitGame
  <1>3. /\ team' \in [Clients -> Teams]
        /\ team' = team \/ \A c \in Clients : team'[c] = Other(team[c])
    BY <1>1, <1>2, OtherTeams
  <1>4. Agrees(fireTeams, team) => Agrees(fireTeams, team')
    BY <1>1, <1>3, SwappedAgrees
  <1>5. Typed'
    <2>1. conn' \in [Clients -> States]
      BY <1>1, <1>2 DEF States
    <2> QED
      BY <1>2, <1>3, <2>1, NothingAsked DEF Typed, Inv
  <1>6. odd \/ Agrees(fireTeams, team')
    BY <1>4 DEF Inv
  <1>7. odd' \/ Agrees(fireTeams', team')
    BY <1>2, <1>6
  <1> QED
    BY <1>1, <1>2, <1>5, <1>7 DEF Inv, LedOn

\* A server that starts without fireteams starts well; with any, the state is odd.
LEMMA KillKeeps ==
    ASSUME Inv, KillServer
    PROVE  Inv' /\ LedOn(fireTeams, fireTeams')
  <1>1. Good(fireTeams)
    BY DEF Inv
  <1>2. /\ conn' = [c \in Clients |-> "disconnected"] /\ team' = [c \in Clients |-> "free"]
        /\ odd' = (odd \/ InUse(fireTeams) # {}) /\ offers' = {}
        /\ UNCHANGED <<fireTeams, g_autoFireteams>>
    BY DEF KillServer
  <1>3. Typed'
    <2>1. conn' \in [Clients -> States] /\ team' \in [Clients -> Teams]
      BY <1>2 DEF States, Teams
    <2>2. odd' \in BOOLEAN
      BY <1>2 DEF Inv, Typed
    <2> QED
      BY <1>2, <2>1, <2>2, NothingAsked DEF Typed, Inv
  <1>4. odd' \/ Agrees(fireTeams, team')
    BY <1>2 DEF Agrees
  <1>5. odd' \/ Agrees(fireTeams', team')
    BY <1>2, <1>4
  <1> QED
    BY <1>1, <1>2, <1>3, <1>5 DEF Inv, LedOn

-----------------------------------------------------------------------------
(* Theorems                                                                *)

LEMMA Initially == Init => Inv
  <1> SUFFICES ASSUME Init PROVE Inv
    OBVIOUS
  <1>1. fireTeams = [f \in Fireteams |-> Unused]
    BY DEF Init
  <1>2. \A f \in Fireteams : /\ fireTeams[f] \in Records /\ fireTeams[f].joinOrder = <<>>
                             /\ Members(fireTeams[f]) = {}
    BY <1>1, UnusedIsEmpty
  <1>3. Good(fireTeams)
    BY <1>1, <1>2 DEF Good, Lists, Records
  <1>4. InUse(fireTeams) = {}
    BY <1>2 DEF InUse
  <1>5. Agrees(fireTeams, team)
    BY <1>4 DEF Agrees
  <1>6. Typed
    BY NothingAsked DEF Init, Typed, States, Teams
  <1> QED
    BY <1>3, <1>5, <1>6 DEF Inv

LEMMA StepKeeps ==
    ASSUME Inv, Step
    PROVE  Inv' /\ LedOn(fireTeams, fireTeams')
  <1>1. ASSUME NEW c \in Clients, Create(c) \/ G_DestroyFireteam(c) \/ Leave(c) \/ Privacy(c)
        PROVE  Inv' /\ LedOn(fireTeams, fireTeams')
    BY <1>1, CommandKeeps
  <1>2. ASSUME NEW c \in Clients,
               \/ \E f \in Fireteams : G_ApplyToFireTeam(c, f)
               \/ \E other \in Clients : \/ Invite(c, other) \/ G_ProposeFireTeamPlayer(c, other)
                                         \/ G_KickFireTeamPlayer(c, other)
                                         \/ G_GiveAdminOfFireTeam(c, other)
        PROVE  Inv' /\ LedOn(fireTeams, fireTeams')
    BY <1>2, RequestKeeps
  <1>3. ASSUME NEW c \in Clients \ Bots, NEW yes \in BOOLEAN, Cmd_Vote_f(c, yes)
        PROVE  Inv' /\ LedOn(fireTeams, fireTeams')
    BY <1>3, AnswerKeeps
  <1>4. ASSUME NEW o \in offers, Expire(o)
        PROVE  Inv' /\ LedOn(fireTeams, fireTeams')
    <2>1. Asked(offers) /\ Follows(fireTeams, fireTeams, team) /\ conn \in [Clients -> States]
      BY NothingFollows DEF Inv, Typed
    <2>2. Asked(offers \ {o})
      BY <2>1, FewerAsked
    <2> QED
      BY <1>4, <2>1, <2>2, TeamsAsTheyAre DEF Expire
  <1>5. ASSUME NEW c \in Clients, NEW t \in Sides \cup {"spectator"}, SetTeam(c, t)
        PROVE  Inv' /\ LedOn(fireTeams, fireTeams')
    BY <1>5, SetTeamKeeps
  <1>6. CASE G_swapTeams \/ G_shuffleTeams
    BY <1>6, SwapKeeps, ShuffleKeeps
  <1>7. ASSUME NEW c \in Clients, ClientDisconnect(c) \/ ClientConnect(c) \/ ClientBegin(c)
        PROVE  Inv' /\ LedOn(fireTeams, fireTeams')
    BY <1>7, DisconnectKeeps, ConnectKeeps, BeginKeeps
  <1>8. ASSUME NEW swapteams \in BOOLEAN, G_InitGame(swapteams)
        PROVE  Inv' /\ LedOn(fireTeams, fireTeams')
    BY <1>8, LevelKeeps
  <1>9. CASE KillServer
    BY <1>9, KillKeeps
  <1> QED
    BY <1>1, <1>2, <1>3, <1>4, <1>5, <1>6, <1>7, <1>8, <1>9 DEF Step

LEMMA NextKeeps == Inv /\ [Next]_vars => Inv' /\ LedOn(fireTeams, fireTeams')
  <1> SUFFICES ASSUME Inv, [Next]_vars PROVE Inv' /\ LedOn(fireTeams, fireTeams')
    OBVIOUS
  <1>1. CASE Next
    BY <1>1, StepKeeps DEF Next
  <1>2. CASE UNCHANGED vars
    BY <1>2 DEF vars, Inv, Typed, LedOn
  <1> QED
    BY <1>1, <1>2

\* The invariant holds, whatever the players do and the levels.
THEOREM InductiveInvariant == Spec => []Inv
  <1>1. Inv /\ [Next]_vars => Inv'
    BY NextKeeps
  <1> QED
    BY Initially, <1>1, PTL DEF Spec

\* The variables have their types: G_AddClientToFireteam lets no more members in than a
\* fireteam may have, and G_FindFreeFireteamIdent has a name for each that is founded.
THEOREM TypeCorrect == Spec => []TypeOK
  <1>1. Inv => TypeOK
    <2> SUFFICES ASSUME Inv PROVE TypeOK
      OBVIOUS
    <2>1. ASSUME NEW f \in Fireteams
          PROVE  /\ fireTeams[f].joinOrder \in Seq(Clients) /\ fireTeams[f].priv \in BOOLEAN
                 /\ fireTeams[f].ident \in 0..MAX_FIRETEAMS \div 2
                 /\ Len(fireTeams[f].joinOrder) <= MAX_FIRETEAM_MEMBERS
      BY Fireteam, Joined DEF Inv
    <2> QED
      BY <2>1 DEF Inv, Typed, TypeOK, Asked, Offers, States, Teams
  <1> QED
    BY InductiveInvariant, <1>1, PTL

\* No client is ever on two fireteams, or twice on one, whoever accepts whatever offer when
\* (G_AddClientToFireteam, G_RegisterFireteam).
THEOREM NobodyTwice == Spec => []OneFireteam
  <1>1. Inv => OneFireteam
    <2> SUFFICES ASSUME Inv, NEW c \in Clients
                 PROVE  /\ Cardinality(On(fireTeams, c)) <= 1
                        /\ \A f \in On(fireTeams, c) :
                              Cardinality({i \in DOMAIN fireTeams[f].joinOrder :
                                              fireTeams[f].joinOrder[i] = c}) = 1
      BY DEF OneFireteam
    <2>1. Good(fireTeams)
      BY DEF Inv
    <2>2. Cardinality(On(fireTeams, c)) <= 1
      <3>1. CASE On(fireTeams, c) = {}
        BY <3>1, FS_EmptySet
      <3>2. CASE On(fireTeams, c) # {}
        <4>1. PICK f : On(fireTeams, c) = {f}
          BY <2>1, <3>2, OnOne
        <4>2. Cardinality({f}) = 1
          BY FS_Singleton
        <4> QED
          BY <4>1, <4>2
      <3> QED
        BY <3>1, <3>2
    <2>3. ASSUME NEW f \in On(fireTeams, c)
          PROVE  Cardinality({i \in DOMAIN fireTeams[f].joinOrder :
                                 fireTeams[f].joinOrder[i] = c}) = 1
      <3> DEFINE s == fireTeams[f].joinOrder
                 I == {i \in DOMAIN s : s[i] = c}
      <3>1. f \in Fireteams /\ c \in Range(s)
        BY <2>1, OnOne DEF Members
      <3>2. s \in JoinOrders
        BY <2>1, <3>1, Fireteam
      <3> HIDE DEF s
      <3>3. \A i, j \in I : i = j
        BY <3>2, Joined
      <3>4. I # {}
        BY <3>1 DEF Range
      <3>5. \E i : I = {i}
        BY <3>3, <3>4
      <3>6. Cardinality(I) = 1
        BY <3>5, FS_Singleton
      <3> QED
        BY <3>6 DEF s
    <2> QED
      BY <2>2, <2>3
  <1> QED
    BY InductiveInvariant, <1>1, PTL

\* The members of a fireteam are of one team, and no other fireteam of the team has its
\* name, as long as no fireteam was kept for members that did not come back (SetTeam,
\* G_swapTeams, G_shuffleTeamsXP, G_InitWorldSession).
THEOREM OneTeam == Spec => []OneTeamUnlessOdd
  <1>1. Inv => OneTeamUnlessOdd
    BY DEF Inv, Agrees, OfOneTeam, OneTeamUnlessOdd
  <1> QED
    BY InductiveInvariant, <1>1, PTL

\* No bot inherits a fireteam (G_RemoveClientFromFireteams looks for a human or disbands it),
\* and to none is it handed on (G_GiveAdminOfFireTeam).
THEOREM BotsDoNotInherit == Spec => HumansLead
  <1> DEFINE Led2 == \A f \in InUse(fireTeams) :
                        f \in InUse(fireTeams)' /\ Leader(fireTeams[f])' # Leader(fireTeams[f])
                           => Leader(fireTeams[f])' \notin Bots
  <1>1. Inv /\ [Next]_vars => [Led2]_vars
    <2> SUFFICES ASSUME Inv, [Next]_vars PROVE Led2
      OBVIOUS
    <2>1. LedOn(fireTeams, fireTeams')
      BY NextKeeps
    <2> QED
      BY <2>1 DEF LedOn, InUse
  <1>2. Spec => []Inv /\ [][Next]_vars
    BY InductiveInvariant, PTL DEF Spec
  <1> QED
    BY <1>1, <1>2, PTL DEF HumansLead

=============================================================================
