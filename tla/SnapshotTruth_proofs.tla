------------------------ MODULE SnapshotTruth_proofs ------------------------
(***************************************************************************)
(* Theorems about Snapshot, for rings of every size and any entities: the  *)
(* types, and that the client game is given what the server built.  They   *)
(* rest on Inv of Snapshot_proofs.                                         *)
(***************************************************************************)
EXTENDS Snapshot_proofs, FiniteSetTheorems, WellFoundedInduction

-----------------------------------------------------------------------------
(* Numbers                                                                 *)

\* Numbers less than a ring apart have slots apart, in any ring.
LEMMA Apart ==
    ASSUME NEW k \in Nat \ {0}, NEW a \in Int, NEW b \in Int, a < b, b - a < k
    PROVE  a % k # b % k
  <1> DEFINE p == a \div k
             q == b \div k
  <1>1. /\ a = k * p + (a % k) /\ b = k * q + (b % k)
        /\ p \in Int /\ q \in Int
    OBVIOUS
  <1>2. SUFFICES ASSUME a % k = b % k PROVE FALSE
    OBVIOUS
  <1>3. b - a = k * (q - p)
    BY <1>1, <1>2
  <1>4. k * (q - p) <= 0 \/ k * (q - p) >= k
    BY <1>1, Multiples
  <1> QED
    BY <1>3, <1>4

LEMMA ParseSlotsApart ==
    ASSUME NEW a \in Int, NEW b \in Int, a < b, b - a < MAX_PARSE_ENTITIES
    PROVE  ParseSlot(a) # ParseSlot(b)
  BY Apart, RingAssumption DEF ParseSlot

LEMMA EntitySlotsApart ==
    ASSUME NEW a \in Int, NEW b \in Int, a < b, b - a < NumSnapshotEntities
    PROVE  EntitySlot(a) # EntitySlot(b)
  BY Apart, RingAssumption DEF EntitySlot

LEMMA SlotTypes ==
    ASSUME NEW n \in Int
    PROVE  /\ ParseSlot(n) \in 0..(MAX_PARSE_ENTITIES - 1)
           /\ EntitySlot(n) \in 0..(NumSnapshotEntities - 1)
  BY RingAssumption DEF ParseSlot, EntitySlot

\* A set of natural numbers with something in it has a least one.
LEMMA Smallest ==
    ASSUME NEW T, T \subseteq Nat, T # {}
    PROVE  \E n \in T : \A m \in T : n <= m
  <1>1. IsWellFoundedOn(OpToRel(<, Nat), Nat)
    BY NatLessThanWellFounded
  <1>2. PICK x \in T : \A y \in T : ~(<<y, x>> \in OpToRel(<, Nat))
    BY <1>1, WFMin
  <1>3. \A y \in T : ~(y < x)
    BY <1>2 DEF OpToRel
  <1> QED
    BY <1>3

\* Induction up to a number, over the set of the numbers a fact holds for.
LEMMA Upwards ==
    ASSUME NEW n \in Nat, NEW T, 0 \in T, \A i \in 1..n : i - 1 \in T => i \in T
    PROVE  \A i \in 0..n : i \in T
  <1> DEFINE U == {i \in 0..n : i \notin T}
  <1> SUFFICES ASSUME U # {} PROVE FALSE
    OBVIOUS
  <1>1. PICK x \in U : \A y \in U : x <= y
    <2>1. U \subseteq Nat
      OBVIOUS
    <2> HIDE DEF U
    <2> QED
      BY <2>1, Smallest
  <1>2. x # 0 /\ x \in 1..n /\ x - 1 \in 0..n
    OBVIOUS
  <1>3. x - 1 \notin U
    BY <1>1, <1>2
  <1> QED
    BY <1>2, <1>3

\* The image of a finite set under a function.
LEMMA FiniteImage ==
    ASSUME NEW S, IsFiniteSet(S), NEW f, f = [x \in S |-> f[x]]
    PROVE  IsFiniteSet({f[x] : x \in S})
  <1> DEFINE T == {f[x] : x \in S}
  <1>1. f \in Surjection(S, T)
    BY DEF Surjection
  <1> QED
    BY <1>1, FS_Surjection

-----------------------------------------------------------------------------
(* Differences                                                             *)

Change == [number : Nat, from : Int, to : Int]

\* A set of entities with a number each.
IsScene(E) ==
    /\ IsFiniteSet(E)
    /\ \A e \in E : e \in Entity /\ e.number < End /\ e.value \in Nat
    /\ \A e, f \in E : e.number = f.number => e = f

\* The value an entity of a scene has there.
LEMMA ValueIs ==
    ASSUME NEW E, IsScene(E), NEW n
    PROVE  /\ ValueIn(E, n) \in Nat
           /\ \A e \in E : e.number = n => ValueIn(E, n) = e.value
           /\ (\A e \in E : e.number # n) => ValueIn(E, n) = Baseline
  <1>1. CASE \E o \in E : o.number = n
    <2> DEFINE o == CHOOSE o \in E : o.number = n
    <2>1. o \in E /\ o.number = n
      BY <1>1
    <2>2. ValueIn(E, n) = o.value
      BY <1>1 DEF ValueIn
    <2> HIDE DEF o
    <2> QED
      BY <1>1, <2>1, <2>2 DEF IsScene
  <1>2. CASE ~\E o \in E : o.number = n
    BY <1>2 DEF ValueIn, Baseline
  <1> QED
    BY <1>1, <1>2

\* The two parts of a difference.
Changed(B, T) ==
    {[number |-> e.number, from |-> ValueIn(B, e.number), to |-> e.value] : e \in T \ B}

Removed(B, T) ==
    {[number |-> o.number, from |-> o.value, to |-> Gone] :
        o \in {e \in B : \A n \in T : n.number # e.number}}

LEMMA EmitParts ==
    ASSUME NEW B, NEW T
    PROVE  EmitPacketEntities(B, T) = Changed(B, T) \cup Removed(B, T)
  BY DEF EmitPacketEntities, Changed, Removed

\* A change of either kind.
LEMMA EmitKinds ==
    ASSUME NEW B, IsScene(B), NEW T, IsScene(T), NEW c \in EmitPacketEntities(B, T)
    PROVE  /\ c \in Change /\ c.number < End
           /\ \/ \E e \in T \ B : /\ c.number = e.number /\ c.to = e.value /\ c.to # Gone
                                  /\ c.from = ValueIn(B, e.number)
              \/ \E o \in B : /\ c.number = o.number /\ c.to = Gone /\ c.from = o.value
                              /\ \A t \in T : t.number # o.number
  <1>1. CASE c \in Changed(B, T)
    <2>1. PICK e \in T \ B :
            c = [number |-> e.number, from |-> ValueIn(B, e.number), to |-> e.value]
      BY <1>1 DEF Changed
    <2>2. e \in Entity /\ e.number < End /\ e.value \in Nat
      BY DEF IsScene
    <2>3. ValueIn(B, e.number) \in Nat
      BY ValueIs
    <2>4. e.number \in Nat
      BY <2>2 DEF Entity
    <2>5. c \in Change /\ c.number = e.number /\ c.from = ValueIn(B, e.number) /\ c.to = e.value
      BY <2>1, <2>2, <2>3, <2>4 DEF Change
    <2> QED
      BY <2>2, <2>5 DEF Gone
  <1>2. CASE c \in Removed(B, T)
    <2>1. PICK o \in B : /\ \A n \in T : n.number # o.number
                         /\ c = [number |-> o.number, from |-> o.value, to |-> Gone]
      BY <1>2 DEF Removed
    <2>2. o \in Entity /\ o.number < End /\ o.value \in Nat
      BY DEF IsScene
    <2>3. o.number \in Nat
      BY <2>2 DEF Entity
    <2>4. c \in Change /\ c.number = o.number /\ c.from = o.value /\ c.to = Gone
      BY <2>1, <2>2, <2>3 DEF Change, Gone
    <2> QED
      BY <2>1, <2>2, <2>4
  <1> QED
    BY <1>1, <1>2, EmitParts

\* A number has one change at most, and one if there is something to say.
LEMMA EmitOnce ==
    ASSUME NEW B, IsScene(B), NEW T, IsScene(T)
    PROVE  /\ \A c, d \in EmitPacketEntities(B, T) : c.number = d.number => c = d
           /\ \A t \in T : t \notin B =>
                \E c \in EmitPacketEntities(B, T) : c.number = t.number
           /\ \A b \in B : (\A t \in T : t.number # b.number) =>
                \E c \in EmitPacketEntities(B, T) : c.number = b.number
  <1>1. ASSUME NEW c \in EmitPacketEntities(B, T), NEW d \in EmitPacketEntities(B, T),
               c.number = d.number
        PROVE  c = d
    <2>1. CASE \E e \in T \ B : /\ c.number = e.number /\ c.to = e.value /\ c.to # Gone
                                /\ c.from = ValueIn(B, e.number)
      <3>1. PICK e \in T \ B : /\ c.number = e.number /\ c.to = e.value
                               /\ c.from = ValueIn(B, e.number)
        BY <2>1
      <3>2. PICK f \in T \ B : /\ d.number = f.number /\ d.to = f.value
                               /\ d.from = ValueIn(B, f.number)
        <4>1. ~\E p \in B : d.number = p.number /\ \A t \in T : t.number # p.number
          BY <1>1, <3>1
        <4> QED
          BY <4>1, EmitKinds
      <3>3. e = f
        BY <1>1, <3>1, <3>2 DEF IsScene
      <3> QED
        BY <3>1, <3>2, <3>3, EmitKinds DEF Change
    <2>2. CASE \E o \in B : /\ c.number = o.number /\ c.to = Gone /\ c.from = o.value
                            /\ \A t \in T : t.number # o.number
      <3>1. PICK o \in B : /\ c.number = o.number /\ c.to = Gone /\ c.from = o.value
                           /\ \A t \in T : t.number # o.number
        BY <2>2
      <3>2. PICK p \in B : d.number = p.number /\ d.to = Gone /\ d.from = p.value
        <4>1. ~\E f \in T \ B : d.number = f.number
          BY <1>1, <3>1
        <4> QED
          BY <4>1, EmitKinds
      <3>3. o = p
        BY <1>1, <3>1, <3>2 DEF IsScene
      <3> QED
        BY <3>1, <3>2, <3>3, EmitKinds DEF Change
    <2> QED
      BY <2>1, <2>2, EmitKinds
  <1>2. ASSUME NEW t \in T, t \notin B
        PROVE  \E c \in EmitPacketEntities(B, T) : c.number = t.number
    <2> DEFINE c == [number |-> t.number, from |-> ValueIn(B, t.number), to |-> t.value]
    <2>1. c \in Changed(B, T) /\ c.number = t.number
      BY <1>2 DEF Changed
    <2> QED
      BY <2>1, EmitParts
  <1>3. ASSUME NEW b \in B, \A t \in T : t.number # b.number
        PROVE  \E c \in EmitPacketEntities(B, T) : c.number = b.number
    <2> DEFINE c == [number |-> b.number, from |-> b.value, to |-> Gone]
    <2>1. c \in Removed(B, T) /\ c.number = b.number
      BY <1>3 DEF Removed
    <2> QED
      BY <2>1, EmitParts
  <1> QED
    BY <1>1, <1>2, <1>3

LEMMA EmitFinite ==
    ASSUME NEW B, IsScene(B), NEW T, IsScene(T)
    PROVE  IsFiniteSet(EmitPacketEntities(B, T))
  <1>1. IsFiniteSet(Changed(B, T))
    <2> DEFINE S == T \ B
               f == [e \in S |-> [number |-> e.number, from |-> ValueIn(B, e.number),
                                  to |-> e.value]]
    <2>1. IsFiniteSet(S)
      BY FS_Difference DEF IsScene
    <2>2. Changed(B, T) = {f[x] : x \in S}
      BY DEF Changed
    <2>3. f = [x \in S |-> f[x]]
      OBVIOUS
    <2> HIDE DEF S, f
    <2> QED
      BY <2>1, <2>2, <2>3, FiniteImage
  <1>2. IsFiniteSet(Removed(B, T))
    <2> DEFINE S == {e \in B : \A n \in T : n.number # e.number}
               f == [o \in S |-> [number |-> o.number, from |-> o.value, to |-> Gone]]
    <2>1. IsFiniteSet(S)
      <3>1. S \in SUBSET B
        OBVIOUS
      <3> QED
        BY <3>1, FS_Subset DEF IsScene
    <2>2. Removed(B, T) = {f[x] : x \in S}
      BY DEF Removed
    <2>3. f = [x \in S |-> f[x]]
      OBVIOUS
    <2> HIDE DEF S, f
    <2> QED
      BY <2>1, <2>2, <2>3, FiniteImage
  <1> QED
    BY <1>1, <1>2, EmitParts, FS_Union

\* What the client reads next.
LEMMA NextChangeIs ==
    ASSUME NEW changes, \A c \in changes : c \in Change
    PROVE  /\ NextChange(changes) \in Change
           /\ changes = {} => NextChange(changes).number = End
           /\ changes # {} => /\ NextChange(changes) \in changes
                              /\ \A d \in changes : NextChange(changes).number <= d.number
  <1>1. CASE changes = {}
    BY <1>1 DEF NextChange, Change, End, Baseline, Gone
  <1>2. CASE changes # {}
    <2> DEFINE N == {c.number : c \in changes}
    <2>1. N \subseteq Nat /\ N # {}
      BY <1>2 DEF Change
    <2>2. PICK n \in N : \A m \in N : n <= m
      BY <2>1, Smallest
    <2>3. \E c \in changes : \A d \in changes : c.number <= d.number
      BY <2>2
    <2>4. NextChange(changes) = CHOOSE c \in changes : \A d \in changes : c.number <= d.number
      BY <1>2 DEF NextChange
    <2> QED
      BY <1>2, <2>3, <2>4
  <1> QED
    BY <1>1, <1>2

-----------------------------------------------------------------------------
(* Reading a difference, one round at a time                               *)

\* The state of CL_ParsePacketEntities.
Walk == [ring : [0..(MAX_PARSE_ENTITIES - 1) -> Entity], next : Nat,
         changes : SUBSET Change, oldindex : Int, oldnum : Nat]

HasEntities(old) == old.parseEntitiesNum \in Nat /\ old.numEntities \in Nat

\* The slot that was written.
Written(r, n, e) == [r EXCEPT ![ParseSlot(n)] = e]

LEMMA WrittenIs ==
    ASSUME NEW r \in [0..(MAX_PARSE_ENTITIES - 1) -> Entity], NEW n \in Int, NEW e \in Entity
    PROVE  /\ Written(r, n, e) \in [0..(MAX_PARSE_ENTITIES - 1) -> Entity]
           /\ Written(r, n, e)[ParseSlot(n)] = e
           /\ \A i \in Int : ParseSlot(i) # ParseSlot(n) =>
                Written(r, n, e)[ParseSlot(i)] = r[ParseSlot(i)]
  <1>1. \A i \in Int : ParseSlot(i) \in 0..(MAX_PARSE_ENTITIES - 1)
    BY SlotTypes
  <1> QED
    BY <1>1 DEF Written

LEMMA StoreIs ==
    ASSUME NEW w \in Walk, NEW e \in Entity
    PROVE  /\ Store(w, e) \in Walk
           /\ Store(w, e).ring = Written(w.ring, w.next, e)
           /\ Store(w, e).next = IF e.value = Gone THEN w.next ELSE w.next + 1
           /\ Store(w, e).changes = w.changes
           /\ Store(w, e).oldindex = w.oldindex
           /\ Store(w, e).oldnum = w.oldnum
  <1> DEFINE r == Written(w.ring, w.next, e)
             n == IF e.value = Gone THEN w.next ELSE w.next + 1
  <1>1. Store(w, e) = [w EXCEPT !.ring = r, !.next = n]
    BY DEF Store, Written, Walk
  <1>2. r \in [0..(MAX_PARSE_ENTITIES - 1) -> Entity]
    BY WrittenIs DEF Walk
  <1>3. n \in Nat
    BY DEF Walk
  <1> HIDE DEF r, n
  <1>4. /\ [w EXCEPT !.ring = r, !.next = n] \in Walk
        /\ [w EXCEPT !.ring = r, !.next = n].ring = r
        /\ [w EXCEPT !.ring = r, !.next = n].next = n
        /\ [w EXCEPT !.ring = r, !.next = n].changes = w.changes
        /\ [w EXCEPT !.ring = r, !.next = n].oldindex = w.oldindex
        /\ [w EXCEPT !.ring = r, !.next = n].oldnum = w.oldnum
    BY <1>2, <1>3 DEF Walk
  <1> QED
    BY <1>1, <1>4 DEF r, n

LEMMA NextOldIs ==
    ASSUME NEW w \in Walk, NEW old, HasEntities(old)
    PROVE  /\ NextOld(w, old) \in Walk
           /\ NextOld(w, old).ring = w.ring
           /\ NextOld(w, old).next = w.next
           /\ NextOld(w, old).changes = w.changes
           /\ NextOld(w, old).oldindex = w.oldindex + 1
           /\ NextOld(w, old).oldnum =
                IF w.oldindex + 1 >= old.numEntities THEN End
                ELSE w.ring[ParseSlot(old.parseEntitiesNum + (w.oldindex + 1))].number
  <1> DEFINE i == w.oldindex + 1
             n == IF i >= old.numEntities THEN End
                  ELSE w.ring[ParseSlot(old.parseEntitiesNum + i)].number
  <1>1. NextOld(w, old) = [w EXCEPT !.oldindex = i, !.oldnum = n]
    BY DEF NextOld
  <1>2. i \in Int
    BY DEF Walk
  <1>3. n \in Nat
    <2>1. old.parseEntitiesNum + i \in Int
      BY <1>2 DEF HasEntities
    <2>2. w.ring[ParseSlot(old.parseEntitiesNum + i)] \in Entity
      BY <2>1, SlotTypes DEF Walk
    <2> QED
      BY <2>2 DEF Entity, End
  <1> HIDE DEF i, n
  <1>4. /\ [w EXCEPT !.oldindex = i, !.oldnum = n] \in Walk
        /\ [w EXCEPT !.oldindex = i, !.oldnum = n].ring = w.ring
        /\ [w EXCEPT !.oldindex = i, !.oldnum = n].next = w.next
        /\ [w EXCEPT !.oldindex = i, !.oldnum = n].changes = w.changes
        /\ [w EXCEPT !.oldindex = i, !.oldnum = n].oldindex = i
        /\ [w EXCEPT !.oldindex = i, !.oldnum = n].oldnum = n
    BY <1>2, <1>3 DEF Walk
  <1> QED
    BY <1>1, <1>4 DEF i, n

\* The message without the change that was read.
Rest(w) == [w EXCEPT !.changes = @ \ {NextChange(w.changes)}]

LEMMA RestIs ==
    ASSUME NEW w \in Walk
    PROVE  /\ Rest(w) \in Walk
           /\ Rest(w).ring = w.ring /\ Rest(w).next = w.next
           /\ Rest(w).changes = w.changes \ {NextChange(w.changes)}
           /\ Rest(w).oldindex = w.oldindex /\ Rest(w).oldnum = w.oldnum
  <1> DEFINE n == NextChange(w.changes)
  <1> HIDE DEF n
  <1>1. Rest(w) = [w EXCEPT !.changes = w.changes \ {n}]
    BY DEF Rest, n
  <1>2. w.changes \ {n} \in SUBSET Change
    BY DEF Walk
  <1>3. /\ [w EXCEPT !.changes = w.changes \ {n}] \in Walk
        /\ [w EXCEPT !.changes = w.changes \ {n}].ring = w.ring
        /\ [w EXCEPT !.changes = w.changes \ {n}].next = w.next
        /\ [w EXCEPT !.changes = w.changes \ {n}].changes = w.changes \ {n}
        /\ [w EXCEPT !.changes = w.changes \ {n}].oldindex = w.oldindex
        /\ [w EXCEPT !.changes = w.changes \ {n}].oldnum = w.oldnum
    BY <1>2 DEF Walk
  <1> QED
    BY <1>1, <1>3 DEF n

\* The entity of old that the walk stands at, and the one a change makes of a value.
OldState(w, old) == w.ring[ParseSlot(old.parseEntitiesNum + w.oldindex)]
Made(w, value) == [number |-> NextChange(w.changes).number,
                   value |-> Apply(NextChange(w.changes), value)]

\* What a round does: copy an old entity, make one from the baseline or from an
\* old one, or nothing.
LEMMA RoundIs ==
    ASSUME NEW w \in Walk, NEW old, HasEntities(old)
    PROVE  /\ OldState(w, old) \in Entity
           /\ \A v \in Int : Made(w, v) \in Entity
           /\ NextChange(w.changes).number \in Nat
           /\ \/ /\ w.oldnum < NextChange(w.changes).number
                 /\ ParseEntity(w, old) = NextOld(Store(w, OldState(w, old)), old)
              \/ /\ w.oldnum > NextChange(w.changes).number
                 /\ ParseEntity(w, old) = Store(Rest(w), Made(w, Baseline))
              \/ /\ w.oldnum = NextChange(w.changes).number /\ w.oldnum # End
                 /\ ParseEntity(w, old)
                      = NextOld(Store(Rest(w), Made(w, OldState(w, old).value)), old)
              \/ /\ w.oldnum = NextChange(w.changes).number /\ w.oldnum = End
                 /\ ParseEntity(w, old) = w
  <1> DEFINE new == NextChange(w.changes)
  <1>1. new \in Change /\ new.number \in Nat /\ w.oldnum \in Nat
    <2>1. \A c \in w.changes : c \in Change
      BY DEF Walk
    <2>2. new \in Change
      BY <2>1, NextChangeIs
    <2> QED
      BY <2>2 DEF Walk, Change
  <1>2. OldState(w, old) \in Entity
    <2>1. old.parseEntitiesNum + w.oldindex \in Int
      BY DEF HasEntities, Walk
    <2> QED
      BY <2>1, SlotTypes DEF Walk, OldState
  <1> HIDE DEF new
  <1>3. ASSUME NEW v \in Int PROVE Made(w, v) \in Entity
    <2>1. Apply(new, v) \in Int
      BY <1>1 DEF Apply, Change, Garbled
    <2> QED
      BY <1>1, <2>1 DEF Made, Entity, new
  <1>4. w.oldnum < new.number \/ w.oldnum > new.number \/ w.oldnum = new.number
    BY <1>1
  <1>5. CASE w.oldnum < new.number
    <2>1. ParseEntity(w, old) = NextOld(Store(w, OldState(w, old)), old)
      BY <1>1, <1>5 DEF ParseEntity, OldState, new
    <2> QED
      BY <1>1, <1>2, <1>3, <1>5, <2>1 DEF new
  <1>6. CASE w.oldnum > new.number
    <2>1. ParseEntity(w, old) = Store(Rest(w), Made(w, Baseline))
      BY <1>1, <1>6 DEF ParseEntity, Rest, Made, new
    <2> QED
      BY <1>1, <1>2, <1>3, <1>6, <2>1 DEF new
  <1>7. CASE w.oldnum = new.number /\ w.oldnum # End
    <2>1. ParseEntity(w, old) = NextOld(Store(Rest(w), Made(w, OldState(w, old).value)), old)
      BY <1>1, <1>7 DEF ParseEntity, Rest, Made, OldState, new
    <2> QED
      BY <1>1, <1>2, <1>3, <1>7, <2>1 DEF new
  <1>8. CASE w.oldnum = new.number /\ w.oldnum = End
    <2>1. ParseEntity(w, old) = w
      BY <1>1, <1>8 DEF ParseEntity, new
    <2> QED
      BY <1>1, <1>2, <1>3, <1>8, <2>1 DEF new
  <1> QED
    BY <1>4, <1>5, <1>6, <1>7, <1>8

-----------------------------------------------------------------------------
(* Reading a difference, all of it                                         *)

\* The states that follow one another from start, n rounds long.
Walking(g, n, start, old) ==
    g = [k \in 0..n |-> IF k = 0 THEN start ELSE ParseEntity(g[k - 1], old)]

\* The recursive function exists: a walk can go on for a round.
LEMMA WalkingExists ==
    ASSUME NEW n \in Nat, NEW start, NEW old
    PROVE  \E g : Walking(g, n, start, old)
  <1> DEFINE P(k) == \E g : Walking(g, k, start, old)
             T == {k \in 0..n : P(k)}
  <1>1. P(0)
    <2> DEFINE g == [k \in 0..0 |-> start]
    <2>1. g = [k \in 0..0 |-> IF k = 0 THEN start ELSE ParseEntity(g[k - 1], old)]
      BY \A k \in 0..0 : k = 0
    <2> HIDE DEF g
    <2> QED
      BY <2>1 DEF Walking
  <1>2. ASSUME NEW k \in 1..n, P(k - 1)
        PROVE  P(k)
    <2>1. PICK g : Walking(g, k - 1, start, old)
      BY <1>2
    <2> DEFINE last == ParseEntity(g[k - 1], old)
               h == [j \in 0..k |-> IF j = k THEN last ELSE g[j]]
               body(j) == IF j = 0 THEN start ELSE ParseEntity(h[j - 1], old)
    <2>2. \A j \in 0..(k - 1) : h[j] = g[j]
      <3>1. \A j \in 0..(k - 1) : j \in 0..k /\ j # k
        OBVIOUS
      <3> QED
        BY <3>1
    <2>3. k - 1 \in 0..(k - 1) /\ k \in 0..k /\ h[k] = last
      OBVIOUS
    <2>4. \A j \in 0..(k - 1) : g[j] = IF j = 0 THEN start ELSE ParseEntity(g[j - 1], old)
      BY <2>1 DEF Walking
    <2>5. h = [j \in 0..k |-> h[j]]
      OBVIOUS
    <2> HIDE DEF h
    <2>6. \A j \in 0..k : h[j] = body(j)
      <3> SUFFICES ASSUME NEW j \in 0..k PROVE h[j] = body(j)
        OBVIOUS
      <3>1. CASE j = k
        <4>1. h[j - 1] = g[k - 1]
          BY <2>2, <2>3, <3>1
        <4> QED
          BY <2>3, <3>1, <4>1
      <3>2. CASE j # k
        <4>1. j \in 0..(k - 1) /\ (j # 0 => j - 1 \in 0..(k - 1))
          BY <3>2
        <4>2. h[j] = g[j] /\ (j # 0 => h[j - 1] = g[j - 1])
          BY <2>2, <4>1
        <4> QED
          BY <2>4, <4>1, <4>2
      <3> QED
        BY <3>1, <3>2
    <2>7. h = [j \in 0..k |-> body(j)]
      BY <2>5, <2>6
    <2> QED
      BY <2>7 DEF Walking
  <1> HIDE DEF P
  <1>3. 0 \in T /\ \A k \in 1..n : k - 1 \in T => k \in T
    BY <1>1, <1>2
  <1>4. n \in T
    <2> HIDE DEF T
    <2> QED
      BY <1>3, Upwards
  <1> QED
    BY <1>4 DEF P

Start(m, old) == NextOld([ring |-> parseEntities, next |-> cl.parseEntitiesNum,
                          changes |-> m.entities, oldindex |-> -1, oldnum |-> End], old)

Rounds(m, old) == old.numEntities + Cardinality(m.entities)

\* What CL_ParsePacketEntities comes to is the last state of a walk.
LEMMA ParsedByWalk ==
    ASSUME NEW m, NEW old, Rounds(m, old) \in Nat
    PROVE  \E g : /\ g[0] = Start(m, old)
                  /\ \A k \in 1..Rounds(m, old) : g[k] = ParseEntity(g[k - 1], old)
                  /\ ParsePacketEntities(m, old) = g[Rounds(m, old)]
  <1> DEFINE start == Start(m, old)
             n == Rounds(m, old)
             walk[k \in 0..n] == IF k = 0 THEN start ELSE ParseEntity(walk[k - 1], old)
  <1>1. ParsePacketEntities(m, old) = walk[n]
    BY DEF ParsePacketEntities, Start, Rounds
  <1>2. Walking(walk, n, start, old)
    <2>1. \E g : Walking(g, n, start, old)
      BY WalkingExists
    <2> QED
      BY <2>1, Zenon DEF Walking
  <1> HIDE DEF walk, start, n
  <1>3. \A k \in 0..n : walk[k] = IF k = 0 THEN start ELSE ParseEntity(walk[k - 1], old)
    BY <1>2 DEF Walking
  <1>4. n \in Nat
    BY DEF n
  <1>5. walk[0] = start /\ \A k \in 1..n : walk[k] = ParseEntity(walk[k - 1], old)
    BY <1>3, <1>4
  <1> QED
    BY <1>1, <1>5 DEF start, n

\* How far reading has got from ring r, whose next entity was that at p: what
\* is not a whole ring behind is as it was.
Reached(r, p, w) ==
    /\ w \in Walk /\ p <= w.next
    /\ \A i \in 0..(p - 1) : w.next - i < MAX_PARSE_ENTITIES =>
         w.ring[ParseSlot(i)] = r[ParseSlot(i)]

LEMMA ReachedStore ==
    ASSUME NEW r, NEW p \in Nat, NEW w, Reached(r, p, w), NEW e \in Entity
    PROVE  Reached(r, p, Store(w, e))
  <1>1. w \in Walk /\ w.next \in Nat /\ w.ring \in [0..(MAX_PARSE_ENTITIES - 1) -> Entity]
        /\ p <= w.next
    BY DEF Reached, Walk
  <1> DEFINE v == Store(w, e)
  <1>2. /\ v \in Walk /\ v.ring = Written(w.ring, w.next, e)
        /\ v.next \in Nat /\ w.next <= v.next
    BY <1>1, StoreIs
  <1> HIDE DEF v
  <1>3. ASSUME NEW i \in 0..(p - 1), v.next - i < MAX_PARSE_ENTITIES
        PROVE  v.ring[ParseSlot(i)] = r[ParseSlot(i)]
    <2>1. i < w.next /\ w.next - i < MAX_PARSE_ENTITIES
      BY <1>1, <1>2, <1>3, RingAssumption
    <2>2. ParseSlot(i) # ParseSlot(w.next)
      BY <1>1, <2>1, ParseSlotsApart
    <2>3. v.ring[ParseSlot(i)] = w.ring[ParseSlot(i)]
      BY <1>1, <1>2, <2>2, WrittenIs
    <2> QED
      BY <2>1, <2>3 DEF Reached
  <1> QED
    BY <1>1, <1>2, <1>3 DEF Reached, v

\* A round, whatever it reads.
LEMMA ReachedRound ==
    ASSUME NEW r, NEW p \in Nat, NEW w, Reached(r, p, w), NEW old, HasEntities(old)
    PROVE  /\ Reached(r, p, ParseEntity(w, old))
           /\ w.next <= ParseEntity(w, old).next
  <1>1. w \in Walk /\ w.next \in Nat
    BY DEF Reached, Walk
  <1>2. Rest(w) \in Walk /\ Rest(w).next = w.next /\ Reached(r, p, Rest(w))
    BY <1>1, RestIs DEF Reached
  <1>3. ASSUME NEW u, Reached(r, p, u), u.next = w.next, NEW e \in Entity
        PROVE  /\ Reached(r, p, Store(u, e)) /\ w.next <= Store(u, e).next
               /\ Reached(r, p, NextOld(Store(u, e), old))
               /\ w.next <= NextOld(Store(u, e), old).next
    <2>1. Reached(r, p, Store(u, e))
      BY <1>3, ReachedStore
    <2>2. u \in Walk
      BY <1>3 DEF Reached
    <2>3. w.next <= Store(u, e).next /\ Store(u, e) \in Walk
      BY <1>1, <1>3, <2>2, StoreIs
    <2>4. /\ NextOld(Store(u, e), old) \in Walk
          /\ NextOld(Store(u, e), old).ring = Store(u, e).ring
          /\ NextOld(Store(u, e), old).next = Store(u, e).next
      BY <2>3, NextOldIs
    <2> QED
      BY <2>1, <2>3, <2>4 DEF Reached
  <1>4. OldState(w, old) \in Entity /\ OldState(w, old).value \in Int
    BY <1>1, RoundIs DEF Entity
  <1>5. Made(w, OldState(w, old).value) \in Entity /\ Made(w, Baseline) \in Entity
    BY <1>1, <1>4, RoundIs DEF Baseline
  <1> QED
    BY <1>1, <1>2, <1>3, <1>4, <1>5, RoundIs

\* Where reading begins.
LEMMA ReachedStart ==
    ASSUME parseEntities \in [0..(MAX_PARSE_ENTITIES - 1) -> Entity],
           cl.parseEntitiesNum \in Nat, NEW m, \A c \in m.entities : c \in Change,
           NEW old, HasEntities(old)
    PROVE  /\ Reached(parseEntities, cl.parseEntitiesNum, Start(m, old))
           /\ Start(m, old).ring = parseEntities
           /\ Start(m, old).next = cl.parseEntitiesNum
           /\ Start(m, old).changes = m.entities
           /\ Start(m, old).oldindex = 0
           /\ Start(m, old).oldnum =
                IF old.numEntities = 0 THEN End
                ELSE parseEntities[ParseSlot(old.parseEntitiesNum)].number
  <1> DEFINE w == [ring |-> parseEntities, next |-> cl.parseEntitiesNum,
                   changes |-> m.entities, oldindex |-> -1, oldnum |-> End]
  <1>1. w \in Walk
    BY DEF Walk, End
  <1>2. /\ w.ring = parseEntities /\ w.next = cl.parseEntitiesNum
        /\ w.changes = m.entities /\ w.oldindex = -1
    OBVIOUS
  <1>3. Start(m, old) = NextOld(w, old)
    BY DEF Start
  <1> HIDE DEF w
  <1>4. /\ Start(m, old) \in Walk /\ Start(m, old).ring = parseEntities
        /\ Start(m, old).next = cl.parseEntitiesNum /\ Start(m, old).changes = m.entities
        /\ Start(m, old).oldindex = 0
    BY <1>1, <1>2, <1>3, NextOldIs
  <1>5. Start(m, old).oldnum =
          IF 0 >= old.numEntities THEN End
          ELSE parseEntities[ParseSlot(old.parseEntitiesNum)].number
    <2>1. Start(m, old).oldnum =
            IF w.oldindex + 1 >= old.numEntities THEN End
            ELSE w.ring[ParseSlot(old.parseEntitiesNum + (w.oldindex + 1))].number
      BY <1>1, <1>3, NextOldIs
    <2>2. w.oldindex + 1 = 0 /\ old.parseEntitiesNum + 0 = old.parseEntitiesNum
      BY <1>2 DEF HasEntities
    <2> QED
      BY <1>2, <2>1, <2>2
  <1> QED
    BY <1>4, <1>5 DEF Reached, HasEntities

\* Where it ends, whatever was read.
LEMMA ReachedEnd ==
    ASSUME parseEntities \in [0..(MAX_PARSE_ENTITIES - 1) -> Entity],
           cl.parseEntitiesNum \in Nat,
           NEW m, \A c \in m.entities : c \in Change, IsFiniteSet(m.entities),
           NEW old, HasEntities(old)
    PROVE  Reached(parseEntities, cl.parseEntitiesNum, ParsePacketEntities(m, old))
  <1> DEFINE n == Rounds(m, old)
             r == parseEntities
             p == cl.parseEntitiesNum
  <1>1. n \in Nat
    BY FS_CardinalityType DEF Rounds, HasEntities
  <1>2. PICK g : /\ g[0] = Start(m, old)
                 /\ \A k \in 1..n : g[k] = ParseEntity(g[k - 1], old)
                 /\ ParsePacketEntities(m, old) = g[n]
    BY <1>1, ParsedByWalk
  <1>3. Reached(r, p, g[0])
    BY <1>2, ReachedStart
  <1> DEFINE T == {k \in 0..n : Reached(r, p, g[k])}
  <1> HIDE DEF n, r
  <1>4. \A k \in 1..n : k - 1 \in T => k \in T
    BY <1>1, <1>2, ReachedRound
  <1>5. 0 \in T
    BY <1>1, <1>3
  <1>6. n \in T
    <2> HIDE DEF T
    <2>1. \A k \in 0..n : k \in T
      BY <1>1, <1>4, <1>5, Upwards
    <2>2. n \in 0..n
      BY <1>1
    <2> QED
      BY <2>1, <2>2
  <1> QED
    BY <1>2, <1>6 DEF r

-----------------------------------------------------------------------------
(* Merging old entities and changes                                        *)

\* What of the entities from number d on is unread, what of the result is made,
\* and what of the difference is still to be read.
Unread(B, d) == {b \in B : b.number > d}
Merged(T, d) == {t \in T : t.number <= d}
ToRead(B, T, d) == {c \in EmitPacketEntities(B, T) : c.number > d}

LEMMA SceneNumbers ==
    ASSUME NEW E, IsScene(E)
    PROVE  \A e \in E : /\ e.number \in Nat /\ e.number < End /\ e.value \in Nat
                        /\ e = [number |-> e.number, value |-> e.value]
  BY DEF IsScene, Entity

\* An old entity of which the difference says nothing is in the result.
LEMMA Passed ==
    ASSUME NEW B, IsScene(B), NEW T, IsScene(T), NEW d \in Int, NEW b \in B, b.number > d,
           \A x \in Unread(B, d) : x = b \/ b.number < x.number,
           \A c \in ToRead(B, T, d) : b.number < c.number
    PROVE  /\ b \in T
           /\ Merged(T, b.number) = Merged(T, d) \cup {b}
           /\ Unread(B, b.number) = Unread(B, d) \ {b}
           /\ ToRead(B, T, b.number) = ToRead(B, T, d)
  <1> DEFINE C == EmitPacketEntities(B, T)
  <1>1. /\ b.number \in Nat
        /\ \A x \in B : x.number \in Nat
        /\ \A t \in T : t.number \in Nat
    BY SceneNumbers
  <1>2. \A c \in C : c.number \in Nat
    BY EmitKinds DEF Change
  <1>3. \A c \in C : c.number > d => b.number < c.number
    BY DEF ToRead
  <1>4. /\ \A t \in T : t \notin B => \E c \in C : c.number = t.number
        /\ (\A t \in T : t.number # b.number) => \E c \in C : c.number = b.number
    BY EmitOnce
  <1> HIDE DEF C
  <1>5. b \in T
    <2>1. PICK t \in T : t.number = b.number
      BY <1>1, <1>2, <1>3, <1>4
    <2>2. t \in B
      BY <1>1, <1>2, <1>3, <1>4, <2>1
    <2> QED
      BY <2>1, <2>2 DEF IsScene
  <1>6. ASSUME NEW t \in T, t.number > d, t.number <= b.number
        PROVE  t = b
    <2>1. t \in B
      BY <1>1, <1>2, <1>3, <1>4, <1>6
    <2>2. t \in Unread(B, d)
      BY <1>6, <2>1 DEF Unread
    <2> QED
      BY <1>1, <1>6, <2>2
  <1>7. Merged(T, b.number) = Merged(T, d) \cup {b}
    BY <1>1, <1>5, <1>6 DEF Merged
  <1>8. Unread(B, b.number) = Unread(B, d) \ {b}
    <2>1. \A x \in B : x.number > d => x = b \/ b.number < x.number
      BY DEF Unread
    <2> QED
      BY <1>1, <2>1 DEF Unread
  <1>9. ToRead(B, T, b.number) = ToRead(B, T, d)
    BY <1>1, <1>2, <1>3 DEF ToRead, C
  <1> QED
    BY <1>5, <1>7, <1>8, <1>9

\* What is left after the change c, which is the next one.
LEMMA Left ==
    ASSUME NEW B, IsScene(B), NEW T, IsScene(T), NEW d \in Int,
           NEW c \in ToRead(B, T, d), \A x \in ToRead(B, T, d) : c.number <= x.number
    PROVE  /\ ToRead(B, T, c.number) = ToRead(B, T, d) \ {c}
           /\ c.number \in Nat /\ c.number > d
  <1>1. \A x \in EmitPacketEntities(B, T) : x.number \in Nat
    BY EmitKinds DEF Change
  <1>2. c \in EmitPacketEntities(B, T) /\ c.number > d
    BY DEF ToRead
  <1>3. \A x \in EmitPacketEntities(B, T) : x.number = c.number => x = c
    BY <1>2, EmitOnce
  <1>4. \A x \in EmitPacketEntities(B, T) : x.number > d => c.number <= x.number
    BY DEF ToRead
  <1>5. ToRead(B, T, c.number) = ToRead(B, T, d) \ {c}
    BY <1>1, <1>2, <1>3, <1>4 DEF ToRead
  <1> QED
    BY <1>1, <1>2, <1>5

\* What the change c makes, in the result or gone from it.
LEMMA MadeOfChange ==
    ASSUME NEW B, IsScene(B), NEW T, IsScene(T), NEW d \in Int,
           NEW c \in ToRead(B, T, d), \A x \in ToRead(B, T, d) : c.number <= x.number,
           \A x \in Unread(B, d) : c.number <= x.number,
           NEW v, v = ValueIn(B, c.number),
           NEW e, e = [number |-> c.number, value |-> Apply(c, v)]
    PROVE  /\ e.value # Gone => e \in T /\ Merged(T, c.number) = Merged(T, d) \cup {e}
           /\ e.value = Gone => /\ Merged(T, c.number) = Merged(T, d)
                                /\ \E b \in B : b.number = c.number
  <1>1. c \in EmitPacketEntities(B, T) /\ c.number > d /\ c.number \in Nat
    BY Left DEF ToRead
  <1>2. /\ \A t \in T : t.number \in Nat
        /\ e.value = Apply(c, v)
    BY SceneNumbers
  <1>3. ASSUME NEW t \in T, t.number > d, t.number < c.number
        PROVE  FALSE
    <2>1. CASE t \in B
      <3>1. t \in Unread(B, d)
        BY <1>3, <2>1 DEF Unread
      <3> QED
        BY <1>1, <1>2, <1>3, <3>1
    <2>2. CASE t \notin B
      <3>1. PICK x \in EmitPacketEntities(B, T) : x.number = t.number
        BY <2>2, EmitOnce
      <3>2. x \in ToRead(B, T, d)
        BY <1>3, <3>1 DEF ToRead
      <3> QED
        BY <1>1, <1>2, <1>3, <3>1, <3>2
    <2> QED
      BY <2>1, <2>2
  <1>4. CASE \E f \in T \ B : /\ c.number = f.number /\ c.to = f.value /\ c.to # Gone
                              /\ c.from = ValueIn(B, f.number)
    <2>1. PICK f \in T : /\ c.number = f.number /\ c.to = f.value /\ c.to # Gone
                         /\ c.from = ValueIn(B, f.number)
      BY <1>4
    <2>2. Apply(c, v) = f.value
      BY <2>1 DEF Apply
    <2>3. e = f
      BY <2>1, <2>2, SceneNumbers
    <2>4. \A t \in T : t.number = c.number => t = e
      BY <2>1, <2>3 DEF IsScene
    <2>5. Merged(T, c.number) = Merged(T, d) \cup {e}
      <3>1. \A t \in T : t.number <= c.number <=> t.number <= d \/ t = e
        BY <1>1, <1>2, <1>3, <2>1, <2>3, <2>4
      <3> QED
        BY <2>3, <3>1 DEF Merged
    <2> QED
      BY <2>1, <2>2, <2>3, <2>5, <1>2
  <1>5. CASE \E o \in B : /\ c.number = o.number /\ c.to = Gone /\ c.from = o.value
                          /\ \A t \in T : t.number # o.number
    <2>1. Apply(c, v) = Gone
      BY <1>5 DEF Apply
    <2>2. \A t \in T : t.number <= c.number <=> t.number <= d
      BY <1>1, <1>2, <1>3, <1>5
    <2>3. Merged(T, c.number) = Merged(T, d)
      BY <2>2 DEF Merged
    <2> QED
      BY <1>2, <1>5, <2>1, <2>3
  <1> QED
    BY <1>1, <1>4, <1>5, EmitKinds

-----------------------------------------------------------------------------
(* Entities in the client's ring                                           *)

\* The num positions of ring r that begin at from hold the entities E, by number.
Lists(r, from, num, E) ==
    /\ \A i \in from..(from + num - 1) : r[ParseSlot(i)] \in E
    /\ \A e \in E : \E i \in from..(from + num - 1) : r[ParseSlot(i)] = e
    /\ \A i, j \in from..(from + num - 1) :
         i < j => r[ParseSlot(i)].number < r[ParseSlot(j)].number

LEMMA ListsNone ==
    ASSUME NEW r, NEW from \in Int, NEW E
    PROVE  Lists(r, from, 0, E) <=> E = {}
  <1>1. \A i : i \notin from..(from + 0 - 1)
    OBVIOUS
  <1> QED
    BY <1>1, Zenon DEF Lists

\* The entities with a number below that of position i are those at the positions before.
LEMMA ListsRank ==
    ASSUME NEW r, NEW from \in Int, NEW num \in Nat, NEW E, Lists(r, from, num, E),
           \A x \in E : x.number \in Nat, NEW i \in from..(from + num - 1)
    PROVE  Cardinality({f \in E : f.number < r[ParseSlot(i)].number}) = i - from
  <1> DEFINE At(j) == r[ParseSlot(j)]
             R == from..(from + num - 1)
             S == from..(i - 1)
             B == {f \in E : f.number < At(i).number}
             g == [j \in S |-> At(j)]
  <1>1. /\ i \in Int /\ i \in R /\ S \subseteq R
        /\ \A j \in S : j < i
        /\ \A j \in R : j \in S \/ j = i \/ i < j
        /\ \A j, k \in S : j < k \/ k < j \/ j = k
    OBVIOUS
  <1>2. IsFiniteSet(S) /\ Cardinality(S) = i - from
    <2>1. i - 1 \in Int /\ i - from \in Nat
      OBVIOUS
    <2>2. /\ IsFiniteSet(from..(i - 1))
          /\ Cardinality(from..(i - 1)) = IF from > i - 1 THEN 0 ELSE (i - 1) - from + 1
      BY <2>1, FS_Interval
    <2>3. (IF from > i - 1 THEN 0 ELSE (i - 1) - from + 1) = i - from
      BY <2>1
    <2> QED
      BY <2>2, <2>3
  <1>3. /\ \A j \in R : At(j) \in E
        /\ \A x \in E : \E j \in R : At(j) = x
        /\ \A j, k \in R : j < k => At(j).number < At(k).number
    BY DEF Lists
  <1>4. \A j \in R : At(j).number \in Nat
    BY <1>3
  <1> HIDE DEF At, R, S
  <1>5. g \in [S -> B]
    BY <1>1, <1>3
  <1>6. ASSUME NEW j \in S, NEW k \in S, g[j] = g[k] PROVE j = k
    <2>1. At(j).number = At(k).number
      BY <1>6
    <2> QED
      BY <1>1, <1>3, <1>4, <2>1
  <1>7. ASSUME NEW x \in B PROVE \E j \in S : g[j] = x
    <2>1. PICK j \in R : At(j) = x
      BY <1>3
    <2>2. j \in S
      BY <1>1, <1>3, <1>4, <2>1
    <2> QED
      BY <2>1, <2>2
  <1> HIDE DEF B, g
  <1>8. \A j \in S : \A k \in S : g[j] = g[k] => j = k
    BY <1>6
  <1>9. \A x \in B : \E j \in S : g[j] = x
    BY <1>7
  <1>10. g \in Bijection(S, B)
    BY <1>5, <1>8, <1>9 DEF Bijection, Injection, Surjection, IsInjective
  <1>11. Cardinality(B) = Cardinality(S)
    BY <1>2, <1>10, FS_Bijection DEF ExistsBijection
  <1> QED
    BY <1>2, <1>11 DEF B, At

\* The first count positions, when the client game has room for no more.
LEMMA ListsHanded ==
    ASSUME NEW r, NEW from \in Int, NEW num \in Nat, NEW E, Lists(r, from, num, E),
           \A x \in E : x.number \in Nat, NEW count,
           count = IF num > MAX_ENTITIES_IN_SNAPSHOT THEN MAX_ENTITIES_IN_SNAPSHOT ELSE num
    PROVE  {r[ParseSlot(i)] : i \in from..(from + count - 1)} = Handed(E)
  <1> DEFINE At(j) == r[ParseSlot(j)]
             R == from..(from + num - 1)
             C == from..(from + count - 1)
             Rank(x) == Cardinality({f \in E : f.number < x.number})
  <1>1. /\ C \subseteq R
        /\ \A j \in C : j - from < MAX_ENTITIES_IN_SNAPSHOT
        /\ \A j \in R : j - from < MAX_ENTITIES_IN_SNAPSHOT => j \in C
    BY CutAssumption
  <1>2. \A j \in R : Rank(At(j)) = j - from
    BY ListsRank
  <1>3. /\ \A j \in R : At(j) \in E
        /\ \A x \in E : \E j \in R : At(j) = x
    BY DEF Lists
  <1>4. Handed(E) = {x \in E : Rank(x) < MAX_ENTITIES_IN_SNAPSHOT}
    BY DEF Handed
  <1> HIDE DEF At, R, C, Rank
  <1>5. \A x \in E : Rank(x) < MAX_ENTITIES_IN_SNAPSHOT <=> \E j \in C : At(j) = x
    BY <1>1, <1>2, <1>3
  <1>6. {At(j) : j \in C} = Handed(E)
    BY <1>1, <1>3, <1>4, <1>5
  <1> QED
    BY <1>6 DEF At, C

\* Another ring that has the same at these positions.
LEMMA ListsSame ==
    ASSUME NEW r, NEW s, NEW from \in Int, NEW num \in Nat, NEW E, Lists(r, from, num, E),
           \A i \in from..(from + num - 1) : s[ParseSlot(i)] = r[ParseSlot(i)]
    PROVE  Lists(s, from, num, E)
  BY Zenon DEF Lists

\* A write at a position that comes less than a ring after them.
LEMMA ListsWritten ==
    ASSUME NEW r \in [0..(MAX_PARSE_ENTITIES - 1) -> Entity], NEW from \in Int, NEW num \in Nat,
           NEW E, Lists(r, from, num, E), NEW n \in Int, from + num <= n,
           num = 0 \/ n - from < MAX_PARSE_ENTITIES, NEW e \in Entity
    PROVE  Lists(Written(r, n, e), from, num, E)
  <1>1. \A i \in Int : ParseSlot(i) \in 0..(MAX_PARSE_ENTITIES - 1)
    BY SlotTypes
  <1>2. ASSUME NEW i \in from..(from + num - 1)
        PROVE  Written(r, n, e)[ParseSlot(i)] = r[ParseSlot(i)]
    <2>1. i \in Int /\ i < n /\ n - i < MAX_PARSE_ENTITIES
      BY RingAssumption
    <2>2. ParseSlot(i) # ParseSlot(n)
      BY <2>1, ParseSlotsApart
    <2> QED
      BY <1>1, <2>1, <2>2 DEF Written
  <1> QED
    BY <1>2, ListsSame

\* One more, with a number above all the others.
LEMMA ListsMore ==
    ASSUME NEW r \in [0..(MAX_PARSE_ENTITIES - 1) -> Entity], NEW from \in Int, NEW num \in Nat,
           NEW E, Lists(r, from, num, E), num < MAX_PARSE_ENTITIES, NEW e \in Entity,
           \A x \in E : x.number < e.number
    PROVE  Lists(Written(r, from + num, e), from, num + 1, E \cup {e})
  <1> DEFINE n == from + num
             s == Written(r, n, e)
             R == from..(n - 1)
  <1>1. n \in Int /\ (num = 0 \/ n - from < MAX_PARSE_ENTITIES)
    BY RingAssumption
  <1>2. Lists(s, from, num, E) /\ s[ParseSlot(n)] = e
    BY <1>1, ListsWritten, WrittenIs
  <1>3. /\ from..(from + (num + 1) - 1) = R \cup {n} /\ from..(from + num - 1) = R
        /\ \A i \in R : i < n /\ ~(n < i)
    OBVIOUS
  <1> HIDE DEF s, R, n
  <1>4. /\ \A i \in R : s[ParseSlot(i)] \in E
        /\ \A x \in E : \E i \in R : s[ParseSlot(i)] = x
        /\ \A i, j \in R : i < j => s[ParseSlot(i)].number < s[ParseSlot(j)].number
    BY <1>2, <1>3 DEF Lists
  <1>5. ASSUME NEW i \in R \cup {n}, NEW j \in R \cup {n}, i < j
        PROVE  s[ParseSlot(i)].number < s[ParseSlot(j)].number
    <2>1. CASE j = n
      <3>1. i \in R
        BY <1>1, <1>5, <2>1
      <3> QED
        BY <1>2, <1>4, <2>1, <3>1
    <2>2. CASE j # n
      <3>1. i \in R /\ j \in R
        BY <1>3, <1>5, <2>2
      <3> QED
        BY <1>4, <1>5, <3>1
    <2> QED
      BY <2>1, <2>2
  <1>6. \A i \in R \cup {n} : s[ParseSlot(i)] \in E \cup {e}
    BY <1>2, <1>4
  <1>7. \A x \in E \cup {e} : \E i \in R \cup {n} : s[ParseSlot(i)] = x
    BY <1>2, <1>4
  <1>8. Lists(s, from, num + 1, E \cup {e})
    BY <1>3, <1>5, <1>6, <1>7 DEF Lists
  <1> QED
    BY <1>8 DEF s, n

\* The first is the one with the least number.
LEMMA ListsFirst ==
    ASSUME NEW r, NEW from \in Int, NEW num \in Nat, num > 0, NEW E, Lists(r, from, num, E),
           \A x \in E : x.number \in Nat
    PROVE  /\ r[ParseSlot(from)] \in E
           /\ \A x \in E : x = r[ParseSlot(from)] \/ r[ParseSlot(from)].number < x.number
           /\ Lists(r, from + 1, num - 1, E \ {r[ParseSlot(from)]})
  <1> DEFINE R == (from + 1)..(from + 1 + (num - 1) - 1)
             f == r[ParseSlot(from)]
  <1>1. /\ from..(from + num - 1) = R \cup {from} /\ from \notin R
        /\ \A i \in R : from < i
    OBVIOUS
  <1> HIDE DEF R
  <1>2. /\ \A i \in R \cup {from} : r[ParseSlot(i)] \in E
        /\ \A x \in E : \E i \in R \cup {from} : r[ParseSlot(i)] = x
        /\ \A i, j \in R \cup {from} : i < j => r[ParseSlot(i)].number < r[ParseSlot(j)].number
    BY <1>1 DEF Lists
  <1>3. \A i \in R : f.number < r[ParseSlot(i)].number
    BY <1>1, <1>2
  <1>4. f \in E
    BY <1>2
  <1>5. \A x \in E : x = f \/ f.number < x.number
    BY <1>2, <1>3
  <1>6. \A i \in R : r[ParseSlot(i)] \in E \ {f}
    BY <1>2, <1>3, <1>4
  <1>7. \A x \in E \ {f} : \E i \in R : r[ParseSlot(i)] = x
    BY <1>2
  <1>8. Lists(r, from + 1, num - 1, E \ {f})
    BY <1>2, <1>6, <1>7 DEF Lists, R
  <1> QED
    BY <1>4, <1>5, <1>8

\* How reading stands: the old entities B up to number d, and the changes up to d,
\* have been made into the entities of the result T up to d, from position p on.
Merging(w, old, B, T, p, d) ==
    /\ w \in Walk /\ d \in Int /\ p <= w.next
    /\ w.oldindex \in 0..old.numEntities
    /\ Lists(w.ring, old.parseEntitiesNum + w.oldindex, old.numEntities - w.oldindex,
             Unread(B, d))
    /\ w.oldnum = IF w.oldindex >= old.numEntities THEN End ELSE OldState(w, old).number
    /\ w.changes = ToRead(B, T, d)
    /\ Lists(w.ring, p, w.next - p, Merged(T, d))

\* What is still to be read.
ToGo(w, old) == (old.numEntities - w.oldindex) + Cardinality(w.changes)

AllRead(w, old) == w.oldindex = old.numEntities /\ w.changes = {}

\* Neither the result nor it and the old entities are more than the ring holds.
InBounds(n, old, p) ==
    /\ old.numEntities = 0 \/ n - old.parseEntitiesNum <= MAX_PARSE_ENTITIES
    /\ n - p < MAX_PARSE_ENTITIES

\* The facts the cases of a round share.
LEMMA MergingFacts ==
    ASSUME NEW w, NEW old, HasEntities(old), NEW B, IsScene(B), NEW T, IsScene(T),
           NEW p \in Nat, NEW d, Merging(w, old, B, T, p, d)
    PROVE  /\ w \in Walk /\ w.next \in Nat /\ w.oldindex \in Nat /\ d \in Int
           /\ w.ring \in [0..(MAX_PARSE_ENTITIES - 1) -> Entity]
           /\ w.next - p \in Nat
           /\ old.parseEntitiesNum + w.oldindex \in Int /\ old.numEntities - w.oldindex \in Nat
           /\ w.changes \subseteq EmitPacketEntities(B, T) /\ IsFiniteSet(w.changes)
           /\ Cardinality(w.changes) \in Nat
           /\ \A c \in w.changes : c \in Change /\ c.number < End
           /\ w.oldindex < old.numEntities =>
                /\ OldState(w, old) \in Unread(B, d) /\ OldState(w, old) \in B
                /\ w.oldnum = OldState(w, old).number
                /\ OldState(w, old).number > d
                /\ \A x \in Unread(B, d) :
                     x = OldState(w, old) \/ OldState(w, old).number < x.number
                /\ Lists(w.ring, old.parseEntitiesNum + (w.oldindex + 1),
                         old.numEntities - (w.oldindex + 1),
                         Unread(B, d) \ {OldState(w, old)})
           /\ w.oldindex >= old.numEntities => /\ w.oldindex = old.numEntities
                                               /\ Unread(B, d) = {}
                                               /\ w.oldnum = End
  <1> DEFINE a == old.parseEntitiesNum + w.oldindex
             k == old.numEntities - w.oldindex
  <1>1. /\ w \in Walk /\ w.next \in Nat /\ w.oldindex \in Nat /\ d \in Int /\ p <= w.next
        /\ w.ring \in [0..(MAX_PARSE_ENTITIES - 1) -> Entity]
        /\ w.oldindex <= old.numEntities /\ w.changes = ToRead(B, T, d)
        /\ Lists(w.ring, a, k, Unread(B, d))
        /\ w.oldnum = IF w.oldindex >= old.numEntities THEN End ELSE OldState(w, old).number
    BY DEF Merging, Walk, HasEntities
  <1>2. a \in Int /\ k \in Nat /\ w.next - p \in Nat
    BY <1>1 DEF HasEntities
  <1>3. w.changes \subseteq EmitPacketEntities(B, T)
    BY <1>1 DEF ToRead
  <1>4. IsFiniteSet(w.changes) /\ Cardinality(w.changes) \in Nat
    BY <1>3, EmitFinite, FS_Subset, FS_CardinalityType
  <1>5. \A c \in w.changes : c \in Change /\ c.number < End
    BY <1>3, EmitKinds
  <1>6. ASSUME w.oldindex < old.numEntities
        PROVE  /\ OldState(w, old) \in Unread(B, d) /\ OldState(w, old) \in B
               /\ w.oldnum = OldState(w, old).number
               /\ OldState(w, old).number > d
               /\ \A x \in Unread(B, d) :
                    x = OldState(w, old) \/ OldState(w, old).number < x.number
               /\ Lists(w.ring, old.parseEntitiesNum + (w.oldindex + 1),
                        old.numEntities - (w.oldindex + 1),
                        Unread(B, d) \ {OldState(w, old)})
    <2>1. k > 0 /\ ~(w.oldindex >= old.numEntities)
      BY <1>1, <1>6 DEF HasEntities
    <2>2. \A x \in Unread(B, d) : x.number \in Nat
      BY SceneNumbers DEF Unread
    <2>3. OldState(w, old) = w.ring[ParseSlot(a)]
      BY DEF OldState
    <2>4. /\ a + 1 = old.parseEntitiesNum + (w.oldindex + 1)
          /\ k - 1 = old.numEntities - (w.oldindex + 1)
      <3> DEFINE O == old.parseEntitiesNum
                 num == old.numEntities
                 i == w.oldindex
      <3>1. O \in Int /\ num \in Int /\ i \in Int
        BY <1>1 DEF HasEntities
      <3> HIDE DEF O, num, i
      <3>2. O + i + 1 = O + (i + 1) /\ num - i - 1 = num - (i + 1)
        BY <3>1
      <3> QED
        BY <3>2 DEF O, num, i
    <2> HIDE DEF a, k
    <2>5. /\ OldState(w, old) \in Unread(B, d)
          /\ \A x \in Unread(B, d) :
               x = OldState(w, old) \/ OldState(w, old).number < x.number
          /\ Lists(w.ring, a + 1, k - 1, Unread(B, d) \ {OldState(w, old)})
      BY <1>1, <1>2, <2>1, <2>2, <2>3, ListsFirst
    <2>6. OldState(w, old) \in B /\ OldState(w, old).number > d
      BY <2>5 DEF Unread
    <2> QED
      BY <1>1, <2>1, <2>4, <2>5, <2>6
  <1>7. ASSUME w.oldindex >= old.numEntities
        PROVE  w.oldindex = old.numEntities /\ Unread(B, d) = {} /\ w.oldnum = End
    <2>1. w.oldindex = old.numEntities /\ k = 0
      BY <1>1, <1>7 DEF HasEntities
    <2>2. Lists(w.ring, a, 0, Unread(B, d))
      BY <1>1, <2>1
    <2>3. Unread(B, d) = {}
      BY <1>2, <2>2, ListsNone
    <2> QED
      BY <1>1, <1>7, <2>1, <2>3
  <1> QED
    BY <1>1, <1>2, <1>3, <1>4, <1>5, <1>6, <1>7

\* A round that copies an old entity.
LEMMA MergingCopy ==
    ASSUME NEW w, NEW old, HasEntities(old), NEW B, IsScene(B), NEW T, IsScene(T),
           NEW p \in Nat, old.parseEntitiesNum + old.numEntities <= p,
           NEW d, Merging(w, old, B, T, p, d),
           w.oldnum < NextChange(w.changes).number,
           NEW v, v = NextOld(Store(w, OldState(w, old)), old), InBounds(v.next, old, p)
    PROVE  /\ \E e \in Int : Merging(v, old, B, T, p, e)
           /\ v.oldindex = w.oldindex + 1 /\ v.changes = w.changes
           /\ w.oldindex < old.numEntities
  <1> DEFINE b == OldState(w, old)
             new == NextChange(w.changes)
             O == old.parseEntitiesNum
             num == old.numEntities
             i == w.oldindex
             u == Store(w, b)
  <1>0. /\ w.next \in Nat /\ i \in Nat /\ d \in Int
        /\ w.next - p \in Nat /\ O \in Nat /\ num \in Nat
    BY MergingFacts DEF HasEntities
  <1>1. /\ w \in Walk
        /\ w.ring \in [0..(MAX_PARSE_ENTITIES - 1) -> Entity]
        /\ \A c \in w.changes : c \in Change /\ c.number < End
    BY MergingFacts
  <1>2. /\ new \in Change /\ new.number <= End
        /\ w.changes # {} => new \in w.changes
        /\ \A c \in w.changes : new.number <= c.number
    <2>1. \A c \in w.changes : c \in Change
      BY <1>1
    <2>2. /\ new \in Change
          /\ w.changes = {} => new.number = End
          /\ w.changes # {} => new \in w.changes /\ \A c \in w.changes : new.number <= c.number
      BY <2>1, NextChangeIs
    <2> HIDE DEF new
    <2>3. new.number <= End
      BY <1>1, <2>2 DEF Change, End
    <2> QED
      BY <2>2, <2>3
  <1>3. i < num
    <2>1. new.number \in Nat /\ w.oldnum # End
      BY <1>2 DEF Change, End
    <2>2. w.oldindex >= old.numEntities => w.oldnum = End
      BY MergingFacts
    <2> QED
      BY <1>0, <2>1, <2>2
  <1>4. /\ b \in Unread(B, d) /\ b \in B /\ w.oldnum = b.number /\ b.number > d
        /\ \A x \in Unread(B, d) : x = b \/ b.number < x.number
        /\ Lists(w.ring, O + (i + 1), num - (i + 1), Unread(B, d) \ {b})
    BY <1>3, MergingFacts
  <1> HIDE DEF b
  <1>5. b \in Entity /\ b.number \in Nat /\ b.value \in Nat /\ b.value # Gone
    BY <1>4, SceneNumbers DEF IsScene, Gone
  <1>6. w.changes = ToRead(B, T, d) /\ Lists(w.ring, p, w.next - p, Merged(T, d))
    BY DEF Merging
  <1>7. \A c \in ToRead(B, T, d) : b.number < c.number
    BY <1>1, <1>2, <1>4, <1>5, <1>6 DEF Change
  <1>8. /\ b \in T
        /\ Merged(T, b.number) = Merged(T, d) \cup {b}
        /\ Unread(B, b.number) = Unread(B, d) \ {b}
        /\ ToRead(B, T, b.number) = ToRead(B, T, d)
    <2>1. /\ d \in Int /\ b \in B /\ b.number > d
          /\ \A x \in Unread(B, d) : x = b \/ b.number < x.number
      BY <1>0, <1>4
    <2>2. b \in T
      BY <2>1, <1>7, Passed
    <2>3. Merged(T, b.number) = Merged(T, d) \cup {b}
      BY <2>1, <1>7, Passed
    <2>4. Unread(B, b.number) = Unread(B, d) \ {b}
      BY <2>1, <1>7, Passed
    <2>5. ToRead(B, T, b.number) = ToRead(B, T, d)
      BY <2>1, <1>7, Passed
    <2> QED
      BY <2>2, <2>3, <2>4, <2>5
  <1>9. /\ u \in Walk /\ u.ring = Written(w.ring, w.next, b) /\ u.next = w.next + 1
        /\ u.changes = w.changes /\ u.oldindex = i
    BY <1>0, <1>1, <1>5, StoreIs
  <1> HIDE DEF u
  <1>10. /\ v \in Walk /\ v.ring = u.ring /\ v.next = w.next + 1 /\ v.changes = w.changes
         /\ v.oldindex = i + 1
         /\ v.oldnum = IF i + 1 >= num THEN End ELSE v.ring[ParseSlot(O + (i + 1))].number
    BY <1>9, NextOldIs DEF b, u
  <1> HIDE DEF i, O, num
  <1>11. /\ w.next - O < MAX_PARSE_ENTITIES /\ w.next - p < MAX_PARSE_ENTITIES
    <2>1. num # 0 /\ v.next = w.next + 1
      BY <1>0, <1>3, <1>10
    <2>2. v.next - O <= MAX_PARSE_ENTITIES /\ v.next - p < MAX_PARSE_ENTITIES
      BY <2>1 DEF InBounds, O, num
    <2> QED
      BY <1>0, <2>1, <2>2, RingAssumption
  <1>12. Lists(v.ring, O + (i + 1), num - (i + 1), Unread(B, b.number))
    <2> DEFINE from == O + (i + 1)
               k == num - (i + 1)
    <2>1. /\ from \in Int /\ k \in Nat /\ from + k <= w.next
          /\ w.next - from < MAX_PARSE_ENTITIES
      <3>1. O + num <= p
        BY DEF O, num
      <3> QED
        BY <1>0, <1>3, <1>11, <3>1, RingAssumption
    <2>2. Lists(w.ring, from, k, Unread(B, b.number))
      BY <1>4, <1>8
    <2> HIDE DEF from, k
    <2>3. Lists(Written(w.ring, w.next, b), from, k, Unread(B, b.number))
      BY <1>0, <1>1, <1>5, <2>1, <2>2, ListsWritten
    <2> QED
      BY <1>9, <1>10, <2>3 DEF from, k
  <1>13. Lists(v.ring, p, v.next - p, Merged(T, b.number))
    <2> DEFINE k == w.next - p
    <2>1. k \in Nat /\ k < MAX_PARSE_ENTITIES /\ p + k = w.next /\ k + 1 = v.next - p
      BY <1>0, <1>10, <1>11
    <2>2. Lists(w.ring, p, k, Merged(T, d))
      BY <1>6
    <2>3. \A x \in Merged(T, d) : x.number < b.number
      BY <1>0, <1>4, <1>5, SceneNumbers DEF Merged
    <2> HIDE DEF k
    <2>4. Lists(Written(w.ring, p + k, b), p, k + 1, Merged(T, d) \cup {b})
      <3>1. p \in Int
        OBVIOUS
      <3> QED
        BY <1>1, <1>5, <2>1, <2>2, <2>3, <3>1, ListsMore
    <2> QED
      BY <1>8, <1>9, <1>10, <2>1, <2>4
  <1>14. v.oldnum = IF v.oldindex >= num THEN End ELSE OldState(v, old).number
    BY <1>10 DEF OldState, O
  <1>15. v.oldindex \in 0..num /\ p <= v.next
    BY <1>0, <1>3, <1>10
  <1>16. Merging(v, old, B, T, p, b.number)
    BY <1>5, <1>6, <1>8, <1>10, <1>12, <1>13, <1>14, <1>15 DEF Merging, O, num
  <1> QED
    BY <1>3, <1>5, <1>10, <1>16 DEF i, num

\* The change that is read next.
LEMMA NextInMessage ==
    ASSUME NEW w, NEW old, HasEntities(old), NEW B, IsScene(B), NEW T, IsScene(T),
           NEW p \in Nat, NEW d, Merging(w, old, B, T, p, d),
           NextChange(w.changes).number # End
    PROVE  /\ NextChange(w.changes) \in ToRead(B, T, d)
           /\ NextChange(w.changes) \in w.changes
           /\ NextChange(w.changes).number \in Nat /\ NextChange(w.changes).number > d
           /\ \A x \in ToRead(B, T, d) : NextChange(w.changes).number <= x.number
           /\ ToRead(B, T, NextChange(w.changes).number) = w.changes \ {NextChange(w.changes)}
           /\ Cardinality(w.changes \ {NextChange(w.changes)}) = Cardinality(w.changes) - 1
  <1> DEFINE new == NextChange(w.changes)
  <1>1. /\ \A c \in w.changes : c \in Change
        /\ IsFiniteSet(w.changes) /\ d \in Int
    BY MergingFacts
  <1>2. w.changes = ToRead(B, T, d)
    BY DEF Merging
  <1>3. /\ w.changes = {} => new.number = End
        /\ w.changes # {} => new \in w.changes /\ \A c \in w.changes : new.number <= c.number
    BY <1>1, NextChangeIs
  <1> HIDE DEF new
  <1>4. new \in w.changes /\ \A c \in w.changes : new.number <= c.number
    BY <1>3 DEF new
  <1>5. /\ new \in ToRead(B, T, d)
        /\ \A x \in ToRead(B, T, d) : new.number <= x.number
    BY <1>2, <1>4
  <1>6. ToRead(B, T, new.number) = ToRead(B, T, d) \ {new}
    BY <1>1, <1>5, Left
  <1>7. new.number \in Nat /\ new.number > d
    BY <1>1, <1>5, Left
  <1>8. Cardinality(w.changes \ {new}) = Cardinality(w.changes) - 1
    BY <1>1, <1>4, FS_RemoveElement
  <1> QED
    BY <1>2, <1>4, <1>5, <1>6, <1>7, <1>8 DEF new

\* A round that makes an entity from the baseline.
LEMMA MergingNew ==
    ASSUME NEW w, NEW old, HasEntities(old), NEW B, IsScene(B), NEW T, IsScene(T),
           NEW p \in Nat, old.parseEntitiesNum + old.numEntities <= p,
           NEW d, Merging(w, old, B, T, p, d),
           w.oldnum > NextChange(w.changes).number,
           NEW v, v = Store(Rest(w), Made(w, Baseline)), InBounds(v.next, old, p)
    PROVE  /\ \E e \in Int : Merging(v, old, B, T, p, e)
           /\ v.oldindex = w.oldindex
           /\ Cardinality(v.changes) = Cardinality(w.changes) - 1
  <1> DEFINE c == NextChange(w.changes)
             O == old.parseEntitiesNum
             num == old.numEntities
             i == w.oldindex
             u == Rest(w)
             e == Made(w, Baseline)
  <1>0. /\ w.next \in Nat /\ i \in Nat /\ d \in Int
        /\ w.next - p \in Nat /\ O \in Nat /\ num \in Nat
        /\ O + i \in Int /\ num - i \in Nat
    BY MergingFacts DEF HasEntities
  <1>1. /\ w \in Walk
        /\ w.ring \in [0..(MAX_PARSE_ENTITIES - 1) -> Entity]
    BY MergingFacts
  <1>2. /\ i < num => /\ w.oldnum = OldState(w, old).number
                      /\ OldState(w, old) \in Unread(B, d)
                      /\ \A x \in Unread(B, d) :
                           x = OldState(w, old) \/ OldState(w, old).number < x.number
        /\ i >= num => i = num /\ Unread(B, d) = {} /\ w.oldnum = End
    BY MergingFacts
  <1>3. w.oldnum <= End /\ w.oldnum \in Nat /\ c.number \in Nat
    <2>1. CASE i < num
      <3>1. OldState(w, old) \in B
        BY <1>2, <2>1 DEF Unread
      <3> QED
        BY <1>1, <1>2, <2>1, <3>1, RoundIs, SceneNumbers DEF End, Walk
    <2>2. CASE i >= num
      BY <1>1, <1>2, <2>2, RoundIs DEF End
    <2> QED
      BY <1>0, <2>1, <2>2
  <1>4. c.number # End
    BY <1>3 DEF End
  <1>5. /\ c \in ToRead(B, T, d) /\ c \in w.changes /\ c.number > d
        /\ \A x \in ToRead(B, T, d) : c.number <= x.number
        /\ ToRead(B, T, c.number) = w.changes \ {c}
        /\ Cardinality(w.changes \ {c}) = Cardinality(w.changes) - 1
    BY <1>4, NextInMessage
  <1>6. \A x \in Unread(B, d) : c.number < x.number
    <2>1. \A x \in Unread(B, d) : x.number \in Nat
      BY SceneNumbers DEF Unread
    <2>2. CASE i < num
      BY <1>2, <1>3, <2>1, <2>2
    <2>3. CASE i >= num
      BY <1>2, <2>3
    <2> QED
      BY <1>0, <2>2, <2>3
  <1> HIDE DEF c
  <1>7. \A b \in B : b.number # c.number
    <2>1. \A b \in B : b.number > d => b \in Unread(B, d)
      BY DEF Unread
    <2> QED
      BY <1>3, <1>5, <1>6, <2>1
  <1>8. Unread(B, c.number) = Unread(B, d)
    <2>1. \A b \in B : b.number \in Nat
      BY SceneNumbers
    <2>2. \A b \in B : b.number > d => c.number < b.number
      BY <1>6 DEF Unread
    <2> QED
      BY <1>0, <1>3, <1>5, <2>1, <2>2 DEF Unread
  <1>9. /\ e \in Entity /\ e.number = c.number
        /\ e = [number |-> c.number, value |-> Apply(c, Baseline)]
    <2>1. \A x \in Int : Made(w, x) \in Entity
      BY <1>1, RoundIs
    <2>2. e \in Entity
      BY <2>1 DEF Baseline
    <2> QED
      BY <2>2 DEF Made, c
  <1> HIDE DEF e
  <1>10. Baseline = ValueIn(B, c.number)
    BY <1>7, ValueIs
  <1>11. e.value # Gone /\ Merged(T, c.number) = Merged(T, d) \cup {e}
    <2>1. \A x \in Unread(B, d) : c.number <= x.number
      <3>1. \A x \in Unread(B, d) : x.number \in Nat
        BY SceneNumbers DEF Unread
      <3> QED
        BY <1>3, <1>6, <3>1
    <2>2. e.value = Gone => \E b \in B : b.number = c.number
      BY <1>0, <1>5, <1>9, <1>10, <2>1, MadeOfChange
    <2>3. e.value # Gone => Merged(T, c.number) = Merged(T, d) \cup {e}
      BY <1>0, <1>5, <1>9, <1>10, <2>1, MadeOfChange
    <2> QED
      BY <1>7, <2>2, <2>3
  <1>12. /\ u \in Walk /\ u.ring = w.ring /\ u.next = w.next
         /\ u.changes = w.changes \ {c} /\ u.oldindex = i /\ u.oldnum = w.oldnum
    BY <1>1, RestIs DEF c
  <1> HIDE DEF u
  <1>13. /\ v \in Walk /\ v.ring = Written(w.ring, w.next, e) /\ v.next = w.next + 1
         /\ v.changes = w.changes \ {c} /\ v.oldindex = i /\ v.oldnum = w.oldnum
    BY <1>9, <1>11, <1>12, StoreIs DEF u, e
  <1> HIDE DEF i, O, num
  <1>14. /\ num = 0 \/ w.next - O < MAX_PARSE_ENTITIES
         /\ w.next - p < MAX_PARSE_ENTITIES
    <2>1. /\ num = 0 \/ v.next - O <= MAX_PARSE_ENTITIES
          /\ v.next - p < MAX_PARSE_ENTITIES
      BY DEF InBounds, O, num
    <2> QED
      BY <1>0, <1>13, <2>1, RingAssumption
  <1>15. /\ Lists(w.ring, O + i, num - i, Unread(B, d))
         /\ Lists(w.ring, p, w.next - p, Merged(T, d))
         /\ i \in 0..num
         /\ w.oldnum = IF i >= num THEN End ELSE OldState(w, old).number
    BY DEF Merging, O, num, i
  <1>16. /\ O + i + (num - i) <= w.next
         /\ num - i = 0 \/ w.next - (O + i) < MAX_PARSE_ENTITIES
    <2>1. O + num <= p
      BY DEF O, num
    <2> QED
      BY <1>0, <1>14, <1>15, <2>1, RingAssumption
  <1>17. Lists(v.ring, O + i, num - i, Unread(B, c.number))
    <2> DEFINE from == O + i
               k == num - i
    <2>1. /\ from \in Int /\ k \in Nat /\ from + k <= w.next
          /\ k = 0 \/ w.next - from < MAX_PARSE_ENTITIES
          /\ Lists(w.ring, from, k, Unread(B, c.number))
      BY <1>0, <1>8, <1>15, <1>16
    <2> HIDE DEF from, k
    <2>2. Lists(Written(w.ring, w.next, e), from, k, Unread(B, c.number))
      BY <1>0, <1>1, <1>9, <2>1, ListsWritten
    <2> QED
      BY <1>13, <2>2 DEF from, k
  <1>18. Lists(v.ring, p, v.next - p, Merged(T, c.number))
    <2> DEFINE k == w.next - p
    <2>1. k \in Nat /\ k < MAX_PARSE_ENTITIES /\ p + k = w.next /\ k + 1 = v.next - p
      BY <1>0, <1>13, <1>14
    <2>2. Lists(w.ring, p, k, Merged(T, d))
      BY <1>15
    <2>3. \A x \in Merged(T, d) : x.number < e.number
      BY <1>0, <1>3, <1>5, <1>9, SceneNumbers DEF Merged
    <2> HIDE DEF k
    <2>4. Lists(Written(w.ring, p + k, e), p, k + 1, Merged(T, d) \cup {e})
      <3>1. p \in Int
        OBVIOUS
      <3> QED
        BY <1>1, <1>9, <2>1, <2>2, <2>3, <3>1, ListsMore
    <2> QED
      BY <1>11, <1>13, <2>1, <2>4
  <1>19. i < num => OldState(v, old) = OldState(w, old)
    <2> SUFFICES ASSUME i < num PROVE OldState(v, old) = OldState(w, old)
      OBVIOUS
    <2>1. O + i < w.next /\ w.next - (O + i) < MAX_PARSE_ENTITIES
      BY <1>0, <1>16
    <2>2. ParseSlot(O + i) # ParseSlot(w.next) /\ ParseSlot(O + i) \in 0..(MAX_PARSE_ENTITIES - 1)
      BY <1>0, <2>1, ParseSlotsApart, SlotTypes
    <2>3. v.ring[ParseSlot(O + i)] = w.ring[ParseSlot(O + i)]
      BY <1>1, <1>13, <2>2 DEF Written
    <2> QED
      BY <1>13, <2>3 DEF OldState, O, i
  <1>20. v.oldnum = IF v.oldindex >= num THEN End ELSE OldState(v, old).number
    BY <1>0, <1>13, <1>15, <1>19
  <1>21. v.oldindex \in 0..num /\ p <= v.next /\ c.number \in Int
    BY <1>0, <1>3, <1>13, <1>15
  <1>22. v.changes = ToRead(B, T, c.number)
    BY <1>5, <1>13
  <1>23. Merging(v, old, B, T, p, c.number)
    BY <1>13, <1>17, <1>18, <1>20, <1>21, <1>22 DEF Merging, O, num
  <1> QED
    BY <1>5, <1>13, <1>21, <1>23 DEF i

\* A round that makes an entity from an old one, or leaves it out.
LEMMA MergingChange ==
    ASSUME NEW w, NEW old, HasEntities(old), NEW B, IsScene(B), NEW T, IsScene(T),
           NEW p \in Nat, old.parseEntitiesNum + old.numEntities <= p,
           NEW d, Merging(w, old, B, T, p, d),
           w.oldnum = NextChange(w.changes).number, w.oldnum # End,
           NEW v, v = NextOld(Store(Rest(w), Made(w, OldState(w, old).value)), old),
           InBounds(v.next, old, p)
    PROVE  /\ \E e \in Int : Merging(v, old, B, T, p, e)
           /\ v.oldindex = w.oldindex + 1 /\ w.oldindex < old.numEntities
           /\ Cardinality(v.changes) = Cardinality(w.changes) - 1
  <1> DEFINE c == NextChange(w.changes)
             b == OldState(w, old)
             O == old.parseEntitiesNum
             num == old.numEntities
             i == w.oldindex
             u == Rest(w)
             e == Made(w, b.value)
             s == Store(u, e)
  <1>0. /\ w.next \in Nat /\ i \in Nat /\ d \in Int
        /\ w.next - p \in Nat /\ O \in Nat /\ num \in Nat
    BY MergingFacts DEF HasEntities
  <1>1. /\ w \in Walk
        /\ w.ring \in [0..(MAX_PARSE_ENTITIES - 1) -> Entity]
    BY MergingFacts
  <1>2. i < num
    <2>1. i >= num => w.oldnum = End
      BY MergingFacts
    <2> QED
      BY <1>0, <2>1
  <1>3. /\ b \in Unread(B, d) /\ b \in B /\ w.oldnum = b.number /\ b.number > d
        /\ \A x \in Unread(B, d) : x = b \/ b.number < x.number
        /\ Lists(w.ring, O + (i + 1), num - (i + 1), Unread(B, d) \ {b})
    BY <1>2, MergingFacts
  <1>4. /\ c \in ToRead(B, T, d) /\ c \in w.changes
        /\ \A x \in ToRead(B, T, d) : c.number <= x.number
        /\ ToRead(B, T, c.number) = w.changes \ {c}
        /\ Cardinality(w.changes \ {c}) = Cardinality(w.changes) - 1
    BY NextInMessage
  <1>5. /\ e \in Entity /\ e.number = c.number
        /\ e = [number |-> c.number, value |-> Apply(c, b.value)]
    <2>1. \A x \in Int : Made(w, x) \in Entity
      BY <1>1, RoundIs
    <2>2. b.value \in Int
      BY <1>3, SceneNumbers
    <2>3. e \in Entity
      BY <2>1, <2>2
    <2> QED
      BY <2>3 DEF Made, c
  <1>6. c.number = b.number
    BY <1>3
  <1>7. /\ u \in Walk /\ u.ring = w.ring /\ u.next = w.next
        /\ u.changes = w.changes \ {c} /\ u.oldindex = i
    BY <1>1, RestIs DEF c
  <1> HIDE DEF b, c, u
  <1>8. b \in Entity /\ b.number \in Nat /\ b.value \in Nat
    BY <1>3, SceneNumbers DEF IsScene
  <1>9. \A x \in Unread(B, d) : x.number \in Nat
    BY SceneNumbers DEF Unread
  <1>10. Unread(B, c.number) = Unread(B, d) \ {b}
    <2>1. \A x \in B : x.number \in Nat
      BY SceneNumbers
    <2>2. \A x \in B : x.number > d => x = b \/ b.number < x.number
      BY <1>3 DEF Unread
    <2> QED
      BY <1>0, <1>3, <1>6, <1>8, <2>1, <2>2 DEF Unread
  <1>11. b.value = ValueIn(B, c.number)
    BY <1>3, <1>6, ValueIs
  <1> HIDE DEF e
  <1>12. /\ e.value # Gone => Merged(T, c.number) = Merged(T, d) \cup {e}
         /\ e.value = Gone => Merged(T, c.number) = Merged(T, d)
    <2>1. \A x \in Unread(B, d) : c.number <= x.number
      BY <1>3, <1>6, <1>8, <1>9
    <2>2. e.value = Gone => Merged(T, c.number) = Merged(T, d)
      BY <1>0, <1>4, <1>5, <1>11, <2>1, MadeOfChange
    <2>3. e.value # Gone => Merged(T, c.number) = Merged(T, d) \cup {e}
      BY <1>0, <1>4, <1>5, <1>11, <2>1, MadeOfChange
    <2> QED
      BY <2>2, <2>3
  <1>13. /\ s \in Walk /\ s.ring = Written(w.ring, w.next, e)
         /\ s.next = IF e.value = Gone THEN w.next ELSE w.next + 1
         /\ s.changes = w.changes \ {c} /\ s.oldindex = i
    BY <1>5, <1>7, StoreIs
  <1> HIDE DEF s
  <1>14. /\ v \in Walk /\ v.ring = s.ring /\ v.next = s.next /\ v.changes = w.changes \ {c}
         /\ v.oldindex = i + 1
         /\ v.oldnum = IF i + 1 >= num THEN End ELSE v.ring[ParseSlot(O + (i + 1))].number
    BY <1>13, NextOldIs DEF b, e, u, s
  <1> HIDE DEF i, O, num
  <1>15. /\ w.next - O <= MAX_PARSE_ENTITIES /\ w.next - p < MAX_PARSE_ENTITIES
         /\ w.next <= v.next
    <2>1. /\ num = 0 \/ v.next - O <= MAX_PARSE_ENTITIES
          /\ v.next - p < MAX_PARSE_ENTITIES
      BY DEF InBounds, O, num
    <2> QED
      BY <1>0, <1>2, <1>13, <1>14, <2>1, RingAssumption
  <1>16. Lists(v.ring, O + (i + 1), num - (i + 1), Unread(B, c.number))
    <2> DEFINE from == O + (i + 1)
               k == num - (i + 1)
    <2>1. /\ from \in Int /\ k \in Nat /\ from + k <= w.next
          /\ w.next - from < MAX_PARSE_ENTITIES
      <3>1. O + num <= p
        BY DEF O, num
      <3> QED
        BY <1>0, <1>2, <1>15, <3>1, RingAssumption
    <2>2. Lists(w.ring, from, k, Unread(B, c.number))
      BY <1>3, <1>10
    <2> HIDE DEF from, k
    <2>3. Lists(Written(w.ring, w.next, e), from, k, Unread(B, c.number))
      <3> DEFINE next == w.next
      <3>1. next \in Int /\ e \in Entity /\ w.ring \in [0..(MAX_PARSE_ENTITIES - 1) -> Entity]
        BY <1>0, <1>1, <1>5
      <3>2. from + k <= next /\ next - from < MAX_PARSE_ENTITIES
        BY <2>1
      <3> HIDE DEF next
      <3>3. Lists(Written(w.ring, next, e), from, k, Unread(B, c.number))
        BY <2>1, <2>2, <3>1, <3>2, ListsWritten
      <3> QED
        BY <3>3 DEF next
    <2> QED
      BY <1>13, <1>14, <2>3 DEF from, k
  <1>17. Lists(v.ring, p, v.next - p, Merged(T, c.number))
    <2> DEFINE k == w.next - p
    <2>1. k \in Nat /\ k < MAX_PARSE_ENTITIES /\ p + k = w.next /\ p \in Int /\ w.next \in Int
      BY <1>0, <1>15
    <2>2. Lists(w.ring, p, k, Merged(T, d))
      BY DEF Merging
    <2>3. \A x \in Merged(T, d) : x.number < e.number
      BY <1>0, <1>3, <1>5, <1>6, <1>8, SceneNumbers DEF Merged
    <2> HIDE DEF k
    <2>4. CASE e.value = Gone
      <3>1. v.next - p = k
        BY <1>0, <1>13, <1>14, <2>1, <2>4
      <3>2. k = 0 \/ w.next - p < MAX_PARSE_ENTITIES
        BY <1>15
      <3>3. p + k <= w.next
        BY <2>1
      <3>4. Lists(Written(w.ring, w.next, e), p, k, Merged(T, d))
        BY <1>1, <1>5, <2>1, <2>2, <3>2, <3>3, ListsWritten
      <3> QED
        BY <1>12, <1>13, <1>14, <2>4, <3>1, <3>4
    <2>5. CASE e.value # Gone
      <3>1. v.next - p = k + 1
        BY <1>0, <1>13, <1>14, <2>1, <2>5
      <3>2. Lists(Written(w.ring, p + k, e), p, k + 1, Merged(T, d) \cup {e})
        BY <1>1, <1>5, <2>1, <2>2, <2>3, ListsMore
      <3> QED
        BY <1>12, <1>13, <1>14, <2>1, <2>5, <3>1, <3>2
    <2> QED
      BY <2>4, <2>5
  <1>18. v.oldnum = IF v.oldindex >= num THEN End ELSE OldState(v, old).number
    BY <1>14 DEF OldState, O
  <1>19. v.oldindex \in 0..num /\ p <= v.next /\ c.number \in Int
    BY <1>0, <1>2, <1>6, <1>8, <1>13, <1>14, <1>15
  <1>20. v.changes = ToRead(B, T, c.number)
    BY <1>4, <1>14
  <1>21. Merging(v, old, B, T, p, c.number)
    BY <1>14, <1>16, <1>17, <1>18, <1>19, <1>20 DEF Merging, O, num
  <1> QED
    BY <1>2, <1>4, <1>14, <1>19, <1>21 DEF i, num

\* A round, as long as everything fits.
LEMMA MergingRound ==
    ASSUME NEW w, NEW old, HasEntities(old), NEW B, IsScene(B), NEW T, IsScene(T),
           NEW p \in Nat, old.parseEntitiesNum + old.numEntities <= p,
           NEW d, Merging(w, old, B, T, p, d),
           InBounds(ParseEntity(w, old).next, old, p)
    PROVE  /\ \E e \in Int : Merging(ParseEntity(w, old), old, B, T, p, e)
           /\ \/ ToGo(ParseEntity(w, old), old) <= ToGo(w, old) - 1
              \/ AllRead(ParseEntity(w, old), old)
  <1> DEFINE v == ParseEntity(w, old)
             new == NextChange(w.changes)
  <1>0. /\ w.oldindex \in Nat /\ old.numEntities \in Nat /\ Cardinality(w.changes) \in Nat
        /\ d \in Int
    BY MergingFacts DEF HasEntities
  <1>1. w \in Walk /\ InBounds(v.next, old, p)
    BY MergingFacts
  <1>2. \/ /\ w.oldnum < new.number
           /\ v = NextOld(Store(w, OldState(w, old)), old)
        \/ /\ w.oldnum > new.number
           /\ v = Store(Rest(w), Made(w, Baseline))
        \/ /\ w.oldnum = new.number /\ w.oldnum # End
           /\ v = NextOld(Store(Rest(w), Made(w, OldState(w, old).value)), old)
        \/ /\ w.oldnum = new.number /\ w.oldnum = End
           /\ v = w
    BY <1>1, RoundIs
  <1> HIDE DEF v
  <1>3. CASE w.oldnum < new.number /\ v = NextOld(Store(w, OldState(w, old)), old)
    <2>1. /\ \E e \in Int : Merging(v, old, B, T, p, e)
          /\ v.oldindex = w.oldindex + 1 /\ v.changes = w.changes
      BY <1>1, <1>3, MergingCopy
    <2>2. ToGo(v, old) <= ToGo(w, old) - 1
      BY <1>0, <2>1 DEF ToGo
    <2> QED
      BY <2>1, <2>2 DEF v
  <1>4. CASE w.oldnum > new.number /\ v = Store(Rest(w), Made(w, Baseline))
    <2>1. /\ \E e \in Int : Merging(v, old, B, T, p, e)
          /\ v.oldindex = w.oldindex
          /\ Cardinality(v.changes) = Cardinality(w.changes) - 1
      BY <1>1, <1>4, MergingNew
    <2>2. ToGo(v, old) <= ToGo(w, old) - 1
      BY <1>0, <2>1 DEF ToGo
    <2> QED
      BY <2>1, <2>2 DEF v
  <1>5. CASE /\ w.oldnum = new.number /\ w.oldnum # End
             /\ v = NextOld(Store(Rest(w), Made(w, OldState(w, old).value)), old)
    <2>1. /\ \E e \in Int : Merging(v, old, B, T, p, e)
          /\ v.oldindex = w.oldindex + 1
          /\ Cardinality(v.changes) = Cardinality(w.changes) - 1
      BY <1>1, <1>5, MergingChange
    <2>2. ToGo(v, old) <= ToGo(w, old) - 1
      BY <1>0, <2>1 DEF ToGo
    <2> QED
      BY <2>1, <2>2 DEF v
  <1>6. CASE w.oldnum = new.number /\ w.oldnum = End /\ v = w
    <2>1. w.changes = {}
      <3>1. \A c \in w.changes : c \in Change /\ c.number < End
        BY MergingFacts
      <3>2. w.changes # {} => new \in w.changes
        BY <3>1, NextChangeIs
      <3>3. new.number = End
        BY <1>6
      <3>4. w.changes # {} => End < End
        BY <3>1, <3>2, <3>3
      <3> QED
        BY <3>4 DEF End
    <2>2. w.oldindex = old.numEntities
      <3>1. w.oldindex < old.numEntities =>
              w.oldnum = OldState(w, old).number /\ OldState(w, old) \in B
        BY MergingFacts
      <3>2. w.oldindex >= old.numEntities => w.oldindex = old.numEntities
        BY MergingFacts
      <3>3. \A x \in B : x.number \in Nat /\ x.number < End
        BY SceneNumbers
      <3>4. ~(w.oldindex < old.numEntities)
        BY <1>6, <3>1, <3>3 DEF End
      <3> QED
        BY <1>0, <3>2, <3>4
    <2>3. AllRead(v, old) /\ \E e \in Int : Merging(v, old, B, T, p, e)
      BY <1>0, <1>6, <2>1, <2>2 DEF AllRead
    <2> QED
      BY <2>3 DEF v
  <1> QED
    BY <1>2, <1>3, <1>4, <1>5, <1>6

\* A round after the last does nothing.
LEMMA AllReadStays ==
    ASSUME NEW w, NEW old, HasEntities(old), NEW B, IsScene(B), NEW T, IsScene(T),
           NEW p \in Nat, NEW d, Merging(w, old, B, T, p, d), AllRead(w, old)
    PROVE  ParseEntity(w, old) = w /\ Merged(T, d) = T
  <1>1. w.oldindex = old.numEntities /\ w.changes = {}
    BY DEF AllRead
  <1>2. w \in Walk /\ d \in Int
    BY MergingFacts
  <1>3. w.oldnum = End /\ Unread(B, d) = {}
    <2>1. w.oldindex >= old.numEntities
      BY <1>1 DEF HasEntities
    <2> QED
      BY <2>1, MergingFacts
  <1>4. NextChange(w.changes).number = End
    BY <1>1 DEF NextChange
  <1>5. ParseEntity(w, old) = w
    BY <1>3, <1>4 DEF ParseEntity, End
  <1>6. ToRead(B, T, d) = {}
    BY <1>1 DEF Merging
  <1>7. \A t \in T : t.number <= d
    <2>1. SUFFICES ASSUME NEW t \in T, t.number > d PROVE FALSE
      BY <1>2, SceneNumbers
    <2>2. t \notin B
      BY <1>3, <2>1 DEF Unread
    <2>3. PICK c \in EmitPacketEntities(B, T) : c.number = t.number
      BY <2>2, EmitOnce
    <2>4. c \in ToRead(B, T, d)
      BY <2>1, <2>3 DEF ToRead
    <2> QED
      BY <1>6, <2>4
  <1> QED
    BY <1>5, <1>7 DEF Merged

\* How reading stands when k rounds are left at most.
Stage(w, old, B, T, p, k) ==
    InBounds(w.next, old, p) =>
        /\ \E d \in Int : Merging(w, old, B, T, p, d)
        /\ ToGo(w, old) <= k \/ AllRead(w, old)

LEMMA StageRound ==
    ASSUME NEW w, NEW old, HasEntities(old), NEW B, IsScene(B), NEW T, IsScene(T),
           NEW p \in Nat, old.parseEntitiesNum + old.numEntities <= p,
           NEW r, Reached(r, p, w), NEW k \in Int, Stage(w, old, B, T, p, k)
    PROVE  Stage(ParseEntity(w, old), old, B, T, p, k - 1)
  <1> DEFINE v == ParseEntity(w, old)
  <1>1. SUFFICES ASSUME InBounds(v.next, old, p)
                 PROVE  /\ \E d \in Int : Merging(v, old, B, T, p, d)
                        /\ ToGo(v, old) <= k - 1 \/ AllRead(v, old)
    BY DEF Stage
  <1>2. InBounds(w.next, old, p)
    <2>1. w.next <= v.next
      BY ReachedRound
    <2>2. v.next \in Nat /\ w.next \in Nat
      BY ReachedRound DEF Reached, Walk
    <2> HIDE DEF v
    <2> QED
      BY <1>1, <2>1, <2>2, RingAssumption DEF InBounds, HasEntities
  <1>3. PICK d \in Int : Merging(w, old, B, T, p, d)
    BY <1>2 DEF Stage
  <1>4. ToGo(w, old) <= k \/ AllRead(w, old)
    BY <1>2 DEF Stage
  <1>5. CASE AllRead(w, old)
    <2>1. v = w
      BY <1>3, <1>5, AllReadStays
    <2> QED
      BY <1>3, <1>5, <2>1
  <1>6. CASE ToGo(w, old) <= k /\ ~AllRead(w, old)
    <2>1. /\ \E e \in Int : Merging(v, old, B, T, p, e)
          /\ ToGo(v, old) <= ToGo(w, old) - 1 \/ AllRead(v, old)
      BY <1>1, <1>3, MergingRound
    <2>2. ToGo(w, old) \in Int /\ (\A e \in Int : Merging(v, old, B, T, p, e) => ToGo(v, old) \in Int)
      <3>1. ASSUME NEW x, NEW e \in Int, Merging(x, old, B, T, p, e)
            PROVE  ToGo(x, old) \in Int
        <4>1. x.oldindex \in Nat /\ Cardinality(x.changes) \in Nat
          BY <3>1, MergingFacts
        <4> QED
          BY <4>1 DEF ToGo, HasEntities
      <3> QED
        BY <1>3, <3>1
    <2> HIDE DEF v
    <2>3. ToGo(v, old) \in Int
      BY <2>1, <2>2
    <2>4. ToGo(w, old) \in Int
      BY <2>2
    <2>5. ToGo(v, old) <= k - 1 \/ AllRead(v, old)
      BY <1>6, <2>1, <2>3, <2>4
    <2> QED
      BY <2>1, <2>5
  <1> QED
    BY <1>4, <1>5, <1>6

\* What is read is what was sent, if it fits and the old entities were the server's.
THEOREM Reading ==
    ASSUME parseEntities \in [0..(MAX_PARSE_ENTITIES - 1) -> Entity],
           cl.parseEntitiesNum \in Nat,
           NEW old, HasEntities(old),
           old.parseEntitiesNum + old.numEntities <= cl.parseEntitiesNum,
           NEW B, IsScene(B), NEW T, IsScene(T),
           NEW m, m.entities = EmitPacketEntities(B, T),
           Lists(parseEntities, old.parseEntitiesNum, old.numEntities, B),
           NEW w, w = ParsePacketEntities(m, old), InBounds(w.next, old, cl.parseEntitiesNum)
    PROVE  Lists(w.ring, cl.parseEntitiesNum, w.next - cl.parseEntitiesNum, T)
  <1> DEFINE n == Rounds(m, old)
             r == parseEntities
             p == cl.parseEntitiesNum
  <1>1. /\ \A c \in m.entities : c \in Change /\ c.number < End
        /\ IsFiniteSet(m.entities) /\ Cardinality(m.entities) \in Nat
    BY EmitKinds, EmitFinite, FS_CardinalityType
  <1>2. n \in Nat /\ n = old.numEntities + Cardinality(m.entities)
    BY <1>1 DEF Rounds, HasEntities
  <1>3. PICK g : /\ g[0] = Start(m, old)
                 /\ \A k \in 1..n : g[k] = ParseEntity(g[k - 1], old)
                 /\ w = g[n]
    BY <1>2, ParsedByWalk
  <1>4. /\ Reached(r, p, g[0]) /\ g[0].ring = r /\ g[0].next = p /\ g[0].changes = m.entities
        /\ g[0].oldindex = 0
        /\ g[0].oldnum = IF old.numEntities = 0 THEN End ELSE r[ParseSlot(old.parseEntitiesNum)].number
    BY <1>1, <1>3, ReachedStart
  <1>5. Merging(g[0], old, B, T, p, -1) /\ ToGo(g[0], old) = n
    <2> DEFINE s == g[0]
    <2>1. Unread(B, -1) = B /\ Merged(T, -1) = {}
      <3>1. \A x \in B \cup T : x.number \in Nat
        BY SceneNumbers
      <3> QED
        BY <3>1 DEF Unread, Merged
    <2>2. ToRead(B, T, -1) = m.entities
      BY <1>1 DEF ToRead, Change
    <2>3. Lists(r, p, 0, Merged(T, -1))
      BY <2>1, ListsNone
    <2>4. /\ s \in Walk /\ p <= s.next /\ s.next - p = 0
          /\ old.parseEntitiesNum + s.oldindex = old.parseEntitiesNum
          /\ old.numEntities - s.oldindex = old.numEntities /\ s.oldindex \in 0..old.numEntities
      BY <1>4 DEF Reached, HasEntities
    <2>5. s.oldnum = IF s.oldindex >= old.numEntities THEN End ELSE OldState(s, old).number
      <3>1. OldState(s, old) = r[ParseSlot(old.parseEntitiesNum)]
        BY <1>4, <2>4 DEF OldState
      <3>2. old.numEntities = 0 <=> s.oldindex >= old.numEntities
        BY <1>4 DEF HasEntities
      <3> QED
        BY <1>4, <3>1, <3>2
    <2>6. Lists(s.ring, old.parseEntitiesNum + s.oldindex, old.numEntities - s.oldindex, Unread(B, -1))
      BY <1>4, <2>1, <2>4
    <2>7. Lists(s.ring, p, s.next - p, Merged(T, -1))
      BY <1>4, <2>3, <2>4
    <2>8. ToGo(s, old) = n
      BY <1>2, <1>4, <2>4 DEF ToGo
    <2>9. s.changes = ToRead(B, T, -1) /\ -1 \in Int
      BY <1>4, <2>2
    <2> HIDE DEF s
    <2>10. Merging(s, old, B, T, p, -1)
      BY <2>4, <2>5, <2>6, <2>7, <2>9 DEF Merging
    <2> QED
      BY <2>8, <2>10 DEF s
  <1> DEFINE U == {k \in 0..n : Reached(r, p, g[k]) /\ Stage(g[k], old, B, T, p, n - k)}
  <1> HIDE DEF n, r
  <1>6. 0 \in U
    <2>1. Stage(g[0], old, B, T, p, n)
      BY <1>2, <1>5 DEF Stage
    <2>2. n - 0 = n
      BY <1>2
    <2> QED
      BY <1>2, <1>4, <2>1, <2>2
  <1>7. ASSUME NEW k \in 1..n, k - 1 \in U
        PROVE  k \in U
    <2>1. Reached(r, p, g[k - 1]) /\ Stage(g[k - 1], old, B, T, p, n - (k - 1))
      BY <1>7
    <2>2. n - (k - 1) \in Int /\ (n - (k - 1)) - 1 = n - k /\ k \in 0..n
      BY <1>2
    <2>3. g[k] = ParseEntity(g[k - 1], old)
      BY <1>3
    <2>4. Reached(r, p, g[k])
      BY <2>1, <2>3, ReachedRound
    <2>5. Stage(g[k], old, B, T, p, (n - (k - 1)) - 1)
      BY <2>1, <2>2, <2>3, StageRound
    <2> QED
      BY <2>2, <2>4, <2>5
  <1>8. n \in U
    <2> HIDE DEF U
    <2>1. \A k \in 1..n : k - 1 \in U => k \in U
      BY <1>7
    <2>2. \A k \in 0..n : k \in U
      BY <1>2, <1>6, <2>1, Upwards
    <2> QED
      BY <1>2, <2>2
  <1>9. Stage(w, old, B, T, p, 0)
    <2>1. n - n = 0
      BY <1>2
    <2> QED
      BY <1>3, <1>8, <2>1
  <1>10. PICK d \in Int : Merging(w, old, B, T, p, d)
    BY <1>9 DEF Stage
  <1>11. AllRead(w, old)
    <2>1. ToGo(w, old) <= 0 \/ AllRead(w, old)
      BY <1>9 DEF Stage
    <2>2. /\ w.oldindex \in Nat /\ IsFiniteSet(w.changes) /\ Cardinality(w.changes) \in Nat
          /\ old.numEntities - w.oldindex \in Nat
      BY <1>10, MergingFacts
    <2>3. ToGo(w, old) <= 0 => old.numEntities = w.oldindex /\ Cardinality(w.changes) = 0
      BY <2>2 DEF ToGo, HasEntities
    <2>4. Cardinality(w.changes) = 0 => w.changes = {}
      BY <2>2, FS_EmptySet
    <2> QED
      BY <2>1, <2>3, <2>4 DEF AllRead
  <1>12. Merged(T, d) = T
    BY <1>10, <1>11, AllReadStays
  <1> QED
    BY <1>10, <1>12 DEF Merging

-----------------------------------------------------------------------------
(* The server's ring of entities                                           *)

\* How many numbers of S are less than n.
Rank(S, n) == Cardinality({k \in S : k < n})

\* The ranks in a finite set of numbers are the numbers up to its size.
LEMMA Ranks ==
    ASSUME NEW S, IsFiniteSet(S), S \subseteq Nat
    PROVE  /\ Cardinality(S) \in Nat
           /\ \A n \in S : Rank(S, n) \in 0..(Cardinality(S) - 1)
           /\ \A n, m \in S : n < m => Rank(S, n) < Rank(S, m)
           /\ \A i \in 0..(Cardinality(S) - 1) : \E n \in S : Rank(S, n) = i
  <1> DEFINE s == Cardinality(S)
             Below(n) == {k \in S : k < n}
  <1>1. s \in Nat
    BY FS_CardinalityType
  <1>2. ASSUME NEW n \in S
        PROVE  /\ IsFiniteSet(Below(n)) /\ Rank(S, n) \in Nat
               /\ IsFiniteSet(Below(n) \cup {n})
               /\ Cardinality(Below(n) \cup {n}) = Rank(S, n) + 1
    <2>1. Below(n) \in SUBSET S
      OBVIOUS
    <2>2. IsFiniteSet(Below(n))
      BY <2>1, FS_Subset
    <2>3. n \notin Below(n)
      BY <1>2
    <2>4. Cardinality(Below(n)) = Rank(S, n)
      BY DEF Rank
    <2> HIDE DEF Below
    <2>5. Cardinality(Below(n)) \in Nat
      BY <2>2, FS_CardinalityType
    <2> QED
      BY <2>2, <2>3, <2>4, <2>5, FS_AddElement
  <1>3. ASSUME NEW n \in S
        PROVE  Rank(S, n) \in 0..(s - 1)
    <2>1. Below(n) \cup {n} \in SUBSET S
      BY <1>3
    <2>2. Cardinality(Below(n) \cup {n}) <= s
      BY <2>1, FS_Subset
    <2>3. Rank(S, n) \in Nat /\ Rank(S, n) + 1 <= s
      BY <1>2, <2>2
    <2> QED
      BY <1>1, <2>3
  <1>4. ASSUME NEW n \in S, NEW m \in S, n < m
        PROVE  Rank(S, n) < Rank(S, m)
    <2>1. Below(n) \cup {n} \in SUBSET Below(m)
      <3>1. \A k \in S : k \in Nat
        OBVIOUS
      <3>2. \A k \in S : k < n => k < m
        BY <1>4, <3>1
      <3> QED
        BY <1>4, <3>2
    <2>2. Cardinality(Below(n) \cup {n}) <= Cardinality(Below(m))
      BY <1>2, <2>1, FS_Subset
    <2>3. Cardinality(Below(m)) = Rank(S, m)
      BY DEF Rank
    <2>4. /\ Rank(S, n) \in Nat /\ Rank(S, m) \in Nat
          /\ Cardinality(Below(n) \cup {n}) = Rank(S, n) + 1
      BY <1>2
    <2>5. Rank(S, n) + 1 <= Rank(S, m)
      BY <2>2, <2>3, <2>4
    <2> QED
      BY <2>4, <2>5
  <1> DEFINE f == [n \in S |-> Rank(S, n)]
             R == 0..(s - 1)
  <1>5. f \in Injection(S, R)
    <2>1. f \in [S -> R]
      BY <1>3
    <2>2. ASSUME NEW n \in S, NEW m \in S, f[n] = f[m]
          PROVE  n = m
      <3>1. Rank(S, n) = Rank(S, m)
        BY <2>2
      <3>2. Rank(S, n) \in Nat
        BY <1>2
      <3>3. ~(n < m) /\ ~(m < n)
        BY <1>4, <3>1, <3>2
      <3> QED
        BY <3>3
    <2> QED
      BY <2>1, <2>2 DEF Injection, IsInjective
  <1>6. IsFiniteSet(R) /\ Cardinality(R) = s
    <2>0. 0 \in Int /\ s - 1 \in Int
      BY <1>1
    <2>1. IsFiniteSet(R) /\ Cardinality(R) = IF 0 > s - 1 THEN 0 ELSE (s - 1) - 0 + 1
      <3> HIDE DEF s
      <3> QED
        BY <2>0, FS_Interval
    <2> QED
      BY <1>1, <2>1
  <1>7. f \in Surjection(S, R)
    <2> HIDE DEF f, R
    <2> QED
      BY <1>5, <1>6, FS_Injection
  <1>8. \A i \in R : \E n \in S : f[n] = i
    BY <1>7 DEF Surjection
  <1> QED
    BY <1>1, <1>3, <1>4, <1>8

\* A scene as the server may draw it.
IsDrawn(scene) ==
    /\ DOMAIN scene \subseteq 1..(End - 1)
    /\ \A n \in DOMAIN scene : scene[n] \in Nat
    /\ Cardinality(DOMAIN scene) <= NumSnapshotEntities

LEMMA DrawnIs ==
    ASSUME NEW scene, IsDrawn(scene)
    PROVE  /\ IsFiniteSet(DOMAIN scene) /\ Cardinality(DOMAIN scene) \in Nat
           /\ DOMAIN scene \subseteq Nat
           /\ IsScene(EntitiesIn(scene))
  <1> DEFINE D == DOMAIN scene
             E == EntitiesIn(scene)
  <1>1. IsFiniteSet(D) /\ Cardinality(D) \in Nat /\ D \subseteq Nat
    <2>1. D \in SUBSET (1..(End - 1)) /\ D \subseteq Nat
      BY DEF IsDrawn
    <2>2. IsFiniteSet(1..(End - 1))
      <3>1. 1 \in Int /\ End - 1 \in Int
        BY DEF End
      <3> QED
        BY <3>1, FS_Interval
    <2> QED
      BY <2>1, <2>2, FS_Subset, FS_CardinalityType
  <1>2. \A e \in E : e \in Entity /\ e.number < End /\ e.value \in Nat
                     /\ e.number \in D /\ e.value = scene[e.number]
                     /\ e = [number |-> e.number, value |-> e.value]
    <2> SUFFICES ASSUME NEW n \in D, NEW e, e = [number |-> n, value |-> scene[n]]
                 PROVE  /\ e \in Entity /\ e.number < End /\ e.value \in Nat
                        /\ e.number \in D /\ e.value = scene[e.number]
                        /\ e = [number |-> e.number, value |-> e.value]
      BY DEF EntitiesIn
    <2>1. e.number = n /\ e.value = scene[n]
      OBVIOUS
    <2>2. n \in Nat /\ n < End /\ scene[n] \in Nat
      BY DEF IsDrawn, End
    <2> QED
      BY <2>1, <2>2 DEF Entity
  <1>3. \A e, f \in E : e.number = f.number => e = f
    BY <1>2
  <1>4. IsFiniteSet(E)
    <2> DEFINE f == [n \in D |-> [number |-> n, value |-> scene[n]]]
    <2>1. E = {f[n] : n \in D} /\ f = [n \in D |-> f[n]]
      BY DEF EntitiesIn
    <2> HIDE DEF f, D, E
    <2> QED
      BY <1>1, <2>1, FiniteImage
  <1> QED
    BY <1>1, <1>2, <1>3, <1>4 DEF IsScene

\* What is copied out is all there, and nothing else of the last ring is touched.
LEMMA CopiedOut ==
    ASSUME ring \in [0..(NumSnapshotEntities - 1) -> Entity], nextSnapshotEntities \in Nat,
           NEW scene, IsDrawn(scene)
    PROVE  /\ CopyOut(scene) \in [0..(NumSnapshotEntities - 1) -> Entity]
           /\ \A frame : /\ frame.first = nextSnapshotEntities
                         /\ frame.num = Cardinality(DOMAIN scene)
                         => EntitiesOf(frame, CopyOut(scene)) = EntitiesIn(scene)
           /\ \A i \in Int : i < nextSnapshotEntities /\
                 nextSnapshotEntities + Cardinality(DOMAIN scene) - i <= NumSnapshotEntities
                 => CopyOut(scene)[EntitySlot(i)] = ring[EntitySlot(i)]
  <1> DEFINE D == DOMAIN scene
             s == Cardinality(D)
             next == nextSnapshotEntities
             N == NumSnapshotEntities
             out == CopyOut(scene)
             At(i) == {n \in D : EntitySlot(Place(scene, n)) = i}
  <1>1. /\ s \in Nat /\ D \subseteq Nat /\ IsFiniteSet(D) /\ s <= N
        /\ \A n \in D : n \in Nat /\ scene[n] \in Nat
    BY DrawnIs DEF IsDrawn
  <1>2. /\ \A n \in D : Rank(D, n) \in 0..(s - 1)
        /\ \A n, m \in D : n < m => Rank(D, n) < Rank(D, m)
        /\ \A i \in 0..(s - 1) : \E n \in D : Rank(D, n) = i
    BY <1>1, Ranks
  <1>3. \A n : Place(scene, n) = next + Rank(D, n)
    BY DEF Place, Rank
  <1>4. out = [i \in 0..(N - 1) |->
                 IF At(i) = {} THEN ring[i]
                 ELSE [number |-> CHOOSE n \in At(i) : \A k \in At(i) : k <= n,
                       value  |-> scene[CHOOSE n \in At(i) : \A k \in At(i) : k <= n]]]
    BY DEF CopyOut
  <1>5. ASSUME NEW n \in D, NEW m \in D,
               EntitySlot(Place(scene, n)) = EntitySlot(Place(scene, m))
        PROVE  n = m
    <2>1. ASSUME NEW a \in D, NEW b \in D, a < b
          PROVE  EntitySlot(Place(scene, a)) # EntitySlot(Place(scene, b))
      <3>1. Rank(D, a) \in 0..(s - 1) /\ Rank(D, b) \in 0..(s - 1) /\ Rank(D, a) < Rank(D, b)
        BY <1>2, <2>1
      <3>2. /\ next + Rank(D, a) \in Int /\ next + Rank(D, b) \in Int
            /\ next + Rank(D, a) < next + Rank(D, b)
            /\ (next + Rank(D, b)) - (next + Rank(D, a)) < N
        <4> DEFINE x == Rank(D, a)
                   y == Rank(D, b)
        <4>1. s \in Nat /\ s <= N /\ N \in Nat /\ next \in Nat
          BY <1>1, RingAssumption
        <4>2. x \in 0..(s - 1) /\ y \in 0..(s - 1) /\ x < y
          BY <3>1
        <4> HIDE DEF x, y, s, N
        <4>3. /\ next + x \in Int /\ next + y \in Int /\ next + x < next + y
              /\ (next + y) - (next + x) < N
          BY <4>1, <4>2
        <4> QED
          BY <4>3 DEF x, y, N
      <3>3. EntitySlot(next + Rank(D, a)) # EntitySlot(next + Rank(D, b))
        BY <3>2, EntitySlotsApart
      <3> QED
        BY <1>3, <3>3
    <2>2. ~(n < m) /\ ~(m < n)
      BY <1>5, <2>1
    <2> QED
      BY <1>1, <2>2
  <1>6. ASSUME NEW n \in D
        PROVE  out[EntitySlot(Place(scene, n))] = [number |-> n, value |-> scene[n]]
    <2> DEFINE i == EntitySlot(Place(scene, n))
    <2>1. i \in 0..(N - 1)
      <3>1. next + Rank(D, n) \in Int
        BY <1>2
      <3> QED
        BY <1>3, <3>1, SlotTypes
    <2>2. At(i) = {n}
      BY <1>5
    <2> HIDE DEF At, i
    <2>3. (CHOOSE k \in At(i) : \A j \in At(i) : j <= k) = n
      <3>1. n <= n
        BY <1>1
      <3> QED
        BY <2>2, <3>1
    <2>4. out[i] = [number |-> CHOOSE k \in At(i) : \A j \in At(i) : j <= k,
                    value  |-> scene[CHOOSE k \in At(i) : \A j \in At(i) : j <= k]]
      BY <1>4, <2>1, <2>2
    <2> QED
      BY <2>3, <2>4 DEF i
  <1>7. ASSUME NEW i \in 0..(N - 1), At(i) = {}
        PROVE  out[i] = ring[i]
    BY <1>4, <1>7
  <1>8. out \in [0..(N - 1) -> Entity]
    <2>1. ASSUME NEW i \in 0..(N - 1)
          PROVE  out[i] \in Entity
      <3>1. CASE At(i) = {}
        BY <1>7, <3>1
      <3>2. CASE At(i) # {}
        <4>1. PICK n \in D : EntitySlot(Place(scene, n)) = i
          BY <3>2
        <4>2. out[i] = [number |-> n, value |-> scene[n]]
          BY <1>6, <4>1
        <4> QED
          BY <1>1, <4>2 DEF Entity
      <3> QED
        BY <3>1, <3>2
    <2>2. out = [i \in 0..(N - 1) |-> out[i]]
      BY <1>4
    <2> HIDE DEF out
    <2> QED
      BY <2>1, <2>2
  <1> HIDE DEF out
  <1>9. ASSUME NEW frame, frame.first = next, frame.num = s
        PROVE  EntitiesOf(frame, out) = EntitiesIn(scene)
    <2>1. EntitiesOf(frame, out) = {out[EntitySlot(i)] : i \in next..(next + s - 1)}
      BY <1>9 DEF EntitiesOf
    <2>2. ASSUME NEW i \in next..(next + s - 1)
          PROVE  out[EntitySlot(i)] \in EntitiesIn(scene)
      <3>1. i - next \in 0..(s - 1)
        BY <1>1
      <3>2. PICK n \in D : Rank(D, n) = i - next
        BY <1>2, <3>1
      <3>3. Place(scene, n) = i
        BY <1>3, <3>2
      <3> QED
        BY <1>6, <3>3 DEF EntitiesIn
    <2>3. ASSUME NEW e \in EntitiesIn(scene)
          PROVE  e \in EntitiesOf(frame, out)
      <3>1. PICK n \in D : e = [number |-> n, value |-> scene[n]]
        BY DEF EntitiesIn
      <3>2. Place(scene, n) \in next..(next + s - 1)
        BY <1>1, <1>2, <1>3
      <3> QED
        BY <1>6, <2>1, <3>1, <3>2
    <2> QED
      BY <2>1, <2>2, <2>3
  <1>10. ASSUME NEW i \in Int, i < next, next + s - i <= N
         PROVE  out[EntitySlot(i)] = ring[EntitySlot(i)]
    <2>1. EntitySlot(i) \in 0..(N - 1)
      BY SlotTypes
    <2>2. ASSUME NEW n \in D
          PROVE  EntitySlot(Place(scene, n)) # EntitySlot(i)
      <3>1. Place(scene, n) = next + Rank(D, n) /\ Rank(D, n) \in 0..(s - 1)
        BY <1>2, <1>3
      <3>2. /\ Place(scene, n) \in Int /\ i < Place(scene, n)
            /\ Place(scene, n) - i < N
        BY <1>1, <1>10, <3>1, RingAssumption
      <3> QED
        BY <3>2, EntitySlotsApart
    <2>3. At(EntitySlot(i)) = {}
      BY <2>2
    <2> QED
      BY <1>7, <2>1, <2>3
  <1> QED
    BY <1>8, <1>9, <1>10 DEF out

-----------------------------------------------------------------------------
(* The entities the server counts                                          *)

\* The sums of the frames from n up to last.
Sums(g, n, last) ==
    g = [i \in (n - 1)..last |-> IF i < n THEN 0 ELSE g[i - 1] + sv.frames[FrameSlot(i)].num]

\* The recursive function exists.
LEMMA SumsExist ==
    ASSUME NEW n \in Int, NEW c \in Nat
    PROVE  \E g : Sums(g, n, n - 1 + c)
  <1> DEFINE P(k) == \E g : Sums(g, n, n - 1 + k)
             T == {k \in 0..c : P(k)}
             num(i) == sv.frames[FrameSlot(i)].num
  <1>1. P(0)
    <2> DEFINE g == [i \in {n - 1} |-> 0]
    <2>1. (n - 1)..(n - 1 + 0) = {n - 1} /\ n - 1 < n
      OBVIOUS
    <2>2. g = [i \in {n - 1} |-> IF i < n THEN 0 ELSE g[i - 1] + num(i)]
      BY <2>1
    <2> HIDE DEF g
    <2> QED
      BY <2>1, <2>2 DEF Sums
  <1>2. ASSUME NEW k \in 1..c, P(k - 1)
        PROVE  P(k)
    <2> DEFINE a == n - 1
               b == n - 1 + (k - 1)
               z == n - 1 + k
    <2>1. PICK g : Sums(g, n, b)
      BY <1>2
    <2> DEFINE last == g[b] + num(z)
               h == [i \in a..z |-> IF i = z THEN last ELSE g[i]]
               body(i) == IF i < n THEN 0 ELSE h[i - 1] + num(i)
    <2>2. /\ a..z = (a..b) \cup {z} /\ z \notin a..b /\ z - 1 = b /\ b \in a..b /\ ~(z < n)
          /\ \A i \in a..b : ~(i < n) => i - 1 \in a..b
      OBVIOUS
    <2>3. \A i \in a..b : g[i] = IF i < n THEN 0 ELSE g[i - 1] + num(i)
      BY <2>1 DEF Sums
    <2> HIDE DEF a, b, z, num
    <2>4. h[z] = last /\ \A i \in a..b : h[i] = g[i]
      BY <2>2
    <2>5. h = [i \in a..z |-> h[i]]
      OBVIOUS
    <2> HIDE DEF h
    <2>6. \A i \in a..b : h[i] = body(i)
      BY <2>2, <2>3, <2>4
    <2>7. h[z] = body(z)
      BY <2>2, <2>4
    <2>8. h = [i \in a..z |-> body(i)]
      BY <2>2, <2>5, <2>6, <2>7
    <2> QED
      BY <2>8 DEF Sums, a, z, num
  <1> HIDE DEF P
  <1>3. 0 \in T /\ \A k \in 1..c : k - 1 \in T => k \in T
    BY <1>1, <1>2
  <1>4. c \in T
    <2> HIDE DEF T
    <2> QED
      BY <1>3, Upwards
  <1> QED
    BY <1>4 DEF P

\* The count is a natural number.
LEMMA EntitiesSinceType ==
    ASSUME NEW n \in Nat, sv.outgoingSequence \in Nat, n <= sv.outgoingSequence,
           \A i \in Nat : sv.frames[FrameSlot(i)].num \in Nat
    PROVE  EntitiesSince(n) \in Nat
  <1> DEFINE o == sv.outgoingSequence
             since[i \in (n - 1)..(o - 1)] ==
               IF i < n THEN 0 ELSE since[i - 1] + sv.frames[FrameSlot(i)].num
             c == o - n
  <1>1. EntitiesSince(n) = since[o - 1]
    BY DEF EntitiesSince
  <1>2. c \in Nat /\ n - 1 + c = o - 1
    OBVIOUS
  <1>3. Sums(since, n, o - 1)
    <2> HIDE DEF c
    <2>1. \E g : Sums(g, n, n - 1 + c)
      BY <1>2, SumsExist
    <2>2. \E g : Sums(g, n, o - 1)
      BY <1>2, <2>1
    <2> QED
      BY <2>2, Zenon DEF Sums
  <1> HIDE DEF since
  <1>4. \A i \in (n - 1)..(o - 1) :
          since[i] = IF i < n THEN 0 ELSE since[i - 1] + sv.frames[FrameSlot(i)].num
    BY <1>3 DEF Sums
  <1> HIDE DEF o, c
  <1> DEFINE T == {k \in 0..c : since[n - 1 + k] \in Nat}
  <1>5. 0 \in T
    <2>1. n - 1 + 0 = n - 1 /\ n - 1 \in (n - 1)..(o - 1) /\ n - 1 < n
      BY <1>2 DEF o, c
    <2>2. since[n - 1] = 0
      BY <1>4, <2>1
    <2> QED
      BY <1>2, <2>1, <2>2
  <1>6. ASSUME NEW k \in 1..c, k - 1 \in T
        PROVE  k \in T
    <2> DEFINE i == n - 1 + k
    <2>1. /\ i \in (n - 1)..(o - 1) /\ ~(i < n) /\ i \in Nat /\ i - 1 = n - 1 + (k - 1)
          /\ k \in 0..c
      BY <1>2 DEF o, c
    <2>2. since[i - 1] \in Nat
      BY <1>6, <2>1
    <2>3. sv.frames[FrameSlot(i)].num \in Nat
      BY <2>1
    <2>4. since[i] = since[i - 1] + sv.frames[FrameSlot(i)].num
      BY <1>4, <2>1
    <2> HIDE DEF i
    <2>5. since[i] \in Nat
      BY <2>2, <2>3, <2>4
    <2> QED
      BY <2>1, <2>5 DEF i
  <1>7. \A k \in 0..c : k \in T
    <2> HIDE DEF T
    <2>1. \A k \in 1..c : k - 1 \in T => k \in T
      BY <1>6
    <2> QED
      BY <1>2, <1>5, <2>1, Upwards
  <1>8. since[n - 1 + c] \in Nat
    BY <1>2, <1>7
  <1> QED
    BY <1>1, <1>2, <1>8

-----------------------------------------------------------------------------
(* The invariant: the types                                                *)

IsTruth(t) ==
    /\ t = [ps |-> t.ps, entities |-> t.entities]
    /\ t.ps \in Nat /\ IsScene(t.entities)

MessageType(m) ==
    /\ m.sequence \in 1..MaxMessages
    /\ m.snapshot =>
         /\ m.lastframe \in Nat /\ m.ps.from \in Int /\ m.ps.to \in Nat
         /\ IsFiniteSet(m.entities) /\ \A c \in m.entities : c \in Change
         /\ IsTruth(m.truth)

PacketType(p) ==
    /\ p.acknowledge \in 0..MaxMessages
    /\ p.delta => p.acknowledge > 0

\* A slot of the ring of a client whose next entity is number next.
SnapType(snap, next) ==
    /\ snap.valid \in BOOLEAN /\ snap.crowded \in BOOLEAN
    /\ snap.messageNum \in Nat /\ (snap.valid => snap.messageNum > 0)
    /\ HasEntities(snap) /\ snap.parseEntitiesNum + snap.numEntities <= next
    /\ snap.ps \in Int /\ IsTruth(snap.truth)

ServerTypes(s, r, next) ==
    /\ s.state \in {"primed", "active", "zombie"}
    /\ s.outgoingSequence \in 1..(MaxMessages + 1)
    /\ s.deltaMessage \in {-1} \cup 1..MaxMessages
    /\ s.parseEntitiesNum \in Nat
    /\ s.unsent = <<>> \/ s.unsent = <<s.unsent[1]>>
    /\ s.unsent # <<>> => MessageType(s.unsent[1]) /\ s.outgoingSequence <= MaxMessages
    /\ s.frames \in [0..(PACKET_BACKUP - 1) -> Frame]
    /\ \A i \in 0..(PACKET_BACKUP - 1) : s.frames[i].first + s.frames[i].num <= next
    /\ r \in [0..(NumSnapshotEntities - 1) -> Entity]
    /\ next \in 0..MaxEntities

ClientTypes(c, r) ==
    /\ c.serverMessageSequence \in 0..MaxMessages
    /\ c.parseEntitiesNum \in Nat
    /\ \A i \in 0..(PACKET_BACKUP - 1) : SnapType(c.snapshots[i], c.parseEntitiesNum)
    /\ r \in [0..(MAX_PARSE_ENTITIES - 1) -> Entity]

TypeInv ==
    /\ ServerTypes(sv, ring, nextSnapshotEntities)
    /\ ClientTypes(cl, parseEntities)
    /\ \A i \in DOMAIN toClient : MessageType(toClient[i])
    /\ \A i \in DOMAIN toServer : PacketType(toServer[i])

-----------------------------------------------------------------------------
(* The invariant: the truth                                                *)

\* As long as the server can still send a difference from its frame n, that frame
\* is what t says.
FrameIs(s, r, next, n, t) ==
    /\ s.outgoingSequence - n < PACKET_BACKUP
    /\ ~RolledOff(s.frames[FrameSlot(n)], next)
    => /\ EntitiesOf(s.frames[FrameSlot(n)], r) = t.entities
       /\ s.frames[FrameSlot(n)].ps = t.ps

\* A message is the difference between its truth and that of its base at client c.
Differs(c, m) ==
    /\ m.ps.to = m.truth.ps
    /\ m.lastframe = 0 =>
         /\ m.ps.from = Baseline
         /\ m.entities = EmitPacketEntities({}, m.truth.entities)
    /\ m.lastframe # 0 =>
         LET base == c.snapshots[FrameSlot(m.sequence - m.lastframe)].truth
         IN  /\ m.ps.from = base.ps
             /\ m.entities = EmitPacketEntities(base.entities, m.truth.entities)

\* A message under way.
Sound(s, r, next, c, m) ==
    m.snapshot => FrameIs(s, r, next, m.sequence, m.truth) /\ Differs(c, m)

\* A snapshot at the client, as the server remembers it.
Remembered(s, r, next, c) ==
    \A n \in 0..c.snap.messageNum :
        c.snap.messageNum - n < PACKET_BACKUP /\ c.snapshots[FrameSlot(n)].valid =>
            FrameIs(s, r, next, n, c.snapshots[FrameSlot(n)].truth)

\* A snapshot at a client that has ring r and next entity next.
IsTrue(snap, r, next) ==
    snap.valid =>
        /\ snap.ps = snap.truth.ps
        /\ ~snap.crowded /\ next - snap.parseEntitiesNum < MAX_PARSE_ENTITIES =>
             Lists(r, snap.parseEntitiesNum, snap.numEntities, snap.truth.entities)

TruthInv ==
    /\ \A i \in DOMAIN toClient : Sound(sv, ring, nextSnapshotEntities, cl, toClient[i])
    /\ sv.unsent # <<>> => Sound(sv, ring, nextSnapshotEntities, cl, sv.unsent[1])
    /\ Remembered(sv, ring, nextSnapshotEntities, cl)
    /\ \A i \in 0..(PACKET_BACKUP - 1) :
         IsTrue(cl.snapshots[i], parseEntities, cl.parseEntitiesNum)

AllInv == Inv /\ TypeInv /\ TruthInv

-----------------------------------------------------------------------------
(* The server sends                                                        *)

\* Message m has been handed over: it has left or is being sent in fragments.
HandedOver(m) ==
    \/ /\ sv'.unsent = <<m>> /\ sv'.outgoingSequence = sv.outgoingSequence
       /\ toClient' = toClient
    \/ /\ sv'.unsent = <<>> /\ sv'.outgoingSequence = sv.outgoingSequence + 1
       /\ toClient' = Append(toClient, m)

LEMMA Transmits ==
    ASSUME NEW s, NEW m, NEW length, ServerShape(s), s.unsent = <<>>,
           s.outgoingSequence = sv.outgoingSequence, Transmit(s, m, length)
    PROVE  /\ HandedOver(m)
           /\ sv'.frames = s.frames /\ sv'.state = s.state
           /\ sv'.deltaMessage = s.deltaMessage /\ sv'.parseEntitiesNum = s.parseEntitiesNum
           /\ length < FRAGMENT_SIZE /\ length \in Int => sv'.unsent = <<>>
  <1>1. CASE length >= FRAGMENT_SIZE
    <2>1. sv' = [s EXCEPT !.unsent = <<m>>] /\ toClient' = toClient
      BY <1>1 DEF Transmit
    <2>2. ~(length < FRAGMENT_SIZE /\ length \in Int)
      BY <1>1, RingAssumption
    <2>3. /\ sv'.unsent = <<m>> /\ sv'.outgoingSequence = s.outgoingSequence
          /\ sv'.frames = s.frames /\ sv'.state = s.state
          /\ sv'.deltaMessage = s.deltaMessage /\ sv'.parseEntitiesNum = s.parseEntitiesNum
      BY <2>1 DEF ServerShape
    <2> QED
      BY <2>1, <2>2, <2>3 DEF HandedOver
  <1>2. CASE ~(length >= FRAGMENT_SIZE)
    <2> DEFINE next == s.outgoingSequence + 1
    <2>1. sv' = [s EXCEPT !.outgoingSequence = next] /\ toClient' = Append(toClient, m)
      BY <1>2 DEF Transmit
    <2>2. next = sv.outgoingSequence + 1
      OBVIOUS
    <2> HIDE DEF next
    <2>3. /\ sv'.unsent = s.unsent /\ sv'.outgoingSequence = next
          /\ sv'.frames = s.frames /\ sv'.state = s.state
          /\ sv'.deltaMessage = s.deltaMessage /\ sv'.parseEntitiesNum = s.parseEntitiesNum
      BY <2>1 DEF ServerShape
    <2> QED
      BY <2>1, <2>2, <2>3 DEF HandedOver
  <1> QED
    BY <1>1, <1>2

\* What a step that sends the frame of a scene does.
Sending(scene, frame, m) ==
    /\ sv.unsent = <<>> /\ sv.outgoingSequence <= MaxMessages
    /\ IsDrawn(scene) /\ frame \in Frame
    /\ m = SnapshotMessage(frame, scene, nextSnapshotEntities')
    /\ HandedOver(m)
    /\ sv'.frames = [sv.frames EXCEPT ![FrameSlot(sv.outgoingSequence)] = frame]
    /\ sv'.state = sv.state
    /\ sv'.deltaMessage \in {-1, sv.deltaMessage} /\ sv'.parseEntitiesNum \in Nat
    /\ ring' = CopyOut(scene)
    /\ nextSnapshotEntities' = nextSnapshotEntities + Cardinality(DOMAIN scene)
    /\ nextSnapshotEntities' <= MaxEntities
    /\ frame.first + frame.num <= nextSnapshotEntities'
    /\ EntitiesOf(frame, ring') = EntitiesIn(scene)
    /\ UNCHANGED <<cl, parseEntities, toServer>>

LEMMA FrameBuilt ==
    ASSUME TypeInv, NEW old \in Frame, NEW scene, IsDrawn(scene),
           sv.state = "zombie" => scene = <<>>,
           old.first + old.num <= nextSnapshotEntities,
           NEW frame, frame = [BuildFrame(old, scene) EXCEPT !.parseEntities = TRUE]
    PROVE  /\ frame \in Frame
           /\ frame.first + frame.num <= nextSnapshotEntities + Cardinality(DOMAIN scene)
           /\ EntitiesOf(frame, CopyOut(scene)) = EntitiesIn(scene)
  <1>1. /\ sv.outgoingSequence \in Nat /\ nextSnapshotEntities \in Nat
        /\ ring \in [0..(NumSnapshotEntities - 1) -> Entity]
    BY BoundAssumption DEF TypeInv, ServerTypes
  <1>2. Cardinality(DOMAIN scene) \in Nat
    BY DrawnIs
  <1>3. CASE sv.state = "zombie"
    <2> DEFINE none == 0
               yes == TRUE
    <2>1. frame = [[old EXCEPT !.num = none] EXCEPT !.parseEntities = yes]
      BY <1>3 DEF BuildFrame
    <2>a. none \in Nat /\ yes \in BOOLEAN /\ none = 0
      OBVIOUS
    <2> HIDE DEF none, yes
    <2>2. frame \in Frame /\ frame.first = old.first /\ frame.num = 0
      BY <2>1, <2>a DEF Frame
    <2>3. frame.first + frame.num <= nextSnapshotEntities + Cardinality(DOMAIN scene)
      BY <1>1, <1>2, <2>2 DEF Frame
    <2>4. EntitiesOf(frame, CopyOut(scene)) = {}
      <3>1. frame.first \in Nat
        BY <2>2 DEF Frame
      <3>2. \A i : i \notin frame.first..(frame.first + frame.num - 1)
        BY <2>2, <3>1
      <3> QED
        BY <3>2 DEF EntitiesOf
    <2>5. EntitiesIn(scene) = {}
      <3>1. DOMAIN scene = {}
        BY <1>3
      <3> QED
        BY <3>1 DEF EntitiesIn
    <2> QED
      BY <2>2, <2>3, <2>4, <2>5
  <1>4. CASE sv.state # "zombie"
    <2> DEFINE o == sv.outgoingSequence
               n == nextSnapshotEntities
               k == Cardinality(DOMAIN scene)
    <2>1. frame = [[old EXCEPT !.ps = o, !.first = n, !.num = k] EXCEPT !.parseEntities = TRUE]
      BY <1>4 DEF BuildFrame
    <2>2. o \in Nat /\ n \in Nat /\ k \in Nat
      BY <1>1, <1>2
    <2> HIDE DEF o, n, k
    <2>3. frame \in Frame /\ frame.first = n /\ frame.num = k
      BY <2>1, <2>2 DEF Frame
    <2>4. frame.first + frame.num <= n + k
      BY <2>2, <2>3
    <2>5. EntitiesOf(frame, CopyOut(scene)) = EntitiesIn(scene)
      BY <1>1, <2>3, CopiedOut DEF n, k
    <2> QED
      BY <2>3, <2>4, <2>5 DEF n, k
  <1> QED
    BY <1>3, <1>4

LEMMA Sends ==
    ASSUME Inv, TypeInv, SV_SendClientSnapshot
    PROVE  \E scene, frame, m : Sending(scene, frame, m)
  <1> DEFINE slot == FrameSlot(sv.outgoingSequence)
  <1>1. PICK scene \in (IF sv.state = "zombie" THEN {<<>>} ELSE Scenes[sv.outgoingSequence]) :
        LET next  == nextSnapshotEntities + Cardinality(DOMAIN scene)
            frame == [BuildFrame(sv.frames[slot], scene) EXCEPT !.parseEntities = TRUE]
            s     == [sv EXCEPT
                        !.frames[slot] = frame,
                        !.deltaMessage = IF OverrunsClient THEN -1 ELSE @,
                        !.parseEntitiesNum = frame.num + IF OverrunsClient THEN 0 ELSE @]
            m     == SnapshotMessage(frame, scene, next)
        IN  /\ next <= MaxEntities
            /\ ring' = CopyOut(scene)
            /\ nextSnapshotEntities' = next
            /\ Transmit(s, m, Cardinality(m.entities))
    BY Zenon DEF SV_SendClientSnapshot
  <1> DEFINE next  == nextSnapshotEntities + Cardinality(DOMAIN scene)
             frame == [BuildFrame(sv.frames[slot], scene) EXCEPT !.parseEntities = TRUE]
             frames == [sv.frames EXCEPT ![slot] = frame]
             delta == IF OverrunsClient THEN -1 ELSE sv.deltaMessage
             count == frame.num + IF OverrunsClient THEN 0 ELSE sv.parseEntitiesNum
             s     == [sv EXCEPT !.frames = frames, !.deltaMessage = delta,
                                 !.parseEntitiesNum = count]
             m     == SnapshotMessage(frame, scene, next)
  <1>2. /\ Transmit(s, m, Cardinality(m.entities)) /\ next <= MaxEntities
        /\ ring' = CopyOut(scene) /\ nextSnapshotEntities' = next
    BY <1>1
  <1>3. /\ sv.unsent = <<>> /\ sv.outgoingSequence <= MaxMessages
        /\ UNCHANGED <<cl, parseEntities, toServer>>
    BY DEF SV_SendClientSnapshot, CanTransmit
  <1>4. /\ sv.outgoingSequence \in 1..MaxMessages /\ sv.outgoingSequence \in Nat
        /\ sv.parseEntitiesNum \in Nat
        /\ sv.frames \in [0..(PACKET_BACKUP - 1) -> Frame]
        /\ \A i \in 0..(PACKET_BACKUP - 1) :
             sv.frames[i].first + sv.frames[i].num <= nextSnapshotEntities
    BY <1>3, BoundAssumption DEF TypeInv, ServerTypes
  <1>5. slot \in 0..(PACKET_BACKUP - 1)
    BY <1>4, SlotType
  <1>6. IsDrawn(scene) /\ (sv.state = "zombie" => scene = <<>>)
    <2>1. CASE sv.state = "zombie"
      <3>1. scene = <<>> /\ DOMAIN scene = {}
        BY <2>1
      <3>2. Cardinality(DOMAIN scene) = 0
        BY <3>1, FS_EmptySet
      <3> QED
        BY <3>1, <3>2, RingAssumption DEF IsDrawn
    <2>2. CASE sv.state # "zombie"
      <3>1. scene \in Scenes[sv.outgoingSequence]
        BY <2>2
      <3> QED
        BY <1>4, <2>2, <3>1, SceneAssumption DEF IsDrawn
    <2> QED
      BY <2>1, <2>2
  <1> HIDE DEF slot
  <1>7. /\ frame \in Frame
        /\ frame.first + frame.num <= next
        /\ EntitiesOf(frame, CopyOut(scene)) = EntitiesIn(scene)
    <2>1. sv.frames[slot] \in Frame /\ sv.frames[slot].first + sv.frames[slot].num <= nextSnapshotEntities
      BY <1>4, <1>5
    <2> QED
      BY <1>6, <2>1, FrameBuilt
  <1> HIDE DEF frame
  <1>8. count \in Nat
    BY <1>4, <1>7 DEF Frame
  <1>9. /\ ServerShape(s) /\ s.unsent = sv.unsent /\ s.deltaMessage = delta
        /\ s.outgoingSequence = sv.outgoingSequence /\ s.frames = frames
        /\ s.state = sv.state /\ s.parseEntitiesNum = count
    <2>1. ServerShape(sv)
      BY DEF Inv, Typed
    <2>2. s = [sv EXCEPT !.frames = frames, !.deltaMessage = delta, !.parseEntitiesNum = count]
      OBVIOUS
    <2> HIDE DEF s, frames, delta, count
    <2> QED
      BY <2>1, <2>2 DEF ServerShape
  <1>10. delta \in {-1, sv.deltaMessage}
    OBVIOUS
  <1> HIDE DEF s, frames, delta, count, next
  <1>11. /\ HandedOver(m) /\ sv'.frames = frames /\ sv'.state = sv.state
         /\ sv'.deltaMessage = delta /\ sv'.parseEntitiesNum = count
    BY <1>2, <1>3, <1>9, Transmits
  <1>12. m = SnapshotMessage(frame, scene, nextSnapshotEntities')
    BY <1>2
  <1> HIDE DEF m
  <1>13. Sending(scene, frame, m)
    BY <1>2, <1>3, <1>6, <1>7, <1>8, <1>10, <1>11, <1>12
       DEF Sending, next, frames, slot
  <1> QED
    BY <1>13

\* The base of a difference is what the client remembers.
LEMMA BaseIs ==
    ASSUME AllInv, NEW next \in Int, nextSnapshotEntities <= next, HasBase(next)
    PROVE  LET n == sv.deltaMessage
               base == sv.frames[FrameSlot(n)]
               truth == cl.snapshots[FrameSlot(n)].truth
           IN  /\ n \in Nat /\ n < sv.outgoingSequence
               /\ sv.outgoingSequence - n < PACKET_BACKUP
               /\ base \in Frame /\ base.first > next - NumSnapshotEntities
               /\ base.first + base.num <= nextSnapshotEntities
               /\ IsTruth(truth)
               /\ EntitiesOf(base, ring) = truth.entities /\ base.ps = truth.ps
  <1> DEFINE n == sv.deltaMessage
             base == sv.frames[FrameSlot(n)]
             slot == cl.snapshots[FrameSlot(n)]
  <1>1. /\ n > 0 /\ ~TooOld(n) /\ ~RolledOff(base, next)
    BY DEF HasBase
  <1>2. Holds(cl, n) /\ n \in Nat
    BY <1>1 DEF AllInv, Inv, BaseInv, Holds
  <1>3. /\ sv.outgoingSequence \in Nat /\ cl.snap.messageNum \in Nat
        /\ cl.snap.messageNum < sv.outgoingSequence
        /\ PACKET_BACKUP \in Nat /\ PACKET_BACKUP > 3
    BY Types DEF AllInv
  <1>4. n <= cl.snap.messageNum
    BY <1>2 DEF Holds
  <1>5. sv.outgoingSequence - n < PACKET_BACKUP /\ cl.snap.messageNum - n < PACKET_BACKUP
    BY <1>1, <1>2, <1>3 DEF TooOld
  <1>6. FrameSlot(n) \in 0..(PACKET_BACKUP - 1)
    BY <1>2, SlotType
  <1>7. slot.valid = TRUE
    BY <1>2, <1>5 DEF Holds
  <1> HIDE DEF n
  <1>8. n \in 0..cl.snap.messageNum
    BY <1>2, <1>3, <1>4
  <1>9. FrameIs(sv, ring, nextSnapshotEntities, n, slot.truth)
    BY <1>5, <1>7, <1>8 DEF AllInv, TruthInv, Remembered
  <1>10. base \in Frame /\ base.first + base.num <= nextSnapshotEntities
    BY <1>6 DEF AllInv, TypeInv, ServerTypes
  <1>11. base.first \in Nat /\ nextSnapshotEntities \in Int /\ NumSnapshotEntities \in Nat
    BY <1>10, RingAssumption, BoundAssumption DEF Frame, AllInv, TypeInv, ServerTypes
  <1> HIDE DEF base
  <1>12. base.first > next - NumSnapshotEntities
    BY <1>1, <1>11 DEF RolledOff
  <1>13. ~RolledOff(base, nextSnapshotEntities)
    BY <1>11, <1>12 DEF RolledOff
  <1>14. EntitiesOf(base, ring) = slot.truth.entities /\ base.ps = slot.truth.ps
    BY <1>5, <1>9, <1>13 DEF FrameIs, base
  <1>15. IsTruth(slot.truth)
    BY <1>6 DEF AllInv, TypeInv, ClientTypes, SnapType
  <1>16. n < sv.outgoingSequence
    BY <1>2, <1>3, <1>4
  <1> QED
    BY <1>2, <1>5, <1>10, <1>12, <1>14, <1>15, <1>16 DEF base, n

\* A message is a difference from what the client remembers, to the scene.
LEMMA SentMessage ==
    ASSUME AllInv, NEW scene, NEW frame, NEW m, Sending(scene, frame, m)
    PROVE  /\ m.snapshot = TRUE /\ m.sequence = sv.outgoingSequence
           /\ MessageType(m) /\ Differs(cl, m)
           /\ EntitiesOf(frame, ring') = m.truth.entities /\ frame.ps = m.truth.ps
  <1> DEFINE next == nextSnapshotEntities'
             n == sv.deltaMessage
             base == sv.frames[FrameSlot(n)]
             truth == cl.snapshots[FrameSlot(n)].truth
             T == EntitiesIn(scene)
             from == IF HasBase(next) THEN base.ps ELSE Baseline
             last == IF HasBase(next) THEN sv.outgoingSequence - n ELSE 0
             B == IF HasBase(next) THEN EntitiesOf(base, ring') ELSE {}
             o == sv.outgoingSequence
  <1>1. /\ sv.outgoingSequence <= MaxMessages /\ IsDrawn(scene) /\ frame \in Frame
        /\ m = SnapshotMessage(frame, scene, next) /\ ring' = CopyOut(scene)
        /\ next = nextSnapshotEntities + Cardinality(DOMAIN scene)
        /\ EntitiesOf(frame, ring') = T
    BY DEF Sending
  <1>2. m = [snapshot |-> TRUE, sequence |-> o, lastframe |-> last,
             ps |-> [from |-> from, to |-> frame.ps],
             entities |-> EmitPacketEntities(B, EntitiesOf(frame, ring')),
             truth |-> [ps |-> frame.ps, entities |-> T]]
    BY <1>1 DEF SnapshotMessage
  <1>3. /\ o \in 1..MaxMessages /\ o \in Nat /\ nextSnapshotEntities \in Nat
        /\ ring \in [0..(NumSnapshotEntities - 1) -> Entity]
        /\ Cardinality(DOMAIN scene) \in Nat /\ IsScene(T)
    BY <1>1, DrawnIs, BoundAssumption DEF AllInv, TypeInv, ServerTypes
  <1>4. next \in Int /\ nextSnapshotEntities <= next
    BY <1>1, <1>3
  <1> HIDE DEF T, B, from, last, next, o
  <1>5. /\ m.snapshot = TRUE /\ m.sequence = o /\ m.lastframe = last
        /\ m.ps.from = from /\ m.ps.to = frame.ps
        /\ m.entities = EmitPacketEntities(B, T)
        /\ m.truth.ps = frame.ps /\ m.truth.entities = T
        /\ m.truth = [ps |-> m.truth.ps, entities |-> m.truth.entities]
    BY <1>1, <1>2
  <1>6. ASSUME HasBase(next)
        PROVE  last \in Nat /\ Differs(cl, m) /\ IsScene(B) /\ from \in Int
    <2>1. /\ n \in Nat /\ n < sv.outgoingSequence
          /\ base \in Frame /\ base.first > next - NumSnapshotEntities
          /\ base.first + base.num <= nextSnapshotEntities
          /\ IsTruth(truth)
          /\ EntitiesOf(base, ring) = truth.entities /\ base.ps = truth.ps
      BY <1>4, <1>6, BaseIs
    <2> HIDE DEF base, n, truth
    <2>2. base.first \in Nat /\ base.num \in Nat
      BY <2>1 DEF Frame
    <2>3. \A i \in base.first..(base.first + base.num - 1) :
            ring'[EntitySlot(i)] = ring[EntitySlot(i)]
      <3> SUFFICES ASSUME NEW i \in base.first..(base.first + base.num - 1)
                   PROVE  ring'[EntitySlot(i)] = ring[EntitySlot(i)]
        OBVIOUS
      <3>1. /\ i \in Int /\ i < nextSnapshotEntities
            /\ nextSnapshotEntities + Cardinality(DOMAIN scene) - i <= NumSnapshotEntities
        <4> DEFINE k == Cardinality(DOMAIN scene)
                   now == nextSnapshotEntities
                   N == NumSnapshotEntities
        <4>1. k \in Nat /\ now \in Nat /\ N \in Nat /\ next = now + k
          BY <1>1, <1>3, RingAssumption
        <4>2. base.first > next - N /\ base.first + base.num <= now
          BY <2>1
        <4> HIDE DEF k, now, N
        <4>3. i \in Int /\ i < now /\ now + k - i <= N
          BY <2>2, <4>1, <4>2
        <4> QED
          BY <4>3 DEF k, now, N
      <3> QED
        BY <1>1, <1>3, <3>1, CopiedOut
    <2>4. B = truth.entities
      <3>1. EntitiesOf(base, ring') = EntitiesOf(base, ring)
        BY <2>3 DEF EntitiesOf
      <3> QED
        BY <1>6, <2>1, <3>1 DEF B
    <2>5. last = o - n /\ last # 0 /\ last \in Nat /\ o - last = n /\ from = truth.ps
      BY <1>3, <1>6, <2>1 DEF last, from, o, n, base
    <2>6. Differs(cl, m)
      <3>1. m.sequence - m.lastframe = n
        BY <1>5, <2>5
      <3> QED
        BY <1>5, <2>4, <2>5, <3>1 DEF Differs, truth, n
    <2>7. IsScene(B) /\ from \in Int
      BY <2>1, <2>4, <2>5 DEF IsTruth
    <2> QED
      BY <2>5, <2>6, <2>7
  <1>7. ASSUME ~HasBase(next)
        PROVE  last \in Nat /\ Differs(cl, m) /\ IsScene(B) /\ from \in Int
    <2>1. last = 0 /\ from = Baseline /\ B = {}
      BY <1>7 DEF last, from, B
    <2>2. Differs(cl, m)
      BY <1>5, <2>1 DEF Differs
    <2>3. IsScene(B) /\ from \in Int
      BY <2>1, FS_EmptySet DEF IsScene, Baseline
    <2> QED
      BY <2>1, <2>2, <2>3
  <1>8. last \in Nat /\ Differs(cl, m) /\ IsScene(B) /\ from \in Int
    BY <1>6, <1>7
  <1>9. IsFiniteSet(m.entities) /\ \A c \in m.entities : c \in Change
    BY <1>3, <1>5, <1>8, EmitFinite, EmitKinds
  <1>10. frame.ps \in Nat
    BY <1>1 DEF Frame
  <1>11. MessageType(m)
    BY <1>3, <1>5, <1>8, <1>9, <1>10 DEF MessageType, IsTruth
  <1> QED
    BY <1>1, <1>5, <1>8, <1>11 DEF o

\* What the frames are, up to message number last, they still are after a step.
FramesKept(last) ==
    \A n \in 0..last : \A t :
        FrameIs(sv, ring, nextSnapshotEntities, n, t) =>
            FrameIs(sv', ring', nextSnapshotEntities', n, t)

\* So it is if a step writes to no frame that is in use, and to the ring only
\* where it goes on.
LEMMA KeepsFrames ==
    ASSUME AllInv, NEW last \in Int,
           sv'.outgoingSequence \in Int, sv.outgoingSequence <= sv'.outgoingSequence,
           nextSnapshotEntities' \in Int, nextSnapshotEntities <= nextSnapshotEntities',
           \A n \in 0..last :
             sv'.outgoingSequence - n < PACKET_BACKUP =>
               /\ sv'.frames[FrameSlot(n)].first = sv.frames[FrameSlot(n)].first
               /\ sv'.frames[FrameSlot(n)].num = sv.frames[FrameSlot(n)].num
               /\ sv'.frames[FrameSlot(n)].ps = sv.frames[FrameSlot(n)].ps,
           \A i \in Int : i < nextSnapshotEntities /\
             nextSnapshotEntities' - i <= NumSnapshotEntities
             => ring'[EntitySlot(i)] = ring[EntitySlot(i)]
    PROVE  FramesKept(last)
  <1> SUFFICES ASSUME NEW n \in 0..last, NEW t,
                      FrameIs(sv, ring, nextSnapshotEntities, n, t)
               PROVE  FrameIs(sv', ring', nextSnapshotEntities', n, t)
    BY DEF FramesKept
  <1> DEFINE f == sv.frames[FrameSlot(n)]
             g == sv'.frames[FrameSlot(n)]
             now == nextSnapshotEntities
             next == nextSnapshotEntities'
             N == NumSnapshotEntities
  <1>1. /\ sv.outgoingSequence \in Nat /\ n \in Nat /\ N \in Nat /\ now \in Nat /\ next \in Int
        /\ PACKET_BACKUP \in Nat /\ now <= next
    BY Types, RingAssumption, BoundAssumption DEF AllInv, TypeInv, ServerTypes
  <1>2. f \in Frame /\ f.first + f.num <= now
    <2>1. FrameSlot(n) \in 0..(PACKET_BACKUP - 1)
      BY <1>1, SlotType
    <2> QED
      BY <2>1 DEF AllInv, TypeInv, ServerTypes
  <1>3. f.first \in Nat /\ f.num \in Nat
    BY <1>2 DEF Frame
  <1>4. SUFFICES ASSUME sv'.outgoingSequence - n < PACKET_BACKUP, ~RolledOff(g, next)
                 PROVE  EntitiesOf(g, ring') = t.entities /\ g.ps = t.ps
    BY DEF FrameIs
  <1>5. g.first = f.first /\ g.num = f.num /\ g.ps = f.ps
    BY <1>4
  <1>6. sv.outgoingSequence - n < PACKET_BACKUP
    BY <1>1, <1>4
  <1>7. ~RolledOff(f, now) /\ f.first > next - N
    <2>1. ~(f.first <= next - N)
      BY <1>4, <1>5 DEF RolledOff
    <2> HIDE DEF f, now, next, N
    <2>2. f.first > next - N /\ ~(f.first <= now - N)
      BY <1>1, <1>3, <2>1
    <2> QED
      BY <2>2 DEF RolledOff, N
  <1>8. EntitiesOf(f, ring) = t.entities /\ f.ps = t.ps
    BY <1>6, <1>7 DEF FrameIs
  <1>9. \A i \in f.first..(f.first + f.num - 1) : ring'[EntitySlot(i)] = ring[EntitySlot(i)]
    <2> SUFFICES ASSUME NEW i \in f.first..(f.first + f.num - 1)
                 PROVE  ring'[EntitySlot(i)] = ring[EntitySlot(i)]
      OBVIOUS
    <2> HIDE DEF f, now, next, N
    <2>1. f.first + f.num <= now /\ f.first > next - N
      BY <1>2, <1>7
    <2>2. i \in Int /\ i < now /\ next - i <= N
      BY <1>1, <1>3, <2>1
    <2> QED
      BY <2>2 DEF now, next, N
  <1>10. EntitiesOf(g, ring') = EntitiesOf(f, ring)
    <2> HIDE DEF f, g
    <2> QED
      BY <1>5, <1>9 DEF EntitiesOf
  <1> QED
    BY <1>5, <1>8, <1>10

\* Then all that was sent and the client has is as true as it was.
LEMMA ServerStep ==
    ASSUME AllInv, FramesKept(sv.outgoingSequence - 1), UNCHANGED <<cl, parseEntities>>
    PROVE  /\ \A i \in DOMAIN toClient :
                /\ MessageType(toClient[i])
                /\ Sound(sv', ring', nextSnapshotEntities', cl', toClient[i])
           /\ Remembered(sv', ring', nextSnapshotEntities', cl')
           /\ \A i \in 0..(PACKET_BACKUP - 1) :
                IsTrue(cl'.snapshots[i], parseEntities', cl'.parseEntitiesNum)
           /\ ClientTypes(cl', parseEntities')
  <1>1. \A i \in DOMAIN toClient : MessageType(toClient[i])
    BY DEF AllInv, TypeInv
  <1>2. ASSUME NEW i \in DOMAIN toClient
        PROVE  Sound(sv', ring', nextSnapshotEntities', cl', toClient[i])
    <2> DEFINE m == toClient[i]
    <2>1. m.sequence \in 0..(sv.outgoingSequence - 1)
      BY <1>2, Types DEF AllInv, Inv, Typed, OrderInv
    <2>2. Sound(sv, ring, nextSnapshotEntities, cl, m)
      BY <1>2 DEF AllInv, TruthInv
    <2> HIDE DEF m
    <2>3. cl' = cl
      OBVIOUS
    <2>4. Sound(sv', ring', nextSnapshotEntities', cl', m)
      BY <2>1, <2>2, <2>3 DEF Sound, FramesKept
    <2> QED
      BY <2>4 DEF m
  <1>3. Remembered(sv', ring', nextSnapshotEntities', cl')
    <2>1. \A n \in 0..cl.snap.messageNum : n \in 0..(sv.outgoingSequence - 1)
      BY Types DEF AllInv
    <2>2. Remembered(sv, ring, nextSnapshotEntities, cl)
      BY DEF AllInv, TruthInv
    <2>3. Remembered(sv', ring', nextSnapshotEntities', cl)
      BY <2>1, <2>2 DEF Remembered, FramesKept
    <2> QED
      BY <2>3
  <1>4. \A i \in 0..(PACKET_BACKUP - 1) :
          IsTrue(cl'.snapshots[i], parseEntities', cl'.parseEntitiesNum)
    BY DEF AllInv, TruthInv
  <1>5. ClientTypes(cl', parseEntities')
    BY DEF AllInv, TypeInv
  <1> QED
    BY <1>1, <1>2, <1>3, <1>4, <1>5

\* And so it is with a message that is handed over.
LEMMA HandsOver ==
    ASSUME AllInv, FramesKept(sv.outgoingSequence - 1), UNCHANGED <<cl, parseEntities>>,
           NEW m, HandedOver(m), MessageType(m),
           Sound(sv', ring', nextSnapshotEntities', cl', m)
    PROVE  /\ \A i \in DOMAIN toClient' :
                /\ MessageType(toClient'[i])
                /\ Sound(sv', ring', nextSnapshotEntities', cl', toClient'[i])
           /\ sv'.unsent # <<>> => /\ MessageType(sv'.unsent[1])
                                   /\ Sound(sv', ring', nextSnapshotEntities', cl', sv'.unsent[1])
           /\ sv'.unsent = <<>> \/ sv'.unsent = <<sv'.unsent[1]>>
  <1>1. \A i \in DOMAIN toClient :
          /\ MessageType(toClient[i])
          /\ Sound(sv', ring', nextSnapshotEntities', cl', toClient[i])
    BY ServerStep
  <1>2. CASE sv'.unsent = <<m>> /\ toClient' = toClient
    <2>1. sv'.unsent[1] = m
      BY <1>2
    <2> QED
      BY <1>1, <1>2, <2>1
  <1>3. CASE sv'.unsent = <<>> /\ toClient' = Append(toClient, m)
    <2>1. Listed(toClient)
      BY DEF AllInv, Inv, Typed
    <2>2. /\ DOMAIN toClient = 1..Len(toClient) /\ Len(toClient) \in Nat
          /\ DOMAIN toClient' = 1..(Len(toClient) + 1)
          /\ toClient'[Len(toClient) + 1] = m
          /\ \A i \in 1..Len(toClient) : toClient'[i] = toClient[i]
      BY <1>3, <2>1, Appended
    <2>3. \A i \in DOMAIN toClient' : i \in 1..Len(toClient) \/ i = Len(toClient) + 1
      BY <2>2
    <2>4. \A i \in DOMAIN toClient' :
            /\ MessageType(toClient'[i])
            /\ Sound(sv', ring', nextSnapshotEntities', cl', toClient'[i])
      BY <1>1, <2>2, <2>3
    <2> QED
      BY <1>3, <2>4
  <1> QED
    BY <1>2, <1>3 DEF HandedOver

LEMMA SendsTruth ==
    ASSUME AllInv, SV_SendClientSnapshot
    PROVE  TypeInv' /\ TruthInv'
  <1>1. PICK scene, frame, m : Sending(scene, frame, m)
    BY Sends DEF AllInv
  <1> DEFINE o == sv.outgoingSequence
             slot == FrameSlot(o)
  <1>2. /\ sv.unsent = <<>> /\ o <= MaxMessages /\ IsDrawn(scene) /\ frame \in Frame
        /\ HandedOver(m)
        /\ sv'.frames = [sv.frames EXCEPT ![slot] = frame] /\ sv'.state = sv.state
        /\ sv'.deltaMessage \in {-1, sv.deltaMessage} /\ sv'.parseEntitiesNum \in Nat
        /\ ring' = CopyOut(scene)
        /\ nextSnapshotEntities' = nextSnapshotEntities + Cardinality(DOMAIN scene)
        /\ nextSnapshotEntities' <= MaxEntities
        /\ frame.first + frame.num <= nextSnapshotEntities'
        /\ UNCHANGED <<cl, parseEntities, toServer>>
    BY <1>1 DEF Sending
  <1>3. /\ m.snapshot = TRUE /\ m.sequence = o
        /\ MessageType(m) /\ Differs(cl, m)
        /\ EntitiesOf(frame, ring') = m.truth.entities /\ frame.ps = m.truth.ps
    BY <1>1, SentMessage
  <1>4. /\ o \in Nat /\ o \in 1..(MaxMessages + 1) /\ sv'.outgoingSequence \in {o, o + 1}
        /\ (sv'.unsent # <<>> => sv'.outgoingSequence = o)
        /\ MaxMessages \in Nat /\ MaxEntities \in Nat
        /\ nextSnapshotEntities \in Nat /\ Cardinality(DOMAIN scene) \in Nat
        /\ PACKET_BACKUP \in Nat /\ PACKET_BACKUP > 3
        /\ nextSnapshotEntities <= nextSnapshotEntities'
    <2>1. /\ MaxMessages \in Nat /\ MaxEntities \in Nat
          /\ PACKET_BACKUP \in Nat /\ PACKET_BACKUP > 3
      BY BoundAssumption, RingAssumption
    <2>2. /\ o \in Nat /\ o \in 1..(MaxMessages + 1) /\ nextSnapshotEntities \in Nat
      BY <2>1 DEF AllInv, TypeInv, ServerTypes
    <2>3. Cardinality(DOMAIN scene) \in Nat
      BY <1>2, DrawnIs
    <2>4. /\ sv'.outgoingSequence \in {o, o + 1}
          /\ (sv'.unsent # <<>> => sv'.outgoingSequence = o)
      BY <1>2 DEF HandedOver
    <2>5. nextSnapshotEntities <= nextSnapshotEntities'
      BY <1>2, <2>2, <2>3
    <2> QED
      BY <2>1, <2>2, <2>3, <2>4, <2>5
  <1>5. /\ sv.frames \in [0..(PACKET_BACKUP - 1) -> Frame]
        /\ \A i \in 0..(PACKET_BACKUP - 1) :
             sv.frames[i].first + sv.frames[i].num <= nextSnapshotEntities
        /\ ring \in [0..(NumSnapshotEntities - 1) -> Entity]
        /\ sv.state \in {"primed", "active", "zombie"}
        /\ sv.deltaMessage \in {-1} \cup 1..MaxMessages
    BY DEF AllInv, TypeInv, ServerTypes
  <1>6. slot \in 0..(PACKET_BACKUP - 1) /\ sv'.frames[slot] = frame
    BY <1>2, <1>4, <1>5, SlotType
  <1>7. \A n \in 0..(o - 1) : o - n < PACKET_BACKUP => sv'.frames[FrameSlot(n)] = sv.frames[FrameSlot(n)]
    <2> SUFFICES ASSUME NEW n \in 0..(o - 1), o - n < PACKET_BACKUP
                 PROVE  sv'.frames[FrameSlot(n)] = sv.frames[FrameSlot(n)]
      OBVIOUS
    <2>1. n \in Nat /\ n < o
      BY <1>4
    <2>2. FrameSlot(n) # slot /\ FrameSlot(n) \in 0..(PACKET_BACKUP - 1)
      BY <1>4, <2>1, SlotsApart, SlotType
    <2> QED
      BY <1>2, <1>5, <2>2
  <1> HIDE DEF slot, o
  <1>8. FramesKept(sv.outgoingSequence - 1)
    <2>1. /\ sv'.outgoingSequence \in Int /\ sv.outgoingSequence <= sv'.outgoingSequence
          /\ nextSnapshotEntities' \in Int /\ nextSnapshotEntities <= nextSnapshotEntities'
      BY <1>2, <1>4 DEF o
    <2>2. \A n \in 0..(sv.outgoingSequence - 1) : sv'.outgoingSequence - n < PACKET_BACKUP =>
            sv'.frames[FrameSlot(n)] = sv.frames[FrameSlot(n)]
      <3>1. \A n \in 0..(o - 1) : sv'.outgoingSequence - n < PACKET_BACKUP => o - n < PACKET_BACKUP
        BY <1>4
      <3> QED
        BY <1>7, <3>1 DEF o
    <2>3. \A i \in Int : i < nextSnapshotEntities /\
             nextSnapshotEntities' - i <= NumSnapshotEntities
             => ring'[EntitySlot(i)] = ring[EntitySlot(i)]
      <3> SUFFICES ASSUME NEW i \in Int, i < nextSnapshotEntities,
                          nextSnapshotEntities' - i <= NumSnapshotEntities
                   PROVE  ring'[EntitySlot(i)] = ring[EntitySlot(i)]
        OBVIOUS
      <3>0. nextSnapshotEntities' = nextSnapshotEntities + Cardinality(DOMAIN scene)
        BY <1>2
      <3>1. nextSnapshotEntities + Cardinality(DOMAIN scene) - i <= NumSnapshotEntities
        <4> DEFINE now == nextSnapshotEntities
                   k == Cardinality(DOMAIN scene)
                   later == nextSnapshotEntities'
        <4>1. /\ later = now + k /\ later - i <= NumSnapshotEntities
              /\ now \in Nat /\ k \in Nat /\ NumSnapshotEntities \in Nat
          BY <1>4, <3>0, RingAssumption
        <4> HIDE DEF now, k, later
        <4>2. now + k - i <= NumSnapshotEntities
          BY <4>1
        <4> QED
          BY <4>2 DEF now, k
      <3> QED
        BY <1>2, <1>4, <1>5, <3>1, CopiedOut
    <2>4. sv.outgoingSequence - 1 \in Int
      BY <1>4 DEF o
    <2> QED
      BY <2>1, <2>2, <2>3, <2>4, KeepsFrames
  <1>9. Sound(sv', ring', nextSnapshotEntities', cl', m)
    <2>1. FrameIs(sv', ring', nextSnapshotEntities', m.sequence, m.truth)
      BY <1>3, <1>6 DEF FrameIs, slot
    <2>2. cl' = cl
      BY <1>2
    <2> QED
      BY <1>3, <2>1, <2>2 DEF Sound
  <1>10. /\ \A i \in DOMAIN toClient' :
              /\ MessageType(toClient'[i])
              /\ Sound(sv', ring', nextSnapshotEntities', cl', toClient'[i])
         /\ sv'.unsent # <<>> => /\ MessageType(sv'.unsent[1])
                                 /\ Sound(sv', ring', nextSnapshotEntities', cl', sv'.unsent[1])
         /\ sv'.unsent = <<>> \/ sv'.unsent = <<sv'.unsent[1]>>
    BY <1>2, <1>3, <1>8, <1>9, HandsOver
  <1>11. /\ Remembered(sv', ring', nextSnapshotEntities', cl')
         /\ \A i \in 0..(PACKET_BACKUP - 1) :
              IsTrue(cl'.snapshots[i], parseEntities', cl'.parseEntitiesNum)
         /\ ClientTypes(cl', parseEntities')
    BY <1>2, <1>8, ServerStep
  <1>12. ServerTypes(sv', ring', nextSnapshotEntities')
    <2>1. sv'.frames \in [0..(PACKET_BACKUP - 1) -> Frame]
      BY <1>2, <1>5
    <2>2. \A i \in 0..(PACKET_BACKUP - 1) :
            sv'.frames[i].first + sv'.frames[i].num <= nextSnapshotEntities'
      <3> SUFFICES ASSUME NEW i \in 0..(PACKET_BACKUP - 1)
                   PROVE  sv'.frames[i].first + sv'.frames[i].num <= nextSnapshotEntities'
        OBVIOUS
      <3>1. CASE i = slot
        BY <1>2, <1>6, <3>1
      <3>2. CASE i # slot
        <4>1. sv'.frames[i] = sv.frames[i]
          BY <1>2, <1>5, <3>2
        <4>2. sv.frames[i] \in Frame /\ sv.frames[i].first + sv.frames[i].num <= nextSnapshotEntities
          BY <1>5
        <4>3. sv.frames[i].first \in Nat /\ sv.frames[i].num \in Nat
          BY <4>2 DEF Frame
        <4> DEFINE past == sv.frames[i].first + sv.frames[i].num
                   now == nextSnapshotEntities
                   later == nextSnapshotEntities'
        <4>4. past \in Int /\ now \in Int /\ later \in Int /\ past <= now /\ now <= later
          <5>1. past \in Int /\ past <= now
            BY <4>2, <4>3
          <5>2. now \in Nat /\ now <= later
            BY <1>4
          <5>3. later = now + Cardinality(DOMAIN scene) /\ Cardinality(DOMAIN scene) \in Nat
            BY <1>2, <1>4
          <5> HIDE DEF past, now, later
          <5> QED
            BY <5>1, <5>2, <5>3
        <4> HIDE DEF past, now, later
        <4>5. past <= later
          BY <4>4
        <4> QED
          BY <4>1, <4>5 DEF past, later
      <3> QED
        BY <3>1, <3>2
    <2>3. ring' \in [0..(NumSnapshotEntities - 1) -> Entity]
      BY <1>2, <1>4, <1>5, CopiedOut
    <2>4. nextSnapshotEntities' \in 0..MaxEntities
      BY <1>2, <1>4
    <2>5. /\ sv'.outgoingSequence \in 1..(MaxMessages + 1)
          /\ sv'.unsent # <<>> => sv'.outgoingSequence <= MaxMessages
      BY <1>2, <1>4
    <2>6. sv'.deltaMessage \in {-1} \cup 1..MaxMessages
      BY <1>2, <1>5
    <2> QED
      BY <1>2, <1>5, <1>10, <2>1, <2>2, <2>3, <2>4, <2>5, <2>6 DEF ServerTypes
  <1>13. TypeInv'
    <2>1. \A i \in DOMAIN toServer' : PacketType(toServer'[i])
      BY <1>2 DEF AllInv, TypeInv
    <2> QED
      BY <1>10, <1>11, <1>12, <2>1 DEF TypeInv
  <1>14. TruthInv'
    BY <1>10, <1>11 DEF TruthInv
  <1> QED
    BY <1>13, <1>14

\* A step that builds no frame and sends nothing: whatever is still under way or
\* being sent is as true as it was.
LEMMA NothingSent ==
    ASSUME AllInv, UNCHANGED <<cl, parseEntities>>, sv'.unsent = sv.unsent,
           sv'.outgoingSequence = sv.outgoingSequence, sv'.frames = sv.frames,
           sv'.state \in {"primed", "active", "zombie"},
           sv'.deltaMessage \in {-1} \cup 1..MaxMessages, sv'.parseEntitiesNum \in Nat,
           nextSnapshotEntities' \in 0..MaxEntities,
           nextSnapshotEntities <= nextSnapshotEntities',
           ring' \in [0..(NumSnapshotEntities - 1) -> Entity],
           \A i \in Int : i < nextSnapshotEntities /\
             nextSnapshotEntities' - i <= NumSnapshotEntities
             => ring'[EntitySlot(i)] = ring[EntitySlot(i)],
           \A i \in DOMAIN toClient' : \E j \in DOMAIN toClient : toClient'[i] = toClient[j],
           \A i \in DOMAIN toServer' : PacketType(toServer'[i])
    PROVE  TypeInv' /\ TruthInv'
  <1> DEFINE o == sv.outgoingSequence
             next == nextSnapshotEntities'
  <1>1. /\ o \in Nat /\ nextSnapshotEntities \in Nat /\ next \in Int
        /\ o - 1 \in Int /\ o \in Int
    BY Types, BoundAssumption DEF AllInv, TypeInv, ServerTypes
  <1>2. FramesKept(o) /\ FramesKept(o - 1)
    <2>1. sv'.outgoingSequence \in Int /\ sv.outgoingSequence <= sv'.outgoingSequence
      BY <1>1
    <2>2. \A n : /\ sv'.frames[FrameSlot(n)].first = sv.frames[FrameSlot(n)].first
                 /\ sv'.frames[FrameSlot(n)].num = sv.frames[FrameSlot(n)].num
                 /\ sv'.frames[FrameSlot(n)].ps = sv.frames[FrameSlot(n)].ps
      OBVIOUS
    <2> HIDE DEF o
    <2>3. FramesKept(o)
      BY <1>1, <2>1, <2>2, KeepsFrames
    <2>4. FramesKept(o - 1)
      BY <1>1, <2>1, <2>2, KeepsFrames
    <2> QED
      BY <2>3, <2>4
  <1>3. /\ \A i \in DOMAIN toClient :
             /\ MessageType(toClient[i])
             /\ Sound(sv', ring', nextSnapshotEntities', cl', toClient[i])
        /\ Remembered(sv', ring', nextSnapshotEntities', cl')
        /\ \A i \in 0..(PACKET_BACKUP - 1) :
             IsTrue(cl'.snapshots[i], parseEntities', cl'.parseEntitiesNum)
        /\ ClientTypes(cl', parseEntities')
    BY <1>2, ServerStep
  <1>4. \A i \in DOMAIN toClient' : /\ MessageType(toClient'[i])
                                    /\ Sound(sv', ring', nextSnapshotEntities', cl', toClient'[i])
    BY <1>3
  <1>5. sv'.unsent # <<>> => Sound(sv', ring', nextSnapshotEntities', cl', sv'.unsent[1])
    <2> SUFFICES ASSUME sv.unsent # <<>>
                 PROVE  Sound(sv', ring', nextSnapshotEntities', cl', sv.unsent[1])
      OBVIOUS
    <2> DEFINE m == sv.unsent[1]
    <2>1. Sound(sv, ring, nextSnapshotEntities, cl, m) /\ m.sequence = o
      BY DEF AllInv, TruthInv, Inv, BaseInv, UnsentInv
    <2>2. cl' = cl /\ o \in 0..o
      BY <1>1
    <2> HIDE DEF m
    <2>3. Sound(sv', ring', nextSnapshotEntities', cl', m)
      BY <1>2, <2>1, <2>2 DEF Sound, FramesKept
    <2> QED
      BY <2>3 DEF m
  <1>6. ServerTypes(sv', ring', nextSnapshotEntities')
    <2>1. ServerTypes(sv, ring, nextSnapshotEntities)
      BY DEF AllInv, TypeInv
    <2>2. \A i \in 0..(PACKET_BACKUP - 1) : sv'.frames[i].first + sv'.frames[i].num <= next
      <3> SUFFICES ASSUME NEW i \in 0..(PACKET_BACKUP - 1)
                   PROVE  sv.frames[i].first + sv.frames[i].num <= next
        OBVIOUS
      <3>1. sv.frames[i] \in Frame /\ sv.frames[i].first + sv.frames[i].num <= nextSnapshotEntities
        BY <2>1 DEF ServerTypes
      <3>2. sv.frames[i].first \in Nat /\ sv.frames[i].num \in Nat
        BY <3>1 DEF Frame
      <3> QED
        BY <1>1, <3>1, <3>2
    <2> QED
      BY <2>1, <2>2 DEF ServerTypes
  <1>7. TypeInv'
    BY <1>3, <1>4, <1>6 DEF TypeInv
  <1>8. TruthInv'
    BY <1>3, <1>4, <1>5 DEF TruthInv
  <1> QED
    BY <1>7, <1>8

LEMMA DropTruth ==
    ASSUME AllInv, SV_DropClient
    PROVE  TypeInv' /\ TruthInv'
  <1> DEFINE zombie == "zombie"
  <1>1. ServerShape(sv)
    BY DEF AllInv, Inv, Typed
  <1>2. /\ sv' = [sv EXCEPT !.state = zombie]
        /\ UNCHANGED <<ring, nextSnapshotEntities, cl, parseEntities, toClient, toServer>>
    BY DEF SV_DropClient
  <1> HIDE DEF zombie
  <1>3. /\ sv'.unsent = sv.unsent /\ sv'.outgoingSequence = sv.outgoingSequence
        /\ sv'.frames = sv.frames /\ sv'.deltaMessage = sv.deltaMessage
        /\ sv'.parseEntitiesNum = sv.parseEntitiesNum /\ sv'.state = zombie
    BY <1>1, <1>2 DEF ServerShape
  <1>4. /\ sv'.deltaMessage \in {-1} \cup 1..MaxMessages /\ sv'.parseEntitiesNum \in Nat
        /\ sv'.state \in {"primed", "active", "zombie"}
        /\ ring' \in [0..(NumSnapshotEntities - 1) -> Entity]
        /\ nextSnapshotEntities' \in 0..MaxEntities
    BY <1>2, <1>3 DEF AllInv, TypeInv, ServerTypes, zombie
  <1>5. nextSnapshotEntities <= nextSnapshotEntities'
    BY <1>2, BoundAssumption DEF AllInv, TypeInv, ServerTypes
  <1>6. /\ \A i \in DOMAIN toServer' : PacketType(toServer'[i])
        /\ \A i \in DOMAIN toClient' : \E j \in DOMAIN toClient : toClient'[i] = toClient[j]
        /\ \A i \in Int : ring'[EntitySlot(i)] = ring[EntitySlot(i)]
    BY <1>2 DEF AllInv, TypeInv
  <1> QED
    BY <1>2, <1>3, <1>4, <1>5, <1>6, NothingSent

LEMMA IdleTruth ==
    ASSUME AllInv, SV_SendClientIdle
    PROVE  TypeInv' /\ TruthInv'
  <1> DEFINE o == sv.outgoingSequence
             slot == FrameSlot(o)
             no == FALSE
             frame == [sv.frames[slot] EXCEPT !.parseEntities = no]
             frames == [sv.frames EXCEPT ![slot] = frame]
             s == [sv EXCEPT !.frames = frames]
             m == IdleMessage
  <1>1. /\ ServerShape(sv) /\ sv.unsent = <<>> /\ o <= MaxMessages
        /\ Transmit(s, m, 0) /\ UNCHANGED <<ring, nextSnapshotEntities, cl, parseEntities, toServer>>
    BY DEF AllInv, Inv, Typed, SV_SendClientIdle, CanTransmit
  <1>2. m.sequence = o /\ m.snapshot = FALSE
    BY DEF IdleMessage
  <1>3. /\ o \in Nat /\ o \in 1..(MaxMessages + 1) /\ MaxMessages \in Nat
        /\ nextSnapshotEntities \in Nat /\ PACKET_BACKUP \in Nat
        /\ nextSnapshotEntities \in 0..MaxEntities
    BY Types, BoundAssumption DEF AllInv, TypeInv, ServerTypes
  <1>4. /\ sv.frames \in [0..(PACKET_BACKUP - 1) -> Frame]
        /\ \A i \in 0..(PACKET_BACKUP - 1) :
             sv.frames[i].first + sv.frames[i].num <= nextSnapshotEntities
        /\ ring \in [0..(NumSnapshotEntities - 1) -> Entity]
        /\ sv.state \in {"primed", "active", "zombie"} /\ sv.parseEntitiesNum \in Nat
        /\ sv.deltaMessage \in {-1} \cup 1..MaxMessages
    BY DEF AllInv, TypeInv, ServerTypes
  <1>5. slot \in 0..(PACKET_BACKUP - 1)
    BY <1>3, SlotType
  <1> HIDE DEF slot, m
  <1>6. /\ frame \in Frame /\ frame.first = sv.frames[slot].first
        /\ frame.num = sv.frames[slot].num /\ frame.ps = sv.frames[slot].ps
    <2> DEFINE f == sv.frames[slot]
    <2>1. f \in Frame /\ no \in BOOLEAN
      BY <1>4, <1>5
    <2> HIDE DEF f, no
    <2>2. LET g == [f EXCEPT !.parseEntities = no]
          IN  g \in Frame /\ g.first = f.first /\ g.num = f.num /\ g.ps = f.ps
      BY <2>1 DEF Frame
    <2> QED
      BY <2>2 DEF f
  <1> HIDE DEF frame, no
  <1>7. /\ frames \in [0..(PACKET_BACKUP - 1) -> Frame]
        /\ \A i \in 0..(PACKET_BACKUP - 1) : /\ frames[i].first = sv.frames[i].first
                                             /\ frames[i].num = sv.frames[i].num
                                             /\ frames[i].ps = sv.frames[i].ps
    <2>1. frames \in [0..(PACKET_BACKUP - 1) -> Frame]
      BY <1>4, <1>6
    <2>2. ASSUME NEW i \in 0..(PACKET_BACKUP - 1)
          PROVE  /\ frames[i].first = sv.frames[i].first
                 /\ frames[i].num = sv.frames[i].num
                 /\ frames[i].ps = sv.frames[i].ps
      <3>1. CASE i = slot
        BY <1>4, <1>6, <3>1
      <3>2. CASE i # slot
        BY <1>4, <3>2
      <3> QED
        BY <3>1, <3>2
    <2> QED
      BY <2>1, <2>2
  <1> HIDE DEF frames
  <1>8. /\ ServerShape(s) /\ s.unsent = <<>> /\ s.outgoingSequence = o /\ s.frames = frames
        /\ s.state = sv.state /\ s.deltaMessage = sv.deltaMessage
        /\ s.parseEntitiesNum = sv.parseEntitiesNum
    BY <1>1 DEF ServerShape
  <1> HIDE DEF s
  <1>9. /\ HandedOver(m) /\ sv'.unsent = <<>>
        /\ sv'.frames = frames /\ sv'.state = sv.state
        /\ sv'.deltaMessage = sv.deltaMessage /\ sv'.parseEntitiesNum = sv.parseEntitiesNum
    <2>1. /\ HandedOver(m)
          /\ sv'.frames = s.frames /\ sv'.state = s.state
          /\ sv'.deltaMessage = s.deltaMessage /\ sv'.parseEntitiesNum = s.parseEntitiesNum
          /\ 0 < FRAGMENT_SIZE /\ 0 \in Int => sv'.unsent = <<>>
      BY <1>1, <1>8, Transmits
    <2>2. 0 < FRAGMENT_SIZE
      BY RingAssumption
    <2> QED
      BY <1>8, <2>1, <2>2
  <1>10. sv'.outgoingSequence = o + 1
    BY <1>9 DEF HandedOver
  <1>11. FramesKept(o - 1)
    <2>1. /\ sv'.outgoingSequence \in Int /\ sv.outgoingSequence <= sv'.outgoingSequence
          /\ o - 1 \in Int /\ nextSnapshotEntities' = nextSnapshotEntities
          /\ nextSnapshotEntities' \in Int /\ nextSnapshotEntities <= nextSnapshotEntities'
      BY <1>1, <1>3, <1>10
    <2>2. \A n \in 0..(o - 1) :
            /\ sv'.frames[FrameSlot(n)].first = sv.frames[FrameSlot(n)].first
            /\ sv'.frames[FrameSlot(n)].num = sv.frames[FrameSlot(n)].num
            /\ sv'.frames[FrameSlot(n)].ps = sv.frames[FrameSlot(n)].ps
      BY <1>7, <1>9, SlotType
    <2>3. \A i \in Int : ring'[EntitySlot(i)] = ring[EntitySlot(i)]
      BY <1>1
    <2> HIDE DEF o
    <2> QED
      BY <2>1, <2>2, <2>3, KeepsFrames
  <1>12. MessageType(m) /\ Sound(sv', ring', nextSnapshotEntities', cl', m)
    BY <1>1, <1>2, <1>3 DEF MessageType, Sound
  <1>13. /\ \A i \in DOMAIN toClient' :
              /\ MessageType(toClient'[i])
              /\ Sound(sv', ring', nextSnapshotEntities', cl', toClient'[i])
         /\ Remembered(sv', ring', nextSnapshotEntities', cl')
         /\ \A i \in 0..(PACKET_BACKUP - 1) :
              IsTrue(cl'.snapshots[i], parseEntities', cl'.parseEntitiesNum)
         /\ ClientTypes(cl', parseEntities')
    BY <1>1, <1>9, <1>11, <1>12, HandsOver, ServerStep
  <1>14. ServerTypes(sv', ring', nextSnapshotEntities')
    <2>1. \A i \in 0..(PACKET_BACKUP - 1) :
            sv'.frames[i].first + sv'.frames[i].num <= nextSnapshotEntities'
      BY <1>1, <1>4, <1>7, <1>9
    <2>2. sv'.outgoingSequence \in 1..(MaxMessages + 1)
      BY <1>1, <1>3, <1>10
    <2> QED
      BY <1>1, <1>3, <1>4, <1>7, <1>9, <2>1, <2>2 DEF ServerTypes
  <1>15. TypeInv'
    <2>1. \A i \in DOMAIN toServer' : PacketType(toServer'[i])
      BY <1>1 DEF AllInv, TypeInv
    <2> QED
      BY <1>13, <1>14, <2>1 DEF TypeInv
  <1>16. TruthInv'
    BY <1>9, <1>13 DEF TruthInv
  <1> QED
    BY <1>15, <1>16

LEMMA FragmentTruth ==
    ASSUME AllInv, SV_Netchan_TransmitNextFragment
    PROVE  TypeInv' /\ TruthInv'
  <1> DEFINE m == sv.unsent[1]
             o == sv.outgoingSequence
             none == <<>>
             next == o + 1
  <1>1. /\ ServerShape(sv) /\ Listed(toClient) /\ sv.unsent # <<>> /\ sv.unsent = <<m>>
        /\ sv' = [sv EXCEPT !.unsent = none, !.outgoingSequence = next]
        /\ toClient' = toClient \o sv.unsent
        /\ UNCHANGED <<ring, nextSnapshotEntities, cl, parseEntities, toServer>>
    BY DEF AllInv, Inv, Typed, BaseInv, UnsentInv, SV_Netchan_TransmitNextFragment
  <1>2. toClient' = Append(toClient, m)
    <2> DEFINE R == {toClient[i] : i \in DOMAIN toClient}
    <2>1. toClient \in Seq(R)
      BY <1>1 DEF Listed
    <2> HIDE DEF R, m
    <2>2. toClient \in Seq(R \cup {m}) /\ m \in R \cup {m}
      BY <2>1
    <2>3. toClient \o <<m>> = Append(toClient, m)
      BY <2>2
    <2> QED
      BY <1>1, <2>3
  <1>3. /\ o \in Nat /\ o \in 1..(MaxMessages + 1) /\ o <= MaxMessages /\ MaxMessages \in Nat
        /\ nextSnapshotEntities \in Nat /\ m.sequence = o
        /\ MessageType(m) /\ Sound(sv, ring, nextSnapshotEntities, cl, m)
    BY <1>1, Types, BoundAssumption
       DEF AllInv, TypeInv, TruthInv, ServerTypes, Inv, BaseInv, UnsentInv
  <1> HIDE DEF none, next, m
  <1>4. /\ sv'.unsent = none /\ sv'.outgoingSequence = next
        /\ sv'.frames = sv.frames /\ sv'.deltaMessage = sv.deltaMessage
        /\ sv'.parseEntitiesNum = sv.parseEntitiesNum /\ sv'.state = sv.state
    BY <1>1 DEF ServerShape
  <1>5. sv'.unsent = <<>> /\ sv'.outgoingSequence = o + 1 /\ HandedOver(m)
    BY <1>2, <1>4 DEF none, next, HandedOver
  <1>6. FramesKept(o) /\ FramesKept(o - 1)
    <2>1. /\ sv'.outgoingSequence \in Int /\ sv.outgoingSequence <= sv'.outgoingSequence
          /\ o \in Int /\ o - 1 \in Int
          /\ nextSnapshotEntities' \in Int /\ nextSnapshotEntities <= nextSnapshotEntities'
      BY <1>1, <1>3, <1>5
    <2>2. \A n : /\ sv'.frames[FrameSlot(n)].first = sv.frames[FrameSlot(n)].first
                 /\ sv'.frames[FrameSlot(n)].num = sv.frames[FrameSlot(n)].num
                 /\ sv'.frames[FrameSlot(n)].ps = sv.frames[FrameSlot(n)].ps
      BY <1>4
    <2>3. \A i \in Int : ring'[EntitySlot(i)] = ring[EntitySlot(i)]
      BY <1>1
    <2> HIDE DEF o
    <2>4. FramesKept(o)
      BY <2>1, <2>2, <2>3, KeepsFrames
    <2>5. FramesKept(o - 1)
      BY <2>1, <2>2, <2>3, KeepsFrames
    <2> QED
      BY <2>4, <2>5
  <1>7. Sound(sv', ring', nextSnapshotEntities', cl', m)
    <2>1. cl' = cl /\ o \in 0..o
      BY <1>1, <1>3
    <2> QED
      BY <1>3, <1>6, <2>1 DEF Sound, FramesKept
  <1>8. /\ \A i \in DOMAIN toClient' :
             /\ MessageType(toClient'[i])
             /\ Sound(sv', ring', nextSnapshotEntities', cl', toClient'[i])
        /\ Remembered(sv', ring', nextSnapshotEntities', cl')
        /\ \A i \in 0..(PACKET_BACKUP - 1) :
             IsTrue(cl'.snapshots[i], parseEntities', cl'.parseEntitiesNum)
        /\ ClientTypes(cl', parseEntities')
    BY <1>1, <1>3, <1>5, <1>6, <1>7, HandsOver, ServerStep
  <1>9. ServerTypes(sv', ring', nextSnapshotEntities')
    <2>1. ServerTypes(sv, ring, nextSnapshotEntities)
      BY DEF AllInv, TypeInv
    <2>2. sv'.outgoingSequence \in 1..(MaxMessages + 1)
      BY <1>3, <1>5
    <2> QED
      BY <1>1, <1>4, <1>5, <2>1, <2>2 DEF ServerTypes
  <1>10. TypeInv'
    <2>1. \A i \in DOMAIN toServer' : PacketType(toServer'[i])
      BY <1>1 DEF AllInv, TypeInv
    <2> QED
      BY <1>8, <1>9, <2>1 DEF TypeInv
  <1>11. TruthInv'
    BY <1>5, <1>8 DEF TruthInv
  <1> QED
    BY <1>10, <1>11

\* Another client's frame goes where the ring goes on.
LEMMA OtherTruth ==
    ASSUME AllInv, NEW n \in OtherSizes, SV_SendOtherSnapshot(n)
    PROVE  TypeInv' /\ TruthInv'
  <1> DEFINE now == nextSnapshotEntities
             other == [number |-> 1, value |-> Foreign]
  <1>1. /\ now + n <= MaxEntities /\ nextSnapshotEntities' = now + n
        /\ ring' = [i \in DOMAIN ring |->
                      IF \E k \in 0..(n - 1) : EntitySlot(now + k) = i
                      THEN other ELSE ring[i]]
        /\ UNCHANGED <<sv, cl, parseEntities, toClient, toServer>>
    BY DEF SV_SendOtherSnapshot
  <1>2. /\ now \in Nat /\ n \in Nat /\ MaxEntities \in Nat /\ NumSnapshotEntities \in Nat
        /\ ring \in [0..(NumSnapshotEntities - 1) -> Entity]
    BY BoundAssumption, RingAssumption DEF AllInv, TypeInv, ServerTypes
  <1>3. other \in Entity
    BY DEF Entity, Foreign
  <1> HIDE DEF other
  <1>4. DOMAIN ring = 0..(NumSnapshotEntities - 1)
    BY <1>2
  <1>5. ring' \in [0..(NumSnapshotEntities - 1) -> Entity]
    BY <1>1, <1>2, <1>3, <1>4
  <1>6. ASSUME NEW i \in Int, i < now, nextSnapshotEntities' - i <= NumSnapshotEntities
        PROVE  ring'[EntitySlot(i)] = ring[EntitySlot(i)]
    <2>1. EntitySlot(i) \in DOMAIN ring
      BY <1>4, SlotTypes
    <2>2. ASSUME NEW k \in 0..(n - 1)
          PROVE  EntitySlot(now + k) # EntitySlot(i)
      <3>1. now + k \in Int /\ i < now + k /\ (now + k) - i < NumSnapshotEntities
        BY <1>1, <1>2, <1>6
      <3> QED
        BY <3>1, EntitySlotsApart
    <2> HIDE DEF now
    <2>3. ~ \E k \in 0..(n - 1) : EntitySlot(now + k) = EntitySlot(i)
      BY <2>2
    <2> QED
      BY <1>1, <2>1, <2>3
  <1>7. /\ sv'.deltaMessage \in {-1} \cup 1..MaxMessages /\ sv'.parseEntitiesNum \in Nat
        /\ sv'.state \in {"primed", "active", "zombie"}
    BY <1>1 DEF AllInv, TypeInv, ServerTypes
  <1>8. nextSnapshotEntities' \in 0..MaxEntities /\ now <= nextSnapshotEntities'
    BY <1>1, <1>2
  <1>9. /\ \A i \in DOMAIN toServer' : PacketType(toServer'[i])
        /\ \A i \in DOMAIN toClient' : \E j \in DOMAIN toClient : toClient'[i] = toClient[j]
        /\ sv' = sv
    BY <1>1 DEF AllInv, TypeInv
  <1> QED
    BY <1>1, <1>5, <1>6, <1>7, <1>8, <1>9, NothingSent

\* A step of the network or the client that leaves both rings and the server alone.
LEMMA RestTruth ==
    ASSUME AllInv, UNCHANGED <<sv, ring, nextSnapshotEntities, cl, parseEntities>>,
           \A i \in DOMAIN toClient' : \E j \in DOMAIN toClient : toClient'[i] = toClient[j],
           \A i \in DOMAIN toServer' : PacketType(toServer'[i])
    PROVE  TypeInv' /\ TruthInv'
  <1>1. /\ sv'.deltaMessage \in {-1} \cup 1..MaxMessages /\ sv'.parseEntitiesNum \in Nat
        /\ sv'.state \in {"primed", "active", "zombie"}
        /\ ring' \in [0..(NumSnapshotEntities - 1) -> Entity]
        /\ nextSnapshotEntities' \in 0..MaxEntities
    BY DEF AllInv, TypeInv, ServerTypes
  <1>2. nextSnapshotEntities <= nextSnapshotEntities'
    BY BoundAssumption DEF AllInv, TypeInv, ServerTypes
  <1>3. \A i \in Int : ring'[EntitySlot(i)] = ring[EntitySlot(i)]
    OBVIOUS
  <1>4. sv' = sv
    OBVIOUS
  <1> QED
    BY <1>1, <1>2, <1>3, <1>4, NothingSent

LEMMA LoseToClientTruth ==
    ASSUME AllInv, LoseToClient
    PROVE  TypeInv' /\ TruthInv'
  <1>1. /\ toClient # <<>> /\ toClient' = Tail(toClient) /\ Listed(toClient)
        /\ UNCHANGED <<sv, ring, nextSnapshotEntities, cl, parseEntities, toServer>>
    BY DEF LoseToClient, AllInv, Inv, Typed
  <1>2. \A i \in DOMAIN toClient' : \E j \in DOMAIN toClient : toClient'[i] = toClient[j]
    BY <1>1, Tailed
  <1>3. \A i \in DOMAIN toServer' : PacketType(toServer'[i])
    BY <1>1 DEF AllInv, TypeInv
  <1> QED
    BY <1>1, <1>2, <1>3, RestTruth

LEMMA LoseToServerTruth ==
    ASSUME AllInv, LoseToServer
    PROVE  TypeInv' /\ TruthInv'
  <1>1. /\ toServer # <<>> /\ toServer' = Tail(toServer) /\ Listed(toServer)
        /\ UNCHANGED <<sv, ring, nextSnapshotEntities, cl, parseEntities, toClient>>
    BY DEF LoseToServer, AllInv, Inv, Typed
  <1>2. \A i \in DOMAIN toServer' : i + 1 \in DOMAIN toServer /\ toServer'[i] = toServer[i + 1]
    BY <1>1, Tailed
  <1>3. \A i \in DOMAIN toServer' : PacketType(toServer'[i])
    BY <1>2 DEF AllInv, TypeInv
  <1>4. \A i \in DOMAIN toClient' : \E j \in DOMAIN toClient : toClient'[i] = toClient[j]
    BY <1>1
  <1> QED
    BY <1>1, <1>3, <1>4, RestTruth

LEMMA StutterTruth ==
    ASSUME AllInv, UNCHANGED vars
    PROVE  TypeInv' /\ TruthInv'
  <1>1. \A i \in DOMAIN toServer' : PacketType(toServer'[i])
    BY DEF AllInv, TypeInv, vars
  <1> QED
    BY <1>1, RestTruth DEF vars

\* The client asks for differences from a message that has a number.
LEMMA WriteTruth ==
    ASSUME AllInv, CL_WritePacket
    PROVE  TypeInv' /\ TruthInv'
  <1> DEFINE ack == cl.serverMessageSequence
  <1>1. PICK delta \in BOOLEAN :
          /\ delta => cl.snap.valid /\ ack = cl.snap.messageNum
          /\ toServer' = Append(toServer, [acknowledge |-> ack, delta |-> delta])
    BY DEF CL_WritePacket
  <1> DEFINE p == [acknowledge |-> ack, delta |-> delta]
  <1>2. /\ Listed(toServer)
        /\ UNCHANGED <<sv, ring, nextSnapshotEntities, cl, parseEntities, toClient>>
    BY DEF CL_WritePacket, AllInv, Inv, Typed
  <1>3. ASSUME delta PROVE ack > 0
    <2> DEFINE n == cl.snap.messageNum
    <2>1. Holds(cl, n) /\ ack = n
      BY <1>1, <1>3 DEF AllInv, Inv, RingInv
    <2>2. n \in Nat /\ PACKET_BACKUP \in Nat /\ PACKET_BACKUP > 3
      BY Types DEF AllInv
    <2>3. n - n < PACKET_BACKUP /\ FrameSlot(n) \in 0..(PACKET_BACKUP - 1)
      BY <2>2, SlotType
    <2> DEFINE slot == FrameSlot(n)
    <2>4. cl.snapshots[slot].valid = TRUE /\ cl.snapshots[slot].messageNum = n
      BY <2>1, <2>3 DEF Holds
    <2>5. SnapType(cl.snapshots[slot], cl.parseEntitiesNum)
      BY <2>3 DEF AllInv, TypeInv, ClientTypes
    <2> HIDE DEF n, slot
    <2> QED
      BY <2>1, <2>4, <2>5 DEF SnapType
  <1>4. ack \in 0..MaxMessages
    BY DEF AllInv, TypeInv, ClientTypes
  <1>5. PacketType(p)
    BY <1>3, <1>4 DEF PacketType
  <1> HIDE DEF p
  <1>6. /\ Len(toServer) \in Nat /\ DOMAIN toServer = 1..Len(toServer)
        /\ DOMAIN toServer' = 1..(Len(toServer) + 1)
        /\ toServer'[Len(toServer) + 1] = p
        /\ \A i \in 1..Len(toServer) : toServer'[i] = toServer[i]
    BY <1>1, <1>2, Appended DEF p
  <1>7. \A i \in DOMAIN toServer' : PacketType(toServer'[i])
    <2> SUFFICES ASSUME NEW i \in DOMAIN toServer' PROVE PacketType(toServer'[i])
      OBVIOUS
    <2>1. i \in 1..Len(toServer) \/ i = Len(toServer) + 1
      BY <1>6
    <2>2. CASE i \in 1..Len(toServer)
      BY <1>6, <2>2 DEF AllInv, TypeInv
    <2>3. CASE i = Len(toServer) + 1
      BY <1>5, <1>6, <2>3
    <2> QED
      BY <2>1, <2>2, <2>3
  <1>8. \A i \in DOMAIN toClient' : \E j \in DOMAIN toClient : toClient'[i] = toClient[j]
    BY <1>2
  <1> QED
    BY <1>2, <1>7, <1>8, RestTruth

\* The server takes over what the client asks for.
LEMMA UserMoveTruth ==
    ASSUME AllInv, SV_PacketEvent
    PROVE  TypeInv' /\ TruthInv'
  <1> DEFINE p == Head(toServer)
  <1>1. /\ toServer # <<>> /\ toServer' = Tail(toServer)
        /\ sv' = sv \/ sv' = UserMove(p)
        /\ UNCHANGED <<ring, nextSnapshotEntities, cl, parseEntities, toClient>>
    BY DEF SV_PacketEvent
  <1>2. Listed(toServer) /\ ServerShape(sv)
    BY DEF AllInv, Inv, Typed
  <1>3. /\ 1 \in DOMAIN toServer /\ p = toServer[1]
        /\ \A i \in DOMAIN toServer' : i + 1 \in DOMAIN toServer /\ toServer'[i] = toServer[i + 1]
    BY <1>1, <1>2, Tailed
  <1>4. PacketType(p) /\ (p.delta => Holds(cl, p.acknowledge))
    BY <1>3 DEF AllInv, Inv, BaseInv, TypeInv
  <1> HIDE DEF p
  <1>5. /\ sv.state \in {"primed", "active", "zombie"}
        /\ sv.deltaMessage \in {-1} \cup 1..MaxMessages /\ sv.parseEntitiesNum \in Nat
        /\ sv.frames \in [0..(PACKET_BACKUP - 1) -> Frame]
        /\ ring \in [0..(NumSnapshotEntities - 1) -> Entity]
        /\ nextSnapshotEntities \in 0..MaxEntities
    BY DEF AllInv, TypeInv, ServerTypes
  <1>6. ASSUME TakesDelta(p)
        PROVE  p.acknowledge \in 1..MaxMessages /\ EntitiesSince(p.acknowledge) \in Nat
    <2> DEFINE ack == p.acknowledge
               num == cl.snap.messageNum
               o == sv.outgoingSequence
    <2>1. ack \in 0..MaxMessages /\ ack > 0 /\ ack \in Nat /\ ack <= num
      BY <1>4, <1>6 DEF TakesDelta, PacketType, Holds
    <2>2. num \in Nat /\ o \in Nat /\ num < o
      BY Types DEF AllInv
    <2>3. \A i \in Nat : sv.frames[FrameSlot(i)].num \in Nat
      BY <1>5, SlotType DEF Frame
    <2> HIDE DEF ack, num, o
    <2>4. ack \in 1..MaxMessages /\ ack <= o
      BY <2>1, <2>2, BoundAssumption
    <2> QED
      BY <2>1, <2>2, <2>3, <2>4, EntitiesSinceType DEF ack, o
  <1>7. /\ sv'.unsent = sv.unsent /\ sv'.outgoingSequence = sv.outgoingSequence
        /\ sv'.frames = sv.frames /\ sv'.state \in {"primed", "active", "zombie"}
        /\ sv'.deltaMessage \in {-1} \cup 1..MaxMessages /\ sv'.parseEntitiesNum \in Nat
    <2>1. CASE sv' = sv
      BY <1>5, <2>1
    <2>2. CASE sv' = UserMove(p)
      <3> DEFINE delta == IF TakesDelta(p) THEN p.acknowledge ELSE -1
                 count == IF TakesDelta(p) THEN EntitiesSince(p.acknowledge) ELSE 0
                 active == "active"
      <3>1. sv' = [sv EXCEPT !.state = active, !.deltaMessage = delta,
                             !.parseEntitiesNum = count]
        BY <2>2 DEF UserMove
      <3>2. delta \in {-1} \cup 1..MaxMessages /\ count \in Nat
        BY <1>6
      <3> HIDE DEF delta, count, active
      <3>3. /\ sv'.unsent = sv.unsent /\ sv'.outgoingSequence = sv.outgoingSequence
            /\ sv'.frames = sv.frames /\ sv'.state = active
            /\ sv'.deltaMessage = delta /\ sv'.parseEntitiesNum = count
        BY <1>2, <3>1 DEF ServerShape
      <3> QED
        BY <3>2, <3>3 DEF active
    <2> QED
      BY <1>1, <2>1, <2>2
  <1>8. /\ \A i \in DOMAIN toServer' : PacketType(toServer'[i])
        /\ \A i \in DOMAIN toClient' : \E j \in DOMAIN toClient : toClient'[i] = toClient[j]
        /\ \A i \in Int : ring'[EntitySlot(i)] = ring[EntitySlot(i)]
    BY <1>1, <1>3 DEF AllInv, TypeInv
  <1>9. /\ nextSnapshotEntities <= nextSnapshotEntities'
        /\ nextSnapshotEntities' \in 0..MaxEntities
        /\ ring' \in [0..(NumSnapshotEntities - 1) -> Entity]
    BY <1>1, <1>5, BoundAssumption
  <1> QED
    BY <1>1, <1>7, <1>8, <1>9, NothingSent

-----------------------------------------------------------------------------
(* The client reads a snapshot                                             *)

\* A snapshot that is kept stays true, while other entities are read.
LEMMA StaysTrue ==
    ASSUME NEW r, NEW p \in Nat, NEW w, Reached(r, p, w),
           NEW snap, SnapType(snap, p), IsTrue(snap, r, p)
    PROVE  SnapType(snap, w.next) /\ IsTrue(snap, w.ring, w.next)
  <1> DEFINE from == snap.parseEntitiesNum
             num == snap.numEntities
             next == w.next
  <1>1. next \in Nat /\ p <= next
    BY DEF Reached, Walk
  <1>2. from \in Nat /\ num \in Nat /\ from + num <= p
    BY DEF SnapType, HasEntities
  <1>3. SnapType(snap, next)
    <2>1. from + num <= next
      <3> HIDE DEF from, num, next
      <3> QED
        BY <1>1, <1>2
    <2> QED
      BY <2>1 DEF SnapType
  <1>4. ASSUME snap.valid, ~snap.crowded, next - from < MAX_PARSE_ENTITIES
        PROVE  Lists(w.ring, from, num, snap.truth.entities)
    <2>1. p - from < MAX_PARSE_ENTITIES
      <3>1. next - from < MAX_PARSE_ENTITIES
        BY <1>4
      <3> HIDE DEF from, next
      <3> QED
        BY <1>1, <1>2, <3>1, RingAssumption
    <2>2. Lists(r, from, num, snap.truth.entities)
      BY <1>4, <2>1 DEF IsTrue
    <2>3. ASSUME NEW i \in from..(from + num - 1)
          PROVE  w.ring[ParseSlot(i)] = r[ParseSlot(i)]
      <3>0. next - from < MAX_PARSE_ENTITIES
        BY <1>4
      <3> HIDE DEF from, num, next
      <3>1. i \in 0..(p - 1) /\ next - i < MAX_PARSE_ENTITIES
        BY <1>1, <1>2, <3>0, RingAssumption
      <3> QED
        BY <3>1 DEF Reached, next
    <2> HIDE DEF from, num
    <2>4. \A i \in from..(from + num - 1) : w.ring[ParseSlot(i)] = r[ParseSlot(i)]
      BY <2>3
    <2>5. from \in Int /\ num \in Nat
      BY <1>2
    <2> DEFINE s == w.ring
               E == snap.truth.entities
    <2> HIDE DEF s, E
    <2>6. Lists(s, from, num, E)
      BY <2>2, <2>4, <2>5, ListsSame DEF s, E
    <2> QED
      BY <2>6 DEF s, E
  <1> QED
    BY <1>3, <1>4 DEF IsTrue

\* What is read of a snapshot whose base is there: its playerstate, and its
\* entities unless it or one it was made from went over the ring.
LEMMA SnapshotRead ==
    ASSUME AllInv, NEW m, m.snapshot, MessageType(m), HasItsBase(cl, m), Differs(cl, m),
           cl.serverMessageSequence < m.sequence,
           NEW old,
           old = IF m.lastframe = 0 THEN NoSnap
                 ELSE cl.snapshots[FrameSlot(m.sequence - m.lastframe)],
           NEW w, w = ParsePacketEntities(m, old)
    PROVE  /\ Reached(parseEntities, cl.parseEntitiesNum, w)
           /\ SnapType(old, cl.parseEntitiesNum)
           /\ m.lastframe = 0 \/ Refusal(old, m.sequence - m.lastframe) = "no" =>
                /\ Apply(m.ps, old.ps) = m.truth.ps
                /\ /\ m.lastframe = 0 \/ ~(old.crowded \/ GoesOver(old, w.next))
                   /\ w.next - cl.parseEntitiesNum < MAX_PARSE_ENTITIES
                   => Lists(w.ring, cl.parseEntitiesNum, w.next - cl.parseEntitiesNum,
                            m.truth.entities)
  <1> DEFINE p == cl.parseEntitiesNum
             n == m.sequence - m.lastframe
             T == m.truth.entities
             O == old.parseEntitiesNum
  <1>1. /\ p \in Nat /\ parseEntities \in [0..(MAX_PARSE_ENTITIES - 1) -> Entity]
        /\ \A i \in 0..(PACKET_BACKUP - 1) : /\ SnapType(cl.snapshots[i], p)
                                             /\ IsTrue(cl.snapshots[i], parseEntities, p)
    BY DEF AllInv, TypeInv, TruthInv, ClientTypes
  <1>2. /\ \A c \in m.entities : c \in Change
        /\ IsFiniteSet(m.entities) /\ IsScene(T) /\ m.lastframe \in Nat
        /\ m.ps.to = m.truth.ps
    BY DEF MessageType, IsTruth, Differs
  <1>3. ASSUME m.lastframe # 0
        PROVE  old = cl.snapshots[FrameSlot(n)] /\ FrameSlot(n) \in 0..(PACKET_BACKUP - 1)
    <2>1. n \in Nat
      BY <1>3 DEF HasItsBase, Holds
    <2> QED
      BY <1>3, <2>1, SlotType
  <1>4. SnapType(NoSnap, p)
    <2>1. /\ NoSnap.valid \in BOOLEAN /\ NoSnap.crowded \in BOOLEAN /\ ~NoSnap.valid
          /\ NoSnap.messageNum \in Nat /\ NoSnap.ps \in Int
          /\ NoSnap.parseEntitiesNum = 0 /\ NoSnap.numEntities = 0
      BY DEF NoSnap, Baseline
    <2>2. IsTruth(NoSnap.truth)
      <3>1. /\ NoSnap.truth.ps \in Nat /\ NoSnap.truth.entities = {}
            /\ NoSnap.truth = [ps |-> NoSnap.truth.ps, entities |-> NoSnap.truth.entities]
        BY DEF NoSnap, Baseline
      <3>2. IsScene({})
        BY FS_EmptySet DEF IsScene
      <3> QED
        BY <3>1, <3>2 DEF IsTruth
    <2>3. HasEntities(NoSnap) /\ NoSnap.parseEntitiesNum + NoSnap.numEntities <= p
      BY <1>1, <2>1 DEF HasEntities
    <2> QED
      BY <2>1, <2>2, <2>3 DEF SnapType
  <1>5. SnapType(old, p)
    BY <1>1, <1>3, <1>4
  <1>6. HasEntities(old) /\ O \in Nat /\ O + old.numEntities <= p
    BY <1>5 DEF SnapType, HasEntities
  <1>7. Reached(parseEntities, p, w)
    BY <1>1, <1>2, <1>6, ReachedEnd
  <1>8. w.next \in Nat /\ p <= w.next
    BY <1>7 DEF Reached, Walk
  <1>9. ASSUME m.lastframe = 0
        PROVE  /\ Apply(m.ps, old.ps) = m.truth.ps
               /\ w.next - p < MAX_PARSE_ENTITIES => Lists(w.ring, p, w.next - p, T)
    <2>1. m.ps.from = Baseline /\ m.entities = EmitPacketEntities({}, T)
      BY <1>9 DEF Differs
    <2>2. old.ps = Baseline /\ old.numEntities = 0 /\ O = 0
      BY <1>9 DEF NoSnap
    <2>3. Apply(m.ps, old.ps) = m.truth.ps
      BY <1>2, <2>1, <2>2 DEF Apply
    <2>4. Lists(parseEntities, O, old.numEntities, {}) /\ IsScene({})
      BY <1>6, <2>2, ListsNone, FS_EmptySet DEF IsScene
    <2>5. ASSUME w.next - p < MAX_PARSE_ENTITIES
          PROVE  Lists(w.ring, p, w.next - p, T)
      <3>1. InBounds(w.next, old, p)
        BY <2>2, <2>5 DEF InBounds
      <3> QED
        BY <1>1, <1>2, <1>6, <2>1, <2>4, <3>1, Reading
    <2> QED
      BY <2>3, <2>5
  <1>10. ASSUME m.lastframe # 0, Refusal(old, n) = "no"
         PROVE  /\ Apply(m.ps, old.ps) = m.truth.ps
                /\ ~(old.crowded \/ GoesOver(old, w.next)) /\ w.next - p < MAX_PARSE_ENTITIES
                   => Lists(w.ring, p, w.next - p, T)
    <2>1. old.valid /\ ~EntitiesGone(old)
      BY <1>10 DEF Refusal
    <2>2. IsTrue(old, parseEntities, p)
      BY <1>1, <1>3, <1>10
    <2>3. /\ m.ps.from = old.truth.ps
          /\ m.entities = EmitPacketEntities(old.truth.entities, T)
      BY <1>3, <1>10 DEF Differs
    <2>4. Apply(m.ps, old.ps) = m.truth.ps
      BY <1>2, <2>1, <2>2, <2>3 DEF Apply, IsTrue
    <2>5. ASSUME ~old.crowded, ~GoesOver(old, w.next), w.next - p < MAX_PARSE_ENTITIES
          PROVE  Lists(w.ring, p, w.next - p, T)
      <3>1. p - O < MAX_PARSE_ENTITIES
        <4>1. ~(p - O > MAX_PARSE_ENTITIES - PARSE_MARGIN)
          BY <2>1 DEF EntitiesGone
        <4> HIDE DEF p, O
        <4> QED
          BY <1>1, <1>6, <4>1, RingAssumption
      <3>2. Lists(parseEntities, O, old.numEntities, old.truth.entities)
        BY <2>1, <2>2, <2>5, <3>1 DEF IsTrue
      <3>3. InBounds(w.next, old, p)
        <4>1. ~(w.next - O > MAX_PARSE_ENTITIES)
          BY <2>5 DEF GoesOver
        <4> DEFINE next == w.next
        <4> HIDE DEF O, next
        <4>2. next - O <= MAX_PARSE_ENTITIES
          BY <1>6, <1>8, <4>1, RingAssumption DEF next
        <4> QED
          BY <2>5, <4>2 DEF InBounds, O, next
      <3>4. IsScene(old.truth.entities)
        BY <1>5 DEF SnapType, IsTruth
      <3> QED
        BY <1>1, <1>2, <1>6, <2>3, <3>2, <3>3, <3>4, Reading
    <2> QED
      BY <2>4, <2>5
  <1> QED
    BY <1>5, <1>7, <1>9, <1>10

\* The slot of a snapshot that was lost.
LEMMA ClearedType ==
    ASSUME NEW x, SnapShape(x), NEW next, SnapType(x, next)
    PROVE  SnapType([x EXCEPT !.valid = FALSE], next) /\ ~[x EXCEPT !.valid = FALSE].valid
  <1> DEFINE no == FALSE
             y == [x EXCEPT !.valid = no]
  <1>1. no \in BOOLEAN /\ ~no
    OBVIOUS
  <1> HIDE DEF no
  <1>2. /\ y.valid = no /\ y.messageNum = x.messageNum /\ y.ps = x.ps
        /\ y.parseEntitiesNum = x.parseEntitiesNum /\ y.numEntities = x.numEntities
        /\ y.crowded = x.crowded /\ y.truth = x.truth
    BY DEF SnapShape
  <1> HIDE DEF y
  <1>3. SnapType(y, next)
    BY <1>1, <1>2 DEF SnapType, HasEntities
  <1> QED
    BY <1>1, <1>2, <1>3 DEF y, no

\* What becomes of the ring of snapshots when one is saved.
LEMMA SavedSlots ==
    ASSUME NEW c, ClientShape(c), c.snap = cl.snap, c.snap.messageNum \in Nat,
           NEW snap, SnapShape(snap), snap.messageNum \in Nat,
           c.snap.messageNum < snap.messageNum, NEW next,
           \A i \in 0..(PACKET_BACKUP - 1) : SnapType(c.snapshots[i], next)
    PROVE  /\ \A n \in Nat : n <= c.snap.messageNum /\ snap.messageNum - n < PACKET_BACKUP =>
                Save(c, snap).snapshots[FrameSlot(n)] = c.snapshots[FrameSlot(n)]
           /\ \A n \in 0..(snap.messageNum - 1) :
                /\ snap.messageNum - n < PACKET_BACKUP
                /\ Save(c, snap).snapshots[FrameSlot(n)].valid
                => n <= c.snap.messageNum
           /\ \A i \in 0..(PACKET_BACKUP - 1) :
                \/ i = FrameSlot(snap.messageNum)
                \/ Save(c, snap).snapshots[i] = c.snapshots[i]
                \/ /\ SnapType(Save(c, snap).snapshots[i], next)
                   /\ ~Save(c, snap).snapshots[i].valid
  <1> DEFINE d == Save(c, snap)
             m == snap.messageNum
             l == c.snap.messageNum
  <1>1. KeptOrCleared(c, d, m)
    BY Saved
  <1>2. m \in Nat /\ l \in Nat /\ l < m /\ l = cl.snap.messageNum
    OBVIOUS
  <1>3. ASSUME NEW i \in 0..(PACKET_BACKUP - 1)
        PROVE  \/ i = FrameSlot(m)
               \/ d.snapshots[i] = c.snapshots[i]
               \/ SnapType(d.snapshots[i], next) /\ ~d.snapshots[i].valid
    <2> DEFINE Cleared(j) == \E k \in Missed(m) : FrameSlot(k) = j
               N == 0..(PACKET_BACKUP - 1)
               slot == FrameSlot(m)
               new == [j \in N |-> IF j = slot THEN snap
                                   ELSE IF Cleared(j) THEN [c.snapshots[j] EXCEPT !.valid = FALSE]
                                        ELSE c.snapshots[j]]
    <2>1. DOMAIN c.snapshots = N /\ SnapShape(c.snapshots[i])
      BY DEF ClientShape
    <2>2. d = [c EXCEPT !.snap = snap, !.snapshots = new]
      BY <2>1 DEF Save
    <2>3. new[i] = IF i = slot THEN snap
                   ELSE IF Cleared(i) THEN [c.snapshots[i] EXCEPT !.valid = FALSE]
                        ELSE c.snapshots[i]
      OBVIOUS
    <2> HIDE DEF Cleared, slot, new, d, m
    <2>4. d.snapshots = new
      BY <2>2 DEF ClientShape
    <2>5. SnapType([c.snapshots[i] EXCEPT !.valid = FALSE], next)
          /\ ~[c.snapshots[i] EXCEPT !.valid = FALSE].valid
      BY <2>1, ClearedType
    <2> DEFINE x == [c.snapshots[i] EXCEPT !.valid = FALSE]
    <2>6. x = x /\ SnapType(x, next) /\ ~x.valid
      BY <2>5
    <2>7. new[i] = IF i = slot THEN snap ELSE IF Cleared(i) THEN x ELSE c.snapshots[i]
      BY <2>3
    <2> HIDE DEF x
    <2> QED
      BY <2>4, <2>6, <2>7 DEF slot
  <1> HIDE DEF d, m, l
  <1>4. ASSUME NEW n \in Nat, n <= l, m - n < PACKET_BACKUP
        PROVE  d.snapshots[FrameSlot(n)] = c.snapshots[FrameSlot(n)]
    <2>1. FrameSlot(n) \in 0..(PACKET_BACKUP - 1) /\ FrameSlot(n) # FrameSlot(m)
      BY <1>2, <1>4, SlotType, SlotsApart
    <2>2. ASSUME NEW k \in Missed(m)
          PROVE  FrameSlot(k) # FrameSlot(n)
      <3>1. k \in Nat /\ l < k /\ k < m
        BY <1>2, MissedBetween
      <3>2. n < k /\ k - n < PACKET_BACKUP
        BY <1>2, <1>4, <3>1, RingAssumption
      <3> QED
        BY <1>4, <3>1, <3>2, SlotsApart
    <2> QED
      BY <1>1, <2>1, <2>2 DEF KeptOrCleared
  <1>5. ASSUME NEW n \in 0..(m - 1), m - n < PACKET_BACKUP, d.snapshots[FrameSlot(n)].valid
        PROVE  n <= l
    <2>1. /\ n \in Nat /\ n < m /\ FrameSlot(n) \in 0..(PACKET_BACKUP - 1)
          /\ FrameSlot(n) # FrameSlot(m)
      BY <1>2, <1>5, SlotType, SlotsApart
    <2>2. n \notin Missed(m)
      BY <1>1, <1>5, <2>1 DEF KeptOrCleared
    <2> QED
      BY <1>2, <1>5, <2>1, <2>2, MissedBetween
  <1> QED
    BY <1>3, <1>4, <1>5 DEF d, m, l

\* Client c has the bases that cl has of messages after number h.
KeepsBases(c, h) ==
    \A n \in Nat : Holds(cl, n) /\ h - n < PACKET_BACKUP =>
        c.snapshots[FrameSlot(n)] = cl.snapshots[FrameSlot(n)]

\* Then such a message is still the difference from its base.
LEMMA StillDiffers ==
    ASSUME NEW c, NEW h \in Nat, KeepsBases(c, h),
           NEW m, m.snapshot, m.sequence \in Nat, h < m.sequence,
           HasItsBase(cl, m), Differs(cl, m)
    PROVE  Differs(c, m)
  <1>1. CASE m.lastframe = 0
    BY <1>1 DEF Differs
  <1>2. CASE m.lastframe # 0
    <2> DEFINE n == m.sequence - m.lastframe
    <2>1. Holds(cl, n) /\ m.lastframe < PACKET_BACKUP /\ m.lastframe \in Nat
      BY <1>2 DEF HasItsBase
    <2>2. n \in Nat
      BY <2>1 DEF Holds
    <2>3. h - n < PACKET_BACKUP
      BY <2>1, <2>2, RingAssumption
    <2>4. c.snapshots[FrameSlot(n)] = cl.snapshots[FrameSlot(n)]
      BY <2>1, <2>2, <2>3 DEF KeepsBases
    <2> QED
      BY <1>2, <2>4 DEF Differs
  <1> QED
    BY <1>1, <1>2

\* The client has read a message.
LEMMA ClientStep ==
    ASSUME AllInv, toClient # <<>>, toClient' = Tail(toClient),
           UNCHANGED <<sv, ring, nextSnapshotEntities, toServer>>,
           KeepsBases(cl', toClient[1].sequence),
           ClientTypes(cl', parseEntities'),
           \A i \in 0..(PACKET_BACKUP - 1) :
             IsTrue(cl'.snapshots[i], parseEntities', cl'.parseEntitiesNum),
           Remembered(sv, ring, nextSnapshotEntities, cl')
    PROVE  TypeInv' /\ TruthInv'
  <1> DEFINE h == toClient[1].sequence
  <1>1. Listed(toClient)
    BY DEF AllInv, Inv, Typed
  <1>2. /\ 1 \in DOMAIN toClient /\ Len(toClient) \in Nat /\ DOMAIN toClient = 1..Len(toClient)
        /\ DOMAIN toClient' = 1..(Len(toClient) - 1)
        /\ \A i \in DOMAIN toClient' : i + 1 \in DOMAIN toClient /\ toClient'[i] = toClient[i + 1]
    BY <1>1, Tailed
  <1>3. /\ h \in Nat /\ h < sv.outgoingSequence /\ sv.outgoingSequence \in Nat
        /\ \A i \in DOMAIN toClient : toClient[i].sequence \in Nat
        /\ \A i, j \in DOMAIN toClient : i < j => toClient[i].sequence < toClient[j].sequence
        /\ \A i \in DOMAIN toClient : HasItsBase(cl, toClient[i])
    BY <1>2 DEF AllInv, Inv, Typed, OrderInv, BaseInv
  <1> HIDE DEF h
  <1>4. \A m : /\ m.sequence \in Nat /\ h < m.sequence /\ HasItsBase(cl, m)
               /\ Sound(sv, ring, nextSnapshotEntities, cl, m)
               => Sound(sv, ring, nextSnapshotEntities, cl', m)
    BY <1>3, StillDiffers DEF Sound, h
  <1>5. \A i \in DOMAIN toClient' : /\ MessageType(toClient'[i])
                                    /\ Sound(sv, ring, nextSnapshotEntities, cl', toClient'[i])
    <2> SUFFICES ASSUME NEW i \in DOMAIN toClient'
                 PROVE  /\ MessageType(toClient'[i])
                        /\ Sound(sv, ring, nextSnapshotEntities, cl', toClient'[i])
      OBVIOUS
    <2>1. i + 1 \in DOMAIN toClient /\ toClient'[i] = toClient[i + 1] /\ 1 < i + 1
      BY <1>2
    <2> DEFINE m == toClient[i + 1]
    <2>2. m.sequence \in Nat /\ h < m.sequence /\ HasItsBase(cl, m)
      BY <1>2, <1>3, <2>1 DEF h
    <2>3. MessageType(m) /\ Sound(sv, ring, nextSnapshotEntities, cl, m)
      BY <2>1 DEF AllInv, TypeInv, TruthInv
    <2> HIDE DEF m
    <2>4. Sound(sv, ring, nextSnapshotEntities, cl', m)
      BY <1>4, <2>2, <2>3
    <2> QED
      BY <2>1, <2>3, <2>4 DEF m
  <1>6. sv.unsent # <<>> => Sound(sv, ring, nextSnapshotEntities, cl', sv.unsent[1])
    <2> SUFFICES ASSUME sv.unsent # <<>>
                 PROVE  Sound(sv, ring, nextSnapshotEntities, cl', sv.unsent[1])
      OBVIOUS
    <2> DEFINE m == sv.unsent[1]
    <2>1. m.sequence = sv.outgoingSequence /\ HasItsBase(cl, m)
          /\ Sound(sv, ring, nextSnapshotEntities, cl, m)
      BY DEF AllInv, TruthInv, Inv, BaseInv, UnsentInv
    <2> HIDE DEF m
    <2>2. Sound(sv, ring, nextSnapshotEntities, cl', m)
      BY <1>3, <1>4, <2>1
    <2> QED
      BY <2>2 DEF m
  <1>7. TypeInv'
    <2>1. /\ ServerTypes(sv', ring', nextSnapshotEntities')
          /\ \A i \in DOMAIN toServer' : PacketType(toServer'[i])
      BY DEF AllInv, TypeInv
    <2> QED
      BY <1>5, <2>1 DEF TypeInv
  <1>8. TruthInv'
    <2>1. /\ \A i \in DOMAIN toClient' : Sound(sv', ring', nextSnapshotEntities', cl', toClient'[i])
          /\ sv'.unsent # <<>> => Sound(sv', ring', nextSnapshotEntities', cl', sv'.unsent[1])
          /\ Remembered(sv', ring', nextSnapshotEntities', cl')
      BY <1>5, <1>6
    <2> QED
      BY <2>1 DEF TruthInv
  <1> QED
    BY <1>7, <1>8

\* A message that is no snapshot, or a snapshot that is refused: the ring of
\* snapshots stays as it is, whatever was read.
LEMMA NotSavedTruth ==
    ASSUME AllInv, toClient # <<>>, toClient' = Tail(toClient),
           UNCHANGED <<sv, ring, nextSnapshotEntities, toServer>>,
           cl'.serverMessageSequence = toClient[1].sequence,
           cl'.snap = cl.snap, cl'.snapshots = cl.snapshots,
           NEW w, Reached(parseEntities, cl.parseEntitiesNum, w),
           parseEntities' = w.ring, cl'.parseEntitiesNum = w.next
    PROVE  TypeInv' /\ TruthInv'
  <1>1. 1 \in DOMAIN toClient
    BY Tailed DEF AllInv, Inv, Typed
  <1>2. MessageType(toClient[1])
    BY <1>1 DEF AllInv, TypeInv
  <1>3. ClientTypes(cl, parseEntities)
    BY DEF AllInv, TypeInv
  <1>4. w \in Walk
    BY DEF Reached
  <1>5. \A i \in 0..(PACKET_BACKUP - 1) :
          /\ SnapType(cl.snapshots[i], w.next) /\ IsTrue(cl.snapshots[i], w.ring, w.next)
    <2> SUFFICES ASSUME NEW i \in 0..(PACKET_BACKUP - 1)
                 PROVE  SnapType(cl.snapshots[i], w.next) /\ IsTrue(cl.snapshots[i], w.ring, w.next)
      OBVIOUS
    <2> DEFINE snap == cl.snapshots[i]
               p == cl.parseEntitiesNum
    <2>1. p \in Nat /\ SnapType(snap, p) /\ IsTrue(snap, parseEntities, p)
      BY <1>3 DEF ClientTypes, AllInv, TruthInv
    <2>2. Reached(parseEntities, p, w)
      OBVIOUS
    <2> HIDE DEF snap, p
    <2>3. SnapType(snap, w.next) /\ IsTrue(snap, w.ring, w.next)
      BY <2>1, <2>2, StaysTrue
    <2> QED
      BY <2>3 DEF snap
  <1>6. ClientTypes(cl', parseEntities')
    <2>1. cl'.serverMessageSequence \in 0..MaxMessages
      BY <1>2, BoundAssumption DEF MessageType
    <2>2. w.next \in Nat /\ w.ring \in [0..(MAX_PARSE_ENTITIES - 1) -> Entity]
      BY <1>4 DEF Walk
    <2> QED
      BY <1>5, <2>1, <2>2 DEF ClientTypes
  <1>7. Remembered(sv, ring, nextSnapshotEntities, cl')
    <2>1. Remembered(sv, ring, nextSnapshotEntities, cl)
      BY DEF AllInv, TruthInv
    <2> QED
      BY <2>1 DEF Remembered
  <1>8. KeepsBases(cl', toClient[1].sequence)
    BY DEF KeepsBases
  <1>9. \A i \in 0..(PACKET_BACKUP - 1) :
          IsTrue(cl'.snapshots[i], parseEntities', cl'.parseEntitiesNum)
    BY <1>5
  <1> QED
    BY <1>6, <1>7, <1>8, <1>9, ClientStep

\* A snapshot that is saved.
LEMMA SavedTruth ==
    ASSUME AllInv, toClient # <<>>, toClient' = Tail(toClient),
           UNCHANGED <<sv, ring, nextSnapshotEntities, toServer>>,
           NEW w, Reached(parseEntities, cl.parseEntitiesNum, w),
           parseEntities' = w.ring,
           NEW c, ClientShape(c), c.snap = cl.snap, c.snapshots = cl.snapshots,
           c.parseEntitiesNum = w.next, c.serverMessageSequence = toClient[1].sequence,
           NEW snap, SnapShape(snap), cl' = Save(c, snap),
           snap.messageNum = toClient[1].sequence,
           SnapType(snap, w.next), IsTrue(snap, w.ring, w.next),
           FrameIs(sv, ring, nextSnapshotEntities, snap.messageNum, snap.truth)
    PROVE  TypeInv' /\ TruthInv'
  <1> DEFINE h == snap.messageNum
             l == cl.snap.messageNum
             d == Save(c, snap)
             N == 0..(PACKET_BACKUP - 1)
  <1>1. 1 \in DOMAIN toClient
    BY Tailed DEF AllInv, Inv, Typed
  <1>2. /\ h \in Nat /\ l \in Nat /\ l < h /\ h \in 0..MaxMessages
        /\ PACKET_BACKUP \in Nat /\ PACKET_BACKUP > 3
    <2>1. /\ toClient[1].sequence \in Nat /\ cl.serverMessageSequence < toClient[1].sequence
          /\ toClient[1].sequence \in 1..MaxMessages
      BY <1>1 DEF AllInv, Inv, Typed, OrderInv, TypeInv, MessageType
    <2> QED
      BY <2>1, Types, BoundAssumption DEF AllInv
  <1>3. ClientTypes(cl, parseEntities)
    BY DEF AllInv, TypeInv
  <1>4. w.next \in Nat /\ w.ring \in [0..(MAX_PARSE_ENTITIES - 1) -> Entity]
    BY DEF Reached, Walk
  <1>5. \A i \in N : SnapType(c.snapshots[i], w.next) /\ IsTrue(c.snapshots[i], w.ring, w.next)
    <2> SUFFICES ASSUME NEW i \in N
                 PROVE  SnapType(cl.snapshots[i], w.next) /\ IsTrue(cl.snapshots[i], w.ring, w.next)
      OBVIOUS
    <2> DEFINE x == cl.snapshots[i]
               p == cl.parseEntitiesNum
    <2>1. p \in Nat /\ SnapType(x, p) /\ IsTrue(x, parseEntities, p)
      BY <1>3 DEF ClientTypes, AllInv, TruthInv
    <2>2. Reached(parseEntities, p, w)
      OBVIOUS
    <2> HIDE DEF x, p
    <2>3. SnapType(x, w.next) /\ IsTrue(x, w.ring, w.next)
      BY <2>1, <2>2, StaysTrue
    <2> QED
      BY <2>3 DEF x
  <1>6. /\ d.snap = snap /\ d.snapshots[FrameSlot(h)] = snap
        /\ d.serverMessageSequence = c.serverMessageSequence
    BY <1>2, Saved
  <1>7. d.parseEntitiesNum = w.next
    BY DEF Save, ClientShape
  <1>8. /\ \A n \in Nat : n <= l /\ h - n < PACKET_BACKUP =>
             d.snapshots[FrameSlot(n)] = cl.snapshots[FrameSlot(n)]
        /\ \A n \in 0..(h - 1) : h - n < PACKET_BACKUP /\ d.snapshots[FrameSlot(n)].valid
             => n <= l
        /\ \A i \in N : \/ i = FrameSlot(h)
                        \/ d.snapshots[i] = c.snapshots[i]
                        \/ SnapType(d.snapshots[i], w.next) /\ ~d.snapshots[i].valid
    <2>1. c.snap.messageNum \in Nat /\ c.snap.messageNum < snap.messageNum
      BY <1>2
    <2>2. \A i \in 0..(PACKET_BACKUP - 1) : SnapType(c.snapshots[i], w.next)
      BY <1>5
    <2> DEFINE next == w.next
    <2>3. \A i \in 0..(PACKET_BACKUP - 1) : SnapType(c.snapshots[i], next)
      BY <2>2
    <2> HIDE DEF next
    <2>4. /\ \A n \in Nat : n <= c.snap.messageNum /\ snap.messageNum - n < PACKET_BACKUP =>
                Save(c, snap).snapshots[FrameSlot(n)] = c.snapshots[FrameSlot(n)]
          /\ \A n \in 0..(snap.messageNum - 1) :
                /\ snap.messageNum - n < PACKET_BACKUP
                /\ Save(c, snap).snapshots[FrameSlot(n)].valid
                => n <= c.snap.messageNum
          /\ \A i \in 0..(PACKET_BACKUP - 1) :
                \/ i = FrameSlot(snap.messageNum)
                \/ Save(c, snap).snapshots[i] = c.snapshots[i]
                \/ /\ SnapType(Save(c, snap).snapshots[i], next)
                   /\ ~Save(c, snap).snapshots[i].valid
      BY <1>2, <2>1, <2>3, SavedSlots
    <2> QED
      BY <2>4 DEF next
  <1> HIDE DEF d, h, l
  <1>9. \A i \in N : SnapType(d.snapshots[i], w.next) /\ IsTrue(d.snapshots[i], w.ring, w.next)
    BY <1>5, <1>6, <1>8 DEF IsTrue
  <1>10. cl' = d
    BY DEF d
  <1>11. ClientTypes(cl', parseEntities')
    <2>1. d.serverMessageSequence \in 0..MaxMessages
      BY <1>2, <1>6 DEF h
    <2> QED
      BY <1>4, <1>7, <1>9, <1>10, <2>1 DEF ClientTypes
  <1>12. KeepsBases(cl', toClient[1].sequence)
    <2>1. \A n \in Nat : Holds(cl, n) /\ h - n < PACKET_BACKUP =>
            d.snapshots[FrameSlot(n)] = cl.snapshots[FrameSlot(n)]
      BY <1>8 DEF Holds, l
    <2> QED
      BY <1>10, <2>1 DEF KeepsBases, h
  <1>13. Remembered(sv, ring, nextSnapshotEntities, d)
    <2> SUFFICES ASSUME NEW n \in 0..h, h - n < PACKET_BACKUP, d.snapshots[FrameSlot(n)].valid
                 PROVE  FrameIs(sv, ring, nextSnapshotEntities, n, d.snapshots[FrameSlot(n)].truth)
      BY <1>6 DEF Remembered, h
    <2>1. CASE n = h
      BY <1>6, <2>1 DEF h
    <2>2. CASE n # h
      <3>1. n \in 0..(h - 1) /\ n \in Nat
        BY <1>2, <2>2
      <3>2. n <= l
        BY <1>8, <3>1
      <3>3. d.snapshots[FrameSlot(n)] = cl.snapshots[FrameSlot(n)]
        BY <1>8, <3>1, <3>2
      <3>4. l - n < PACKET_BACKUP /\ n \in 0..l
        BY <1>2, <3>1, <3>2
      <3>5. Remembered(sv, ring, nextSnapshotEntities, cl)
        BY DEF AllInv, TruthInv
      <3> QED
        BY <3>3, <3>4, <3>5 DEF Remembered, l
    <2> QED
      BY <2>1, <2>2
  <1>14. \A i \in 0..(PACKET_BACKUP - 1) :
           IsTrue(cl'.snapshots[i], parseEntities', cl'.parseEntitiesNum)
    BY <1>7, <1>9, <1>10
  <1>15. Remembered(sv, ring, nextSnapshotEntities, cl')
    BY <1>10, <1>13
  <1> QED
    BY <1>11, <1>12, <1>14, <1>15, ClientStep

LEMMA ReadTruth ==
    ASSUME AllInv, CL_PacketEvent
    PROVE  TypeInv' /\ TruthInv'
  <1> DEFINE m == Head(toClient)
             p == cl.parseEntitiesNum
  <1>1. /\ toClient # <<>> /\ toClient' = Tail(toClient)
        /\ UNCHANGED <<sv, ring, nextSnapshotEntities, toServer>>
        /\ \/ m.snapshot /\ ParseSnapshot(m)
           \/ /\ ~m.snapshot /\ cl' = [cl EXCEPT !.serverMessageSequence = m.sequence]
              /\ parseEntities' = parseEntities
    BY DEF CL_PacketEvent
  <1>2. ClientShape(cl) /\ Listed(toClient)
    BY DEF AllInv, Inv, Typed
  <1>3. 1 \in DOMAIN toClient /\ m = toClient[1]
    BY <1>1, <1>2, Tailed
  <1>4. /\ m.sequence \in Nat /\ cl.serverMessageSequence < m.sequence /\ HasItsBase(cl, m)
        /\ MessageType(m) /\ Sound(sv, ring, nextSnapshotEntities, cl, m)
    BY <1>3 DEF AllInv, Inv, Typed, OrderInv, BaseInv, TypeInv, TruthInv
  <1>5. ClientTypes(cl, parseEntities)
    BY DEF AllInv, TypeInv
  <1>6. p \in Nat /\ parseEntities \in [0..(MAX_PARSE_ENTITIES - 1) -> Entity]
    BY <1>5 DEF ClientTypes
  <1> HIDE DEF m
  <1>7. CASE m.snapshot /\ ParseSnapshot(m)
    <2> DEFINE full == m.lastframe = 0
               n == m.sequence - m.lastframe
               old == IF full THEN NoSnap ELSE cl.snapshots[FrameSlot(n)]
               w == ParsePacketEntities(m, old)
               refusal == IF full THEN "no" ELSE Refusal(old, n)
               refused == IF refusal = "no" THEN cl.refused ELSE refusal
               next == w.next
               number == m.sequence
               c == [cl EXCEPT !.serverMessageSequence = number,
                               !.parseEntitiesNum = next, !.refused = refused]
               ps == Apply(m.ps, old.ps)
               count == w.next - cl.parseEntitiesNum
               crowded == ~full /\ (old.crowded \/ GoesOver(old, w.next))
               snap == [valid |-> TRUE, messageNum |-> number,
                        parseEntitiesNum |-> cl.parseEntitiesNum, numEntities |-> count,
                        ps |-> ps, crowded |-> crowded, truth |-> m.truth]
    <2>1. /\ cl' = IF refusal = "no" THEN Save(c, snap) ELSE c
          /\ parseEntities' = w.ring
      BY <1>7 DEF ParseSnapshot
    <2>2. /\ Reached(parseEntities, p, w)
          /\ SnapType(old, p)
          /\ full \/ Refusal(old, n) = "no" =>
               /\ ps = m.truth.ps
               /\ /\ full \/ ~(old.crowded \/ GoesOver(old, w.next))
                  /\ w.next - p < MAX_PARSE_ENTITIES
                  => Lists(w.ring, p, w.next - p, m.truth.entities)
      <3>1. Differs(cl, m)
        BY <1>4, <1>7 DEF Sound
      <3> HIDE DEF w, old
      <3>2. w = ParsePacketEntities(m, old)
        BY DEF w
      <3>3. old = IF m.lastframe = 0 THEN NoSnap
                  ELSE cl.snapshots[FrameSlot(m.sequence - m.lastframe)]
        BY DEF old
      <3> QED
        BY <1>4, <1>7, <3>1, <3>2, <3>3, SnapshotRead
    <2>3. next = w.next /\ next \in Nat /\ p <= next
      BY <2>2 DEF Reached, Walk
    <2>4. /\ number = m.sequence /\ number \in Nat /\ number > 0
          /\ count = next - p /\ count \in Nat
          /\ crowded \in BOOLEAN
          /\ (crowded <=> ~full /\ (old.crowded \/ GoesOver(old, next)))
      <3>1. number \in Nat /\ number > 0
        BY <1>4, BoundAssumption DEF MessageType
      <3>2. count = next - p /\ count \in Nat
        BY <1>6, <2>3
      <3> QED
        BY <3>1, <3>2
    <2>5. refusal = "no" <=> full \/ Refusal(old, n) = "no"
      OBVIOUS
    <2> HIDE DEF refused, refusal, old, n, ps, count, number, crowded, w, next, full
    <2>6. /\ ClientShape(c) /\ c.snap = cl.snap /\ c.snapshots = cl.snapshots
          /\ c.serverMessageSequence = number /\ c.parseEntitiesNum = next
      <3>1. c = [cl EXCEPT !.serverMessageSequence = number, !.parseEntitiesNum = next,
                           !.refused = refused]
        OBVIOUS
      <3> HIDE DEF c
      <3>2. c = [serverMessageSequence |-> number, parseEntitiesNum |-> next,
                 snap |-> cl.snap, snapshots |-> cl.snapshots, refused |-> refused]
        BY <1>2, <3>1 DEF ClientShape
      <3>3. /\ c.snap = cl.snap /\ c.snapshots = cl.snapshots /\ c.parseEntitiesNum = next
            /\ c.serverMessageSequence = number /\ c.refused = refused
        BY <3>2
      <3> QED
        BY <1>2, <3>2, <3>3, Zenon DEF ClientShape
    <2>7. /\ SnapShape(snap) /\ snap.valid /\ snap.valid \in BOOLEAN
          /\ snap.messageNum = number /\ snap.parseEntitiesNum = p
          /\ snap.numEntities = count /\ snap.ps = ps /\ snap.crowded = crowded
          /\ snap.truth = m.truth
      BY DEF SnapShape
    <2> HIDE DEF c, snap, p
    <2>8. CASE refusal = "no"
      <3>1. /\ ps = m.truth.ps
            /\ ~crowded /\ next - p < MAX_PARSE_ENTITIES
                 => Lists(w.ring, p, next - p, m.truth.entities)
        BY <2>2, <2>3, <2>4, <2>5, <2>8
      <3>2. IsTruth(m.truth)
        BY <1>4, <1>7 DEF MessageType
      <3>3. SnapType(snap, w.next)
        <4>1. HasEntities(snap) /\ snap.parseEntitiesNum + snap.numEntities <= next
          BY <1>6, <2>3, <2>4, <2>7 DEF HasEntities
        <4>2. snap.ps \in Int /\ IsTruth(snap.truth)
          BY <2>7, <3>1, <3>2 DEF IsTruth
        <4>3. /\ snap.valid \in BOOLEAN /\ snap.crowded \in BOOLEAN
              /\ snap.messageNum \in Nat /\ snap.messageNum > 0
          BY <2>4, <2>7
        <4> QED
          BY <2>3, <4>1, <4>2, <4>3 DEF SnapType
      <3>4. IsTrue(snap, w.ring, w.next)
        BY <2>3, <2>4, <2>7, <3>1 DEF IsTrue
      <3>5. FrameIs(sv, ring, nextSnapshotEntities, snap.messageNum, snap.truth)
        BY <1>4, <1>7, <2>4, <2>7 DEF Sound
      <3>6. cl' = Save(c, snap)
        BY <2>1, <2>8
      <3>7. /\ c.parseEntitiesNum = w.next /\ c.serverMessageSequence = toClient[1].sequence
            /\ snap.messageNum = toClient[1].sequence
        BY <1>3, <2>3, <2>4, <2>6, <2>7
      <3> QED
        BY <1>1, <2>1, <2>2, <2>6, <2>7, <3>3, <3>4, <3>5, <3>6, <3>7, SavedTruth DEF p
    <2>9. CASE refusal # "no"
      <3>1. cl' = c
        BY <2>1, <2>9
      <3>2. /\ cl'.serverMessageSequence = toClient[1].sequence
            /\ cl'.snap = cl.snap /\ cl'.snapshots = cl.snapshots
            /\ cl'.parseEntitiesNum = w.next /\ parseEntities' = w.ring
        BY <1>3, <2>1, <2>3, <2>4, <2>6, <3>1
      <3> QED
        BY <1>1, <2>2, <3>2, NotSavedTruth DEF p
    <2> QED
      BY <2>8, <2>9
  <1>8. CASE /\ cl' = [cl EXCEPT !.serverMessageSequence = m.sequence]
             /\ parseEntities' = parseEntities
    <2> DEFINE w == [ring |-> parseEntities, next |-> p, changes |-> {},
                     oldindex |-> 0, oldnum |-> 0]
    <2>1. /\ cl'.serverMessageSequence = toClient[1].sequence
          /\ cl'.snap = cl.snap /\ cl'.snapshots = cl.snapshots /\ cl'.parseEntitiesNum = p
      BY <1>2, <1>3, <1>8 DEF ClientShape
    <2>2. Reached(parseEntities, p, w) /\ w.ring = parseEntities /\ w.next = p
      BY <1>6 DEF Reached, Walk
    <2> HIDE DEF w
    <2>3. parseEntities' = w.ring /\ cl'.parseEntitiesNum = w.next
      BY <1>8, <2>1, <2>2
    <2> QED
      BY <1>1, <2>1, <2>2, <2>3, NotSavedTruth
  <1> QED
    BY <1>1, <1>7, <1>8

-----------------------------------------------------------------------------
(* The theorems                                                            *)

LEMMA InitAllInv == Init => AllInv
  <1> SUFFICES ASSUME Init PROVE AllInv
    OBVIOUS
  <1>1. Inv
    BY InitInv
  <1> DEFINE N == 0..(PACKET_BACKUP - 1)
             zero == 0
             one == 1
             none == -1
             primed == "primed"
             frames == [i \in N |-> EmptyFrame]
             slots == [i \in N |-> NoSnap]
             no == "no"
  <1>2. /\ sv = [state |-> primed, outgoingSequence |-> one, deltaMessage |-> none,
                 parseEntitiesNum |-> zero, unsent |-> <<>>, frames |-> frames]
        /\ ring = [i \in 0..(NumSnapshotEntities - 1) |-> NoEntity]
        /\ nextSnapshotEntities = 0
        /\ cl = [serverMessageSequence |-> zero, parseEntitiesNum |-> zero, snap |-> NoSnap,
                 snapshots |-> slots, refused |-> no]
        /\ parseEntities = [i \in 0..(MAX_PARSE_ENTITIES - 1) |-> NoEntity]
        /\ toClient = <<>> /\ toServer = <<>>
    BY DEF Init
  <1>3. EmptyFrame \in Frame /\ EmptyFrame.first = 0 /\ EmptyFrame.num = 0
    BY DEF EmptyFrame, Frame, Baseline
  <1>4. NoEntity \in Entity
    BY DEF NoEntity, Entity, Baseline
  <1>5. SnapType(NoSnap, 0) /\ ~NoSnap.valid /\ NoSnap.messageNum = 0
    <2>1. /\ NoSnap.valid \in BOOLEAN /\ NoSnap.crowded \in BOOLEAN /\ ~NoSnap.valid
          /\ NoSnap.messageNum = 0 /\ NoSnap.ps \in Int
          /\ NoSnap.parseEntitiesNum = 0 /\ NoSnap.numEntities = 0
      BY DEF NoSnap, Baseline
    <2>2. IsTruth(NoSnap.truth)
      <3>1. /\ NoSnap.truth.ps \in Nat /\ NoSnap.truth.entities = {}
            /\ NoSnap.truth = [ps |-> NoSnap.truth.ps, entities |-> NoSnap.truth.entities]
        BY DEF NoSnap, Baseline
      <3>2. IsScene({})
        BY FS_EmptySet DEF IsScene
      <3> QED
        BY <3>1, <3>2 DEF IsTruth
    <2>3. HasEntities(NoSnap) /\ NoSnap.parseEntitiesNum + NoSnap.numEntities <= 0
      BY <2>1 DEF HasEntities
    <2> QED
      BY <2>1, <2>2, <2>3 DEF SnapType
  <1>6. /\ zero = 0 /\ one = 1 /\ none = -1 /\ primed = "primed"
        /\ frames \in [N -> Frame] /\ \A i \in N : frames[i] = EmptyFrame
        /\ \A i \in N : slots[i] = NoSnap
    BY <1>3
  <1> HIDE DEF zero, one, none, primed, frames, slots, no
  <1>7. /\ sv.state = primed /\ sv.outgoingSequence = one /\ sv.deltaMessage = none
        /\ sv.parseEntitiesNum = zero /\ sv.unsent = <<>> /\ sv.frames = frames
        /\ cl.serverMessageSequence = zero /\ cl.parseEntitiesNum = zero
        /\ cl.snap = NoSnap /\ cl.snapshots = slots
    BY <1>2
  <1>8. ServerTypes(sv, ring, nextSnapshotEntities)
    <2>1. ring \in [0..(NumSnapshotEntities - 1) -> Entity]
      BY <1>2, <1>4
    <2>2. \A i \in N : sv.frames[i].first + sv.frames[i].num <= nextSnapshotEntities
      BY <1>2, <1>3, <1>6, <1>7
    <2>3. /\ nextSnapshotEntities \in 0..MaxEntities
          /\ sv.outgoingSequence \in 1..(MaxMessages + 1)
          /\ sv.parseEntitiesNum \in Nat /\ sv.deltaMessage \in {-1} \cup 1..MaxMessages
      BY <1>2, <1>6, <1>7, BoundAssumption
    <2> QED
      BY <1>6, <1>7, <2>1, <2>2, <2>3 DEF ServerTypes
  <1>9. ClientTypes(cl, parseEntities)
    <2>1. parseEntities \in [0..(MAX_PARSE_ENTITIES - 1) -> Entity]
      BY <1>2, <1>4
    <2>2. cl.serverMessageSequence \in 0..MaxMessages /\ cl.parseEntitiesNum \in Nat
      BY <1>6, <1>7, BoundAssumption
    <2>3. \A i \in N : SnapType(cl.snapshots[i], cl.parseEntitiesNum)
      BY <1>5, <1>6, <1>7
    <2> QED
      BY <2>1, <2>2, <2>3 DEF ClientTypes
  <1>10. DOMAIN toClient = {} /\ DOMAIN toServer = {}
    BY <1>2
  <1>11. TypeInv
    BY <1>8, <1>9, <1>10 DEF TypeInv
  <1>12. \A i \in N : ~cl.snapshots[i].valid
    BY <1>5, <1>6, <1>7
  <1>13. Remembered(sv, ring, nextSnapshotEntities, cl)
    <2>1. \A n \in 0..cl.snap.messageNum : FrameSlot(n) \in N
      BY <1>5, <1>7, SlotType
    <2> QED
      BY <1>12, <2>1 DEF Remembered
  <1>14. TruthInv
    BY <1>7, <1>10, <1>12, <1>13 DEF TruthInv, IsTrue
  <1> QED
    BY <1>1, <1>11, <1>14 DEF AllInv

LEMMA AllInvInductive == AllInv /\ [Next]_vars => AllInv'
  <1> SUFFICES ASSUME AllInv, [Next]_vars PROVE TypeInv' /\ TruthInv'
    BY InvInductive DEF AllInv
  <1>1. CASE SV_SendClientSnapshot
    BY <1>1, SendsTruth
  <1>2. CASE SV_SendClientIdle
    BY <1>2, IdleTruth
  <1>3. CASE SV_Netchan_TransmitNextFragment
    BY <1>3, FragmentTruth
  <1>4. CASE \E n \in OtherSizes : SV_SendOtherSnapshot(n)
    BY <1>4, OtherTruth
  <1>5. CASE SV_DropClient
    BY <1>5, DropTruth
  <1>6. CASE SV_PacketEvent
    BY <1>6, UserMoveTruth
  <1>7. CASE CL_WritePacket
    BY <1>7, WriteTruth
  <1>8. CASE CL_PacketEvent
    BY <1>8, ReadTruth
  <1>9. CASE LoseToClient
    BY <1>9, LoseToClientTruth
  <1>10. CASE LoseToServer
    BY <1>10, LoseToServerTruth
  <1>11. CASE UNCHANGED vars
    BY <1>11, StutterTruth
  <1> QED
    BY <1>1, <1>2, <1>3, <1>4, <1>5, <1>6, <1>7, <1>8, <1>9, <1>10, <1>11 DEF Next

LEMMA AllInvariance == Spec => []AllInv
  BY InitAllInv, AllInvInductive, PTL DEF Spec

\* The counters of both ends stay in their ranges and the two rings hold entities, whatever
\* the client reads, against whatever base, and however often the rings come round
\* (sv_snapshot.c, cl_parse.c).
THEOREM TypeCorrect == Spec => []TypeOK
  <1>1. AllInv => TypeOK
    <2> SUFFICES ASSUME AllInv PROVE TypeOK
      OBVIOUS
    <2>1. ServerTypes(sv, ring, nextSnapshotEntities) /\ ClientTypes(cl, parseEntities)
      BY DEF AllInv, TypeInv
    <2>2. Len(sv.unsent) <= 1
      <3>1. CASE sv.unsent = <<>>
        BY <3>1
      <3>2. CASE sv.unsent = <<sv.unsent[1]>>
        <4> DEFINE m == sv.unsent[1]
        <4>1. sv.unsent = <<m>>
          BY <3>2
        <4> HIDE DEF m
        <4> QED
          BY <4>1
      <3> QED
        BY <2>1, <3>1, <3>2 DEF ServerTypes
    <2>3. DOMAIN cl.snapshots = 0..(PACKET_BACKUP - 1)
      BY DEF AllInv, Inv, Typed, ClientShape
    <2> QED
      BY <2>1, <2>2, <2>3 DEF TypeOK, ServerTypes, ClientTypes
  <1> QED
    BY <1>1, AllInvariance, PTL

\* Whatever snapshot CL_GetSnapshot gives the client game is the one the server built
\* under that number, for rings of every size: its playerstate and, entity for entity, as
\* many as the client game has room for, those with the lowest numbers.  It holds through
\* any chain of differences, any losses, and writes of other clients' frames to the
\* server's ring; unless a snapshot in the chain went over the client's ring.
THEOREM SnapshotsTrue == Spec => []SnapshotsAreTrueUnlessCrowded
  <1>1. AllInv => SnapshotsAreTrueUnlessCrowded
    <2> SUFFICES ASSUME AllInv, NEW n \in 1..cl.snap.messageNum, CanGetSnapshot(n)
                 PROVE  LET snap == cl.snapshots[FrameSlot(n)]
                        IN  /\ snap.messageNum = n
                            /\ ~snap.crowded =>
                                 GetSnapshot(n) = [snap.truth EXCEPT !.entities = Handed(@)]
      BY DEF SnapshotsAreTrueUnlessCrowded
    <2> DEFINE snap == cl.snapshots[FrameSlot(n)]
               from == snap.parseEntitiesNum
               num == snap.numEntities
               p == cl.parseEntitiesNum
               T == snap.truth
               count == IF num > MAX_ENTITIES_IN_SNAPSHOT THEN MAX_ENTITIES_IN_SNAPSHOT ELSE num
               E == {parseEntities[ParseSlot(i)] : i \in from..(from + count - 1)}
    <2>1. /\ snap.valid /\ ~(p - from >= MAX_PARSE_ENTITIES)
          /\ cl.snap.messageNum - n < PACKET_BACKUP /\ n <= cl.snap.messageNum
      BY DEF CanGetSnapshot, RolledOut
    <2>2. FrameSlot(n) \in 0..(PACKET_BACKUP - 1) /\ n \in 0..cl.snap.messageNum
      BY Types, SlotType DEF AllInv
    <2>3. Numbered(cl, n)
      BY <2>2 DEF AllInv, Inv, RingInv
    <2>4. snap.messageNum = n
      BY <2>1, <2>3 DEF Numbered
    <2>5. SnapType(snap, p) /\ IsTrue(snap, parseEntities, p) /\ p \in Nat
      BY <2>2 DEF AllInv, TypeInv, TruthInv, ClientTypes
    <2>6. GetSnapshot(n) = [ps |-> snap.ps, entities |-> E]
      BY DEF GetSnapshot
    <2> HIDE DEF snap
    <2>7. ASSUME ~snap.crowded
          PROVE  snap.ps = T.ps /\ Lists(parseEntities, from, num, T.entities)
      <3>1. from \in Nat
        BY <2>5 DEF SnapType, HasEntities
      <3>2. p - from < MAX_PARSE_ENTITIES
        <4> HIDE DEF p, from
        <4> QED
          BY <2>1, <2>5, <3>1, RingAssumption
      <3> QED
        BY <2>1, <2>5, <2>7, <3>2 DEF IsTrue
    <2>8. T = [ps |-> T.ps, entities |-> T.entities]
      BY <2>5 DEF SnapType, IsTruth
    <2>9. ~snap.crowded => E = Handed(T.entities)
      <3>1. from \in Nat /\ num \in Nat /\ \A x \in T.entities : x.number \in Nat
        BY <2>5 DEF SnapType, HasEntities, IsTruth, IsScene, Entity
      <3> HIDE DEF from, num, T
      <3> QED
        BY <2>7, <3>1, ListsHanded
    <2> HIDE DEF E, T
    <2>10. ~snap.crowded => GetSnapshot(n) = [T EXCEPT !.entities = Handed(@)]
      BY <2>6, <2>7, <2>8, <2>9
    <2> QED
      BY <2>4, <2>10 DEF snap, T
  <1> QED
    BY <1>1, AllInvariance, PTL

=============================================================================
