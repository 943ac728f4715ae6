----------------------------- MODULE FeedProofs -----------------------------
(***************************************************************************)
(* What TLAPS proves about the notification feed, in the composition that  *)
(* the run of MCRecords checks: for any finite set of notifications, any   *)
(* readers and requests, any length of a page and any number of faults.    *)
(***************************************************************************)
EXTENDS RecordsProofs, Sequences

----------------------------------------------------------------------------
\* Places in a finite order.

\* A non-empty set of naturals has a least element.
LEMMA LeastNat == ASSUME NEW T \in SUBSET Nat, T # {} PROVE \E x \in T : \A y \in T : x <= y
<1>1. PICK R : R = OpToRel(<, Nat)
  OBVIOUS
<1>2. IsWellFoundedOn(R, Nat)
  BY <1>1, NatLessThanWellFounded
<1>3. \A x, y \in Nat : <<y, x>> \in R <=> y < x
  BY <1>1 DEF OpToRel
<1>4. \E x \in T : \A y \in T : <<y, x>> \notin R
  BY <1>2, WFMin
<1>5. PICK x \in T : \A y \in T : <<y, x>> \notin R
  BY <1>4
<1>6. \A y \in T : ~ (y < x)
  BY <1>3, <1>5
<1> QED
  BY <1>5, <1>6

\* The same, for the values of a function.
LEMMA LeastAt ==
  ASSUME NEW T, T # {}, NEW f, \A n \in T : f[n] \in Nat
  PROVE  \E x \in T : \A y \in T : f[x] <= f[y]
<1> DEFINE V == {f[n] : n \in T}
<1>1. V \in SUBSET Nat /\ V # {}
  OBVIOUS
<1> HIDE DEF V
<1>2. PICK v \in V : \A w \in V : v <= w
  BY <1>1, LeastNat
<1>3. PICK x \in T : v = f[x]
  BY <1>2 DEF V
<1> QED
  BY <1>2, <1>3 DEF V

\* In an order of F by pos, whose place counts from 1 and from the last position:
\* at most c members stand at a place up to c.
LEMMA PlacesUpTo ==
  ASSUME NEW F, IsFiniteSet(F), NEW pos \in [F -> Nat], NEW place \in [F -> Nat],
         \A n \in F : place[n] = Cardinality({m \in F : pos[n] <= pos[m]}),
         NEW c \in Nat
  PROVE  Cardinality({n \in F : place[n] <= c}) <= c
<1> DEFINE S == {n \in F : place[n] <= c}
<1>1. ASSUME S = {} PROVE Cardinality(S) <= c
  <2> HIDE DEF S
  <2>1. Cardinality(S) = 0
    BY <1>1, FS_EmptySet
  <2> QED
    BY <2>1
<1>2. ASSUME S # {} PROVE Cardinality(S) <= c
  <2>1. PICK n \in S : \A m \in S : pos[n] <= pos[m]
    BY <1>2, LeastAt
  <2> DEFINE B == {m \in F : pos[n] <= pos[m]}
  <2>2. IsFiniteSet(B) /\ S \in SUBSET B
    BY <2>1, FS_Subset
  <2>3. Cardinality(S) <= Cardinality(B) /\ Cardinality(B) = place[n] /\ place[n] <= c
    BY <2>1, <2>2, FS_Subset
  <2>4. Cardinality(S) \in Nat /\ place[n] \in Nat
    BY <2>2, FS_Subset, FS_CardinalityType
  <2> QED
    BY <2>3, <2>4
<1> QED
  BY <1>1, <1>2

\* If a member stands beyond place c, the places up to c are taken.
LEMMA PlacesTaken ==
  ASSUME NEW F, IsFiniteSet(F), NEW pos \in [F -> Nat], NEW place \in [F -> Nat],
         \A n, m \in F : pos[n] = pos[m] => n = m,
         \A n \in F : place[n] = Cardinality({m \in F : pos[n] <= pos[m]}),
         NEW c \in Nat, \E n \in F : place[n] > c
  PROVE  Cardinality({n \in F : place[n] <= c}) >= c
<1> DEFINE S == {n \in F : place[n] <= c}
           T == {n \in F : place[n] > c}
           From(n) == {m \in F : pos[n] <= pos[m]}
<1>1. PICK x \in T : \A y \in T : place[x] <= place[y]
  BY LeastAt
<1> DEFINE Later == From(x) \ {x}
<1>2. IsFiniteSet(From(x)) /\ IsFiniteSet(Later) /\ Cardinality(Later) = place[x] - 1
  <2>1. place[x] = Cardinality(From(x)) /\ x \in From(x)
    BY <1>1
  <2>2. IsFiniteSet(From(x))
    BY FS_Subset
  <2> HIDE DEF From
  <2> QED
    BY <2>1, <2>2, FS_RemoveElement
<1>3. ASSUME NEW m \in Later PROVE m \in S
  <2>1. m \in F /\ x \in F /\ pos[x] < pos[m]
    BY <1>1
  <2>2. From(m) \in SUBSET Later
    BY <2>1
  <2>3. Cardinality(From(m)) <= Cardinality(Later) /\ place[m] = Cardinality(From(m))
    BY <1>2, <2>1, <2>2, FS_Subset
  <2>4. place[m] < place[x]
    BY <1>2, <2>1, <2>3
  <2> QED
    BY <1>1, <2>1, <2>4
<1>4. IsFiniteSet(S) /\ Later \in SUBSET S
  BY <1>3, FS_Subset
<1>5. Cardinality(Later) <= Cardinality(S) /\ Cardinality(S) \in Nat
  BY <1>4, FS_Subset, FS_CardinalityType
<1>6. place[x] > c /\ place[x] \in Nat
  BY <1>1
<1> HIDE DEF S, Later
<1>7. Cardinality(S) >= c
  BY <1>2, <1>5, <1>6
<1> QED
  BY <1>7 DEF S

\* If a member stands beyond place a + l, the l places after a are taken.
LEMMA PageFull ==
  ASSUME NEW F, IsFiniteSet(F), NEW pos \in [F -> Nat], NEW place \in [F -> Nat],
         \A n, m \in F : pos[n] = pos[m] => n = m,
         \A n \in F : place[n] = Cardinality({m \in F : pos[n] <= pos[m]}),
         NEW a \in Nat, NEW l \in Nat, \E n \in F : place[n] > a + l
  PROVE  Cardinality({n \in F : a < place[n] /\ place[n] <= a + l}) >= l
<1> DEFINE Upto(c) == {n \in F : place[n] <= c}
           P == {n \in F : a < place[n] /\ place[n] <= a + l}
<1>1. Cardinality(Upto(a)) <= a
  BY PlacesUpTo
<1>2. Cardinality(Upto(a + l)) >= a + l
  BY PlacesTaken
<1>3. P = Upto(a + l) \ Upto(a) /\ Upto(a + l) \cap Upto(a) = Upto(a)
  OBVIOUS
<1>4. IsFiniteSet(Upto(a)) /\ IsFiniteSet(Upto(a + l))
  BY FS_Subset
<1>5. Cardinality(Upto(a)) \in Nat /\ Cardinality(Upto(a + l)) \in Nat
  BY <1>4, FS_CardinalityType
<1> HIDE DEF P, Upto
<1>6. Cardinality(P) = Cardinality(Upto(a + l)) - Cardinality(Upto(a))
  <2>1. Cardinality(Upto(a + l) \ Upto(a)) =
          Cardinality(Upto(a + l)) - Cardinality(Upto(a + l) \cap Upto(a))
    BY <1>4, FS_Difference
  <2> QED
    BY <1>3, <2>1
<1>7. Cardinality(P) >= l
  BY <1>1, <1>2, <1>5, <1>6
<1> QED
  BY <1>7 DEF P

----------------------------------------------------------------------------
\* Types.

LEMMA FeedInitType == N!Init => N!TypeOK
BY BoundsAssumption, NotesAssumption
DEF N!Init, N!TypeOK, N!NoteStage, N!ReaderStage, N!MarkStage

LEMMA FeedNextType == N!TypeOK /\ [N!Next]_N!vars => N!TypeOK'
<1> SUFFICES ASSUME N!TypeOK, [N!Next]_N!vars PROVE N!TypeOK'
  OBVIOUS
<1> USE BoundsAssumption, NotesAssumption
    DEF N!NoteStage, N!ReaderStage, N!MarkStage, N!Goto, N!Fault, N!table, N!reads
<1>1. ASSUME NEW n \in Notes, N!Begin(n) PROVE N!TypeOK'
  <2>1. started' \in Seq(Notes) /\ \A i \in DOMAIN started' : npc'[started'[i]] # "idle"
    BY <1>1 DEF N!Begin, N!TypeOK
  <2> QED
    BY <1>1, <2>1 DEF N!Begin, N!TypeOK
<1>2. ASSUME NEW n \in Notes, N!Store(n) \/ N!Tell(n) \/ N!CreateFails(n) PROVE N!TypeOK'
  <2>1. \A i \in DOMAIN started : started[i] \in Notes
    BY DEF N!TypeOK
  <2>2. CASE N!Store(n)
    BY <2>1, <2>2 DEF N!Store, N!TypeOK
  <2>3. CASE N!Tell(n)
    BY <2>1, <2>3 DEF N!Tell, N!TypeOK
  <2>4. CASE N!CreateFails(n)
    BY <2>1, <2>4 DEF N!CreateFails, N!TypeOK
  <2> QED
    BY <1>2, <2>2, <2>3, <2>4
<1>3. ASSUME NEW m \in Marks, NEW ids \in SUBSET Notes, N!Mark(m, ids) PROVE N!TypeOK'
  BY <1>3 DEF N!Mark, N!TypeOK
<1>4. ASSUME NEW r \in Readers, N!StartReading(r) PROVE N!TypeOK'
  <2>1. \A i \in DOMAIN started : started[i] \in Notes
    BY DEF N!TypeOK
  <2> QED
    BY <1>4, <2>1 DEF N!StartReading, N!TypeOK
<1>5. ASSUME NEW r \in Readers, N!Fetch(r) PROVE N!TypeOK'
  <2>1. \A i \in DOMAIN started : started[i] \in Notes
    BY DEF N!TypeOK
  <2>2. N!Page(r, pages[r] + 1) \subseteq notes
    BY DEF N!Page, N!Feed
  <2>3. seen' \in [Readers -> SUBSET notes] /\ pages' \in [Readers -> Nat]
    BY <1>5, <2>2 DEF N!Fetch, N!TypeOK
  <2> QED
    BY <1>5, <2>1, <2>3 DEF N!Fetch, N!TypeOK
<1>6. CASE UNCHANGED N!vars
  BY <1>6 DEF N!vars, N!TypeOK
<1> QED
  BY <1>1, <1>2, <1>3, <1>4, <1>5, <1>6 DEF N!Next

----------------------------------------------------------------------------
\* The feed in the order of its starts.

LEMMA SamePlaceCount == \A S : N!Cardinality(S) = Cardinality(S)
BY DEF N!Cardinality, Cardinality

\* created_at has no ties, and every INSERT that began has one.
Ordered ==
    /\ \A i, j \in DOMAIN started : started[i] = started[j] => i = j
    /\ \A n \in Notes : npc[n] # "idle" => \E i \in DOMAIN started : started[i] = n

\* Rows come from an INSERT, and events from rows.
Told ==
    /\ \A n \in notes : npc[n] # "idle"
    /\ \A n \in Notes : npc[n] = "stored" => n \in notes
    /\ told \subseteq notes

LEMMA FeedInFinite ==
  ASSUME N!TypeOK, NEW r \in Readers
  PROVE  N!Feed(r) \in SUBSET Notes /\ IsFiniteSet(N!Feed(r))
<1>1. N!Feed(r) \in SUBSET Notes
  BY DEF N!TypeOK, N!Feed
<1> QED
  BY <1>1, NotesAssumption, FS_Subset

\* Positions in started, and the places they give to the rows of a feed.
LEMMA FeedPlaces ==
  ASSUME N!TypeOK, Ordered, Told, NEW r \in Readers
  PROVE  \E pos \in [N!Feed(r) -> Nat] :
           /\ \A n, m \in N!Feed(r) : pos[n] = pos[m] => n = m
           /\ \A n, m \in N!Feed(r) : N!NotOlder(m, n) <=> pos[n] <= pos[m]
<1> DEFINE F == N!Feed(r)
           At(n) == CHOOSE i \in DOMAIN started : started[i] = n
           pos == [n \in F |-> At(n)]
<1>1. \A n \in F : n \in Notes /\ npc[n] # "idle"
  BY FeedInFinite DEF Told, N!Feed
<1>2. \A n \in F : At(n) \in DOMAIN started /\ started[At(n)] = n
  BY <1>1 DEF Ordered
<1>3. DOMAIN started \subseteq Nat
  BY DEF N!TypeOK
<1>4. pos \in [F -> Nat]
  BY <1>2, <1>3
<1>5. \A n, m \in F : pos[n] = pos[m] => n = m
  BY <1>2
<1>6. \A n \in F, i \in DOMAIN started : started[i] = n => i = pos[n]
  BY <1>2 DEF Ordered
<1>7. ASSUME NEW n \in F, NEW m \in F
      PROVE  N!NotOlder(m, n) <=> pos[n] <= pos[m]
  BY <1>2, <1>6 DEF N!NotOlder
<1> HIDE DEF pos
<1> QED
  BY <1>4, <1>5, <1>7

\* A place is a natural, from 1 on for a row of the feed.
LEMMA PlaceType ==
  ASSUME N!TypeOK, Ordered, Told, NEW r \in Readers, NEW n
  PROVE  /\ N!Place(r, n) \in Nat
         /\ n \in N!Feed(r) => N!Place(r, n) > 0
<1> DEFINE B == {m \in N!Feed(r) : N!NotOlder(m, n)}
<1>1. IsFiniteSet(B)
  BY FeedInFinite, FS_Subset
<1>2. N!Place(r, n) = Cardinality(B) /\ Cardinality(B) \in Nat
  BY <1>1, SamePlaceCount, FS_CardinalityType DEF N!Place
<1>3. ASSUME n \in N!Feed(r) PROVE B # {}
  <2>1. n \in Notes /\ npc[n] # "idle"
    BY <1>3, FeedInFinite DEF Told, N!Feed
  <2>2. PICK i \in DOMAIN started : started[i] = n
    BY <2>1 DEF Ordered
  <2>3. i <= i
    BY <2>2 DEF N!TypeOK
  <2> QED
    BY <1>3, <2>2, <2>3 DEF N!NotOlder
<1>4. Cardinality(B) = 0 => B = {}
  BY <1>1, FS_EmptySet
<1> HIDE DEF B
<1> QED
  BY <1>2, <1>3, <1>4

\* The offset of a page, and of the next one.
LEMMA OffsetIs ==
  ASSUME NEW k \in Nat
  PROVE  k * Limit \in Nat /\ N!Offset(k + 1) = k * Limit /\ (k + 1) * Limit = k * Limit + Limit
<1>1. Limit \in Nat /\ k * Limit \in Nat
  BY ScoresAssumption
<1>2. (k + 1) * Limit = k * Limit + Limit
  BY <1>1
<1>3. N!Offset(k + 1) = k * Limit
  BY <1>1 DEF N!Offset
<1> QED
  BY <1>1, <1>2, <1>3

\* A short page is the last: no row of the feed stands beyond it.
LEMMA ShortPage ==
  ASSUME N!TypeOK, Ordered, Told, NEW r \in Readers, NEW p \in Nat,
         ~ (N!Cardinality(N!Page(r, p + 1)) >= Limit), NEW n \in N!Feed(r)
  PROVE  N!Place(r, n) <= p * Limit + Limit
<1> DEFINE F == N!Feed(r)
           place == [k \in F |-> N!Place(r, k)]
           a == p * Limit
<1>1. PICK pos \in [F -> Nat] :
        /\ \A k, m \in F : pos[k] = pos[m] => k = m
        /\ \A k, m \in F : N!NotOlder(m, k) <=> pos[k] <= pos[m]
  BY FeedPlaces
<1>2. IsFiniteSet(F)
  BY FeedInFinite
<1>3. place \in [F -> Nat]
  BY PlaceType
<1>4. ASSUME NEW k \in F PROVE place[k] = Cardinality({m \in F : pos[k] <= pos[m]})
  <2>1. {m \in F : N!NotOlder(m, k)} = {m \in F : pos[k] <= pos[m]}
    BY <1>1
  <2> QED
    BY <2>1, SamePlaceCount DEF N!Place
<1>5. a \in Nat /\ Limit \in Nat /\ N!Offset(p + 1) = a
  BY ScoresAssumption DEF N!Offset
<1>6. N!Page(r, p + 1) = {k \in F : a < place[k] /\ place[k] <= a + Limit}
  BY <1>5 DEF N!Page
<1> HIDE DEF place, a, F
<1>7. ASSUME \E k \in F : place[k] > a + Limit
      PROVE  Cardinality({k \in F : a < place[k] /\ place[k] <= a + Limit}) >= Limit
  BY <1>1, <1>2, <1>3, <1>4, <1>5, <1>7, PageFull
<1>8. ~ (place[n] > a + Limit)
  BY <1>6, <1>7, SamePlaceCount DEF F
<1>9. place[n] = N!Place(r, n) /\ place[n] \in Nat
  BY <1>3 DEF place, F
<1> QED
  BY <1>5, <1>8, <1>9 DEF a

----------------------------------------------------------------------------
\* What a reader knew of is in the feed, and seen or still to come.

Ahead(r) == known[r] \subseteq N!Feed(r) /\
            \A n \in known[r] : n \in seen[r] \/ N!Place(r, n) > pages[r] * Limit

ReadingInv ==
    /\ \A r \in Readers : npc[r] = "idle" => pages[r] = 0
    /\ \A r \in Readers : npc[r] = "reading" /\ r \notin marked => Ahead(r)

FeedInv == N!TypeOK /\ Ordered /\ Told /\ ReadingInv /\ N!NothingHidden

LEMMA InitFeed == N!Init => FeedInv
<1> SUFFICES ASSUME N!Init PROVE FeedInv
  OBVIOUS
<1>1. Ordered /\ Told
  BY DEF N!Init, Ordered, Told
<1>2. \A r \in Readers : npc[r] = "idle" /\ pages[r] = 0
  BY DEF N!Init
<1>3. ReadingInv /\ N!NothingHidden
  BY <1>2 DEF ReadingInv, N!NothingHidden
<1> QED
  BY <1>1, <1>3, FeedInitType DEF FeedInv

\* A step of a note changes no reader, and the feeds only grow.
LEMMA NoteStep ==
  ASSUME N!TypeOK, Ordered, Told, NEW n \in Notes,
         N!Begin(n) \/ N!Store(n) \/ N!Tell(n) \/ N!CreateFails(n)
  PROVE  /\ Ordered' /\ Told'
         /\ \A o \in Readers \cup Marks : npc'[o] = npc[o]
         /\ UNCHANGED <<owner, read, unread, pages, seen, known, marked>>
         /\ notes \subseteq notes'
         /\ \A m, k : N!NotOlder(m, k) => N!NotOlder(m, k)'
<1> USE NotesAssumption DEF N!table, N!reads, N!Goto, N!Fault
<1>1. \A o \in Readers \cup Marks : npc'[o] = npc[o]
  BY DEF N!TypeOK, N!Begin, N!Store, N!Tell, N!CreateFails
<1>2. /\ UNCHANGED <<owner, read, unread, pages, seen, known, marked>>
      /\ notes \subseteq notes'
  BY DEF N!Begin, N!Store, N!Tell, N!CreateFails
<1>3. CASE N!Begin(n)
  <2>1. /\ started' = Append(started, n) /\ started \in Seq(Notes)
        /\ npc[n] = "idle" /\ npc'[n] = "inserting" /\ notes' = notes /\ told' = told
        /\ \A k \in Notes \ {n} : npc'[k] = npc[k]
    BY <1>3 DEF N!Begin, N!TypeOK
  <2>2. /\ DOMAIN started' = DOMAIN started \cup {Len(started) + 1}
        /\ started'[Len(started) + 1] = n /\ Len(started) + 1 \notin DOMAIN started
        /\ \A i \in DOMAIN started : started'[i] = started[i]
    BY <2>1
  <2>3. \A i \in DOMAIN started : started[i] # n
    BY <2>1 DEF N!TypeOK
  <2>4. Ordered'
    BY <2>1, <2>2, <2>3 DEF Ordered
  <2>5. Told'
    BY <2>1 DEF Told, N!TypeOK
  <2>6. \A m, k : N!NotOlder(m, k) => N!NotOlder(m, k)'
    BY <2>2 DEF N!NotOlder
  <2> QED
    BY <1>1, <1>2, <2>4, <2>5, <2>6
<1>4. CASE ~ N!Begin(n)
  <2>1. /\ npc[n] # "idle" /\ npc'[n] # "idle" /\ started' = started
        /\ \A k \in Notes \ {n} : npc'[k] = npc[k]
    BY <1>4 DEF N!TypeOK, N!Store, N!Tell, N!CreateFails
  <2>2. notes' \subseteq notes \cup {n} /\ told' \subseteq told \cup {n}
    BY <1>4 DEF N!Store, N!Tell, N!CreateFails
  <2>3. told' \subseteq notes'
    <3>1. told' # told => npc[n] = "stored"
      BY <1>4 DEF N!Store, N!Tell, N!CreateFails
    <3> QED
      BY <2>2, <3>1, <1>2 DEF Told
  <2>7. npc'[n] = "stored" => n \in notes'
    BY <1>4, <2>1 DEF N!Store, N!Tell, N!CreateFails, N!TypeOK
  <2>4. Ordered'
    BY <2>1 DEF Ordered
  <2>5. Told'
    BY <1>2, <2>1, <2>2, <2>3, <2>7 DEF Told, N!TypeOK
  <2>6. \A m, k : N!NotOlder(m, k) => N!NotOlder(m, k)'
    BY <2>1 DEF N!NotOlder
  <2> QED
    BY <1>1, <1>2, <2>4, <2>5, <2>6
<1> QED
  BY <1>3, <1>4

\* While its feed grows, in any order of the starts, a reader misses nothing.
LEMMA FeedGrows ==
  ASSUME N!TypeOK, Ordered, Told, (N!TypeOK /\ Ordered /\ Told)', NEW r \in Readers, Ahead(r),
         known'[r] = known[r], seen'[r] = seen[r], pages'[r] = pages[r],
         N!Feed(r) \subseteq N!Feed(r)', \A m, k : N!NotOlder(m, k) => N!NotOlder(m, k)'
  PROVE  Ahead(r)'
<1>1. ASSUME NEW n \in known[r], n \notin seen[r] PROVE N!Place(r, n)' > pages[r] * Limit
  <2> DEFINE B == {m \in N!Feed(r) : N!NotOlder(m, n)}
  <2>1. B \subseteq B' /\ IsFiniteSet(B')
    <3>1. IsFiniteSet(N!Feed(r)')
      <4>1. N!Feed(r)' \in SUBSET Notes
        BY DEF N!TypeOK, N!Feed
      <4> QED
        BY <4>1, NotesAssumption, FS_Subset
    <3> QED
      BY <3>1, FS_Subset
  <2>2. N!Place(r, n) = Cardinality(B) /\ N!Place(r, n)' = Cardinality(B')
    BY SamePlaceCount DEF N!Place
  <2>3. Cardinality(B) <= Cardinality(B')
    BY <2>1, FS_Subset
  <2>4. Cardinality(B) \in Nat /\ Cardinality(B') \in Nat
    BY <2>1, FS_Subset, FS_CardinalityType
  <2>5. N!Place(r, n) > pages[r] * Limit
    BY <1>1 DEF Ahead
  <2>6. pages[r] * Limit \in Nat
    BY ScoresAssumption DEF N!TypeOK
  <2> HIDE DEF B
  <2> QED
    BY <2>2, <2>3, <2>4, <2>5, <2>6
<1> QED
  BY <1>1 DEF Ahead

LEMMA NextFeed == FeedInv /\ [N!Next]_N!vars => FeedInv'
<1> SUFFICES ASSUME N!TypeOK, Ordered, Told, ReadingInv, N!NothingHidden, [N!Next]_N!vars,
                    N!TypeOK'
             PROVE  (Ordered /\ Told /\ ReadingInv /\ N!NothingHidden)'
  BY FeedNextType DEF FeedInv
<1> USE NotesAssumption DEF N!table, N!reads, N!Goto
<1>1. ASSUME NEW n \in Notes, N!Begin(n) \/ N!Store(n) \/ N!Tell(n) \/ N!CreateFails(n)
      PROVE  (Ordered /\ Told /\ ReadingInv /\ N!NothingHidden)'
  <2>1. /\ Ordered' /\ Told'
        /\ \A o \in Readers \cup Marks : npc'[o] = npc[o]
        /\ UNCHANGED <<owner, read, unread, pages, seen, known, marked>>
        /\ notes \subseteq notes'
        /\ \A m, k : N!NotOlder(m, k) => N!NotOlder(m, k)'
    BY <1>1, NoteStep
  <2>2. \A r \in Readers : N!Feed(r) \subseteq N!Feed(r)'
    BY <2>1 DEF N!Feed
  <2>3. ASSUME NEW r \in Readers, npc'[r] = "reading", r \notin marked' PROVE Ahead(r)'
    <3>1. Ahead(r)
      BY <2>1, <2>3 DEF ReadingInv
    <3> QED
      BY <2>1, <2>2, <3>1, FeedGrows
  <2>4. ReadingInv'
    BY <2>1, <2>3 DEF ReadingInv
  <2>5. N!NothingHidden'
    BY <2>1 DEF N!NothingHidden
  <2> QED
    BY <2>1, <2>4, <2>5
<1>2. ASSUME NEW m \in Marks, NEW ids \in SUBSET Notes, N!Mark(m, ids)
      PROVE  (Ordered /\ Told /\ ReadingInv /\ N!NothingHidden)'
  <2>1. /\ UNCHANGED <<owner, started, notes, told, unread, pages, seen, known>>
        /\ \A o \in Readers \cup Notes : npc'[o] = npc[o]
        /\ marked \subseteq marked'
    BY <1>2 DEF N!Mark, N!TypeOK
  <2>2. Ordered' /\ Told'
    BY <2>1 DEF Ordered, Told, N!TypeOK
  <2>3. ASSUME NEW r \in Readers, npc'[r] = "reading", r \notin marked' PROVE Ahead(r)'
    <3>1. Ahead(r)
      BY <2>1, <2>3 DEF ReadingInv
    <3>2. ~ unread[r] \/ owner[r] # owner[m]
      BY <1>2, <2>1, <2>3 DEF N!Mark
    <3>3. \A k \in read' : k \in read \/ owner[k] = owner[m]
      BY <1>2 DEF N!Mark
    <3>4. N!Feed(r) \subseteq N!Feed(r)'
      BY <2>1, <3>2, <3>3 DEF N!Feed
    <3>5. \A p, k : N!NotOlder(p, k) => N!NotOlder(p, k)'
      BY <2>1 DEF N!NotOlder
    <3> QED
      BY <2>1, <2>2, <3>1, <3>4, <3>5, FeedGrows
  <2>4. ReadingInv' /\ N!NothingHidden'
    BY <2>1, <2>3 DEF ReadingInv, N!NothingHidden
  <2> QED
    BY <2>2, <2>4
<1>3. ASSUME NEW r \in Readers, N!StartReading(r)
      PROVE  (Ordered /\ Told /\ ReadingInv /\ N!NothingHidden)'
  <2>1. /\ UNCHANGED <<owner, started, notes, read, told, unread, pages, seen, marked>>
        /\ npc[r] = "idle" /\ npc'[r] = "reading"
        /\ \A o \in Notes \cup (Readers \ {r}) : npc'[o] = npc[o]
        /\ \A q \in Readers \ {r} : known'[q] = known[q]
        /\ known'[r] = {n \in told : owner[n] = owner[r] /\ (unread[r] => n \notin read)}
    BY <1>3 DEF N!StartReading, N!TypeOK
  <2>2. Ordered' /\ Told'
    BY <2>1 DEF Ordered, Told, N!TypeOK
  <2>3. \A q \in Readers : \A n : N!Feed(q)' = N!Feed(q) /\ N!Place(q, n)' = N!Place(q, n)
    BY <2>1 DEF N!Feed, N!Place, N!NotOlder
  <2>4. Ahead(r)'
    <3>1. known'[r] \subseteq N!Feed(r)
      BY <2>1 DEF Told, N!Feed
    <3>2. pages'[r] * Limit = 0
      BY <2>1, ScoresAssumption DEF ReadingInv
    <3>3. \A n \in known'[r] : N!Place(r, n)' > pages'[r] * Limit
      BY <2>3, <3>1, <3>2, PlaceType
    <3> QED
      BY <2>3, <3>1, <3>3 DEF Ahead
  <2>5. ASSUME NEW q \in Readers \ {r}, Ahead(q) PROVE Ahead(q)'
    BY <2>1, <2>3, <2>5 DEF Ahead
  <2>6. ReadingInv' /\ N!NothingHidden'
    BY <2>1, <2>4, <2>5 DEF ReadingInv, N!NothingHidden
  <2> QED
    BY <2>2, <2>6
<1>4. ASSUME NEW r \in Readers, N!Fetch(r)
      PROVE  (Ordered /\ Told /\ ReadingInv /\ N!NothingHidden)'
  <2> DEFINE p == pages[r]
             shown == N!Page(r, p + 1)
  <2>1. /\ UNCHANGED <<owner, started, notes, read, told, unread, known, marked>>
        /\ npc[r] = "reading"
        /\ npc'[r] = IF N!Cardinality(shown) < Limit THEN "done" ELSE "reading"
        /\ \A o \in Notes \cup (Readers \ {r}) : npc'[o] = npc[o]
        /\ \A q \in Readers \ {r} : pages'[q] = pages[q] /\ seen'[q] = seen[q]
        /\ pages'[r] = p + 1 /\ seen'[r] = seen[r] \cup shown
    BY <1>4 DEF N!Fetch, N!TypeOK
  <2>2. Ordered' /\ Told'
    BY <2>1 DEF Ordered, Told, N!TypeOK
  <2>3. \A q \in Readers : \A n : N!Feed(q)' = N!Feed(q) /\ N!Place(q, n)' = N!Place(q, n)
    BY <2>1 DEF N!Feed, N!Place, N!NotOlder
  <2>4. /\ p \in Nat /\ Limit \in Nat /\ p * Limit \in Nat
        /\ N!Offset(p + 1) = p * Limit /\ (p + 1) * Limit = p * Limit + Limit
    <3>1. p \in Nat /\ Limit \in Nat
      BY ScoresAssumption DEF N!TypeOK
    <3> HIDE DEF p
    <3> QED
      BY <3>1, OffsetIs
  <2>5. shown = {n \in N!Feed(r) : p * Limit < N!Place(r, n) /\ N!Place(r, n) <= p * Limit + Limit}
    BY <2>4 DEF N!Page
  <2> HIDE DEF p, shown
  <2>6. ASSUME r \notin marked, NEW n \in known[r]
        PROVE  /\ n \in N!Feed(r) /\ N!Place(r, n) \in Nat
               /\ n \in seen'[r] \/ N!Place(r, n) > p * Limit + Limit
    <3>1. n \in N!Feed(r) /\ (n \in seen[r] \/ N!Place(r, n) > p * Limit)
      BY <2>1, <2>6 DEF ReadingInv, Ahead, p
    <3>2. N!Place(r, n) \in Nat
      BY PlaceType
    <3> QED
      BY <2>1, <2>4, <2>5, <3>1, <3>2
  <2>7. ASSUME r \notin marked PROVE Ahead(r)'
    BY <2>1, <2>3, <2>4, <2>6, <2>7 DEF Ahead
  <2>8. ASSUME r \notin marked, npc'[r] = "done" PROVE known[r] \subseteq seen'[r]
    <3>1. ~ (N!Cardinality(shown) >= Limit)
      <4>1. N!Cardinality(shown) < Limit
        BY <2>1, <2>8
      <4>2. N!Cardinality(shown) \in Nat
        <5>1. IsFiniteSet(shown)
          BY <2>5, FeedInFinite, FS_Subset
        <5> QED
          BY <5>1, SamePlaceCount, FS_CardinalityType
      <4> QED
        BY <2>4, <4>1, <4>2
    <3>2. \A n \in N!Feed(r) : N!Place(r, n) <= p * Limit + Limit
      BY <2>4, <3>1, ShortPage DEF shown
    <3> QED
      BY <2>4, <2>6, <2>8, <3>2
  <2>9. ASSUME NEW q \in Readers \ {r}, Ahead(q) PROVE Ahead(q)'
    BY <2>1, <2>3, <2>9 DEF Ahead
  <2>10. ReadingInv' /\ N!NothingHidden'
    BY <2>1, <2>7, <2>8, <2>9 DEF ReadingInv, N!NothingHidden
  <2> QED
    BY <2>2, <2>10
<1>5. CASE UNCHANGED N!vars
  <2>1. UNCHANGED <<npc, owner, started, notes, read, told, unread, pages, seen, known, marked>>
    BY <1>5 DEF N!vars
  <2>2. \A q \in Readers : Ahead(q)' = Ahead(q)
    BY <2>1 DEF Ahead, N!Feed, N!Place, N!NotOlder
  <2> QED
    BY <2>1, <2>2 DEF Ordered, Told, ReadingInv, N!NothingHidden
<1> QED
  BY <1>1, <1>2, <1>3, <1>4, <1>5 DEF N!Next

----------------------------------------------------------------------------
\* Paging shows every notification the user had been told of: inserts that start,
\* commit and fail meanwhile, in any order, move the pages but hide nothing (create
\* and list of NotificationsRepository).
THEOREM FeedSafe == AllSpec => []FeedComplete
<1> DEFINE Inv == active = "notifications" => FeedInv
<1>1. AllInit => Inv
  BY InitFeed DEF AllInit
<1>2. Inv /\ [AllNext]_<<active, vars, accountVars, scoreVars, noteVars, faults>> => Inv'
  BY NextFeed DEF AllNext, N!vars, N!table, N!reads, noteVars
<1>3. Inv => FeedComplete
  BY DEF FeedInv, FeedComplete
<1> QED
  BY <1>1, <1>2, <1>3, PTL DEF AllSpec

\* Each of the four parts keeps its types in the composition.
THEOREM RecordsTypeCorrect == AllSpec => []RecordsTypeOK
<1> DEFINE Inv ==
      /\ DashboardInv
      /\ active = "accounts" => A!TypeOK
      /\ active = "leaderboards" => ScoresInv
      /\ active = "notifications" => N!TypeOK
<1>1. AllInit => Inv
  BY InitDashboard, AccountsInitType, InitScores, FeedInitType DEF AllInit
<1>2. Inv /\ [AllNext]_<<active, vars, accountVars, scoreVars, noteVars, faults>> => Inv'
  <2> SUFFICES ASSUME Inv, [AllNext]_<<active, vars, accountVars, scoreVars, noteVars, faults>>
               PROVE  Inv'
    OBVIOUS
  <2>1. DashboardInv'
    BY NextDashboard
  <2>2. ASSUME active' = "accounts" PROVE A!TypeOK'
    BY <2>2, AccountsNextType DEF AllNext, A!vars, A!input, accountVars
  <2>3. ASSUME active' = "leaderboards" PROVE ScoresInv'
    BY <2>3, NextScores DEF AllNext, L!vars, L!input, scoreVars
  <2>4. ASSUME active' = "notifications" PROVE N!TypeOK'
    BY <2>4, FeedNextType DEF AllNext, N!vars, N!table, N!reads, noteVars
  <2> QED
    BY <2>1, <2>2, <2>3, <2>4
<1>3. Inv => RecordsTypeOK
  BY DEF DashboardInv, ScoresInv, RecordsTypeOK
<1> QED
  BY <1>1, <1>2, <1>3, PTL DEF AllSpec
=============================================================================
