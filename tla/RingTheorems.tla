---------------------------- MODULE RingTheorems ----------------------------
(* Facts about wrap-around positions: comparing two of them, subtracting    *)
(* them and mapping them to slots is exact as long as they are close.       *)
EXTENDS Ring, TLAPS, SequenceTheorems

(* Euclidean division. *)
LEMMA DivMod ==
    ASSUME NEW x \in Int, NEW m \in Nat \ {0}
    PROVE  /\ x \div m \in Int
           /\ x % m \in 0 .. m - 1
           /\ x = m * (x \div m) + (x % m)
BY SMT

(* A positive multiple of m is at least m ... *)
LEMMA MulGe ==
    ASSUME NEW m \in Nat \ {0}, NEW d \in Int, d >= 1
    PROVE  m * d >= m
BY SMT

(* ... and a negative one at most -m. *)
LEMMA MulLe ==
    ASSUME NEW m \in Nat \ {0}, NEW d \in Int, d <= -1
    PROVE  m * d <= -m
BY SMT

(* Multiplication by a natural number distributes over a difference. *)
LEMMA Distributes ==
    ASSUME NEW m \in Int, NEW a \in Int, NEW b \in Int
    PROVE  m * (a - b) = m * a - m * b
BY SMT

(* Quotient and remainder are unique. *)
LEMMA ModUnique ==
    ASSUME NEW m \in Nat \ {0}, NEW x \in Int, NEW k \in Int, NEW r \in 0 .. m - 1,
           x = m * k + r
    PROVE  x % m = r
<1> DEFINE a == x \div m
<1>1. a \in Int /\ x % m \in 0 .. m - 1 /\ x = m * a + (x % m)
  BY DivMod
<1>2. m * (a - k) = m * a - m * k
  BY <1>1, Distributes
<1> HIDE DEF a
<1>3. a - k \in Int /\ r - (x % m) = m * (a - k)
  BY <1>1, <1>2
<1>4. ~ (a - k >= 1)
  BY <1>1, <1>3, MulGe
<1>5. ~ (a - k <= -1)
  BY <1>1, <1>3, MulLe
<1>6. a = k
  BY <1>1, <1>4, <1>5
<1> QED
  BY <1>1, <1>6

(* Less than m apart, numbers with the same remainder are equal. *)
LEMMA ModInjective ==
    ASSUME NEW m \in Nat \ {0}, NEW x \in Int, NEW y \in Int,
           x - y < m, y - x < m, x % m = y % m
    PROVE  x = y
<1> DEFINE a == x \div m
           b == y \div m
<1>1. a \in Int /\ x % m \in Int /\ x = m * a + (x % m)
  BY DivMod
<1>8. b \in Int /\ y % m \in Int /\ y = m * b + (y % m)
  BY DivMod
<1> HIDE DEF a, b
<1>2. m * (a - b) = m * a - m * b
  BY <1>1, <1>8, Distributes
<1>3. a - b \in Int /\ x - y = m * (a - b)
  BY <1>1, <1>8, <1>2
<1>4. ~ (a - b >= 1)
  BY <1>3, MulGe
<1>5. ~ (a - b <= -1)
  BY <1>3, MulLe
<1>6. a - b = 0
  BY <1>3, <1>4, <1>5
<1> QED
  BY <1>3, <1>6

(* What `new` guarantees of a capacity: positions have a spare bit. *)
LEMMA CapacityFacts ==
    ASSUME NEW q \in Workers
    PROVE  /\ Capacity[q] \in Nat \ {0}
           /\ 2 * Capacity[q] <= Modulus
           /\ Capacity[q] < Modulus
<1>1. PICK k \in 2 .. Modulus : Modulus = k * Capacity[q]
  BY CapacityAssumption
<1>2. Capacity[q] \in Nat \ {0}
  BY CapacityAssumption
<1>3. Modulus = Capacity[q] * (k - 1) + Capacity[q]
  BY <1>1, <1>2, CapacityAssumption
<1>4. Capacity[q] * (k - 1) >= Capacity[q]
  BY <1>1, <1>2, MulGe, CapacityAssumption
<1>5. Capacity[q] * (k - 1) \in Int
  BY <1>1, <1>2, CapacityAssumption
<1> QED
  BY <1>2, <1>3, <1>4, <1>5

(* Equality of two UnsignedShorts is equality of close positions. *)
LEMMA ShortEqual ==
    ASSUME NEW x \in Int, NEW y \in Int,
           x - y < Modulus, y - x < Modulus, Short(x) = Short(y)
    PROVE  x = y
BY ModInjective, CapacityAssumption DEF Short

(* The value of an UnsignedShort is below the modulus. *)
LEMMA ShortRange ==
    ASSUME NEW x \in Int
    PROVE  Short(x) \in 0 .. Modulus - 1
BY DivMod, CapacityAssumption DEF Short

(* Reduction changes nothing below the modulus. *)
LEMMA ShortSmall ==
    ASSUME NEW x \in 0 .. Modulus - 1
    PROVE  Short(x) = x
<1>1. x = Modulus * 0 + x
  BY CapacityAssumption
<1> QED
  BY <1>1, ModUnique, CapacityAssumption DEF Short

(* A wrapping subtraction is the reduced difference ... *)
LEMMA WrappingSubIsShort ==
    ASSUME NEW a \in Int, NEW b \in Int
    PROVE  WrappingSub(a, b) = Short(a - b)
<1> DEFINE d == a - b
           i == a \div Modulus
           j == b \div Modulus
           k == d \div Modulus
<1>1. Modulus \in Nat \ {0}
  BY CapacityAssumption
<1>2. i \in Int /\ a = Modulus * i + Short(a) /\ Short(a) \in Int
  BY <1>1, DivMod DEF Short
<1>3. j \in Int /\ b = Modulus * j + Short(b) /\ Short(b) \in Int
  BY <1>1, DivMod DEF Short
<1>9. d \in Int
  OBVIOUS
<1> HIDE DEF d
<1>4. k \in Int /\ d = Modulus * k + Short(d) /\ Short(d) \in 0 .. Modulus - 1
  BY <1>1, <1>9, DivMod DEF Short
<1> HIDE DEF i, j, k
<1>5. Modulus * (i - j) = Modulus * i - Modulus * j
  BY <1>1, <1>2, <1>3, Distributes
<1>6. Modulus * (k - (i - j)) = Modulus * k - Modulus * (i - j)
  BY <1>1, <1>2, <1>3, <1>4, Distributes
<1>7. d = a - b
  BY DEF d
<1>8. Short(a) - Short(b) = Modulus * (k - (i - j)) + Short(d)
  BY <1>1, <1>2, <1>3, <1>4, <1>5, <1>6, <1>7
<1>10. Short(a) - Short(b) \in Int /\ k - (i - j) \in Int
  BY <1>2, <1>3, <1>4
<1>11. (Short(a) - Short(b)) % Modulus = Short(d)
  BY <1>1, <1>4, <1>8, <1>10, ModUnique
<1> QED
  BY <1>7, <1>11 DEF WrappingSub, Short

(* ... and the true one when it is not negative and fits. *)
LEMMA WrappingSubExact ==
    ASSUME NEW a \in Int, NEW b \in Int, 0 <= a - b, a - b < Modulus
    PROVE  WrappingSub(a, b) = a - b
<1>1. a - b \in 0 .. Modulus - 1
  BY CapacityAssumption
<1> QED
  BY <1>1, WrappingSubIsShort, ShortSmall

(* Subtracting twice, as tail and item count are computed. *)
LEMMA WrappingSubTwice ==
    ASSUME NEW a \in Int, NEW b \in Int, NEW c \in Int
    PROVE  WrappingSub(WrappingSub(a, b), c) = Short(a - b - c)
<1>1. Short(a - b) \in 0 .. Modulus - 1
  BY ShortRange
<1>2. Short(Short(a - b)) = Short(a - b)
  BY <1>1, ShortSmall
<1>3. WrappingSub(a, b) = Short(a - b)
  BY WrappingSubIsShort
<1>4. WrappingSub(Short(a - b), c) = WrappingSub(a - b, c)
  BY <1>2 DEF WrappingSub
<1>5. WrappingSub(a - b, c) = Short(a - b - c)
  BY WrappingSubIsShort
<1> QED
  BY <1>3, <1>4, <1>5

(* The spare bits of a position do not change its slot. *)
LEMMA SlotIsMod ==
    ASSUME NEW q \in Workers, NEW p \in Int
    PROVE  Slot(q, p) = p % Capacity[q]
<1> DEFINE C == Capacity[q]
           i == p \div Modulus
           j == Short(p) \div C
<1>1. PICK k \in 2 .. Modulus : Modulus = k * C
  BY CapacityAssumption
<1>2. C \in Nat \ {0} /\ Modulus \in Nat \ {0} /\ k \in Int
  BY CapacityAssumption, CapacityFacts
<1>3. i \in Int /\ Short(p) \in Int /\ p = Modulus * i + Short(p)
  BY <1>2, DivMod DEF Short
<1>4. j \in Int /\ Slot(q, p) \in 0 .. C - 1 /\ Short(p) = C * j + Slot(q, p)
  BY <1>2, <1>3, DivMod DEF Slot
<1> HIDE DEF i, j, C
<1>5. k * i + j \in Int /\ C * (k * i + j) = (k * C) * i + C * j
  BY <1>2, <1>3, <1>4
<1>6. p = C * (k * i + j) + Slot(q, p)
  BY <1>1, <1>2, <1>3, <1>4, <1>5
<1>7. p % C = Slot(q, p)
  BY <1>2, <1>4, <1>5, <1>6, ModUnique
<1> QED
  BY <1>7 DEF C

(* Positions less than a capacity apart have different slots. *)
LEMMA SlotInjective ==
    ASSUME NEW q \in Workers, NEW p \in Int, NEW r \in Int,
           p - r < Capacity[q], r - p < Capacity[q], Slot(q, p) = Slot(q, r)
    PROVE  p = r
BY SlotIsMod, ModInjective, CapacityFacts

-----------------------------------------------------------------------------
(* Buffers: which slots hold items, and which items they hold. *)

Content == Nat \cup {Vacant}

BufferShape(b) ==
    /\ DOMAIN b = Workers
    /\ \A q \in Workers : b[q] \in [0 .. Capacity[q] - 1 -> Content]

\* The slots of q that hold an item.
Occupied(b, q) == {i \in 0 .. Capacity[q] - 1 : b[q][i] # Vacant}

\* The slots of a set of positions.
SlotsAt(q, positions) == {Slot(q, p) : p \in positions}

\* The items in the buffers, ...
StoredIn(b) == (UNION {{b[q][i] : i \in DOMAIN b[q]} : q \in Workers}) \ {Vacant}

\* ... none of them twice.
Unique(b) ==
    \A p, q \in Workers : \A i \in DOMAIN b[p], j \in DOMAIN b[q] :
        b[p][i] = b[q][j] /\ b[p][i] # Vacant => p = q /\ i = j

(* `position & mask` is an index of the buffer. *)
LEMMA SlotType ==
    ASSUME NEW q \in Workers, NEW p \in Int
    PROVE  Slot(q, p) \in 0 .. Capacity[q] - 1
BY CapacityFacts, CapacityAssumption, ShortRange DEF Slot

(* The slots of a run of positions. *)
LEMMA SlotsOfRun ==
    ASSUME NEW q \in Workers, NEW p \in Int, NEW n \in Int
    PROVE  /\ Slots(q, p, n) = SlotsAt(q, p .. p + n - 1)
           /\ Slots(q, p, n) \subseteq 0 .. Capacity[q] - 1
<1>1. ASSUME NEW k \in 0 .. n - 1 PROVE p + k \in p .. p + n - 1
  OBVIOUS
<1>2. ASSUME NEW r \in p .. p + n - 1 PROVE r - p \in 0 .. n - 1 /\ p + (r - p) = r
  OBVIOUS
<1>3. \A k \in 0 .. n - 1 : p + k \in Int
  OBVIOUS
<1>4. Slots(q, p, n) \subseteq SlotsAt(q, p .. p + n - 1)
  BY ONLY <1>1 DEF Slots, SlotsAt
<1>5. SlotsAt(q, p .. p + n - 1) \subseteq Slots(q, p, n)
  <2> SUFFICES ASSUME NEW r \in p .. p + n - 1 PROVE Slot(q, r) \in Slots(q, p, n)
    BY DEF SlotsAt
  <2>1. Slot(q, p + (r - p)) \in Slots(q, p, n)
    BY ONLY <1>2 DEF Slots
  <2> QED
    BY ONLY <1>2, <2>1
<1>6. Slots(q, p, n) \subseteq 0 .. Capacity[q] - 1
  BY <1>3, SlotType DEF Slots
<1> QED
  BY ONLY <1>4, <1>5, <1>6

\* Positions less than a capacity apart.
Near(q, positions) == \A p, r \in positions : p \in Int /\ r \in Int /\ p - r < Capacity[q]

(* So are those of a window of one capacity. *)
LEMMA WindowIsNear ==
    ASSUME NEW q \in Workers, NEW h \in Int
    PROVE  Near(q, h .. h + Capacity[q] - 1)
BY CapacityFacts DEF Near

(* Within a capacity, different positions have different slots. *)
LEMMA SlotsApart ==
    ASSUME NEW q \in Workers, NEW W, Near(q, W), NEW A \in SUBSET W, NEW B \in SUBSET W,
           NEW a \in A, NEW b \in B, Slot(q, a) = Slot(q, b)
    PROVE  a = b
<1>1. a \in Int /\ b \in Int /\ a - b < Capacity[q] /\ b - a < Capacity[q]
  BY DEF Near
<1> QED
  BY <1>1, SlotInjective

(* So sets of positions without a common one have no common slot ... *)
LEMMA SlotsDisjoint ==
    ASSUME NEW q \in Workers, NEW W, Near(q, W), NEW A \in SUBSET W, NEW B \in SUBSET W,
           A \cap B = {}
    PROVE  SlotsAt(q, A) \cap SlotsAt(q, B) = {}
<1>1. ASSUME NEW a \in A, NEW b \in B, Slot(q, a) = Slot(q, b) PROVE a = b
  BY <1>1, SlotsApart
<1> QED
  BY ONLY <1>1, A \cap B = {} DEF SlotsAt

(* ... and the slots of a difference are those of no position taken away. *)
LEMMA SlotsMinus ==
    ASSUME NEW q \in Workers, NEW W, Near(q, W), NEW A \in SUBSET W, NEW B \in SUBSET W
    PROVE  SlotsAt(q, A \ B) = SlotsAt(q, A) \ SlotsAt(q, B)
<1>1. ASSUME NEW a \in A, NEW b \in B, Slot(q, a) = Slot(q, b) PROVE a = b
  BY <1>1, SlotsApart
<1> QED
  BY ONLY <1>1 DEF SlotsAt

(* read_at moves items out slot by slot: nothing else changes. *)
LEMMA MovedOutCells ==
    ASSUME NEW b, BufferShape(b), NEW q \in Workers, NEW p \in Int, NEW n \in Int
    PROVE  /\ BufferShape(MovedOut(b, q, p, n))
           /\ \A r \in Workers : \A i \in 0 .. Capacity[r] - 1 :
                 MovedOut(b, q, p, n)[r][i] =
                    IF r = q /\ i \in Slots(q, p, n) THEN Vacant ELSE b[r][i]
<1> DEFINE c == [i \in DOMAIN b[q] |-> IF i \in Slots(q, p, n) THEN Vacant ELSE b[q][i]]
<1>1. DOMAIN b = Workers /\ \A r \in Workers : b[r] \in [0 .. Capacity[r] - 1 -> Content]
  BY DEF BufferShape
<1>2. /\ c \in [0 .. Capacity[q] - 1 -> Content]
      /\ \A i \in 0 .. Capacity[q] - 1 : c[i] = IF i \in Slots(q, p, n) THEN Vacant ELSE b[q][i]
  <2> HIDE DEF Slots
  <2> QED
    BY <1>1 DEF Content
<1>3. MovedOut(b, q, p, n) = [b EXCEPT ![q] = c]
  BY DEF MovedOut
<1> HIDE DEF c
<1>4. \A r \in Workers : MovedOut(b, q, p, n)[r] = IF r = q THEN c ELSE b[r]
  BY ONLY <1>1, <1>3
<1>5. DOMAIN MovedOut(b, q, p, n) = Workers
  BY ONLY <1>1, <1>3
<1>6. BufferShape(MovedOut(b, q, p, n))
  BY ONLY <1>1, <1>2, <1>4, <1>5 DEF BufferShape
<1> QED
  BY ONLY <1>2, <1>4, <1>6

\* b1 is b with s[0], s[1], ... in the slots of the n positions from p on.
FilledIn(b1, b, q, p, n, s) ==
    /\ BufferShape(b1)
    /\ \A r \in Workers : \A i \in 0 .. Capacity[r] - 1 :
          ~ (r = q /\ i \in Slots(q, p, n)) => b1[r][i] = b[r][i]
    /\ \A k \in 0 .. n - 1 : b1[q][Slot(q, p + k)] = s[k]

(* write_at fills the slots of n positions, up to a capacity, in order. *)
LEMMA WrittenCells ==
    ASSUME NEW b, BufferShape(b), NEW q \in Workers, NEW p \in Int,
           NEW n \in Nat, n <= Capacity[q], NEW s \in [0 .. n - 1 -> Content]
    PROVE  FilledIn(Written(b, q, p, s), b, q, p, n, s)
<1> DEFINE Hit(i) == \E k \in 0 .. n - 1 : i = Slot(q, p + k)
           which(i) == CHOOSE k \in 0 .. n - 1 : i = Slot(q, p + k)
           c == [i \in DOMAIN b[q] |-> IF Hit(i) THEN s[which(i)] ELSE b[q][i]]
<1>1. DOMAIN b = Workers /\ \A r \in Workers : b[r] \in [0 .. Capacity[r] - 1 -> Content]
  BY DEF BufferShape
<1>2. \A i : Hit(i) => which(i) \in 0 .. n - 1 /\ i = Slot(q, p + which(i))
  OBVIOUS
<1>3. \A i : Hit(i) <=> i \in Slots(q, p, n)
  BY DEF Slots
<1>4. Written(b, q, p, s) = [b EXCEPT ![q] = c]
  BY DEF Written
<1>5. ASSUME NEW k \in 0 .. n - 1 PROVE which(Slot(q, p + k)) = k /\ Hit(Slot(q, p + k))
  <2> DEFINE w == which(Slot(q, p + k))
  <2>1. Hit(Slot(q, p + k))
    OBVIOUS
  <2>2. w \in 0 .. n - 1 /\ Slot(q, p + k) = Slot(q, p + w)
    BY <1>2, <2>1
  <2> HIDE DEF w, Hit, which
  <2>3. /\ p + k \in Int /\ p + w \in Int
        /\ (p + k) - (p + w) < Capacity[q] /\ (p + w) - (p + k) < Capacity[q]
    BY <2>2, CapacityFacts
  <2>4. p + k = p + w
    BY ONLY <2>2, <2>3, SlotInjective, q \in Workers
  <2>5. w = k
    BY ONLY <2>2, <2>4, p \in Int, k \in 0 .. n - 1
  <2> QED
    BY <2>1, <2>5 DEF w
<1> HIDE DEF Hit, which
<1>6. /\ c \in [0 .. Capacity[q] - 1 -> Content]
      /\ \A i \in 0 .. Capacity[q] - 1 : c[i] = IF Hit(i) THEN s[which(i)] ELSE b[q][i]
  BY <1>1, <1>2
<1> HIDE DEF c
<1>7. \A r \in Workers : Written(b, q, p, s)[r] = IF r = q THEN c ELSE b[r]
  BY ONLY <1>1, <1>4
<1>8. DOMAIN Written(b, q, p, s) = Workers
  BY ONLY <1>1, <1>4
<1>9. BufferShape(Written(b, q, p, s))
  BY ONLY <1>1, <1>6, <1>7, <1>8 DEF BufferShape
<1>10. ASSUME NEW r \in Workers, NEW i \in 0 .. Capacity[r] - 1,
              ~ (r = q /\ i \in Slots(q, p, n))
       PROVE  Written(b, q, p, s)[r][i] = b[r][i]
  BY ONLY <1>3, <1>6, <1>7, <1>10, q \in Workers
<1>11. ASSUME NEW k \in 0 .. n - 1 PROVE Written(b, q, p, s)[q][Slot(q, p + k)] = s[k]
  <2>1. p + k \in Int
    OBVIOUS
  <2>2. Slot(q, p + k) \in 0 .. Capacity[q] - 1
    BY <2>1, SlotType
  <2> QED
    BY ONLY <1>5, <1>6, <1>7, <2>2, q \in Workers, k \in 0 .. n - 1
<1> QED
  BY ONLY <1>9, <1>10, <1>11 DEF FilledIn

(* However many items it is given, write_at leaves buffers of the same shape. *)
LEMMA WrittenTypes ==
    ASSUME NEW b, BufferShape(b), NEW q \in Workers,
           NEW p \in Int, NEW s, \A k \in DOMAIN s : s[k] \in Content
    PROVE  BufferShape(Written(b, q, p, s))
<1> DEFINE Hit(i) == \E k \in DOMAIN s : i = Slot(q, p + k)
           which(i) == CHOOSE k \in DOMAIN s : i = Slot(q, p + k)
           c == [i \in DOMAIN b[q] |-> IF Hit(i) THEN s[which(i)] ELSE b[q][i]]
<1>1. \A i : Hit(i) => which(i) \in DOMAIN s
  OBVIOUS
<1>2. Written(b, q, p, s) = [b EXCEPT ![q] = c]
  BY DEF Written
<1> HIDE DEF Hit, which
<1>3. DOMAIN b = Workers /\ \A r \in Workers : b[r] \in [0 .. Capacity[r] - 1 -> Content]
  BY DEF BufferShape
<1>4. c \in [0 .. Capacity[q] - 1 -> Content]
  BY <1>1, <1>3
<1> HIDE DEF c
<1> QED
  BY <1>2, <1>3, <1>4 DEF BufferShape

(* What read_at returns is an item, or what a vacant slot holds. *)
LEMMA ReadTypes ==
    ASSUME NEW b, BufferShape(b), NEW q \in Workers, NEW p \in Int, NEW n \in Int
    PROVE  /\ Read(b, q, p, n) \subseteq Content
           /\ \A k \in DOMAIN Items(b, q, p, n) : Items(b, q, p, n)[k] \in Content
<1>1. \A k \in 0 .. n - 1 : Slot(q, p + k) \in 0 .. Capacity[q] - 1
  BY SlotType
<1>2. b[q] \in [0 .. Capacity[q] - 1 -> Content]
  BY DEF BufferShape
<1> QED
  BY <1>1, <1>2 DEF Read, Slots, Items

(* What both do to the set of occupied slots. *)
LEMMA MovedOutOccupied ==
    ASSUME NEW b, BufferShape(b), NEW q \in Workers, NEW p \in Int, NEW n \in Int,
           NEW r \in Workers
    PROVE  Occupied(MovedOut(b, q, p, n), r)
             = IF r = q THEN Occupied(b, q) \ Slots(q, p, n) ELSE Occupied(b, r)
BY ONLY MovedOutCells, BufferShape(b), q \in Workers, p \in Int, n \in Int, r \in Workers
   DEF Occupied

(* Writing items occupies their slots and no others. *)
LEMMA WrittenOccupied ==
    ASSUME NEW b, BufferShape(b), NEW q \in Workers, NEW p \in Int, NEW n \in Nat,
           NEW s, \A k \in 0 .. n - 1 : s[k] # Vacant,
           NEW b1, FilledIn(b1, b, q, p, n, s), NEW r \in Workers
    PROVE  Occupied(b1, r)
             = IF r = q THEN Occupied(b, q) \cup Slots(q, p, n) ELSE Occupied(b, r)
<1>1. /\ \A u \in Workers : \A i \in 0 .. Capacity[u] - 1 :
            ~ (u = q /\ i \in Slots(q, p, n)) => b1[u][i] = b[u][i]
      /\ \A k \in 0 .. n - 1 : b1[q][Slot(q, p + k)] = s[k]
  BY DEF FilledIn
<1>2. \A i \in Slots(q, p, n) : b1[q][i] # Vacant /\ i \in 0 .. Capacity[q] - 1
  <2>1. \A i \in Slots(q, p, n) : \E k \in 0 .. n - 1 : i = Slot(q, p + k)
    BY DEF Slots
  <2>2. Slots(q, p, n) \subseteq 0 .. Capacity[q] - 1
    BY SlotsOfRun
  <2> QED
    BY ONLY <1>1, <2>1, <2>2, \A k \in 0 .. n - 1 : s[k] # Vacant
<1> QED
  BY ONLY <1>1, <1>2, q \in Workers, r \in Workers DEF Occupied

(* The stored items, cell by cell. *)
LEMMA StoredCells ==
    ASSUME NEW b, BufferShape(b), NEW x
    PROVE  x \in StoredIn(b) <=>
              x # Vacant /\ \E q \in Workers : \E i \in 0 .. Capacity[q] - 1 : b[q][i] = x
<1>1. \A q \in Workers : DOMAIN b[q] = 0 .. Capacity[q] - 1
  BY DEF BufferShape
<1>2. x \in StoredIn(b) <=>
         x # Vacant /\ \E q \in Workers : x \in {b[q][i] : i \in DOMAIN b[q]}
  BY DEF StoredIn
<1>3. ASSUME NEW q \in Workers
      PROVE  x \in {b[q][i] : i \in DOMAIN b[q]} <=> \E i \in 0 .. Capacity[q] - 1 : b[q][i] = x
  BY <1>1
<1> QED
  BY ONLY <1>2, <1>3

(* No item is in two slots, index by index. *)
LEMMA UniqueCells ==
    ASSUME NEW b, BufferShape(b)
    PROVE  Unique(b) <=>
              \A p, q \in Workers :
                  \A i \in 0 .. Capacity[p] - 1, j \in 0 .. Capacity[q] - 1 :
                      b[p][i] = b[q][j] /\ b[p][i] # Vacant => p = q /\ i = j
<1>1. ASSUME NEW p \in Workers, NEW i
      PROVE  i \in DOMAIN b[p] <=> i \in 0 .. Capacity[p] - 1
  BY DEF BufferShape
<1>2. ASSUME Unique(b), NEW p \in Workers, NEW q \in Workers,
             NEW i \in 0 .. Capacity[p] - 1, NEW j \in 0 .. Capacity[q] - 1,
             b[p][i] = b[q][j], b[p][i] # Vacant
      PROVE  p = q /\ i = j
  <2>1. i \in DOMAIN b[p] /\ j \in DOMAIN b[q]
    BY <1>1
  <2> QED
    BY <1>2, <2>1 DEF Unique
<1>3. ASSUME \A p, q \in Workers :
                \A i \in 0 .. Capacity[p] - 1, j \in 0 .. Capacity[q] - 1 :
                    b[p][i] = b[q][j] /\ b[p][i] # Vacant => p = q /\ i = j,
             NEW p \in Workers, NEW q \in Workers,
             NEW i \in DOMAIN b[p], NEW j \in DOMAIN b[q],
             b[p][i] = b[q][j], b[p][i] # Vacant
      PROVE  p = q /\ i = j
  <2>1. i \in 0 .. Capacity[p] - 1 /\ j \in 0 .. Capacity[q] - 1
    BY <1>1
  <2> QED
    BY <1>3, <2>1
<1> QED
  BY ONLY <1>2, <1>3 DEF Unique

(* What is read from occupied slots is stored there. *)
LEMMA ReadStored ==
    ASSUME NEW b, BufferShape(b), NEW q \in Workers, NEW p \in Int, NEW n \in Int,
           Slots(q, p, n) \subseteq Occupied(b, q)
    PROVE  Read(b, q, p, n) \subseteq StoredIn(b)
<1>1. Slots(q, p, n) \subseteq 0 .. Capacity[q] - 1
  BY SlotsOfRun
<1>2. \A i \in Slots(q, p, n) : b[q][i] # Vacant
  BY DEF Occupied
<1>3. \A i \in Slots(q, p, n) : b[q][i] \in StoredIn(b)
  BY ONLY <1>1, <1>2, StoredCells, BufferShape(b), q \in Workers
<1> QED
  BY ONLY <1>3 DEF Read

(* Items that are moved out are gone, all others stay, and none is doubled. *)
LEMMA MovedOutItems ==
    ASSUME NEW b, BufferShape(b), Unique(b), NEW q \in Workers, NEW p \in Int, NEW n \in Int
    PROVE  /\ Unique(MovedOut(b, q, p, n))
           /\ StoredIn(MovedOut(b, q, p, n)) = StoredIn(b) \ Read(b, q, p, n)
<1> DEFINE b1 == MovedOut(b, q, p, n)
<1>1. /\ BufferShape(b1)
      /\ \A r \in Workers : \A i \in 0 .. Capacity[r] - 1 :
            b1[r][i] = IF r = q /\ i \in Slots(q, p, n) THEN Vacant ELSE b[r][i]
  BY MovedOutCells
<1>2. \A r, u \in Workers : \A i \in 0 .. Capacity[r] - 1, j \in 0 .. Capacity[u] - 1 :
         b[r][i] = b[u][j] /\ b[r][i] # Vacant => r = u /\ i = j
  BY UniqueCells
<1>3. Slots(q, p, n) \subseteq 0 .. Capacity[q] - 1
  BY SlotsOfRun
<1> HIDE DEF b1
<1>4. Unique(b1)
  <2>1. \A r, u \in Workers : \A i \in 0 .. Capacity[r] - 1, j \in 0 .. Capacity[u] - 1 :
           b1[r][i] = b1[u][j] /\ b1[r][i] # Vacant => r = u /\ i = j
    BY ONLY <1>1, <1>2
  <2> QED
    BY ONLY <1>1, <2>1, UniqueCells
<1>5. ASSUME NEW x PROVE x \in StoredIn(b1) <=> x \in StoredIn(b) \ Read(b, q, p, n)
  <2>1. x \in StoredIn(b1) <=>
           x # Vacant /\ \E r \in Workers : \E i \in 0 .. Capacity[r] - 1 : b1[r][i] = x
    BY ONLY <1>1, StoredCells
  <2>2. x \in StoredIn(b) <=>
           x # Vacant /\ \E r \in Workers : \E i \in 0 .. Capacity[r] - 1 : b[r][i] = x
    BY StoredCells
  <2>3. x \in Read(b, q, p, n) <=> \E i \in Slots(q, p, n) : b[q][i] = x
    BY ONLY DEF Read
  <2> QED
    BY ONLY <1>1, <1>2, <1>3, <2>1, <2>2, <2>3, q \in Workers
<1>6. StoredIn(b1) = StoredIn(b) \ Read(b, q, p, n)
  BY ONLY <1>5
<1> QED
  BY <1>4, <1>6 DEF b1

(* New items written to vacant slots are added to those stored. *)
LEMMA WrittenItems ==
    ASSUME NEW b, BufferShape(b), Unique(b), NEW q \in Workers, NEW p \in Int,
           NEW n \in Nat, NEW s, NEW b1, FilledIn(b1, b, q, p, n, s),
           Slots(q, p, n) \cap Occupied(b, q) = {},
           \A k \in 0 .. n - 1 : s[k] # Vacant /\ s[k] \notin StoredIn(b),
           \A k, l \in 0 .. n - 1 : s[k] = s[l] => k = l
    PROVE  /\ Unique(b1)
           /\ StoredIn(b1) = StoredIn(b) \cup {s[k] : k \in 0 .. n - 1}
<1>1. /\ BufferShape(b1)
      /\ \A r \in Workers : \A i \in 0 .. Capacity[r] - 1 :
            ~ (r = q /\ i \in Slots(q, p, n)) => b1[r][i] = b[r][i]
      /\ \A k \in 0 .. n - 1 : b1[q][Slot(q, p + k)] = s[k]
  BY DEF FilledIn
<1>2. \A r, u \in Workers : \A i \in 0 .. Capacity[r] - 1, j \in 0 .. Capacity[u] - 1 :
         b[r][i] = b[u][j] /\ b[r][i] # Vacant => r = u /\ i = j
  BY UniqueCells
<1>3. /\ Slots(q, p, n) \subseteq 0 .. Capacity[q] - 1
      /\ \A i \in Slots(q, p, n) : \E k \in 0 .. n - 1 : i = Slot(q, p + k)
      /\ \A k \in 0 .. n - 1 : Slot(q, p + k) \in Slots(q, p, n)
  BY SlotsOfRun DEF Slots
<1>4. \A i \in Slots(q, p, n) : b[q][i] = Vacant
  BY ONLY <1>3, Slots(q, p, n) \cap Occupied(b, q) = {} DEF Occupied
<1>5. \A x : x \in StoredIn(b) <=>
         x # Vacant /\ \E r \in Workers : \E i \in 0 .. Capacity[r] - 1 : b[r][i] = x
  BY StoredCells
<1>6. ASSUME NEW r \in Workers, NEW i \in 0 .. Capacity[r] - 1, b1[r][i] # Vacant
      PROVE  \/ r = q /\ \E k \in 0 .. n - 1 : i = Slot(q, p + k) /\ b1[r][i] = s[k]
             \/ b1[r][i] = b[r][i] /\ b[r][i] \in StoredIn(b)
  <2>1. CASE r = q /\ i \in Slots(q, p, n)
    BY ONLY <1>1, <1>3, <2>1
  <2>2. CASE ~ (r = q /\ i \in Slots(q, p, n))
    <3>1. b1[r][i] = b[r][i]
      BY ONLY <1>1, <2>2, r \in Workers, i \in 0 .. Capacity[r] - 1
    <3> QED
      BY ONLY <1>5, <1>6, <3>1, r \in Workers, i \in 0 .. Capacity[r] - 1
  <2> QED
    BY ONLY <2>1, <2>2
<1>7. ASSUME NEW r \in Workers, NEW u \in Workers, NEW i \in 0 .. Capacity[r] - 1,
             NEW j \in 0 .. Capacity[u] - 1, b1[r][i] = b1[u][j], b1[r][i] # Vacant
      PROVE  r = u /\ i = j
  <2>1. CASE \E k \in 0 .. n - 1 : r = q /\ i = Slot(q, p + k) /\ b1[r][i] = s[k]
    <3>1. PICK k \in 0 .. n - 1 : r = q /\ i = Slot(q, p + k) /\ b1[r][i] = s[k]
      BY ONLY <2>1
    <3>2. s[k] \notin StoredIn(b)
      OBVIOUS
    <3>3. PICK l \in 0 .. n - 1 : u = q /\ j = Slot(q, p + l) /\ b1[u][j] = s[l]
      BY ONLY <1>6, <1>7, <3>1, <3>2
    <3>4. s[k] = s[l]
      BY ONLY <1>7, <3>1, <3>3
    <3>5. k = l
      BY <3>4
    <3> QED
      BY ONLY <3>1, <3>3, <3>5
  <2>2. CASE b1[r][i] = b[r][i] /\ b[r][i] \in StoredIn(b)
    <3>1. b1[u][j] # Vacant /\ b1[u][j] \in StoredIn(b)
      BY ONLY <1>7, <2>2
    <3>2. b1[u][j] = b[u][j]
      BY ONLY <1>6, <3>1, \A k \in 0 .. n - 1 : s[k] # Vacant /\ s[k] \notin StoredIn(b),
         u \in Workers, j \in 0 .. Capacity[u] - 1
    <3>3. b[r][i] = b[u][j] /\ b[r][i] # Vacant
      BY ONLY <1>7, <2>2, <3>2
    <3> QED
      BY ONLY <1>2, <3>3, r \in Workers, u \in Workers, i \in 0 .. Capacity[r] - 1,
         j \in 0 .. Capacity[u] - 1
  <2> QED
    BY ONLY <1>6, <1>7, <2>1, <2>2
<1>8. Unique(b1)
  BY ONLY <1>1, <1>7, UniqueCells
<1>9. ASSUME NEW x PROVE x \in StoredIn(b1) <=> x \in StoredIn(b) \cup {s[k] : k \in 0 .. n - 1}
  <2>1. x \in StoredIn(b1) <=>
           x # Vacant /\ \E r \in Workers : \E i \in 0 .. Capacity[r] - 1 : b1[r][i] = x
    BY ONLY <1>1, StoredCells
  <2>2. x \in StoredIn(b1) => x \in StoredIn(b) \cup {s[k] : k \in 0 .. n - 1}
    BY ONLY <1>6, <2>1
  <2>3. ASSUME x \in StoredIn(b) PROVE x \in StoredIn(b1)
    <3>0. PICK r \in Workers : \E i \in 0 .. Capacity[r] - 1 : b[r][i] = x /\ x # Vacant
      BY ONLY <1>5, <2>3
    <3>1. PICK i \in 0 .. Capacity[r] - 1 : b[r][i] = x /\ x # Vacant
      BY ONLY <3>0
    <3>2. ~ (r = q /\ i \in Slots(q, p, n))
      BY ONLY <1>4, <3>1
    <3>3. b1[r][i] = x
      BY ONLY <1>1, <3>1, <3>2
    <3> QED
      BY ONLY <2>1, <3>1, <3>3
  <2>4. ASSUME NEW k \in 0 .. n - 1 PROVE s[k] \in StoredIn(b1)
    <3>1. b1[q][Slot(q, p + k)] = s[k] /\ Slot(q, p + k) \in 0 .. Capacity[q] - 1
      BY ONLY <1>1, <1>3
    <3>2. s[k] # Vacant
      OBVIOUS
    <3> QED
      BY ONLY <1>1, <3>1, <3>2, StoredCells, q \in Workers
  <2> QED
    BY ONLY <2>2, <2>3, <2>4
<1>10. StoredIn(b1) = StoredIn(b) \cup {s[k] : k \in 0 .. n - 1}
  BY ONLY <1>9
<1> QED
  BY ONLY <1>8, <1>10

-----------------------------------------------------------------------------
(* A bulk copy: the c items of v from f on are moved out, and the first n   *)
(* of them written to the queue t, from the position to on.                 *)
Copied(b, v, f, c, t, to, n) == Written(MovedOut(b, v, f, c), t, to, Items(b, v, f, n))

(* What the copy writes: the items read, one by one and all different. *)
LEMMA ItemsRead ==
    ASSUME NEW b, BufferShape(b), Unique(b), NEW v \in Workers, NEW f \in Int,
           NEW c \in Nat, c <= Capacity[v], NEW n \in 0 .. c,
           Slots(v, f, c) \subseteq Occupied(b, v)
    PROVE  /\ Items(b, v, f, n) \in [0 .. n - 1 -> Content]
           /\ \A k \in 0 .. n - 1 : /\ Items(b, v, f, n)[k] # Vacant
                                    /\ Items(b, v, f, n)[k] \in Read(b, v, f, c)
           /\ \A k, l \in 0 .. n - 1 : Items(b, v, f, n)[k] = Items(b, v, f, n)[l] => k = l
           /\ {Items(b, v, f, n)[k] : k \in 0 .. n - 1} = Read(b, v, f, n)
           /\ Read(b, v, f, c) = Read(b, v, f, n) \cup Read(b, v, f + n, c - n)
           /\ Read(b, v, f, n) \cap Read(b, v, f + n, c - n) = {}
<1> DEFINE at(k) == Slot(v, f + k)
           cell(k) == b[v][at(k)]
<1>1. \A k \in 0 .. c - 1 : at(k) \in Slots(v, f, c)
  BY DEF Slots
<1>2. \A k \in 0 .. c - 1 : f + k \in Int
  OBVIOUS
<1>3. \A k \in 0 .. c - 1 : at(k) \in 0 .. Capacity[v] - 1
  BY <1>2, SlotType
<1>4. \A k, l \in 0 .. c - 1 : at(k) = at(l) => k = l
  <2> SUFFICES ASSUME NEW k \in 0 .. c - 1, NEW l \in 0 .. c - 1, at(k) = at(l) PROVE k = l
    OBVIOUS
  <2>1. /\ f + k \in Int /\ f + l \in Int /\ Capacity[v] \in Nat
        /\ (f + k) - (f + l) < Capacity[v] /\ (f + l) - (f + k) < Capacity[v]
    BY CapacityFacts
  <2>2. f + k = f + l
    BY <2>1, SlotInjective
  <2> QED
    BY <2>2
<1>5. \A x : x \in Read(b, v, f, c) <=> \E k \in 0 .. c - 1 : x = cell(k)
  BY DEF Read, Slots
<1>6. \A x : x \in Read(b, v, f, n) <=> \E k \in 0 .. n - 1 : x = cell(k)
  BY DEF Read, Slots
<1>7. \A x : x \in Read(b, v, f + n, c - n) <=> \E k \in n .. c - 1 : x = cell(k)
  <2>1. \A x : x \in Read(b, v, f + n, c - n)
                  <=> \E k \in 0 .. c - n - 1 : x = b[v][Slot(v, (f + n) + k)]
    BY DEF Read, Slots
  <2>2. \A k \in 0 .. c - n - 1 : n + k \in n .. c - 1 /\ (f + n) + k = f + (n + k)
    OBVIOUS
  <2>3. \A k \in n .. c - 1 : k - n \in 0 .. c - n - 1 /\ (f + n) + (k - n) = f + k
    OBVIOUS
  <2>4. ASSUME NEW x, NEW k \in 0 .. c - n - 1, x = b[v][Slot(v, (f + n) + k)]
        PROVE  \E l \in n .. c - 1 : x = cell(l)
    <3>1. n + k \in n .. c - 1 /\ x = cell(n + k)
      BY <2>2, <2>4
    <3> QED
      BY ONLY <3>1
  <2>5. ASSUME NEW x, NEW l \in n .. c - 1, x = cell(l)
        PROVE  \E k \in 0 .. c - n - 1 : x = b[v][Slot(v, (f + n) + k)]
    <3>1. l - n \in 0 .. c - n - 1 /\ x = b[v][Slot(v, (f + n) + (l - n))]
      BY <2>3, <2>5
    <3> QED
      BY ONLY <3>1
  <2> HIDE DEF cell
  <2> QED
    BY ONLY <2>1, <2>4, <2>5
<1>8. \A k \in 0 .. c - 1 : cell(k) # Vacant /\ cell(k) \in Content
  <2>1. \A k \in 0 .. c - 1 : b[v][at(k)] # Vacant
    BY <1>1 DEF Occupied
  <2>2. \A i \in 0 .. Capacity[v] - 1 : b[v][i] \in Content
    BY DEF BufferShape
  <2> QED
    BY <1>3, <2>1, <2>2
<1>9. \A k, l \in 0 .. c - 1 : cell(k) = cell(l) => k = l
  <2>1. \A i, j \in 0 .. Capacity[v] - 1 : b[v][i] = b[v][j] /\ b[v][i] # Vacant => i = j
    BY UniqueCells
  <2> QED
    BY ONLY <1>3, <1>4, <1>8, <2>1
<1>10. Items(b, v, f, n) = [k \in 0 .. n - 1 |-> cell(k)]
  BY DEF Items
<1>11. \A k : /\ k \in 0 .. n - 1 => k \in 0 .. c - 1 /\ k \notin n .. c - 1
              /\ k \in n .. c - 1 => k \in 0 .. c - 1
              /\ k \in 0 .. c - 1 => k \in 0 .. n - 1 \/ k \in n .. c - 1
  OBVIOUS
<1> HIDE DEF cell, at
<1>12. Items(b, v, f, n) \in [0 .. n - 1 -> Content]
  BY ONLY <1>8, <1>10, <1>11
<1>13. \A k \in 0 .. n - 1 : Items(b, v, f, n)[k] = cell(k)
  BY ONLY <1>10
<1>14. \A k \in 0 .. n - 1 : /\ Items(b, v, f, n)[k] # Vacant
                             /\ Items(b, v, f, n)[k] \in Read(b, v, f, c)
  BY ONLY <1>5, <1>8, <1>11, <1>13
<1>15. \A k, l \in 0 .. n - 1 : Items(b, v, f, n)[k] = Items(b, v, f, n)[l] => k = l
  BY ONLY <1>9, <1>11, <1>13
<1>16. {Items(b, v, f, n)[k] : k \in 0 .. n - 1} = Read(b, v, f, n)
  BY ONLY <1>6, <1>13
<1>17. Read(b, v, f, c) = Read(b, v, f, n) \cup Read(b, v, f + n, c - n)
  BY ONLY <1>5, <1>6, <1>7, <1>11
<1>18. Read(b, v, f, n) \cap Read(b, v, f + n, c - n) = {}
  BY ONLY <1>6, <1>7, <1>9, <1>11
<1> QED
  BY ONLY <1>12, <1>14, <1>15, <1>16, <1>17, <1>18

(* The hypotheses of a bulk copy under a name. *)
CopyFits(b, v, f, c, t, to, n) ==
    /\ BufferShape(b) /\ Unique(b) /\ v \in Workers /\ t \in Workers
    /\ f \in Int /\ to \in Int /\ c \in Nat /\ n \in 0 .. c
    /\ c <= Capacity[v] /\ n <= Capacity[t]
    /\ Slots(v, f, c) \subseteq Occupied(b, v)
    /\ Slots(t, to, n) \cap Occupied(b, t) = {}

(* A bulk copy to vacant slots loses and doubles nothing: only the items    *)
(* that are read for the caller are gone. And the slots that it occupies    *)
(* and vacates.                                                             *)
LEMMA CopyMoves ==
    ASSUME NEW b, NEW v, NEW f, NEW c, NEW t, NEW to, NEW n, CopyFits(b, v, f, c, t, to, n)
    PROVE  /\ Unique(Copied(b, v, f, c, t, to, n))
           /\ StoredIn(Copied(b, v, f, c, t, to, n)) = StoredIn(b) \ Read(b, v, f + n, c - n)
           /\ Read(b, v, f + n, c - n) \subseteq StoredIn(b)
           /\ \A r \in Workers :
                 Occupied(Copied(b, v, f, c, t, to, n), r)
                   = (IF r = v THEN Occupied(b, r) \ Slots(v, f, c) ELSE Occupied(b, r))
                       \cup (IF r = t THEN Slots(t, to, n) ELSE {})
<1>0. /\ BufferShape(b) /\ Unique(b) /\ v \in Workers /\ t \in Workers
       /\ f \in Int /\ to \in Int /\ c \in Nat /\ n \in 0 .. c
       /\ c <= Capacity[v] /\ n <= Capacity[t]
       /\ Slots(v, f, c) \subseteq Occupied(b, v)
       /\ Slots(t, to, n) \cap Occupied(b, t) = {}
  BY DEF CopyFits
<1> DEFINE m == MovedOut(b, v, f, c)
           s == Items(b, v, f, n)
           b1 == Written(m, t, to, s)
<1>1. /\ s \in [0 .. n - 1 -> Content]
      /\ \A k \in 0 .. n - 1 : s[k] # Vacant /\ s[k] \in Read(b, v, f, c)
      /\ \A k, l \in 0 .. n - 1 : s[k] = s[l] => k = l
      /\ {s[k] : k \in 0 .. n - 1} = Read(b, v, f, n)
      /\ Read(b, v, f, c) = Read(b, v, f, n) \cup Read(b, v, f + n, c - n)
      /\ Read(b, v, f, n) \cap Read(b, v, f + n, c - n) = {}
  BY ONLY <1>0, ItemsRead
<1>2. BufferShape(m)
  BY ONLY <1>0, MovedOutCells
<1>3. Unique(m) /\ StoredIn(m) = StoredIn(b) \ Read(b, v, f, c)
  BY ONLY <1>0, MovedOutItems
<1>4. \A r \in Workers :
         Occupied(m, r) = IF r = v THEN Occupied(b, v) \ Slots(v, f, c) ELSE Occupied(b, r)
  BY ONLY <1>0, MovedOutOccupied
<1>5. Slots(t, to, n) \cap Occupied(m, t) = {}
  <2>1. Occupied(m, t) \subseteq Occupied(b, t)
    BY ONLY <1>4, <1>0
  <2> QED
    BY ONLY <2>1, <1>0
<1>6. Read(b, v, f, c) \subseteq StoredIn(b)
  BY ONLY <1>0, ReadStored
<1>7. n \in Nat
  BY ONLY <1>0
<1> HIDE DEF m, s
<1>8. \A k \in 0 .. n - 1 : s[k] # Vacant /\ s[k] \notin StoredIn(m)
  BY ONLY <1>1, <1>3
<1>9. FilledIn(b1, m, t, to, n, s)
  BY ONLY <1>1, <1>2, <1>7, WrittenCells, <1>0
<1> HIDE DEF b1
<1>10. Unique(b1) /\ StoredIn(b1) = StoredIn(m) \cup {s[k] : k \in 0 .. n - 1}
  <2>1. \A k, l \in 0 .. n - 1 : s[k] = s[l] => k = l
    BY ONLY <1>1
  <2>2. Unique(m)
    BY ONLY <1>3
  <2> QED
    BY ONLY <1>2, <1>5, <1>7, <1>8, <1>9, <2>1, <2>2, WrittenItems, <1>0
<1>11. \A k \in 0 .. n - 1 : s[k] # Vacant
  BY ONLY <1>1
<1>12. ASSUME NEW r \in Workers
       PROVE  Occupied(b1, r)
                = IF r = t THEN Occupied(m, t) \cup Slots(t, to, n) ELSE Occupied(m, r)
  BY ONLY <1>2, <1>7, <1>9, <1>11, WrittenOccupied, <1>0, r \in Workers
<1>13. b1 = Copied(b, v, f, c, t, to, n)
  BY DEF Copied, b1, m, s
<1>14. StoredIn(b1) = StoredIn(b) \ Read(b, v, f + n, c - n)
  BY ONLY <1>1, <1>3, <1>6, <1>10
<1>15. Read(b, v, f + n, c - n) \subseteq StoredIn(b)
  BY ONLY <1>1, <1>6
<1>16. ASSUME NEW r \in Workers
       PROVE  Occupied(b1, r)
                = (IF r = v THEN Occupied(b, r) \ Slots(v, f, c) ELSE Occupied(b, r))
                    \cup (IF r = t THEN Slots(t, to, n) ELSE {})
  BY ONLY <1>4, <1>12, <1>0, r \in Workers
<1> QED
  BY ONLY <1>10, <1>13, <1>14, <1>15, <1>16

-----------------------------------------------------------------------------
(* The same with the hypotheses of a write under a name. *)
WriteFits(b1, b, q, p, n, s) ==
    /\ BufferShape(b) /\ q \in Workers /\ p \in Int /\ n \in Nat
    /\ \A k \in 0 .. n - 1 : s[k] # Vacant
    /\ FilledIn(b1, b, q, p, n, s)

(* What a write occupies. *)
LEMMA WriteOccupies ==
    ASSUME NEW b1, NEW b, NEW q, NEW p, NEW n, NEW s, WriteFits(b1, b, q, p, n, s),
           NEW r \in Workers
    PROVE  Occupied(b1, r)
             = IF r = q THEN Occupied(b, q) \cup Slots(q, p, n) ELSE Occupied(b, r)
<1>1. /\ BufferShape(b) /\ q \in Workers /\ p \in Int /\ n \in Nat
      /\ \A k \in 0 .. n - 1 : s[k] # Vacant
      /\ FilledIn(b1, b, q, p, n, s)
  BY DEF WriteFits
<1> QED
  BY ONLY <1>1, WrittenOccupied, r \in Workers

-----------------------------------------------------------------------------
(* Runs of positions as sequences. *)

(* A run has as many items as it has positions, ... *)
LEMMA RunSeq ==
    ASSUME NEW b, NEW q, NEW p \in Int, NEW n \in Nat, NEW S,
           \A k \in 1 .. n : b[q][Slot(q, p + k - 1)] \in S
    PROVE  Run(b, q, p, n) \in Seq(S) /\ Len(Run(b, q, p, n)) = n
<1>1. Run(b, q, p, n) \in [1 .. n -> S]
  BY DEF Run
<1>2. Run(b, q, p, n) \in Seq(S)
  BY <1>1, SeqDef
<1> QED
  BY <1>1, <1>2, LenProperties DEF Run

LEMMA RunLen ==
    ASSUME NEW b, NEW q, NEW p \in Int, NEW n \in Nat
    PROVE  \E V : Run(b, q, p, n) \in Seq(V) /\ Len(Run(b, q, p, n)) = n
<1> DEFINE V == {b[q][Slot(q, p + k - 1)] : k \in 1 .. n}
<1>1. \A k \in 1 .. n : b[q][Slot(q, p + k - 1)] \in V
  OBVIOUS
<1>2. Run(b, q, p, n) \in Seq(V) /\ Len(Run(b, q, p, n)) = n
  <2> HIDE DEF V
  <2> QED
    BY <1>1, RunSeq
<1> QED
  BY <1>2

\* ... in the order of the positions, ...
LEMMA RunAt ==
    ASSUME NEW b, NEW q, NEW p, NEW n
    PROVE  /\ DOMAIN Run(b, q, p, n) = 1 .. n
           /\ \A k \in 1 .. n : Run(b, q, p, n)[k] = b[q][Slot(q, p + k - 1)]
  BY DEF Run

(* ... an empty one has none. *)
LEMMA RunEmpty ==
    ASSUME NEW b, NEW q, NEW p \in Int, NEW n \in Int, n <= 0
    PROVE  Run(b, q, p, n) = <<>>
<1>1. 1 .. n = {} 
  OBVIOUS
<1>2. Run(b, q, p, n) = [k \in {} |-> b[q][Slot(q, p + k - 1)]]
  BY <1>1 DEF Run
<1> QED
  BY <1>2

(* A run that is cut in two. *)
LEMMA RunCut ==
    ASSUME NEW b, NEW q, NEW p \in Int, NEW n \in Nat, NEW k \in 0 .. n
    PROVE  /\ SubSeq(Run(b, q, p, n), 1, k) = Run(b, q, p, k)
           /\ SubSeq(Run(b, q, p, n), k + 1, n) = Run(b, q, p + k, n - k)
<1> DEFINE s == Run(b, q, p, n)
<1>0. PICK V : s \in Seq(V) /\ Len(s) = n
  BY RunLen
<1>1. /\ s \in Seq(V) /\ Len(s) = n
      /\ \A j \in 1 .. n : s[j] = b[q][Slot(q, p + j - 1)]
  <2>1. \A j \in 1 .. n : s[j] = b[q][Slot(q, p + j - 1)]
    BY ONLY RunAt
  <2> QED
    BY ONLY <1>0, <2>1
<1> HIDE DEF s
<1>2. SubSeq(s, 1, k) = Run(b, q, p, k)
  <2>1. SubSeq(s, 1, k) = [j \in 1 .. k |-> s[j]]
    BY ONLY <1>1, n \in Nat, k \in 0 .. n
  <2>2. \A j \in 1 .. k : s[j] = b[q][Slot(q, p + j - 1)]
    BY ONLY <1>1, n \in Nat, k \in 0 .. n
  <2> QED
    BY ONLY <2>1, <2>2 DEF Run
<1>3. SubSeq(s, k + 1, n) = Run(b, q, p + k, n - k)
  <2>1. SubSeq(s, k + 1, n) = [j \in 1 .. n - k |-> s[j + k]]
    BY ONLY <1>1, n \in Nat, k \in 0 .. n
  <2>2. \A j \in 1 .. n - k : s[j + k] = b[q][Slot(q, p + k + j - 1)]
    <3> SUFFICES ASSUME NEW j \in 1 .. n - k PROVE s[j + k] = b[q][Slot(q, p + k + j - 1)]
      OBVIOUS
    <3>1. j + k \in 1 .. n /\ p + (j + k) - 1 = p + k + j - 1
      OBVIOUS
    <3> QED
      BY <1>1, <3>1
  <2> QED
    BY ONLY <2>1, <2>2 DEF Run
<1> QED
  BY <1>2, <1>3 DEF s

(* Two runs that follow on each other. *)
LEMMA RunJoin ==
    ASSUME NEW b, NEW q, NEW p \in Int, NEW n \in Nat, NEW m \in Nat
    PROVE  Run(b, q, p, n) \o Run(b, q, p + n, m) = Run(b, q, p, n + m)
<1> DEFINE s == Run(b, q, p, n + m)
<1>0. n + m \in Nat
  OBVIOUS
<1>1. PICK V : s \in Seq(V) /\ Len(s) = n + m
  BY <1>0, RunLen
<1>2. /\ SubSeq(s, 1, n) = Run(b, q, p, n)
      /\ SubSeq(s, n + 1, n + m) = Run(b, q, p + n, m)
  <2>1. n \in 0 .. n + m /\ (n + m) - n = m /\ n + m \in Nat
    OBVIOUS
  <2>2. /\ SubSeq(s, 1, n) = Run(b, q, p, n)
        /\ SubSeq(s, n + 1, n + m) = Run(b, q, p + n, (n + m) - n)
    BY <2>1, RunCut
  <2> QED
    BY <2>1, <2>2
<1> HIDE DEF s
<1>3. SubSeq(s, 1, n) \o SubSeq(s, n + 1, n + m) = SubSeq(s, 1, n + m)
  BY ONLY <1>1, n \in Nat, m \in Nat
<1>4. SubSeq(s, 1, n + m) = s
  BY ONLY <1>1, n \in Nat, m \in Nat
<1> QED
  BY <1>2, <1>3, <1>4 DEF s

(* The first item and the rest. *)
LEMMA RunFirst ==
    ASSUME NEW b, NEW q, NEW p \in Int, NEW n \in Nat \ {0}
    PROVE  /\ Run(b, q, p, n) # <<>>
           /\ Head(Run(b, q, p, n)) = b[q][Slot(q, p)]
           /\ Tail(Run(b, q, p, n)) = Run(b, q, p + 1, n - 1)
<1> DEFINE s == Run(b, q, p, n)
<1>0. PICK V : s \in Seq(V) /\ Len(s) = n
  BY RunLen
<1>1. /\ s \in Seq(V) /\ Len(s) = n
      /\ \A j \in 1 .. n : s[j] = b[q][Slot(q, p + j - 1)]
  BY <1>0, RunAt
<1>2. SubSeq(s, 2, n) = Run(b, q, p + 1, n - 1)
  BY RunCut
<1>3. s[1] = b[q][Slot(q, p)]
  <2>1. 1 \in 1 .. n /\ p + 1 - 1 = p
    OBVIOUS
  <2> QED
    BY <1>1, <2>1
<1> HIDE DEF s
<1>4. s # <<>> /\ Head(s) = s[1]
  BY ONLY <1>1, n \in Nat \ {0}
<1>5. Tail(s) = SubSeq(s, 2, n)
  BY ONLY <1>1, <1>4, n \in Nat \ {0}
<1> QED
  BY <1>2, <1>3, <1>4, <1>5 DEF s

(* The last item and the others. *)
LEMMA RunLast ==
    ASSUME NEW b, NEW q, NEW p \in Int, NEW n \in Nat \ {0}
    PROVE  /\ Run(b, q, p, n) # <<>> /\ Len(Run(b, q, p, n)) = n
           /\ Run(b, q, p, n)[n] = b[q][Slot(q, p + n - 1)]
           /\ SubSeq(Run(b, q, p, n), 1, n - 1) = Run(b, q, p, n - 1)
<1>0. n \in Nat /\ n - 1 \in 0 .. n /\ n \in 1 .. n
  OBVIOUS
<1>1. Len(Run(b, q, p, n)) = n
  BY <1>0, RunLen
<1>2. Run(b, q, p, n)[n] = b[q][Slot(q, p + n - 1)]
  BY <1>0, RunAt
<1>3. SubSeq(Run(b, q, p, n), 1, n - 1) = Run(b, q, p, n - 1)
  BY <1>0, RunCut
<1>4. Run(b, q, p, n) # <<>>
  BY RunFirst
<1> QED
  BY <1>1, <1>2, <1>3, <1>4

(* A run none of whose slots changes. *)
LEMMA RunSame ==
    ASSUME NEW b, NEW c, NEW q, NEW p \in Int, NEW n \in Int,
           \A r \in p .. p + n - 1 : c[q][Slot(q, r)] = b[q][Slot(q, r)]
    PROVE  Run(c, q, p, n) = Run(b, q, p, n)
<1>1. \A k \in 1 .. n : p + k - 1 \in p .. p + n - 1
  OBVIOUS
<1>2. \A k \in 1 .. n : c[q][Slot(q, p + k - 1)] = b[q][Slot(q, p + k - 1)]
  BY <1>1
<1> QED
  BY <1>2 DEF Run

-----------------------------------------------------------------------------
(* What reads and writes leave alone. *)

\* The position r of q has no slot in common with the n positions of v from f on.
Apart(q, r, v, f, n) ==
    q = v => \A x \in f .. f + n - 1 : x # r /\ x - r < Capacity[q] /\ r - x < Capacity[q]

LEMMA ApartSlots ==
    ASSUME NEW q \in Workers, NEW r \in Int, NEW v \in Workers, NEW f \in Int, NEW n \in Int,
           Apart(q, r, v, f, n)
    PROVE  ~ (q = v /\ Slot(q, r) \in Slots(v, f, n))
<1> SUFFICES ASSUME q = v, Slot(q, r) \in Slots(v, f, n) PROVE FALSE
  OBVIOUS
<1>1. Slots(q, f, n) = SlotsAt(q, f .. f + n - 1)
  BY SlotsOfRun
<1>2. PICK x \in f .. f + n - 1 : Slot(q, r) = Slot(q, x)
  BY <1>1 DEF SlotsAt
<1>3. x \in Int /\ x # r /\ x - r < Capacity[q] /\ r - x < Capacity[q]
  BY DEF Apart
<1> QED
  BY <1>2, <1>3, SlotInjective

LEMMA MovedOutKeeps ==
    ASSUME NEW b, BufferShape(b), NEW q \in Workers, NEW r \in Int,
           NEW v \in Workers, NEW f \in Int, NEW n \in Int, Apart(q, r, v, f, n)
    PROVE  MovedOut(b, v, f, n)[q][Slot(q, r)] = b[q][Slot(q, r)]
<1>1. ~ (q = v /\ Slot(q, r) \in Slots(v, f, n))
  BY ApartSlots
<1>2. Slot(q, r) \in 0 .. Capacity[q] - 1
  BY SlotType
<1> QED
  BY <1>1, <1>2, MovedOutCells

LEMMA FilledKeeps ==
    ASSUME NEW b, NEW b1, NEW q \in Workers, NEW r \in Int,
           NEW v \in Workers, NEW f \in Int, NEW n \in Nat, NEW s,
           FilledIn(b1, b, v, f, n, s), Apart(q, r, v, f, n)
    PROVE  b1[q][Slot(q, r)] = b[q][Slot(q, r)]
<1>1. ~ (q = v /\ Slot(q, r) \in Slots(v, f, n))
  BY ApartSlots
<1>2. Slot(q, r) \in 0 .. Capacity[q] - 1
  BY SlotType
<1> QED
  BY <1>1, <1>2 DEF FilledIn

\* What a bulk copy does, cell by cell.
LEMMA CopiedFills ==
    ASSUME NEW b, NEW v, NEW f, NEW c, NEW t, NEW to, NEW n, CopyFits(b, v, f, c, t, to, n)
    PROVE  FilledIn(Copied(b, v, f, c, t, to, n), MovedOut(b, v, f, c), t, to, n,
                    Items(b, v, f, n))
<1>0. /\ BufferShape(b) /\ Unique(b) /\ v \in Workers /\ t \in Workers
      /\ f \in Int /\ to \in Int /\ c \in Nat /\ n \in 0 .. c /\ n \in Nat
      /\ c <= Capacity[v] /\ n <= Capacity[t]
      /\ Slots(v, f, c) \subseteq Occupied(b, v)
  BY DEF CopyFits
<1>1. Items(b, v, f, n) \in [0 .. n - 1 -> Content]
  BY ONLY <1>0, ItemsRead
<1>2. BufferShape(MovedOut(b, v, f, c))
  BY ONLY <1>0, MovedOutCells
<1> QED
  BY ONLY <1>0, <1>1, <1>2, WrittenCells DEF Copied

LEMMA CopiedKeeps ==
    ASSUME NEW b, NEW v, NEW f, NEW c, NEW t, NEW to, NEW n, CopyFits(b, v, f, c, t, to, n),
           NEW q \in Workers, NEW r \in Int, Apart(q, r, v, f, c), Apart(q, r, t, to, n)
    PROVE  Copied(b, v, f, c, t, to, n)[q][Slot(q, r)] = b[q][Slot(q, r)]
<1>0. /\ BufferShape(b) /\ v \in Workers /\ t \in Workers
      /\ f \in Int /\ to \in Int /\ c \in Int /\ n \in Nat
  BY DEF CopyFits
<1>1. Copied(b, v, f, c, t, to, n)[q][Slot(q, r)] = MovedOut(b, v, f, c)[q][Slot(q, r)]
  BY <1>0, CopiedFills, FilledKeeps
<1> QED
  BY <1>0, <1>1, MovedOutKeeps

\* The copied items arrive in order.
LEMMA CopiedRun ==
    ASSUME NEW b, NEW v, NEW f, NEW c, NEW t, NEW to, NEW n, CopyFits(b, v, f, c, t, to, n)
    PROVE  Run(Copied(b, v, f, c, t, to, n), t, to, n) = Run(b, v, f, n)
<1> DEFINE b1 == Copied(b, v, f, c, t, to, n)
<1>0. f \in Int /\ to \in Int /\ n \in Nat
  BY DEF CopyFits
<1>1. \A k \in 0 .. n - 1 : b1[t][Slot(t, to + k)] = Items(b, v, f, n)[k]
  BY CopiedFills DEF FilledIn
<1>2. \A k \in 0 .. n - 1 : Items(b, v, f, n)[k] = b[v][Slot(v, f + k)]
  BY DEF Items
<1> HIDE DEF b1
<1>3. ASSUME NEW k \in 1 .. n
      PROVE  b1[t][Slot(t, to + k - 1)] = b[v][Slot(v, f + k - 1)]
  <2>1. k - 1 \in 0 .. n - 1 /\ to + (k - 1) = to + k - 1 /\ f + (k - 1) = f + k - 1
    BY <1>0
  <2> QED
    BY <1>1, <1>2, <2>1
<1> QED
  BY <1>3 DEF Run, b1

\* The items of a run, as a set.
LEMMA RunSet ==
    ASSUME NEW b, NEW q, NEW p \in Int, NEW n \in Int
    PROVE  {Run(b, q, p, n)[k] : k \in DOMAIN Run(b, q, p, n)} = Read(b, q, p, n)
<1>1. \A k \in 1 .. n : k - 1 \in 0 .. n - 1 /\ p + k - 1 = p + (k - 1)
  OBVIOUS
<1>2. \A k \in 0 .. n - 1 : k + 1 \in 1 .. n /\ p + (k + 1) - 1 = p + k
  OBVIOUS
<1>3. DOMAIN Run(b, q, p, n) = 1 .. n
  BY DEF Run
<1>4. \A k \in 1 .. n : Run(b, q, p, n)[k] = b[q][Slot(q, p + k - 1)]
  BY DEF Run
<1>5. ASSUME NEW k \in 1 .. n PROVE Run(b, q, p, n)[k] \in Read(b, q, p, n)
  BY <1>1, <1>4 DEF Read, Slots
<1>6. ASSUME NEW k \in 0 .. n - 1
      PROVE  \E j \in 1 .. n : Run(b, q, p, n)[j] = b[q][Slot(q, p + k)]
  BY <1>2, <1>4
<1> QED
  BY <1>3, <1>5, <1>6 DEF Read, Slots

LEMMA ReadOne ==
    ASSUME NEW b, NEW q, NEW p \in Int
    PROVE  Read(b, q, p, 1) = {b[q][Slot(q, p)]}
<1>1. Slots(q, p, 1) = {Slot(q, p)}
  <2>1. 0 .. 1 - 1 = {0} /\ p + 0 = p
    OBVIOUS
  <2> QED
    BY <2>1 DEF Slots
<1> QED
  BY <1>1 DEF Read

(* A run of one. *)
LEMMA RunOne ==
    ASSUME NEW b, NEW q, NEW p \in Int
    PROVE  LET s == Run(b, q, p, 1)
           IN  /\ s # <<>> /\ Len(s) = 1 /\ s = <<b[q][Slot(q, p)]>> /\ s[1] = b[q][Slot(q, p)]
               /\ SubSeq(s, 1, Len(s) - 1) = <<>>
               /\ Read(b, q, p, 1) = {s[1]}
<1> DEFINE n == 1
<1>1. n \in Nat \ {0} /\ n - 1 <= 0 /\ n - 1 \in Int /\ p + n - 1 = p
  OBVIOUS
<1>2. Read(b, q, p, n) = {b[q][Slot(q, p)]}
  BY ReadOne
<1>6. Run(b, q, p, n) = <<b[q][Slot(q, p)]>>
  BY DEF Run
<1> HIDE DEF n
<1>3. /\ Run(b, q, p, n) # <<>> /\ Len(Run(b, q, p, n)) = n
      /\ Run(b, q, p, n)[n] = b[q][Slot(q, p + n - 1)]
      /\ SubSeq(Run(b, q, p, n), 1, n - 1) = Run(b, q, p, n - 1)
  BY <1>1, RunLast
<1>4. Run(b, q, p, n - 1) = <<>>
  BY <1>1, RunEmpty
<1>5. /\ Run(b, q, p, n) # <<>> /\ Len(Run(b, q, p, n)) = n
      /\ Run(b, q, p, n)[n] = b[q][Slot(q, p)]
      /\ SubSeq(Run(b, q, p, n), 1, Len(Run(b, q, p, n)) - 1) = <<>>
  BY <1>1, <1>3, <1>4
<1> QED
  BY <1>2, <1>5, <1>6 DEF n
=============================================================================
