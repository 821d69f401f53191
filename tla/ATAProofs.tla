----------------------------- MODULE ATAProofs -----------------------------
(***************************************************************************)
(* Proofs about ATA.  A request that is not refused is shorter than 64 KB, *)
(* so its PRD table has an entry, or two: PrdTable and Addresses unfold to *)
(* closed forms, and the table is shown to name the bytes of the buffer in *)
(* order.  The invariant then says that whoever holds the spinlock has the *)
(* bus master to itself (TypeInv, UseInv), and, as long as no command is   *)
(* given up, what the drive and the status bits are at each point of the   *)
(* holder's call (Calm).                                                   *)
(***************************************************************************)
EXTENDS ATA, TLAPS

-----------------------------------------------------------------------------
(***************************************************************************)
(* Arithmetic of boundaries                                                *)
(***************************************************************************)

LEMMA Product ==
  ASSUME NEW a \in Nat \ {0}, NEW b \in Nat \ {0}
  PROVE  a * b \in Nat \ {0} /\ a * b >= a
OBVIOUS

LEMMA ModRange ==
  ASSUME NEW a \in Nat, NEW b \in Nat \ {0}
  PROVE  /\ a % b \in 0 .. b - 1 /\ a \div b \in Nat
         /\ a = (a \div b) * b + (a % b)
OBVIOUS

LEMMA ModUnique ==
  ASSUME NEW q \in Nat, NEW b \in Nat \ {0}, NEW r \in 0 .. b - 1
  PROVE  (q * b + r) % b = r /\ (q * b + r) \div b = q
<1> DEFINE a == q * b + r
           p == a \div b
           s == a % b
<1>1. q * b \in Nat /\ a \in Nat
  OBVIOUS
<1>2. p \in Nat /\ s \in 0 .. b - 1 /\ a = p * b + s
  BY <1>1, ModRange
<1>3. a = q * b + r
  OBVIOUS
<1> HIDE DEF a, p, s
<1>4. p = q
  <2>1. CASE p < q
    <3>1. PICK d \in Nat : d >= 1 /\ q = p + d
      <4>1. q - p \in Nat /\ q - p >= 1 /\ q = p + (q - p)
        BY <1>2, <2>1
      <4>2. QED
        BY <4>1
    <3>2. q * b = p * b + d * b /\ d * b >= b
      BY <1>2, <3>1
    <3>3. p * b \in Nat /\ d * b \in Nat
      BY <1>2, <3>1
    <3>4. QED
      BY <1>1, <1>2, <1>3, <3>2, <3>3
  <2>2. CASE p > q
    <3>1. PICK d \in Nat : d >= 1 /\ p = q + d
      <4>1. p - q \in Nat /\ p - q >= 1 /\ p = q + (p - q)
        BY <1>2, <2>2
      <4>2. QED
        BY <4>1
    <3>2. p * b = q * b + d * b /\ d * b >= b
      BY <1>2, <3>1
    <3>3. p * b \in Nat /\ d * b \in Nat
      BY <1>2, <3>1
    <3>4. QED
      BY <1>1, <1>2, <1>3, <3>2, <3>3
  <2>3. QED
    BY <1>2, <2>1, <2>2
<1>5. s = r
  <2>1. p * b = q * b /\ q * b \in Nat
    BY <1>1, <1>4
  <2>2. QED
    BY <1>2, <1>3, <2>1
<1>6. QED
  BY <1>4, <1>5 DEF a, p, s

\* Within a piece of 64 KB the remainder counts on.
LEMMA ModAdd ==
  ASSUME NEW a \in Nat, NEW b \in Nat \ {0}, NEW k \in Nat, (a % b) + k < b
  PROVE  (a + k) % b = (a % b) + k
<1> DEFINE q == a \div b
           r == (a % b) + k
<1>1. q \in Nat /\ r \in 0 .. b - 1 /\ a + k = q * b + r
  <2>1. q \in Nat /\ a % b \in 0 .. b - 1 /\ a = q * b + (a % b)
    BY ModRange
  <2>2. q * b \in Nat
    BY <2>1
  <2> HIDE DEF q
  <2>3. QED
    BY <2>1, <2>2
<1> HIDE DEF q, r
<1>2. (q * b + r) % b = r
  BY <1>1, ModUnique
<1>3. QED
  BY <1>1, <1>2 DEF r

\* The piece after a boundary starts at a multiple of it.
LEMMA NextBoundary ==
  ASSUME NEW a \in Nat, NEW b \in Nat \ {0}
  PROVE  (a + (b - (a % b))) % b = 0
<1> DEFINE q == a \div b
           r == a % b
           p == q + 1
<1>1. q \in Nat /\ r \in 0 .. b - 1 /\ a = q * b + r
  BY ModRange
<1> HIDE DEF q, r
<1>2. p \in Nat /\ q * b \in Nat /\ p * b = q * b + b
  BY <1>1
<1> HIDE DEF p
<1>3. a + (b - r) = p * b
  <2> DEFINE m == q * b
             n == p * b
  <2>1. m \in Nat /\ n = m + b /\ a = m + r
    BY <1>1, <1>2
  <2> HIDE DEF m, n
  <2>2. a + (b - r) = n
    BY <1>1, <2>1
  <2>3. QED
    BY <2>2 DEF n
<1>4. (p * b + 0) % b = 0
  <2>1. 0 \in 0 .. b - 1
    OBVIOUS
  <2>2. QED
    BY <1>2, <2>1, ModUnique
<1>5. (p * b) % b = 0
  <2> DEFINE n == p * b
  <2>1. n \in Nat /\ (n + 0) % b = 0
    BY <1>2, <1>4
  <2> HIDE DEF n
  <2>2. n + 0 = n
    BY <2>1
  <2>3. n % b = 0
    BY <2>1, <2>2
  <2>4. QED
    BY <2>3 DEF n
<1>6. QED
  <2> DEFINE n == p * b
             m == a + (b - r)
  <2>1. m = n /\ n % b = 0
    BY <1>3, <1>5
  <2> HIDE DEF n, m
  <2>2. m % b = 0
    BY <2>1
  <2>3. QED
    BY <2>2, Zenon DEF m, r

\* A multiple of a multiple.
LEMMA ModDivides ==
  ASSUME NEW a \in Nat, NEW b \in Nat \ {0}, NEW c \in Nat \ {0}, a % b = 0, b % c = 0
  PROVE  a % c = 0
<1> DEFINE q == a \div b
           p == b \div c
<1>1. q \in Nat /\ a = q * b
  BY ModRange
<1>2. p \in Nat /\ b = p * c
  BY ModRange
<1> HIDE DEF q, p
<1>3. a = (q * p) * c /\ q * p \in Nat
  BY <1>1, <1>2
<1>4. ((q * p) * c + 0) % c = 0
  BY <1>3, ModUnique
<1>5. QED
  BY <1>3, <1>4

-----------------------------------------------------------------------------
(***************************************************************************)
(* The PRD table of a request that fits: one entry, or two when the buffer *)
(* crosses a boundary                                                      *)
(***************************************************************************)

Asked == UNION {Requests[t] : t \in Tasks}

\* The requests that are not refused.
Fitting == {r \in Asked : Size(r) < Boundary}

LEMMA Constants ==
  /\ SectorSize \in Nat \ {0} /\ SectorCount \in Nat \ {0} /\ Boundary \in Nat \ {0}
  /\ Alignment \in Nat \ {0} /\ MemorySize \in Nat \ {0}
  /\ Boundary % Alignment = 0 /\ MaxQueue \in Nat /\ MaxQueue >= 2 * Boundary
BY ATAAssumption

LEMMA RequestType ==
  ASSUME NEW r \in Asked
  PROVE  /\ r.write \in BOOLEAN /\ r.lba \in Nat /\ r.count \in Nat \ {0}
         /\ r.base \in Nat /\ r.base % Alignment = 0
         /\ r.lba + r.count <= SectorCount
         /\ Size(r) \in Nat \ {0} /\ r.base + Size(r) <= MemorySize
         /\ (Size(r) > MaxQueue \/ r \in Fitting)
<1>1. PICK t \in Tasks : r \in Requests[t]
  BY DEF Asked
<1>2. /\ r.write \in BOOLEAN /\ r.lba \in Nat /\ r.count \in Nat \ {0}
      /\ r.base \in Nat /\ r.base % Alignment = 0
      /\ r.lba + r.count <= SectorCount /\ r.base + r.count * SectorSize <= MemorySize
      /\ (r.count * SectorSize < Boundary \/ r.count * SectorSize > MaxQueue)
  BY <1>1, ATAAssumption
<1>3. r.count * SectorSize \in Nat \ {0}
  <2> DEFINE c == r.count
  <2>1. c \in Nat \ {0}
    BY <1>2
  <2> HIDE DEF c
  <2>2. c * SectorSize \in Nat \ {0}
    BY <2>1, Constants, Product
  <2>3. QED
    BY <2>2 DEF c
<1>4. QED
  BY <1>2, <1>3 DEF Size, Fitting

LEMMA ConcatParts ==
  ASSUME NEW S, NEW s \in Seq(S), NEW t \in Seq(S)
  PROVE  /\ s \o t \in Seq(S) /\ Len(s \o t) = Len(s) + Len(t)
         /\ \A j \in 1 .. Len(s) : (s \o t)[j] = s[j]
         /\ \A j \in 1 .. Len(t) : (s \o t)[Len(s) + j] = t[j]
OBVIOUS

LEMMA PairOfOnes ==
  ASSUME NEW e, NEW f
  PROVE  <<e>> \o <<f>> = <<e, f>>
<1> DEFINE S == {e, f}
           s == <<e>>
           t == <<f>>
           u == s \o t
           v == <<e, f>>
<1>1. /\ s \in Seq(S) /\ t \in Seq(S) /\ Len(s) = 1 /\ Len(t) = 1
      /\ s[1] = e /\ t[1] = f
  OBVIOUS
<1>2. v \in Seq(S) /\ Len(v) = 2 /\ v[1] = e /\ v[2] = f
  OBVIOUS
<1> HIDE DEF S, s, t
<1>3. u \in Seq(S) /\ Len(u) = 2 /\ u[1] = e /\ u[2] = f
  <2>1. /\ u \in Seq(S) /\ Len(u) = Len(s) + Len(t)
        /\ \A i \in 1 .. Len(s) : u[i] = s[i]
        /\ \A i \in 1 .. Len(t) : u[Len(s) + i] = t[i]
    <3>1. s \in Seq(S) /\ t \in Seq(S)
      BY <1>1
    <3>2. QED
      BY <3>1, ConcatParts
  <2> HIDE DEF u
  <2>4. 1 \in 1 .. Len(s) /\ 1 \in 1 .. Len(t) /\ Len(s) + 1 = 2
    BY <1>1
  <2>5. QED
    BY <1>1, <2>1, <2>4
<1> HIDE DEF u, v
<1>4. \A i \in 1 .. 2 : u[i] = v[i]
  BY <1>2, <1>3
<1>5. u = v
  BY <1>2, <1>3, <1>4
<1>6. QED
  BY <1>5 DEF u, v, s, t

Entry(at, bytes) == [base |-> at, count |-> bytes]

\* The bytes from r's base to the next boundary.
Before(r) == Boundary - (r.base % Boundary)

LEMMA TableOf ==
  ASSUME NEW r \in Fitting
  PROVE  PrdTable(r) = IF Size(r) <= Before(r) THEN <<Entry(r.base, Size(r))>>
                       ELSE <<Entry(r.base, Before(r)), Entry(r.base + Before(r), Size(r) - Before(r))>>
<1> DEFINE N == Size(r)
           at(left) == r.base + N - left
           cap(left) == IF left > Boundary - 1 THEN Boundary - 1 ELSE left
           max(left) == Boundary - (at(left) % Boundary)
           bytes(left) == IF cap(left) > max(left) THEN max(left) ELSE cap(left)
           body(g) == [left \in 0 .. N |->
                         IF left = 0 THEN <<>>
                         ELSE <<[base |-> at(left), count |-> bytes(left)]>> \o g[left - bytes(left)]]
           T == CHOOSE g : g = body(g)
<1>1. N \in Nat \ {0} /\ r.base \in Nat /\ N < Boundary
  BY RequestType DEF Fitting
<1>2. Before(r) \in 1 .. Boundary
  <2>1. r.base % Boundary \in 0 .. Boundary - 1
    BY <1>1, Constants, ModRange
  <2>2. QED
    BY <2>1, Constants DEF Before
<1>3. at(N) = r.base /\ cap(N) = N /\ max(N) = Before(r)
  BY <1>1, Constants DEF Before
<1>4. bytes(N) = (IF N <= Before(r) THEN N ELSE Before(r)) /\ bytes(N) \in 1 .. N
  BY <1>1, <1>2, <1>3, Constants
<1>5. ASSUME N > Before(r)
      PROVE  LET left == N - Before(r)
             IN left \in 1 .. N - 1 /\ at(left) = r.base + Before(r) /\ bytes(left) = left
  <2> DEFINE left == N - Before(r)
  <2>1. left \in 1 .. N - 1 /\ at(left) = r.base + Before(r) /\ cap(left) = left
    BY <1>1, <1>2, <1>5, Constants
  <2>2. (r.base + Before(r)) % Boundary = 0
    BY <1>1, Constants, NextBoundary, Zenon DEF Before
  <2>3. max(left) = Boundary
    BY <2>1, <2>2, Constants
  <2>4. left < Boundary
    BY <1>1, <2>1, Constants
  <2>5. QED
    BY <2>1, <2>3, <2>4, Constants
<1>6. \E g : g = body(g)
  <2> DEFINE one(left) == <<Entry(at(left), left)>>
             rest(left) == left - bytes(left)
             h == [left \in 0 .. N |->
                     IF left = 0 THEN <<>>
                     ELSE <<Entry(at(left), bytes(left))>>
                          \o (IF rest(left) = 0 THEN <<>> ELSE one(rest(left)) \o <<>>)]
  <2>1. ASSUME NEW left \in 1 .. N
        PROVE  /\ rest(left) \in 0 .. N
               /\ rest(left) # 0 => bytes(rest(left)) = rest(left)
    <3> DEFINE m == at(left) % Boundary
               r1 == rest(left)
    <3>1. at(left) \in Nat /\ left \in Nat /\ left < Boundary /\ cap(left) = left
      BY <1>1, Constants
    <3>2. m \in 0 .. Boundary - 1
      BY <3>1, Constants, ModRange
    <3>3. bytes(left) = IF left > Boundary - m THEN Boundary - m ELSE left
      BY <3>1
    <3>4. r1 \in 0 .. N /\ (r1 # 0 => bytes(left) = Boundary - m /\ r1 < Boundary)
      <4> HIDE DEF m, bytes
      <4>1. QED
        BY <1>1, <3>1, <3>2, <3>3, Constants
    <3>5. ASSUME r1 # 0
          PROVE  bytes(r1) = r1
      <4>1. at(r1) = at(left) + (Boundary - m)
        <5>1. bytes(left) = Boundary - m
          BY <3>4, <3>5, Zenon
        <5> HIDE DEF m, bytes
        <5>2. m \in Nat /\ N \in Nat /\ Boundary \in Nat
          BY <1>1, <3>2, Constants
        <5>3. QED
          BY <1>1, <3>1, <5>1, <5>2
      <4>2. at(r1) % Boundary = 0
        BY <3>1, <4>1, Constants, NextBoundary
      <4>3. cap(r1) = r1 /\ max(r1) = Boundary
        <5> HIDE DEF bytes, at
        <5>1. QED
          BY <1>1, <3>4, <3>5, <4>2, Constants
      <4> HIDE DEF r1, cap, max
      <4>4. r1 < Boundary /\ r1 \in Nat
        BY <3>4, <3>5
      <4>5. QED
        BY <4>3, <4>4, Constants
    <3>6. QED
      BY <3>4, <3>5
  <2>2. ASSUME NEW left \in 0 .. N
        PROVE  h[left] = IF left = 0 THEN <<>> ELSE <<Entry(at(left), bytes(left))>> \o h[rest(left)]
    <3> HIDE DEF at, bytes, one
    <3>1. CASE left = 0
      BY <1>1, <3>1
    <3>2. CASE left # 0
      <4>1. left \in 1 .. N
        BY <3>2
      <4>2. rest(left) \in 0 .. N /\ (rest(left) # 0 => rest(rest(left)) = 0)
        <5>1. \A x \in 0 .. N : x - x = 0
          OBVIOUS
        <5>2. QED
          BY <2>1, <4>1, <5>1
      <4>3. h[left] = <<Entry(at(left), bytes(left))>>
                      \o (IF rest(left) = 0 THEN <<>> ELSE one(rest(left)) \o <<>>)
        BY <3>2, Zenon
      <4>4. h[rest(left)] = IF rest(left) = 0 THEN <<>> ELSE one(rest(left)) \o <<>>
        <5> DEFINE x == rest(left)
        <5>1. x = 0 => h[x] = <<>>
          BY <1>1
        <5>2. ASSUME x # 0 PROVE h[x] = one(x) \o <<>>
          <6>1. x \in 0 .. N /\ rest(x) = 0 /\ bytes(x) = x
            BY <2>1, <4>1, <4>2, <5>2
          <6> HIDE DEF x
          <6>2. h[x] = <<Entry(at(x), bytes(x))>>
                       \o (IF rest(x) = 0 THEN <<>> ELSE one(rest(x)) \o <<>>)
            BY <5>2, <6>1, Zenon
          <6>3. QED
            BY <6>1, <6>2 DEF one
        <5>3. QED
          BY <5>1, <5>2
      <4>5. QED
        BY <3>2, <4>3, <4>4
    <3>3. QED
      BY <3>1, <3>2
  <2>3. h = body(h)
    <3>1. \A left \in 0 .. N : h[left] = body(h)[left]
      <4> HIDE DEF h, at, bytes
      <4>1. QED
        BY <2>2, Zenon DEF Entry
    <3>2. DOMAIN h = 0 .. N /\ DOMAIN body(h) = 0 .. N
      OBVIOUS
    <3>3. h = [left \in 0 .. N |-> h[left]] /\ body(h) = [left \in 0 .. N |-> body(h)[left]]
      OBVIOUS
    <3> HIDE DEF h, body
    <3>4. QED
      BY <3>1, <3>3
  <2>4. QED
    <3> HIDE DEF h, body
    <3>1. QED
      BY <2>3
<1>7. PICK g : g = body(g) /\ PrdTable(r) = g[N]
  <2>1. PrdTable(r) = T[N]
    BY DEF PrdTable
  <2> HIDE DEF body
  <2>2. T = body(T)
    BY <1>6
  <2> HIDE DEF T
  <2>3. QED
    BY <2>1, <2>2
<1>8. \A left \in 0 .. N : g[left] = body(g)[left]
  <2> HIDE DEF body
  <2>1. QED
    BY <1>7
<1> HIDE DEF at, bytes
<1>9. /\ g[0] = <<>>
      /\ \A left \in 1 .. N : g[left] = <<Entry(at(left), bytes(left))>> \o g[left - bytes(left)]
  <2>1. \A left \in 0 .. N :
          g[left] = IF left = 0 THEN <<>> ELSE <<Entry(at(left), bytes(left))>> \o g[left - bytes(left)]
    BY <1>8, Zenon DEF Entry
  <2>2. 0 \in 0 .. N /\ \A left \in 1 .. N : left \in 0 .. N /\ left # 0
    BY <1>1
  <2>3. QED
    BY <2>1, <2>2, Zenon
<1>10. CASE N <= Before(r)
  <2>1. g[N] = <<Entry(r.base, N)>> \o g[0]
    <3>1. N \in 1 .. N /\ bytes(N) = N /\ N - N = 0 /\ at(N) = r.base
      BY <1>1, <1>3, <1>4, <1>10
    <3>2. g[N] = <<Entry(at(N), bytes(N))>> \o g[N - bytes(N)]
      BY <1>9, <3>1, Zenon
    <3>3. QED
      BY <3>1, <3>2
  <2>2. g[N] = <<Entry(r.base, N)>>
    BY <1>9, <2>1
  <2>3. QED
    BY <1>7, <1>10, <2>2
<1>11. CASE N > Before(r)
  <2> DEFINE left == N - Before(r)
  <2>1. left \in 1 .. N /\ at(left) = r.base + Before(r) /\ bytes(left) = left /\ left - left = 0
    BY <1>5, <1>11, <1>1, <1>2
  <2>2. bytes(N) = Before(r) /\ N - bytes(N) = left
    BY <1>4, <1>11, <1>1, <1>2
  <2> HIDE DEF left
  <2>3. g[left] = <<Entry(r.base + Before(r), left)>>
    <3>1. g[left] = <<Entry(r.base + Before(r), left)>> \o g[0]
      BY <1>9, <2>1
    <3>2. QED
      BY <1>9, <3>1
  <2>4. g[N] = <<Entry(r.base, Before(r))>> \o g[left]
    <3>1. N \in 1 .. N
      BY <1>1
    <3>2. QED
      BY <1>3, <1>9, <2>2, <3>1
  <2>5. g[N] = <<Entry(r.base, Before(r)), Entry(r.base + Before(r), left)>>
    BY <2>3, <2>4, PairOfOnes
  <2>6. ~(N <= Before(r))
    BY <1>1, <1>2, <1>11
  <2>7. QED
    BY <1>7, <2>5, <2>6 DEF left
<1>12. QED
  BY <1>1, <1>2, <1>10, <1>11

\* The addresses of an entry.
Piece(e) == [k \in 1 .. e.count |-> AddressIn(e, k - 1)]

LEMMA AddressesOf ==
  ASSUME NEW table, Len(table) \in 1 .. 2
  PROVE  Addresses(table) = IF Len(table) = 1 THEN <<>> \o Piece(table[1])
                            ELSE (<<>> \o Piece(table[1])) \o Piece(table[2])
<1> DEFINE N == Len(table)
           step(j) == [k \in 1 .. table[j].count |-> AddressIn(table[j], k - 1)]
           body(g) == [j \in 0 .. N |-> IF j = 0 THEN <<>> ELSE g[j - 1] \o step(j)]
           T == CHOOSE g : g = body(g)
           h == [j \in 0 .. N |-> IF j = 0 THEN <<>>
                                  ELSE IF j = 1 THEN <<>> \o step(1) ELSE (<<>> \o step(1)) \o step(2)]
<1>1. ASSUME NEW j \in 0 .. N
      PROVE  h[j] = IF j = 0 THEN <<>> ELSE h[j - 1] \o step(j)
  <2> HIDE DEF step
  <2>1. CASE j = 0
    BY <2>1
  <2>2. CASE j = 1
    <3>1. h[0] = <<>> /\ h[1] = <<>> \o step(1) /\ 1 - 1 = 0
      BY <2>2
    <3> HIDE DEF h
    <3>2. QED
      BY <2>2, <3>1
  <2>3. CASE j = 2
    <3>1. h[1] = <<>> \o step(1) /\ h[2] = (<<>> \o step(1)) \o step(2) /\ 2 - 1 = 1 /\ 2 # 0
      BY <2>3
    <3> HIDE DEF h
    <3>2. QED
      BY <2>3, <3>1, Zenon
  <2>4. QED
    <3>1. j = 0 \/ j = 1 \/ j = 2
      <4>1. N = 1 \/ N = 2
        OBVIOUS
      <4>2. j \in 0 .. N
        OBVIOUS
      <4> HIDE DEF N
      <4>3. QED
        BY <4>1, <4>2
    <3> HIDE DEF h
    <3>2. QED
      BY <2>1, <2>2, <2>3, <3>1
<1>2. \E g : g = body(g)
  <2>1. \A j \in 0 .. N : h[j] = body(h)[j]
    <3> HIDE DEF h, step
    <3>1. QED
      BY <1>1, Zenon
  <2>2. h = [j \in 0 .. N |-> h[j]] /\ body(h) = [j \in 0 .. N |-> body(h)[j]]
    OBVIOUS
  <2> HIDE DEF h, body
  <2>3. QED
    BY <2>1, <2>2
<1>3. PICK g : g = body(g) /\ Addresses(table) = g[N]
  <2>1. Addresses(table) = T[N]
    BY DEF Addresses
  <2> HIDE DEF body
  <2>2. T = body(T)
    BY <1>2
  <2> HIDE DEF T
  <2>3. QED
    BY <2>1, <2>2
<1>4. \A j \in 0 .. N : g[j] = body(g)[j]
  <2> HIDE DEF body
  <2>1. QED
    BY <1>3
<1>5. \A j \in 0 .. N : g[j] = IF j = 0 THEN <<>> ELSE g[j - 1] \o Piece(table[j])
  <2>1. \A j : step(j) = Piece(table[j])
    BY DEF Piece
  <2> HIDE DEF step
  <2>2. QED
    BY <1>4, <2>1, Zenon
<1>6. g[0] = <<>> /\ g[1] = <<>> \o Piece(table[1])
  <2>1. 0 \in 0 .. N /\ 1 \in 0 .. N /\ 1 # 0 /\ 1 - 1 = 0
    OBVIOUS
  <2>2. g[0] = <<>> /\ g[1] = g[1 - 1] \o Piece(table[1])
    BY <1>5, <2>1, Zenon
  <2>3. QED
    BY <2>1, <2>2
<1>7. N = 2 => g[2] = g[1] \o Piece(table[2])
  <2>1. N = 2 => 2 \in 0 .. N /\ 2 # 0 /\ 2 - 1 = 1
    OBVIOUS
  <2>2. N = 2 => g[2] = g[2 - 1] \o Piece(table[2])
    BY <1>5, <2>1, Zenon
  <2>3. QED
    BY <2>1, <2>2
<1>8. QED
  <2> HIDE DEF body
  <2>1. N = 1 \/ N = 2
    OBVIOUS
  <2>2. QED
    BY <1>3, <1>6, <1>7, <2>1

\* The bus master goes through an aligned entry that does not cross a boundary byte by byte.
LEMMA AddressInEntry ==
  ASSUME NEW at \in Nat, NEW bytes \in Nat, at % Alignment = 0, (at % Boundary) + bytes <= Boundary,
         NEW k \in 0 .. bytes - 1
  PROVE  AddressIn(Entry(at, bytes), k) = at + k
<1>1. at % Boundary \in 0 .. Boundary - 1 /\ (at % Boundary) + k < Boundary
  BY Constants, ModRange
<1>2. (at + k) % Boundary = (at % Boundary) + k
  <2>1. k \in Nat /\ Boundary \in Nat \ {0}
    BY Constants
  <2>2. QED
    BY <1>1, <2>1, ModAdd, Zenon
<1>3. Entry(at, bytes).base = at /\ at - (at % Alignment) = at
  BY DEF Entry
<1>4. AddressIn(Entry(at, bytes), k) = at - (at % Boundary) + ((at + k) % Boundary)
  BY <1>3, Zenon DEF AddressIn
<1>5. QED
  BY <1>1, <1>2, <1>4

LEMMA EntryPiece ==
  ASSUME NEW at \in Nat, NEW bytes \in Nat, at % Alignment = 0, (at % Boundary) + bytes <= Boundary
  PROVE  Piece(Entry(at, bytes)) = [k \in 1 .. bytes |-> at + k - 1]
<1>1. ASSUME NEW k \in 1 .. bytes
      PROVE  AddressIn(Entry(at, bytes), k - 1) = at + k - 1
  <2>1. AddressIn(Entry(at, bytes), k - 1) = at + (k - 1)
    BY AddressInEntry
  <2>2. QED
    BY <2>1
<1>2. Entry(at, bytes).count = bytes
  BY DEF Entry
<1>3. QED
  BY <1>1, <1>2, Zenon DEF Piece

\* The addresses from a base on.
From(base, n) == [k \in 1 .. n |-> base + k - 1]

LEMMA FromType ==
  ASSUME NEW base \in Nat, NEW n \in Nat
  PROVE  From(base, n) \in Seq(Nat) /\ Len(From(base, n)) = n
<1>1. \A k \in 1 .. n : base + k - 1 \in Nat
  OBVIOUS
<1>2. From(base, n) \in [1 .. n -> Nat]
  BY <1>1 DEF From
<1> HIDE DEF From
<1>3. QED
  BY <1>2

LEMMA FromConcat ==
  ASSUME NEW base \in Nat, NEW m \in Nat, NEW n \in Nat
  PROVE  From(base, m) \o From(base + m, n) = From(base, m + n)
<1> DEFINE s == From(base, m)
           t == From(base + m, n)
           u == s \o t
           v == From(base, m + n)
<1>1. /\ s \in Seq(Nat) /\ Len(s) = m /\ t \in Seq(Nat) /\ Len(t) = n
      /\ v \in Seq(Nat) /\ Len(v) = m + n
  <2>1. base + m \in Nat /\ m + n \in Nat
    OBVIOUS
  <2>2. QED
    BY <2>1, FromType
<1>2. /\ \A k \in 1 .. m : s[k] = base + k - 1
      /\ \A k \in 1 .. n : t[k] = base + m + k - 1
      /\ \A k \in 1 .. m + n : v[k] = base + k - 1
  BY DEF From
<1> HIDE DEF s, t, v
<1>3. /\ u \in Seq(Nat) /\ Len(u) = Len(s) + Len(t)
      /\ \A k \in 1 .. Len(s) : u[k] = s[k]
      /\ \A k \in 1 .. Len(t) : u[Len(s) + k] = t[k]
  <2>1. s \in Seq(Nat) /\ t \in Seq(Nat)
    BY <1>1
  <2>2. QED
    BY <2>1, ConcatParts
<1> HIDE DEF u
<1>4. ASSUME NEW k \in 1 .. m + n PROVE u[k] = v[k]
  <2>1. CASE k <= m
    BY <1>1, <1>2, <1>3, <2>1
  <2>2. CASE k > m
    <3>1. k - m \in 1 .. n /\ m + (k - m) = k
      BY <2>2
    <3>2. u[k] = t[k - m]
      BY <1>1, <1>3, <3>1
    <3>3. t[k - m] = base + m + (k - m) - 1
      BY <1>2, <3>1
    <3>4. QED
      BY <1>2, <3>1, <3>2, <3>3
  <2>3. QED
    BY <2>1, <2>2
<1>5. u = v
  <2>1. Len(u) = Len(v) /\ Len(v) = m + n
    BY <1>1, <1>3
  <2>2. QED
    BY <1>1, <1>3, <1>4, <2>1
<1>6. QED
  BY <1>5 DEF u, s, t, v

\* The table of a request names the bytes of its buffer, in order, wherever it starts.
LEMMA TableCoversBuffer ==
  ASSUME NEW r \in Fitting
  PROVE  Addresses(PrdTable(r)) = From(r.base, Size(r))
<1> DEFINE N == Size(r)
           B == Before(r)
<1>1. /\ N \in Nat \ {0} /\ r.base \in Nat /\ N < Boundary /\ r.base % Alignment = 0
      /\ r.base % Boundary \in 0 .. Boundary - 1 /\ B = Boundary - (r.base % Boundary)
  BY RequestType, Constants, ModRange DEF Fitting, Before
<1>0. Boundary \in Nat
  BY Constants
<1>2. B \in 1 .. Boundary /\ (r.base % Boundary) + B = Boundary
  BY <1>1, Constants
<1> HIDE DEF N, B
<1>3. CASE N <= B
  <2> DEFINE e == Entry(r.base, N)
  <2>1. PrdTable(r) = <<e>>
    BY <1>3, TableOf DEF N, B
  <2>2. (r.base % Boundary) + N <= Boundary
    BY <1>1, <1>2, <1>3, Constants
  <2>3. Piece(e) = From(r.base, N)
    BY <1>1, <2>2, EntryPiece DEF From
  <2> HIDE DEF e
  <2>4. Addresses(<<e>>) = <<>> \o Piece(e)
    BY AddressesOf
  <2>5. <<>> \o From(r.base, N) = From(r.base, N)
    BY <1>1, FromType
  <2>6. QED
    BY <2>1, <2>3, <2>4, <2>5 DEF N
<1>4. CASE N > B
  <2> DEFINE e == Entry(r.base, B)
             f == Entry(r.base + B, N - B)
  <2>1. PrdTable(r) = <<e, f>>
    BY <1>1, <1>2, <1>4, TableOf DEF N, B
  <2>2. (r.base + B) % Boundary = 0 /\ r.base + B \in Nat
    <3>0. r.base \in Nat /\ B \in Nat /\ Boundary \in Nat \ {0}
      BY <1>1, <1>2, Constants
    <3>1. r.base \in Nat /\ Boundary \in Nat \ {0} /\ r.base + B \in Nat
      BY <3>0
    <3>2. (r.base + (Boundary - (r.base % Boundary))) % Boundary = 0
      BY <3>1, NextBoundary, Zenon
    <3>3. QED
      BY <1>1, <3>1, <3>2, Zenon
  <2>3. (r.base + B) % Alignment = 0
    BY <2>2, Constants, ModDivides
  <2>4. N - B \in Nat /\ 0 + (N - B) <= Boundary
    <3>1. B \in Nat /\ N \in Nat /\ N < Boundary /\ B >= 1
      BY <1>1, <1>2
    <3>2. QED
      BY <1>0, <1>4, <3>1
  <2>5. Piece(e) = From(r.base, B)
    <3>1. r.base \in Nat /\ r.base % Alignment = 0 /\ B \in Nat /\ (r.base % Boundary) + B <= Boundary
      BY <1>0, <1>1, <1>2
    <3>2. QED
      BY <3>1, EntryPiece DEF From
  <2>6. Piece(f) = From(r.base + B, N - B)
    BY <2>2, <2>3, <2>4, EntryPiece DEF From
  <2> HIDE DEF e, f
  <2>7. Addresses(<<e, f>>) = (<<>> \o Piece(e)) \o Piece(f)
    <3> DEFINE table == <<e, f>>
    <3>1. Len(table) \in 1 .. 2 /\ Len(table) # 1 /\ table[1] = e /\ table[2] = f
      OBVIOUS
    <3> HIDE DEF table
    <3>2. Addresses(table) = (<<>> \o Piece(table[1])) \o Piece(table[2])
      BY <3>1, AddressesOf, Zenon
    <3>3. Addresses(table) = (<<>> \o Piece(e)) \o Piece(f)
      BY <3>1, <3>2, Zenon
    <3>4. QED
      BY <3>3 DEF table
  <2>8. <<>> \o From(r.base, B) = From(r.base, B)
    BY <1>1, <1>2, FromType
  <2>9. From(r.base, B) \o From(r.base + B, N - B) = From(r.base, B + (N - B))
    <3>1. r.base \in Nat /\ B \in Nat /\ N - B \in Nat
      BY <1>1, <1>2, <2>4
    <3>2. QED
      BY <3>1, FromConcat
  <2>10. B + (N - B) = N
    BY <1>1, <1>2
  <2>11. QED
    BY <2>1, <2>5, <2>6, <2>7, <2>8, <2>9, <2>10 DEF N
<1>5. QED
  BY <1>1, <1>2, <1>3, <1>4

-----------------------------------------------------------------------------
(***************************************************************************)
(* Types, and who uses the bus master                                      *)
(***************************************************************************)

PCs == {"idle", "acquire", "return"} \cup Locked

\* What the drive can be at.
Commands == Fitting \cup {NoRequest, FlushCommand}

Values == Tasks \cup {Blank, Junk}

Running == {"start", "poll", "stop", "status"}

\* ATypeOK with the shape of the driver's state.
TypeInv ==
  /\ scenario \in Scenarios
  /\ lock \in Tasks \cup {None} /\ pc \in [Tasks -> PCs]
  /\ req \in [Tasks -> Asked \cup {NoRequest}] /\ error \in [Tasks -> BOOLEAN]
  /\ prd \in [table : {PrdTable(r) : r \in Fitting} \cup {<<>>}, read : BOOLEAN]
  /\ start \in BOOLEAN /\ intr \in [interrupt : BOOLEAN, error : BOOLEAN]
  /\ drive \in [command : Commands, state : {"idle", "busy", "drq", "error"}]
  /\ unsynced \subseteq 0 .. SectorCount - 1
  /\ disk \in [Bytes -> Values] /\ memory \in [Memory -> Values]

\* The lock's holder has the drive and the bus master: while it is amid its transfer the table
\* is that of its request.
UseOf(t) ==
  /\ pc[t] \in Locked <=> lock = t
  /\ pc[t] = "idle" => req[t] = NoRequest
  /\ pc[t] # "idle" => req[t] \in Requests[t]
  /\ pc[t] \in Locked \cup {"acquire"} => req[t] \in Fitting
  /\ pc[t] \in Running => prd = [table |-> PrdTable(req[t]), read |-> ~req[t].write]

\* START is set only for a task that polls.
UseInv ==
  /\ \A t \in Tasks : UseOf(t)
  /\ start => \E t \in Tasks : pc[t] \in {"poll", "stop"}

LEMMA CommandType ==
  ASSUME NEW c \in Commands
  PROVE  /\ c.write \in BOOLEAN /\ c.lba \in Nat /\ c.count \in Nat
         /\ c.lba + c.count <= SectorCount
         /\ c.lba * SectorSize \in Nat /\ Size(c) \in Nat /\ Size(c) = c.count * SectorSize
         /\ c.lba * SectorSize + Size(c) <= SectorCount * SectorSize
<1>1. /\ c.write \in BOOLEAN /\ c.lba \in Nat /\ c.count \in Nat
      /\ c.lba + c.count <= SectorCount
  <2>1. CASE c \in Fitting
    BY <2>1, RequestType DEF Fitting
  <2>2. CASE c \in {NoRequest, FlushCommand}
    <3>1. c.write = FALSE \/ c.write = TRUE
      BY <2>2 DEF NoRequest, FlushCommand
    <3>2. c.lba = 0 /\ c.count = 0
      BY <2>2 DEF NoRequest, FlushCommand
    <3>3. c.write \in BOOLEAN
      BY <3>1, Zenon
    <3>4. QED
      BY <3>2, <3>3, Constants
  <2>3. QED
    BY <2>1, <2>2 DEF Commands
<1> DEFINE l == c.lba
           n == c.count
<1>2. l \in Nat /\ n \in Nat /\ l + n <= SectorCount /\ SectorCount \in Nat /\ SectorSize \in Nat
  BY <1>1, Constants
<1> HIDE DEF l, n
<1>3. l * SectorSize \in Nat /\ n * SectorSize \in Nat
  BY <1>2
<1>4. l * SectorSize + n * SectorSize <= SectorCount * SectorSize
  <2>1. PICK d \in Nat : SectorCount = l + n + d
    <3>1. SectorCount - (l + n) \in Nat /\ SectorCount = l + n + (SectorCount - (l + n))
      BY <1>2
    <3>2. QED
      BY <3>1
  <2>2. SectorCount * SectorSize = l * SectorSize + n * SectorSize + d * SectorSize
    BY <1>2, <2>1
  <2>3. d * SectorSize \in Nat
    BY <1>2, <2>1
  <2>4. QED
    BY <1>3, <2>2, <2>3
<1>5. QED
  BY <1>1, <1>3, <1>4 DEF Size, l, n

\* A transfer of n bytes with a table that names the addresses from a base on.
LEMMA CopyRead ==
  ASSUME NEW base \in Nat, NEW size \in Nat, Addresses(prd.table) = From(base, size),
         NEW n \in 0 .. size, drive.command \in Commands, ~drive.command.write, Copy(n)
  PROVE  /\ memory' = [a \in Memory |->
                         IF a \in base .. base + n - 1
                         THEN disk[drive.command.lba * SectorSize + (a - base)] ELSE memory[a]]
         /\ UNCHANGED <<disk, unsynced>>
<1> DEFINE first == drive.command.lba * SectorSize
           at == Addresses(prd.table)
<1>1. first \in Nat
  BY CommandType
<1>2. \A k \in 1 .. n : at[k] = base + k - 1
  BY DEF From
<1>3. /\ memory' = [a \in Memory |-> IF \E k \in 1 .. n : at[k] = a
                                      THEN disk[first - 1 + CHOOSE k \in 1 .. n : at[k] = a]
                                      ELSE memory[a]]
      /\ UNCHANGED <<disk, unsynced>>
  BY Zenon DEF Copy
<1> HIDE DEF first, at
<1>4. ASSUME NEW a \in Memory
      PROVE  /\ (\E k \in 1 .. n : at[k] = a) <=> a \in base .. base + n - 1
             /\ a \in base .. base + n - 1 => first - 1 + (CHOOSE k \in 1 .. n : at[k] = a) = first + (a - base)
  <2>1. a \in Nat
    BY Constants DEF Memory
  <2>2. a \in base .. base + n - 1 => a - base + 1 \in 1 .. n /\ at[a - base + 1] = a
    BY <1>2, <2>1
  <2>3. \A k \in 1 .. n : at[k] = a => k = a - base + 1 /\ a \in base .. base + n - 1
    BY <1>2, <2>1
  <2>4. ASSUME a \in base .. base + n - 1
        PROVE  (CHOOSE k \in 1 .. n : at[k] = a) = a - base + 1
    BY <2>2, <2>3, <2>4
  <2>5. QED
    BY <1>1, <2>1, <2>2, <2>3, <2>4
<1>5. QED
  BY <1>3, <1>4 DEF first

LEMMA CopyWrite ==
  ASSUME NEW base \in Nat, NEW size \in Nat, Addresses(prd.table) = From(base, size),
         NEW n \in 0 .. size, drive.command \in Commands, drive.command.write, Copy(n)
  PROVE  /\ disk' = [b \in Bytes |->
                       IF b - drive.command.lba * SectorSize \in 0 .. n - 1
                       THEN memory[base + (b - drive.command.lba * SectorSize)] ELSE disk[b]]
         /\ unsynced' \subseteq unsynced \cup Sectors(drive.command)
         /\ UNCHANGED memory
<1> DEFINE first == drive.command.lba * SectorSize
           at == Addresses(prd.table)
<1>1. first \in Nat
  BY CommandType
<1>2. \A k \in 0 .. n - 1 : at[k + 1] = base + k
  BY DEF From
<1>3. /\ disk' = [b \in Bytes |-> IF b - first \in 0 .. n - 1 THEN memory[at[(b - first) + 1]] ELSE disk[b]]
      /\ unsynced' \subseteq unsynced \cup Sectors(drive.command)
      /\ UNCHANGED memory
  BY DEF Copy
<1> HIDE DEF first, at
<1>4. QED
  BY <1>2, <1>3, Zenon DEF first

LEMMA InitTypeInv == AInit => TypeInv /\ UseInv
<1> SUFFICES ASSUME AInit PROVE TypeInv /\ UseInv
  OBVIOUS
<1>1. NoRequest \in Commands
  BY DEF Commands
<1>2. Blank \in Values /\ Junk \in Values
  BY DEF Values
<1>3. "idle" \in PCs /\ "idle" \notin Locked /\ "idle" \notin Running
  BY DEF PCs, Locked, Running
<1>4. TypeInv
  BY <1>1, <1>2, <1>3 DEF AInit, TypeInv
<1>5. UseInv
  BY <1>3, ATAAssumption DEF AInit, UseInv, UseOf
<1>6. QED
  BY <1>4, <1>5

\* One task at most holds the lock.
LEMMA Alone ==
  ASSUME UseInv, NEW t \in Tasks, pc[t] \in Locked, NEW u \in Tasks, u # t
  PROVE  pc[u] \notin Locked /\ pc[u] \notin Running
BY DEF UseInv, UseOf, Locked, Running

\* What the other tasks see of t's step.
LEMMA OthersUse ==
  ASSUME UseInv, NEW t \in Tasks, NEW u \in Tasks, u # t,
         pc'[u] = pc[u], req'[u] = req[u],
         \/ lock' = lock
         \/ lock = None /\ lock' = t
         \/ lock = t /\ lock' = None,
         prd' = prd \/ pc[t] \in Locked
  PROVE  UseOf(u)'
<1>1. UseOf(u)
  BY DEF UseInv
<1>2. u # None
  BY ATAAssumption
<1>3. (pc[u] \in Locked)' <=> lock' = u
  BY <1>1, <1>2 DEF UseOf
<1>4. pc[u] \in Running => prd' = prd
  BY Alone
<1>5. QED
  BY <1>1, <1>3, <1>4 DEF UseOf

\* A step of the task that holds the lock, whose request stays what it is.
LEMMA OwnStep ==
  ASSUME TypeInv, UseInv, NEW t \in Tasks, NEW to \in Locked, pc[t] \in Locked,
         Goto(t, to), UNCHANGED <<lock, req>>,
         to \in Running => prd' = [table |-> PrdTable(req[t]), read |-> ~req[t].write],
         start' => to \in {"poll", "stop"}
  PROVE  UseInv' /\ pc' \in [Tasks -> PCs]
<1>1. pc' = [pc EXCEPT ![t] = to] /\ pc \in [Tasks -> PCs] /\ to \in PCs
  BY DEF Goto, TypeInv, PCs
<1>2. pc' \in [Tasks -> PCs] /\ pc'[t] = to /\ \A u \in Tasks : u # t => pc'[u] = pc[u]
  BY <1>1
<1>3. UseOf(t)'
  <2>1. UseOf(t)
    BY DEF UseInv
  <2>2. to # "idle" /\ pc[t] # "idle"
    BY DEF Locked
  <2>3. QED
    BY <1>2, <2>1, <2>2 DEF UseOf
<1>4. ASSUME NEW u \in Tasks, u # t PROVE UseOf(u)'
  <2>1. pc'[u] = pc[u] /\ req'[u] = req[u] /\ lock' = lock
    BY <1>2, <1>4
  <2>2. QED
    BY <1>4, <2>1, OthersUse
<1>5. (\E u \in Tasks : pc[u] \in {"poll", "stop"})' \/ ~start'
  BY <1>2
<1>6. QED
  BY <1>2, <1>3, <1>4, <1>5 DEF UseInv

\* What the lock's holder is at.
LEMMA Holder ==
  ASSUME TypeInv, UseInv, NEW t \in Tasks, pc[t] \in Locked
  PROVE  req[t] \in Fitting /\ lock = t /\ req[t] \in Commands
BY DEF UseInv, UseOf, Commands

LEMMA Issued ==
  ASSUME TypeInv, NEW c \in Commands, Issue(c)
  PROVE  drive' \in [command : Commands, state : {"idle", "busy", "drq", "error"}]
BY DEF TypeInv, Issue

LEMMA Failed ==
  ASSUME TypeInv, NEW t \in Tasks, Fail(t) \/ UNCHANGED error
  PROVE  error' \in [Tasks -> BOOLEAN]
BY DEF TypeInv, Fail

LEMMA CallStep ==
  ASSUME TypeInv, UseInv, NEW t \in Tasks, Call(t)
  PROVE  TypeInv' /\ UseInv'
<1>1. PICK r \in Requests[t] :
        /\ req' = [req EXCEPT ![t] = r]
        /\ memory' = [a \in Memory |-> IF r.write /\ a \in Buffer(r) THEN t ELSE memory[a]]
        /\ error' = [error EXCEPT ![t] = Size(r) > MaxQueue]
        /\ Goto(t, IF Size(r) > MaxQueue THEN "return" ELSE "acquire")
  BY DEF Call
<1> DEFINE to == IF Size(r) > MaxQueue THEN "return" ELSE "acquire"
<1>2. pc[t] = "idle" /\ UNCHANGED <<scenario, lock, busmaster, drive, disk, unsynced>>
  BY DEF Call
<1>3. r \in Asked /\ (Size(r) > MaxQueue \/ r \in Fitting)
  BY RequestType DEF Asked
<1>4. to \in PCs /\ to \notin Locked /\ to \notin Running /\ to # "idle" /\ to \notin {"poll", "stop"}
      /\ (to = "acquire" => r \in Fitting)
  BY <1>3 DEF PCs, Locked, Running
<1>5. pc' = [pc EXCEPT ![t] = to]
  BY <1>1 DEF Goto
<1> HIDE DEF to
<1>6. /\ pc' \in [Tasks -> PCs] /\ pc'[t] = to /\ req'[t] = r
      /\ \A u \in Tasks : u # t => pc'[u] = pc[u] /\ req'[u] = req[u]
      /\ req' \in [Tasks -> Asked \cup {NoRequest}]
  BY <1>1, <1>3, <1>4, <1>5 DEF TypeInv
<1>7. error' \in [Tasks -> BOOLEAN]
  <2>1. (Size(r) > MaxQueue) \in BOOLEAN
    OBVIOUS
  <2>2. QED
    BY <1>1, <2>1, Zenon DEF TypeInv
<1>8. memory' \in [Memory -> Values]
  <2>1. t \in Values /\ \A a \in Memory : memory[a] \in Values
    BY DEF TypeInv, Values
  <2>2. QED
    BY <1>1, <2>1
<1>9. TypeInv'
  BY <1>2, <1>6, <1>7, <1>8 DEF TypeInv, busmaster
<1>10. UseOf(t)'
  <2>1. lock' = lock /\ lock # t
    BY <1>2 DEF UseInv, UseOf, Locked
  <2>2. QED
    BY <1>4, <1>6, <2>1 DEF UseOf
<1>11. ASSUME NEW u \in Tasks, u # t PROVE UseOf(u)'
  BY <1>2, <1>6, <1>11, OthersUse DEF busmaster
<1>12. start' => (\E u \in Tasks : pc[u] \in {"poll", "stop"})'
  <2>1. start' => \E u \in Tasks : pc[u] \in {"poll", "stop"}
    BY <1>2 DEF UseInv, busmaster
  <2>2. \A u \in Tasks : pc[u] \in {"poll", "stop"} => pc'[u] = pc[u]
    BY <1>2, <1>6
  <2>3. QED
    BY <2>1, <2>2
<1>13. QED
  BY <1>9, <1>10, <1>11, <1>12 DEF UseInv

LEMMA AcquireStep ==
  ASSUME TypeInv, UseInv, NEW t \in Tasks, Acquire(t)
  PROVE  TypeInv' /\ UseInv'
<1>1. /\ pc[t] = "acquire" /\ pc' = [pc EXCEPT ![t] = "send"] /\ lock = None /\ lock' = t
      /\ UNCHANGED <<scenario, req, error, prd, start, intr, drive, disk, unsynced, memory>>
  BY DEF Acquire, Move, Goto, busmaster, contents
<1>2. "send" \in PCs /\ "send" \in Locked /\ "send" \notin Running
  BY DEF PCs, Locked, Running
<1>3. pc' \in [Tasks -> PCs] /\ pc'[t] = "send" /\ \A u \in Tasks : u # t => pc'[u] = pc[u]
  BY <1>1, <1>2 DEF TypeInv
<1>4. TypeInv'
  BY <1>1, <1>3 DEF TypeInv
<1>5. UseOf(t)'
  BY <1>1, <1>2, <1>3 DEF UseInv, UseOf
<1>6. ASSUME NEW u \in Tasks, u # t PROVE UseOf(u)'
  BY <1>1, <1>3, <1>6, OthersUse
<1>7. start' => (\E u \in Tasks : pc[u] \in {"poll", "stop"})'
  <2>1. start' => \E u \in Tasks : pc[u] \in {"poll", "stop"}
    BY <1>1 DEF UseInv
  <2>2. \A u \in Tasks : pc[u] \in {"poll", "stop"} => pc'[u] = pc[u]
    BY <1>1, <1>3
  <2>3. QED
    BY <2>1, <2>2
<1>8. QED
  BY <1>4, <1>5, <1>6, <1>7 DEF UseInv

\* Not amid a transfer, nobody has the bus master started.
LEMMA NotStarted ==
  ASSUME UseInv, NEW t \in Tasks, pc[t] \in Locked \ {"poll", "stop"}
  PROVE  ~start
<1>1. \A u \in Tasks : pc[u] \notin {"poll", "stop"}
  BY Alone DEF Locked
<1>2. QED
  BY <1>1 DEF UseInv

LEMMA CommandSteps ==
  ASSUME TypeInv, UseInv, NEW t \in Tasks,
         SendCommand(t) \/ CommandStatus(t) \/ Flush(t) \/ FlushStatus(t)
  PROVE  TypeInv' /\ UseInv'
<1>1. /\ pc[t] \in Locked \ {"poll", "stop"}
      /\ \E to \in Locked \ Running : Goto(t, to)
      /\ UNCHANGED <<scenario, lock, req, prd, start, intr, disk, unsynced, memory>>
      /\ Fail(t) \/ UNCHANGED error
      /\ Issue(req[t]) \/ Issue(FlushCommand) \/ UNCHANGED drive
  BY DEF SendCommand, CommandStatus, Flush, FlushStatus, Move, busmaster, contents, Locked, Running
<1>2. PICK to \in Locked \ Running : Goto(t, to)
  BY <1>1
<1>3. pc[t] \in Locked /\ ~start'
  BY <1>1, NotStarted
<1>4. UseInv' /\ pc' \in [Tasks -> PCs]
  BY <1>1, <1>2, <1>3, OwnStep
<1>5. drive' \in [command : Commands, state : {"idle", "busy", "drq", "error"}]
  <2>1. req[t] \in Commands /\ FlushCommand \in Commands
    BY <1>3, Holder DEF Commands
  <2>2. UNCHANGED drive => drive' \in [command : Commands, state : {"idle", "busy", "drq", "error"}]
    BY DEF TypeInv
  <2>3. QED
    BY <1>1, <2>1, <2>2, Issued
<1>6. error' \in [Tasks -> BOOLEAN]
  BY <1>1, Failed
<1>7. QED
  BY <1>1, <1>4, <1>5, <1>6 DEF TypeInv

LEMMA ProgramStep ==
  ASSUME TypeInv, UseInv, NEW t \in Tasks, Program(t)
  PROVE  TypeInv' /\ UseInv'
<1>1. /\ pc[t] = "program" /\ Goto(t, "start")
      /\ prd' = [table |-> PrdTable(req[t]), read |-> ~req[t].write]
      /\ intr' = [interrupt |-> FALSE, error |-> FALSE]
      /\ UNCHANGED <<scenario, lock, req, error, start, drive, disk, unsynced, memory>>
  BY DEF Program, Move, contents
<1>2. pc[t] \in Locked /\ pc[t] \in Locked \ {"poll", "stop"} /\ "start" \in Locked
  BY <1>1 DEF Locked
<1>3. ~start'
  BY <1>1, <1>2, NotStarted
<1>4. UseInv' /\ pc' \in [Tasks -> PCs]
  BY <1>1, <1>2, <1>3, OwnStep
<1>5. prd' \in [table : {PrdTable(r) : r \in Fitting} \cup {<<>>}, read : BOOLEAN]
  <2>1. req[t] \in Fitting
    BY <1>2, Holder
  <2>2. PrdTable(req[t]) \in {PrdTable(r) : r \in Fitting} \cup {<<>>}
    BY <2>1
  <2>3. (~req[t].write) \in BOOLEAN
    OBVIOUS
  <2>4. QED
    BY <1>1, <2>2, <2>3, Zenon
<1>6. intr' \in [interrupt : BOOLEAN, error : BOOLEAN]
  BY <1>1
<1>7. QED
  BY <1>1, <1>4, <1>5, <1>6 DEF TypeInv

LEMMA TransferSteps ==
  ASSUME TypeInv, UseInv, NEW t \in Tasks, Start(t) \/ Poll(t) \/ Stop(t)
  PROVE  TypeInv' /\ UseInv'
<1>1. /\ pc[t] \in Running /\ pc[t] \in Locked
      /\ \E to \in Locked : Goto(t, to) /\ (start' => to \in {"poll", "stop"})
      /\ UNCHANGED <<scenario, lock, req, prd, intr, drive, disk, unsynced, memory>>
      /\ Fail(t) \/ UNCHANGED error
      /\ start' \in BOOLEAN
  <2>1. CASE Start(t)
    BY <2>1 DEF Start, Move, contents, Locked, Running
  <2>2. CASE Poll(t)
    BY <2>2 DEF Poll, Move, contents, busmaster, Locked, Running, TypeInv
  <2>3. CASE Stop(t)
    BY <2>3 DEF Stop, Move, contents, Locked, Running
  <2>4. QED
    BY <2>1, <2>2, <2>3
<1>2. PICK to \in Locked : Goto(t, to) /\ (start' => to \in {"poll", "stop"})
  BY <1>1
<1>3. prd' = [table |-> PrdTable(req[t]), read |-> ~req[t].write]
  BY <1>1 DEF UseInv, UseOf
<1>4. UseInv' /\ pc' \in [Tasks -> PCs]
  BY <1>1, <1>2, <1>3, OwnStep
<1>5. error' \in [Tasks -> BOOLEAN]
  BY <1>1, Failed
<1>6. QED
  BY <1>1, <1>4, <1>5 DEF TypeInv

LEMMA TransferStatusStep ==
  ASSUME TypeInv, UseInv, NEW t \in Tasks, TransferStatus(t)
  PROVE  TypeInv' /\ UseInv'
<1>1. /\ pc[t] = "status" /\ \E to \in {"flush", "release"} : Goto(t, to)
      /\ error' = [error EXCEPT ![t] = @ \/ intr.error \/ drive.state = "error"]
      /\ intr' = [interrupt |-> FALSE, error |-> FALSE]
      /\ UNCHANGED <<scenario, lock, req, prd, start, drive, disk, unsynced, memory>>
  BY DEF TransferStatus, Move, contents
<1>2. PICK to \in {"flush", "release"} : Goto(t, to)
  BY <1>1
<1>3. pc[t] \in Locked /\ pc[t] \in Locked \ {"poll", "stop"} /\ to \in Locked /\ to \notin Running
  BY <1>1 DEF Locked, Running
<1>4. ~start'
  BY <1>1, <1>3, NotStarted
<1>5. UseInv' /\ pc' \in [Tasks -> PCs]
  BY <1>1, <1>2, <1>3, <1>4, OwnStep
<1>6. error' \in [Tasks -> BOOLEAN]
  <2>1. (error[t] \/ intr.error \/ drive.state = "error") \in BOOLEAN
    OBVIOUS
  <2>2. QED
    BY <1>1, <2>1, Zenon DEF TypeInv
<1>7. intr' \in [interrupt : BOOLEAN, error : BOOLEAN]
  BY <1>1
<1>8. QED
  BY <1>1, <1>5, <1>6, <1>7 DEF TypeInv

LEMMA ReleaseStep ==
  ASSUME TypeInv, UseInv, NEW t \in Tasks, Release(t)
  PROVE  TypeInv' /\ UseInv'
<1>1. /\ pc[t] = "release" /\ pc' = [pc EXCEPT ![t] = "return"] /\ lock' = None
      /\ UNCHANGED <<scenario, req, error, prd, start, intr, drive, disk, unsynced, memory>>
  BY DEF Release, Move, Goto, busmaster, contents
<1>2. "return" \in PCs /\ "return" \notin Locked /\ "return" \notin Running
      /\ pc[t] \in Locked /\ pc[t] \in Locked \ {"poll", "stop"}
  BY <1>1 DEF PCs, Locked, Running
<1>3. pc' \in [Tasks -> PCs] /\ pc'[t] = "return" /\ \A u \in Tasks : u # t => pc'[u] = pc[u]
  BY <1>1, <1>2 DEF TypeInv
<1>4. TypeInv'
  BY <1>1, <1>3 DEF TypeInv
<1>5. UseOf(t)'
  BY <1>1, <1>2, <1>3, ATAAssumption DEF UseInv, UseOf
<1>6. ASSUME NEW u \in Tasks, u # t PROVE UseOf(u)'
  BY <1>1, <1>2, <1>3, <1>6, Holder, OthersUse
<1>7. ~start'
  BY <1>1, <1>2, NotStarted
<1>8. QED
  BY <1>4, <1>5, <1>6, <1>7 DEF UseInv

LEMMA ReturnStep ==
  ASSUME TypeInv, UseInv, NEW t \in Tasks, Return(t)
  PROVE  TypeInv' /\ UseInv'
<1>1. /\ pc[t] = "return" /\ pc' = [pc EXCEPT ![t] = "idle"]
      /\ req' = [req EXCEPT ![t] = NoRequest] /\ error' = [error EXCEPT ![t] = FALSE]
      /\ memory' = [a \in Memory |-> IF a \in Buffer(req[t]) THEN Junk ELSE memory[a]]
      /\ UNCHANGED <<scenario, lock, prd, start, intr, drive, disk, unsynced>>
  BY DEF Return, Move, Goto, busmaster
<1>2. "idle" \in PCs /\ "idle" \notin Locked /\ "idle" \notin Running /\ pc[t] \notin Locked
  BY <1>1 DEF PCs, Locked, Running
<1>3. /\ pc' \in [Tasks -> PCs] /\ pc'[t] = "idle" /\ req'[t] = NoRequest
      /\ req' \in [Tasks -> Asked \cup {NoRequest}] /\ error' \in [Tasks -> BOOLEAN]
      /\ \A u \in Tasks : u # t => pc'[u] = pc[u] /\ req'[u] = req[u]
  BY <1>1, <1>2 DEF TypeInv
<1>4. memory' \in [Memory -> Values]
  BY <1>1 DEF TypeInv, Values
<1>5. TypeInv'
  BY <1>1, <1>3, <1>4 DEF TypeInv
<1>6. UseOf(t)'
  BY <1>1, <1>2, <1>3 DEF UseInv, UseOf
<1>7. ASSUME NEW u \in Tasks, u # t PROVE UseOf(u)'
  BY <1>1, <1>3, <1>7, OthersUse
<1>8. start' => (\E u \in Tasks : pc[u] \in {"poll", "stop"})'
  <2>1. start' => \E u \in Tasks : pc[u] \in {"poll", "stop"}
    BY <1>1 DEF UseInv
  <2>2. \A u \in Tasks : pc[u] \in {"poll", "stop"} => pc'[u] = pc[u]
    BY <1>1, <1>3
  <2>3. QED
    BY <2>1, <2>2
<1>9. QED
  BY <1>5, <1>6, <1>7, <1>8 DEF UseInv

LEMMA HardwareStep ==
  ASSUME TypeInv, UseInv, Ready \/ Flushed \/ Abort
  PROVE  TypeInv' /\ UseInv'
<1>1. /\ UNCHANGED <<scenario, lock, pc, req, error, prd, start, disk, memory>>
      /\ unsynced' \subseteq unsynced
      /\ intr' \in [interrupt : BOOLEAN, error : BOOLEAN]
      /\ drive' \in [command : Commands, state : {"idle", "busy", "drq", "error"}]
  <2>1. NoRequest \in Commands
    BY DEF Commands
  <2>2. Interrupt(FALSE) => intr' \in [interrupt : BOOLEAN, error : BOOLEAN]
    <3>1. (intr.error \/ FALSE) \in BOOLEAN
      OBVIOUS
    <3>2. intr \in [interrupt : BOOLEAN, error : BOOLEAN]
      BY DEF TypeInv
    <3>3. QED
      BY <3>1, <3>2 DEF Interrupt
  <2>3. CASE Ready
    BY <2>3 DEF Ready, TypeInv, driver, busmaster, contents
  <2>4. CASE Flushed
    BY <2>1, <2>2, <2>4 DEF Flushed, TypeInv, driver, Done
  <2>5. CASE Abort
    BY <2>1, <2>2, <2>5 DEF Abort, TypeInv, driver, contents, Done
  <2>6. QED
    BY <2>3, <2>4, <2>5
<1>2. TypeInv'
  BY <1>1 DEF TypeInv
<1>3. UseInv'
  <2>1. ASSUME NEW u \in Tasks PROVE UseOf(u)'
    BY <1>1 DEF UseInv, UseOf
  <2>2. QED
    BY <1>1, <2>1 DEF UseInv
<1>4. QED
  BY <1>2, <1>3

\* A transfer goes between the buffer of a task that polls, or is about to stop, and the
\* sectors of the drive's command, which is in the direction the task asked for.
TransferOf(t, n) ==
  /\ pc[t] \in {"poll", "stop"} /\ req[t] \in Fitting
  /\ Addresses(prd.table) = From(req[t].base, Size(req[t]))
  /\ drive.state = "drq" /\ drive.command.write = req[t].write
  /\ n <= Size(req[t]) /\ n <= Size(drive.command)
  /\ Copy(n)
  /\ UNCHANGED <<scenario, lock, pc, req, error, prd, start>>
  /\ \/ (drive.command = req[t] => n = Size(req[t])) /\ Done("idle") /\ Interrupt(FALSE)
     \/ Done("error") /\ Interrupt(FALSE)
     \/ Done("idle") /\ Interrupt(TRUE)

LEMMA TransferFacts ==
  ASSUME TypeInv, UseInv, Transfer
  PROVE  \E t \in Tasks, n \in Nat : TransferOf(t, n)
<1> DEFINE length == Len(Addresses(prd.table))
           all == IF Size(drive.command) < length THEN Size(drive.command) ELSE length
<1>1. /\ drive.state = "drq" /\ start /\ prd.read = ~drive.command.write
      /\ \/ /\ Copy(all)
            /\ Done("idle")
            /\ Interrupt(FALSE)
         \/ /\ \E s \in 0 .. all \div SectorSize - 1 : Copy(s * SectorSize)
            /\ \/ Done("error") /\ Interrupt(FALSE)
               \/ Done("idle") /\ Interrupt(TRUE)
      /\ UNCHANGED <<scenario, lock, pc, req, error, prd, start>>
  BY Zenon DEF Transfer, driver
<1>2. PICK t \in Tasks : pc[t] \in {"poll", "stop"}
  BY <1>1 DEF UseInv
<1>3. /\ pc[t] \in Locked /\ pc[t] \in Running
  BY <1>2 DEF Locked, Running
<1>4. req[t] \in Fitting /\ prd = [table |-> PrdTable(req[t]), read |-> ~req[t].write]
  BY <1>3, Holder DEF UseInv, UseOf
<1>5. Addresses(prd.table) = From(req[t].base, Size(req[t]))
  BY <1>4, TableCoversBuffer
<1>6. /\ req[t].base \in Nat /\ Size(req[t]) \in Nat /\ req[t].write \in BOOLEAN
      /\ drive.command \in Commands /\ Size(drive.command) \in Nat
      /\ drive.command.write \in BOOLEAN
  BY <1>4, RequestType, CommandType DEF Fitting, TypeInv
<1>7. length = Size(req[t])
  BY <1>5, <1>6, FromType
<1>8. drive.command.write = req[t].write
  BY <1>1, <1>4, <1>6
<1>9. /\ all \in Nat /\ all <= Size(req[t]) /\ all <= Size(drive.command)
      /\ drive.command = req[t] => all = Size(req[t])
  <2> HIDE DEF length
  <2>1. QED
    BY <1>6, <1>7
<1> HIDE DEF all, length
<1>10. ASSUME NEW s \in 0 .. all \div SectorSize - 1
       PROVE  s * SectorSize \in Nat /\ s * SectorSize <= all
  <2> DEFINE q == all \div SectorSize
  <2>1. q \in Nat /\ all = q * SectorSize + (all % SectorSize) /\ all % SectorSize \in Nat
    BY <1>9, Constants, ModRange
  <2> HIDE DEF q
  <2>2. s \in 0 .. q - 1
    BY DEF q
  <2>3. PICK d \in Nat : q = s + d
    <3>1. q - s \in Nat /\ q = s + (q - s)
      BY <2>1, <2>2
    <3>2. QED
      BY <3>1
  <2>4. q * SectorSize = s * SectorSize + d * SectorSize
    BY <2>2, <2>3, Constants
  <2>5. s * SectorSize \in Nat /\ d * SectorSize \in Nat
    BY <2>2, <2>3, Constants
  <2>6. QED
    BY <1>9, <2>1, <2>4, <2>5
<1>11. CASE Copy(all) /\ Done("idle") /\ Interrupt(FALSE)
  BY <1>1, <1>2, <1>4, <1>5, <1>8, <1>9, <1>11 DEF TransferOf
<1>12. CASE /\ \E s \in 0 .. all \div SectorSize - 1 : Copy(s * SectorSize)
            /\ \/ Done("error") /\ Interrupt(FALSE)
               \/ Done("idle") /\ Interrupt(TRUE)
  <2>1. PICK s \in 0 .. all \div SectorSize - 1 : Copy(s * SectorSize)
    BY <1>12
  <2> DEFINE n == s * SectorSize
  <2>2. n \in Nat /\ n <= all
    BY <1>10
  <2>3. Copy(n)
    BY <2>1
  <2> HIDE DEF n
  <2>4. n <= Size(req[t]) /\ n <= Size(drive.command)
    BY <1>6, <1>9, <2>2
  <2>5. TransferOf(t, n)
    BY <1>1, <1>2, <1>4, <1>5, <1>8, <1>12, <2>3, <2>4 DEF TransferOf
  <2>6. QED
    BY <2>2, <2>5
<1>13. QED
  BY <1>1, <1>11, <1>12, Zenon

\* What a transfer to memory changes, and one to the disk.
LEMMA TransferRead ==
  ASSUME TypeInv, NEW t \in Tasks, NEW n \in Nat, TransferOf(t, n), ~req[t].write
  PROVE  /\ memory' = [a \in Memory |->
                         IF a \in req[t].base .. req[t].base + n - 1
                         THEN disk[drive.command.lba * SectorSize + (a - req[t].base)] ELSE memory[a]]
         /\ UNCHANGED <<disk, unsynced>>
<1>1. /\ req[t] \in Fitting /\ Addresses(prd.table) = From(req[t].base, Size(req[t]))
      /\ drive.command \in Commands /\ ~drive.command.write /\ n <= Size(req[t]) /\ Copy(n)
  BY DEF TransferOf, TypeInv
<1>2. req[t].base \in Nat /\ Size(req[t]) \in Nat /\ n \in 0 .. Size(req[t])
  BY <1>1, RequestType DEF Fitting
<1>3. QED
  BY <1>1, <1>2, CopyRead

LEMMA TransferWrite ==
  ASSUME TypeInv, NEW t \in Tasks, NEW n \in Nat, TransferOf(t, n), req[t].write
  PROVE  /\ disk' = [b \in Bytes |->
                       IF b - drive.command.lba * SectorSize \in 0 .. n - 1
                       THEN memory[req[t].base + (b - drive.command.lba * SectorSize)] ELSE disk[b]]
         /\ unsynced' \subseteq unsynced \cup Sectors(drive.command)
         /\ UNCHANGED memory
<1>1. /\ req[t] \in Fitting /\ Addresses(prd.table) = From(req[t].base, Size(req[t]))
      /\ drive.command \in Commands /\ drive.command.write /\ n <= Size(req[t]) /\ Copy(n)
  BY DEF TransferOf, TypeInv
<1>2. req[t].base \in Nat /\ Size(req[t]) \in Nat /\ n \in 0 .. Size(req[t])
  BY <1>1, RequestType DEF Fitting
<1>3. QED
  BY <1>1, <1>2, CopyWrite

LEMMA MemoryStep ==
  ASSUME TypeInv, UseInv, Transfer
  PROVE  TypeInv' /\ UseInv'
<1>1. PICK t \in Tasks, n \in Nat : TransferOf(t, n)
  BY TransferFacts
<1> DEFINE c == drive.command
           r == req[t]
           first == c.lba * SectorSize
           size == Size(c)
<1>2. /\ UNCHANGED <<scenario, lock, pc, req, error, prd, start>>
      /\ r \in Fitting /\ c \in Commands /\ n <= Size(r) /\ n <= size
      /\ Done("idle") \/ Done("error")
      /\ Interrupt(FALSE) \/ Interrupt(TRUE)
  BY <1>1 DEF TransferOf, TypeInv
<1>3. /\ r.base \in Nat /\ Size(r) \in Nat /\ r.base + Size(r) <= MemorySize /\ MemorySize \in Nat
  BY <1>2, RequestType, Constants DEF Fitting
<1>4. /\ first \in Nat /\ size \in Nat /\ first + size <= SectorCount * SectorSize
      /\ c.lba \in Nat /\ c.count \in Nat /\ c.lba + c.count <= SectorCount
      /\ SectorCount \in Nat /\ SectorCount * SectorSize \in Nat
  BY <1>2, CommandType, Constants, Product
<1>5. drive' \in [command : Commands, state : {"idle", "busy", "drq", "error"}]
  <2>1. NoRequest \in Commands
    BY DEF Commands
  <2>2. QED
    BY <1>2, <2>1 DEF Done
<1>6. intr' \in [interrupt : BOOLEAN, error : BOOLEAN]
  <2>1. intr \in [interrupt : BOOLEAN, error : BOOLEAN]
    BY DEF TypeInv
  <2>2. (intr.error \/ FALSE) \in BOOLEAN /\ (intr.error \/ TRUE) \in BOOLEAN
    OBVIOUS
  <2>3. QED
    BY <1>2, <2>1, <2>2 DEF Interrupt
<1>7. disk' \in [Bytes -> Values] /\ memory' \in [Memory -> Values] /\ unsynced' \subseteq 0 .. SectorCount - 1
  <2>1. disk \in [Bytes -> Values] /\ memory \in [Memory -> Values] /\ unsynced \subseteq 0 .. SectorCount - 1
    BY DEF TypeInv
  <2>2. CASE ~r.write
    <3>1. /\ memory' = [a \in Memory |-> IF a \in r.base .. r.base + n - 1
                                         THEN disk[first + (a - r.base)] ELSE memory[a]]
          /\ disk' = disk /\ unsynced' = unsynced
      BY <1>1, <2>2, TransferRead
    <3>2. ASSUME NEW a \in r.base .. r.base + n - 1
          PROVE  first + (a - r.base) \in Bytes
      <4> HIDE DEF first, size
      <4> DEFINE top == SectorCount * SectorSize
      <4>1. first \in Nat /\ size \in Nat /\ first + size <= top /\ top \in Nat
        BY <1>4
      <4> HIDE DEF top
      <4>2. a - r.base \in Nat /\ a - r.base < size
        BY <1>2, <1>3, <4>1
      <4>3. first + (a - r.base) \in 0 .. top - 1
        BY <4>1, <4>2
      <4>4. QED
        BY <4>3 DEF Bytes, top
    <3> HIDE DEF first
    <3>3. QED
      BY <2>1, <3>1, <3>2
  <2>3. CASE r.write
    <3>1. /\ disk' = [b \in Bytes |-> IF b - first \in 0 .. n - 1
                                      THEN memory[r.base + (b - first)] ELSE disk[b]]
          /\ unsynced' \subseteq unsynced \cup Sectors(c)
          /\ memory' = memory
      BY <1>1, <2>3, TransferWrite
    <3>2. ASSUME NEW k \in 0 .. n - 1
          PROVE  r.base + k \in Memory
      BY <1>2, <1>3 DEF Memory
    <3>3. Sectors(c) \subseteq 0 .. SectorCount - 1
      BY <1>4 DEF Sectors
    <3> HIDE DEF first
    <3>4. QED
      BY <2>1, <3>1, <3>2, <3>3
  <2>4. QED
    BY <2>2, <2>3
<1>8. TypeInv'
  BY <1>2, <1>5, <1>6, <1>7 DEF TypeInv
<1>9. UseInv'
  <2>1. ASSUME NEW u \in Tasks PROVE UseOf(u)'
    BY <1>2 DEF UseInv, UseOf
  <2>2. QED
    BY <1>2, <2>1 DEF UseInv
<1>10. QED
  BY <1>8, <1>9

LEMMA TypeInvariant == ASpec => [](TypeInv /\ UseInv)
<1>1. ASSUME TypeInv, UseInv, [ANext]_avars
      PROVE  TypeInv' /\ UseInv'
  <2>1. CASE Hardware
    BY <1>1, <2>1, HardwareStep, MemoryStep DEF Hardware
  <2>2. ASSUME NEW t \in Tasks, Call(t) PROVE TypeInv' /\ UseInv'
    BY <1>1, <2>2, CallStep
  <2>3. ASSUME NEW t \in Tasks, TransferStep(t) PROVE TypeInv' /\ UseInv'
    BY <1>1, <2>3, AcquireStep, CommandSteps, ProgramStep, TransferSteps, TransferStatusStep,
       ReleaseStep, ReturnStep DEF TransferStep
  <2>4. CASE UNCHANGED avars
    BY <1>1, <2>4 DEF TypeInv, UseInv, UseOf, avars
  <2>5. QED
    BY <1>1, <2>1, <2>2, <2>3, <2>4 DEF ANext
<1>2. QED
  BY <1>1, InitTypeInv, PTL DEF ASpec

\* The entries of a table are aligned and stay within their 64 KB.
LEMMA TableFits ==
  ASSUME NEW r \in Fitting
  PROVE  /\ Len(PrdTable(r)) \in 1 .. 2
         /\ \A j \in DOMAIN PrdTable(r) :
              LET e == PrdTable(r)[j]
              IN e.base % Alignment = 0 /\ (e.base % Boundary) + e.count <= Boundary
<1> DEFINE N == Size(r)
           B == Before(r)
           Good(e) == e.base % Alignment = 0 /\ (e.base % Boundary) + e.count <= Boundary
<1>1. /\ N \in Nat \ {0} /\ r.base \in Nat /\ N < Boundary /\ r.base % Alignment = 0
      /\ r.base % Boundary \in 0 .. Boundary - 1 /\ B = Boundary - (r.base % Boundary)
      /\ Boundary \in Nat \ {0}
  BY RequestType, Constants, ModRange DEF Fitting, Before
<1>2. B \in 1 .. Boundary /\ (r.base % Boundary) + B = Boundary
  BY <1>1
<1> HIDE DEF N, B, Good
<1>3. CASE N <= B
  <2> DEFINE e == Entry(r.base, N)
  <2>1. PrdTable(r) = <<e>>
    BY <1>3, TableOf DEF N, B
  <2>2. (r.base % Boundary) + N <= Boundary
    BY <1>1, <1>2, <1>3
  <2>3. Good(e)
    BY <1>1, <2>2 DEF Good, Entry
  <2> HIDE DEF e
  <2>4. QED
    BY <2>1, <2>3 DEF Good
<1>4. CASE N > B
  <2> DEFINE e == Entry(r.base, B)
             f == Entry(r.base + B, N - B)
  <2>1. PrdTable(r) = <<e, f>>
    BY <1>1, <1>2, <1>4, TableOf DEF N, B
  <2>2. (r.base + B) % Boundary = 0 /\ r.base + B \in Nat
    <3>1. (r.base + (Boundary - (r.base % Boundary))) % Boundary = 0
      BY <1>1, NextBoundary, Zenon
    <3>0. r.base \in Nat /\ Boundary \in Nat /\ B \in Nat
      BY <1>1, <1>2
    <3>2. r.base + B \in Nat
      BY <3>0
    <3>3. QED
      BY <1>1, <3>1, <3>2, Zenon
  <2>3. (r.base + B) % Alignment = 0
    BY <2>2, Constants, ModDivides
  <2>4. 0 + (N - B) <= Boundary
    BY <1>1, <1>2, <1>4
  <2>5. Good(e)
    BY <1>1, <1>2 DEF Good, Entry
  <2>6. Good(f)
    BY <2>2, <2>3, <2>4 DEF Good, Entry
  <2> HIDE DEF e, f
  <2> DEFINE table == <<e, f>>
  <2>7. Len(table) = 2 /\ DOMAIN table = {1, 2} /\ table[1] = e /\ table[2] = f
    OBVIOUS
  <2> HIDE DEF table
  <2>8. \A j \in DOMAIN table : Good(table[j])
    BY <2>5, <2>6, <2>7
  <2>9. PrdTable(r) = table
    BY <2>1 DEF table
  <2>10. QED
    BY <2>7, <2>8, <2>9 DEF Good
<1>5. QED
  BY <1>1, <1>2, <1>3, <1>4

\* The types hold of every instance; the spinlock is set exactly while a task is in the
\* driver's critical section, and the table that busmaster_dma_transfer builds fits prd_table,
\* with entries that are aligned and cross no 64 KB boundary, for every buffer.
THEOREM TypesCorrect == ASpec => []ATypeOK
<1>1. ASSUME TypeInv, UseInv PROVE ATypeOK
  <2>1. Len(prd.table) <= MaxQueue \div Boundary
    <3>1. Len(prd.table) \in 0 .. 2
      <4>1. prd.table = <<>> \/ \E r \in Fitting : prd.table = PrdTable(r)
        BY <1>1 DEF TypeInv
      <4>2. Len(<<>>) = 0
        OBVIOUS
      <4>3. QED
        BY <4>1, <4>2, TableFits
    <3>2. MaxQueue \div Boundary >= 2
      <4> DEFINE q == MaxQueue \div Boundary
                 s == MaxQueue % Boundary
      <4>1. q \in Nat /\ MaxQueue = q * Boundary + s /\ s \in 0 .. Boundary - 1
        BY Constants, ModRange
      <4> HIDE DEF q, s
      <4>2. q = 0 => q * Boundary = 0
        BY Constants
      <4>3. q = 1 => q * Boundary = Boundary
        BY Constants
      <4>4. q # 0 /\ q # 1
        BY <4>1, <4>2, <4>3, Constants
      <4>5. QED
        BY <4>1, <4>4 DEF q
    <3>3. MaxQueue \div Boundary \in Nat
      BY Constants, ModRange
    <3> DEFINE l == Len(prd.table)
               q == MaxQueue \div Boundary
    <3>4. l \in 0 .. 2 /\ q \in Nat /\ q >= 2
      BY <3>1, <3>2, <3>3
    <3> HIDE DEF l, q
    <3>5. l <= q
      BY <3>4
    <3>6. QED
      BY <3>5 DEF l, q
  <2>2. \A j \in DOMAIN prd.table :
          LET e == prd.table[j]
          IN e.base % Alignment = 0 /\ (e.base % Boundary) + e.count <= Boundary
    <3>1. prd.table = <<>> \/ \E r \in Fitting : prd.table = PrdTable(r)
      BY <1>1 DEF TypeInv
    <3>2. CASE prd.table = <<>>
      BY <3>2
    <3>3. CASE \E r \in Fitting : prd.table = PrdTable(r)
      BY <3>3, TableFits
    <3>4. QED
      BY <3>1, <3>2, <3>3
  <2>3. \A t \in Tasks : /\ pc[t] \in Locked <=> lock = t
                         /\ req[t] \in Requests[t] \cup {NoRequest}
    BY <1>1 DEF UseInv, UseOf
  <2>4. /\ scenario \in Scenarios
        /\ error \in [Tasks -> BOOLEAN] /\ start \in BOOLEAN /\ prd.read \in BOOLEAN
        /\ intr \in [interrupt : BOOLEAN, error : BOOLEAN]
        /\ drive.state \in {"idle", "busy", "drq", "error"}
        /\ unsynced \subseteq 0 .. SectorCount - 1
        /\ disk \in [Bytes -> Values] /\ memory \in [Memory -> Values]
    BY <1>1 DEF TypeInv
  <2>5. QED
    BY <2>1, <2>2, <2>3, <2>4 DEF ATypeOK, Values
<1>2. QED
  BY <1>1, TypeInvariant, PTL

-----------------------------------------------------------------------------
(***************************************************************************)
(* A drive that is never given up                                          *)
(***************************************************************************)

Copied(t) ==
  \A k \in 0 .. Size(req[t]) - 1 : memory[req[t].base + k] = disk[req[t].lba * SectorSize + k]

\* What the drive, the status bits and the result are at each point of t's call.
CalmOf(t) ==
  /\ pc[t] \in {"send", "stop", "status", "flush", "release"} => drive.state \in {"idle", "error"}
  /\ pc[t] = "sent" => drive.state = "error" \/ (drive.command = req[t] /\ drive.state \in {"busy", "drq"})
  /\ pc[t] \in {"program", "start"} => drive.state = "error" \/ (drive.command = req[t] /\ drive.state = "drq")
  /\ pc[t] = "start" => ~intr.error /\ (intr.interrupt => drive.state = "error")
  /\ pc[t] = "poll" => \/ drive.state = "error"
                       \/ drive.command = req[t] /\ drive.state = "drq" /\ ~intr.error /\ ~intr.interrupt
                       \/ drive.state = "idle" /\ (intr.error \/ Copied(t))
  /\ pc[t] \in {"stop", "status"} => error[t] \/ drive.state = "error" \/ intr.error \/ Copied(t)
  /\ pc[t] \in {"flush", "flushing", "release"} => error[t] \/ Copied(t)
  /\ pc[t] = "flushing" => \/ drive.command = FlushCommand /\ drive.state = "busy"
                           \/ drive.state = "error"
                           \/ drive.state = "idle" /\ unsynced = {}
  /\ pc[t] = "release" /\ req[t].write /\ ~error[t] => drive.state = "error" \/ unsynced = {}

\* Nobody leaves the drive at a command.
Calm ==
  /\ lock = None => drive.state \in {"idle", "error"}
  /\ \A t \in Tasks : CalmOf(t)

LEMMA Unlocked ==
  ASSUME NEW t \in Tasks, pc[t] \notin Locked
  PROVE  CalmOf(t)
BY DEF CalmOf, Locked

LEMMA UnlockedNext ==
  ASSUME NEW t \in Tasks, pc'[t] \notin Locked
  PROVE  CalmOf(t)'
BY DEF CalmOf, Locked

LEMMA StillCopied ==
  ASSUME NEW t \in Tasks, UNCHANGED <<req, memory, disk>>
  PROVE  Copied(t)' <=> Copied(t)
BY DEF Copied

\* A step of the lock's holder t has to keep t calm.
LEMMA HolderCalm ==
  ASSUME TypeInv, UseInv, NEW t \in Tasks, pc[t] \in Locked,
         NEW to, pc' = [pc EXCEPT ![t] = to], CalmOf(t)',
         lock' = None => (drive.state \in {"idle", "error"})'
  PROVE  Calm'
<1>1. ASSUME NEW u \in Tasks, u # t PROVE CalmOf(u)'
  <2>1. pc'[u] = pc[u]
    BY <1>1 DEF TypeInv
  <2>2. QED
    BY <1>1, <2>1, Alone, UnlockedNext
<1>2. QED
  BY <1>1 DEF Calm

\* The steps of a call under the lock.
LEMMA CalmSteps ==
  ASSUME TypeInv, UseInv, Calm, ~scenario.timeouts, NEW t \in Tasks,
         \/ SendCommand(t) \/ CommandStatus(t) \/ Program(t) \/ Start(t) \/ Poll(t)
         \/ Stop(t) \/ TransferStatus(t) \/ Flush(t) \/ FlushStatus(t) \/ Release(t)
  PROVE  Calm'
<1> USE DEF Move, Goto, busmaster, contents
<1>1. CalmOf(t) /\ pc \in [Tasks -> PCs] /\ error \in [Tasks -> BOOLEAN]
  BY DEF Calm, TypeInv
<1>2. pc[t] \in Locked /\ \E to : pc' = [pc EXCEPT ![t] = to]
  BY DEF SendCommand, CommandStatus, Program, Start, Poll, Stop, TransferStatus, Flush,
         FlushStatus, Release, Locked
<1>3. lock = t /\ t # None
  BY <1>2, Holder, ATAAssumption
<1>4. UNCHANGED <<req, memory, disk>>
  BY DEF SendCommand, CommandStatus, Program, Start, Poll, Stop, TransferStatus, Flush,
         FlushStatus, Release
<1>5. Copied(t)' <=> Copied(t)
  BY <1>4, StillCopied
<1>6. CASE SendCommand(t)
  <2>1. pc'[t] = "sent" /\ lock' = lock
    BY <1>1, <1>6 DEF SendCommand
  <2>2. drive' = [command |-> req[t], state |-> "busy"]
    BY <1>1, <1>6 DEF SendCommand, Issue, CalmOf
  <2>3. CalmOf(t)'
    BY <1>4, <2>1, <2>2 DEF CalmOf
  <2>4. QED
    BY <1>2, <1>3, <2>1, <2>3, HolderCalm
<1>7. CASE CommandStatus(t)
  <2>1. lock' = lock /\ drive' = drive
    BY <1>7 DEF CommandStatus
  <2>2. \/ pc'[t] = "release" /\ drive.state = "error" /\ error'[t]
        \/ pc'[t] = "program" /\ (drive.state = "error" \/ (drive.command = req[t] /\ drive.state = "drq"))
    BY <1>1, <1>7 DEF CommandStatus, Settled, CalmOf, Fail
  <2>3. CalmOf(t)'
    BY <1>4, <2>1, <2>2 DEF CalmOf
  <2>4. QED
    BY <1>2, <1>3, <2>1, <2>3, HolderCalm
<1>8. CASE Program(t)
  <2>1. /\ lock' = lock /\ drive' = drive /\ pc[t] = "program" /\ pc'[t] = "start"
        /\ ~intr'.interrupt /\ ~intr'.error
    BY <1>1, <1>8 DEF Program
  <2>2. CalmOf(t)'
    BY <1>1, <1>4, <2>1 DEF CalmOf
  <2>3. QED
    BY <1>2, <1>3, <2>1, <2>2, HolderCalm
<1>9. CASE Start(t)
  <2>1. lock' = lock /\ drive' = drive /\ intr' = intr /\ pc[t] = "start" /\ pc'[t] = "poll"
    BY <1>1, <1>9 DEF Start
  <2>2. CalmOf(t)'
    BY <1>1, <1>4, <2>1 DEF CalmOf
  <2>3. QED
    BY <1>2, <1>3, <2>1, <2>2, HolderCalm
<1>10. CASE Poll(t)
  <2>1. lock' = lock /\ drive' = drive /\ intr' = intr /\ pc[t] = "poll" /\ pc'[t] = "stop"
    BY <1>1, <1>10 DEF Poll
  <2>2. intr.interrupt \/ (drive.state \in {"idle", "error"} /\ error'[t])
    BY <1>1, <1>10 DEF Poll, Fail
  <2>3. drive.state \in {"idle", "error"}
    BY <1>1, <2>1, <2>2 DEF CalmOf
  <2>4. error'[t] \/ drive.state = "error" \/ intr.error \/ Copied(t)
    BY <1>1, <2>1, <2>2 DEF CalmOf
  <2>5. CalmOf(t)'
    BY <1>5, <2>1, <2>3, <2>4 DEF CalmOf
  <2>6. QED
    BY <1>2, <1>3, <2>1, <2>5, HolderCalm
<1>11. CASE Stop(t)
  <2>1. /\ lock' = lock /\ drive' = drive /\ intr' = intr /\ error' = error
        /\ pc[t] = "stop" /\ pc'[t] = "status"
    BY <1>1, <1>11 DEF Stop
  <2>2. CalmOf(t)'
    BY <1>1, <1>5, <2>1 DEF CalmOf
  <2>3. QED
    BY <1>2, <1>3, <2>1, <2>2, HolderCalm
<1>12. CASE TransferStatus(t)
  <2>1. /\ lock' = lock /\ drive' = drive /\ pc[t] = "status"
        /\ pc'[t] = "flush" \/ (pc'[t] = "release" /\ ~req[t].write)
    BY <1>1, <1>12 DEF TransferStatus
  <2>2. error'[t] <=> error[t] \/ intr.error \/ drive.state = "error"
    BY <1>1, <1>12 DEF TransferStatus
  <2>3. drive.state \in {"idle", "error"} /\ (error'[t] \/ Copied(t))
    BY <1>1, <2>1, <2>2 DEF CalmOf
  <2>4. CalmOf(t)'
    BY <1>4, <1>5, <2>1, <2>3 DEF CalmOf
  <2>5. QED
    BY <1>2, <1>3, <2>1, <2>4, HolderCalm
<1>13. CASE Flush(t)
  <2>1. lock' = lock /\ error' = error /\ pc[t] = "flush" /\ pc'[t] = "flushing"
    BY <1>1, <1>13 DEF Flush
  <2>2. drive' = [command |-> FlushCommand, state |-> "busy"]
    BY <1>1, <1>13 DEF Flush, Issue, CalmOf
  <2>3. CalmOf(t)'
    BY <1>1, <1>5, <2>1, <2>2 DEF CalmOf
  <2>4. QED
    BY <1>2, <1>3, <2>1, <2>3, HolderCalm
<1>14. CASE FlushStatus(t)
  <2>1. /\ lock' = lock /\ drive' = drive /\ error' = error /\ unsynced' = unsynced
        /\ drive.state # "busy" /\ pc[t] = "flushing" /\ pc'[t] = "release"
    BY <1>1, <1>14 DEF FlushStatus, Settled
  <2>2. CalmOf(t)'
    BY <1>1, <1>5, <2>1 DEF CalmOf
  <2>3. QED
    BY <1>2, <1>3, <2>1, <2>2, HolderCalm
<1>15. CASE Release(t)
  <2>1. drive' = drive /\ pc[t] = "release" /\ pc'[t] = "return"
    BY <1>1, <1>15 DEF Release
  <2>2. drive.state \in {"idle", "error"}
    BY <1>1, <2>1 DEF CalmOf
  <2>3. CalmOf(t)'
    BY <2>1, UnlockedNext DEF Locked
  <2>4. QED
    BY <1>2, <2>1, <2>2, <2>3, HolderCalm
<1>16. QED
  BY <1>6, <1>7, <1>8, <1>9, <1>10, <1>11, <1>12, <1>13, <1>14, <1>15

LEMMA CalmAcquire ==
  ASSUME TypeInv, UseInv, Calm, NEW t \in Tasks, Acquire(t)
  PROVE  Calm'
<1>1. /\ pc[t] = "acquire" /\ pc' = [pc EXCEPT ![t] = "send"] /\ lock = None /\ lock' = t /\ t # None
      /\ UNCHANGED drive
  BY ATAAssumption DEF Acquire, Move, Goto
<1>2. pc'[t] = "send" /\ \A u \in Tasks : u # t => pc'[u] = pc[u]
  BY <1>1 DEF TypeInv
<1>3. drive.state \in {"idle", "error"}
  BY <1>1 DEF Calm
<1>4. CalmOf(t)'
  BY <1>1, <1>2, <1>3 DEF CalmOf
<1>5. ASSUME NEW u \in Tasks, u # t PROVE CalmOf(u)'
  <2>1. pc[u] \notin Locked
    BY <1>1, ATAAssumption DEF UseInv, UseOf
  <2>2. QED
    BY <1>2, <1>5, <2>1, UnlockedNext
<1>6. QED
  BY <1>1, <1>4, <1>5 DEF Calm

\* A task that gets or gives back its buffer does not touch the others'.
LEMMA CalmCalls ==
  ASSUME TypeInv, UseInv, Calm, NEW t \in Tasks, Call(t) \/ Return(t)
  PROVE  Calm'
<1>1. PICK r \in Requests[t], to \in {"idle", "acquire", "return"}, q \in Asked \cup {NoRequest}, x \in BOOLEAN :
        /\ pc' = [pc EXCEPT ![t] = to] /\ req' = [req EXCEPT ![t] = q]
        /\ error' = [error EXCEPT ![t] = x]
        /\ \A a \in Memory : memory'[a] = memory[a] \/ a \in Buffer(r)
        /\ UNCHANGED <<lock, intr, drive, disk, unsynced>>
  <2>1. CASE Call(t)
    <3>1. PICK r \in Requests[t] :
            /\ req' = [req EXCEPT ![t] = r]
            /\ memory' = [a \in Memory |-> IF r.write /\ a \in Buffer(r) THEN t ELSE memory[a]]
            /\ error' = [error EXCEPT ![t] = Size(r) > MaxQueue]
            /\ Goto(t, IF Size(r) > MaxQueue THEN "return" ELSE "acquire")
      BY <2>1 DEF Call
    <3>2. r \in Asked
      BY DEF Asked
    <3>3. (Size(r) > MaxQueue) \in BOOLEAN
      OBVIOUS
    <3>4. UNCHANGED <<lock, intr, drive, disk, unsynced>>
      BY <2>1 DEF Call, busmaster
    <3>5. \A a \in Memory : memory'[a] = memory[a] \/ a \in Buffer(r)
      BY <3>1
    <3>6. PICK to \in {"idle", "acquire", "return"} : Goto(t, to)
      BY <3>1
    <3>7. QED
      BY <3>1, <3>2, <3>3, <3>4, <3>5, <3>6, Zenon DEF Goto
  <2>2. CASE Return(t)
    <3>1. req[t] \in Requests[t]
      BY <2>2 DEF Return, Move, UseInv, UseOf
    <3>2. /\ pc' = [pc EXCEPT ![t] = "idle"] /\ req' = [req EXCEPT ![t] = NoRequest]
          /\ error' = [error EXCEPT ![t] = FALSE]
          /\ memory' = [a \in Memory |-> IF a \in Buffer(req[t]) THEN Junk ELSE memory[a]]
          /\ UNCHANGED <<lock, intr, drive, disk, unsynced>>
      BY <2>2 DEF Return, Move, Goto, busmaster
    <3>3. \A a \in Memory : memory'[a] = memory[a] \/ a \in Buffer(req[t])
      BY <3>2
    <3>4. "idle" \in {"idle", "acquire", "return"} /\ NoRequest \in Asked \cup {NoRequest} /\ FALSE \in BOOLEAN
      OBVIOUS
    <3>5. QED
      BY <3>1, <3>2, <3>3, <3>4, Zenon
  <2>3. QED
    BY <2>1, <2>2
<1>2. pc'[t] = to /\ \A u \in Tasks : u # t => pc'[u] = pc[u] /\ req'[u] = req[u] /\ error'[u] = error[u]
  BY <1>1 DEF TypeInv
<1>3. CalmOf(t)'
  BY <1>2, UnlockedNext DEF Locked
<1>4. ASSUME NEW u \in Tasks, u # t PROVE CalmOf(u)'
  <2>1. CASE pc[u] \notin Locked
    BY <1>2, <1>4, <2>1, UnlockedNext
  <2>2. CASE pc[u] \in Locked
    <3>1. req[u] \in Requests[u] /\ req[u] \in Fitting
      BY <2>2 DEF UseInv, UseOf, Locked
    <3>2. \A k \in 0 .. Size(req[u]) - 1 : req[u].base + k \notin Buffer(r)
      BY <1>4, <3>1, ATAAssumption DEF Buffer, Size
    <3>3. \A k \in 0 .. Size(req[u]) - 1 : req[u].base + k \in Memory
      <4> DEFINE b == req[u].base
                 n == Size(req[u])
      <4>1. b \in Nat /\ n \in Nat /\ b + n <= MemorySize /\ MemorySize \in Nat
        BY <3>1, RequestType, Constants DEF Fitting
      <4> HIDE DEF b, n
      <4>2. \A k \in 0 .. n - 1 : b + k \in Memory
        BY <4>1 DEF Memory
      <4>3. QED
        BY <4>2 DEF b, n
    <3>4. Copied(u)' <=> Copied(u)
      <4>1. \A k \in 0 .. Size(req[u]) - 1 : memory'[req[u].base + k] = memory[req[u].base + k]
        BY <1>1, <3>2, <3>3
      <4>2. req'[u] = req[u] /\ disk' = disk
        BY <1>1, <1>2, <1>4
      <4>3. QED
        BY <4>1, <4>2 DEF Copied
    <3>5. CalmOf(u)
      BY DEF Calm
    <3>6. /\ pc'[u] = pc[u] /\ req'[u] = req[u] /\ error'[u] = error[u]
          /\ UNCHANGED <<intr, drive, unsynced>>
      BY <1>1, <1>2, <1>4
    <3>7. QED
      BY <3>4, <3>5, <3>6 DEF CalmOf
  <2>3. QED
    BY <2>1, <2>2
<1>5. QED
  BY <1>1, <1>3, <1>4 DEF Calm

\* When the drive is at a command, it is that of the lock's holder.
LEMMA CalmHardware ==
  ASSUME TypeInv, UseInv, Calm, Ready \/ Flushed \/ Abort
  PROVE  Calm'
<1>1. /\ drive.state \in {"busy", "drq"}
      /\ UNCHANGED <<lock, pc, req, error, disk, memory>>
  BY DEF Ready, Flushed, Abort, driver, contents
<1>2. PICK t \in Tasks : lock = t /\ pc[t] \in Locked
  <2>1. lock # None
    BY <1>1 DEF Calm
  <2>2. QED
    BY <2>1 DEF TypeInv, UseInv, UseOf
<1>3. /\ CalmOf(t) /\ req[t] \in Fitting /\ lock' # None /\ pc'[t] = pc[t]
      /\ intr \in [interrupt : BOOLEAN, error : BOOLEAN]
  BY <1>1, <1>2, Holder, ATAAssumption DEF Calm, TypeInv
<1>4. req[t] # FlushCommand
  <2>1. req[t].count # 0
    BY <1>3, RequestType DEF Fitting
  <2>2. QED
    BY <2>1 DEF FlushCommand
<1>5. Copied(t)' <=> Copied(t)
  BY <1>1, StillCopied
<1>6. CalmOf(t)'
  <2>1. CASE Ready
    <3>1. /\ drive.state = "busy" /\ drive.command # FlushCommand
          /\ drive'.state = "drq" /\ drive'.command = drive.command
      BY <2>1 DEF Ready, TypeInv
    <3>2. pc[t] = "sent" /\ drive.command = req[t]
      BY <1>2, <1>3, <3>1 DEF CalmOf, Locked
    <3>3. QED
      BY <1>1, <1>3, <3>1, <3>2 DEF CalmOf
  <2>2. CASE Flushed
    <3>1. /\ drive.state = "busy" /\ drive.command = FlushCommand
          /\ drive'.state = "idle" /\ unsynced' = {}
      BY <2>2 DEF Flushed, Done
    <3>2. pc[t] = "flushing"
      BY <1>2, <1>3, <1>4, <3>1 DEF CalmOf, Locked
    <3>3. QED
      BY <1>1, <1>3, <1>5, <3>1, <3>2 DEF CalmOf
  <2>3. CASE Abort
    <3>1. drive'.state = "error" /\ intr'.error = intr.error
      BY <1>3, <2>3 DEF Abort, Done, Interrupt
    <3>2. QED
      BY <1>1, <1>3, <1>5, <3>1 DEF CalmOf
  <2>4. QED
    BY <2>1, <2>2, <2>3
<1>7. ASSUME NEW u \in Tasks, u # t PROVE CalmOf(u)'
  BY <1>1, <1>2, <1>7, Alone, UnlockedNext
<1>8. QED
  BY <1>3, <1>6, <1>7 DEF Calm

\* The transfer of a command is that of the task that polls for it; when nothing fails it
\* copies all of the request.
LEMMA CalmTransfer ==
  ASSUME TypeInv, UseInv, Calm, NEW t \in Tasks, NEW n \in Nat, TransferOf(t, n)
  PROVE  pc[t] = "poll" /\ drive.command = req[t] /\ Calm'
<1>1. /\ pc[t] \in {"poll", "stop"} /\ req[t] \in Fitting /\ drive.state = "drq"
      /\ UNCHANGED <<lock, pc, req, error>>
      /\ \/ (drive.command = req[t] => n = Size(req[t])) /\ Done("idle")
         \/ Done("error")
         \/ Done("idle") /\ Interrupt(TRUE)
  BY DEF TransferOf
<1>2. pc[t] \in Locked /\ lock = t
  BY <1>1, Holder DEF Locked
<1>3. pc[t] = "poll" /\ drive.command = req[t]
  BY <1>1 DEF Calm, CalmOf
<1>4. n = Size(req[t]) => Copied(t)'
  <2> SUFFICES ASSUME n = Size(req[t]), NEW k \in 0 .. n - 1
               PROVE  memory'[req[t].base + k] = disk'[req[t].lba * SectorSize + k]
    BY <1>1 DEF Copied
  <2> DEFINE first == req[t].lba * SectorSize
             base == req[t].base
             top == SectorCount * SectorSize
  <2>1. /\ first \in Nat /\ base \in Nat /\ top \in Nat /\ MemorySize \in Nat
        /\ first + n <= top /\ base + n <= MemorySize
    <3>1. req[t] \in Commands
      BY <1>1 DEF Commands
    <3>2. first \in Nat /\ first + Size(req[t]) <= top
      BY <3>1, CommandType
    <3>3. base \in Nat /\ base + Size(req[t]) <= MemorySize
      BY <1>1, RequestType DEF Fitting
    <3>4. QED
      BY <3>2, <3>3, Constants, Product
  <2> HIDE DEF first, base, top
  <2>2. base + k \in 0 .. MemorySize - 1 /\ first + k \in 0 .. top - 1
    BY <2>1
  <2>3. base + k \in Memory /\ first + k \in Bytes
    BY <2>2 DEF Memory, Bytes, top
  <2>4. /\ base + k \in base .. base + n - 1 /\ (base + k) - base = k
        /\ (first + k) - first = k
    BY <2>1
  <2>5. CASE ~req[t].write
    <3>1. /\ memory' = [a \in Memory |-> IF a \in base .. base + n - 1
                                         THEN disk[first + (a - base)] ELSE memory[a]]
          /\ disk' = disk
      BY <1>3, <2>5, TransferRead DEF first, base
    <3>2. memory'[base + k] = disk[first + ((base + k) - base)]
      BY <2>3, <2>4, <3>1
    <3>3. QED
      BY <2>4, <3>1, <3>2 DEF first, base
  <2>6. CASE req[t].write
    <3>1. /\ disk' = [b \in Bytes |-> IF b - first \in 0 .. n - 1
                                      THEN memory[base + (b - first)] ELSE disk[b]]
          /\ memory' = memory
      BY <1>3, <2>6, TransferWrite DEF first, base
    <3>2. disk'[first + k] = memory[base + ((first + k) - first)]
      BY <2>3, <2>4, <3>1
    <3>3. QED
      BY <2>4, <3>1, <3>2 DEF first, base
  <2>7. QED
    BY <2>5, <2>6
<1>5. \/ drive'.state = "error"
      \/ drive'.state = "idle" /\ (intr'.error \/ Copied(t)')
  <2>1. Interrupt(TRUE) => intr'.error
    BY DEF Interrupt, TypeInv
  <2>2. Done("idle") => drive'.state = "idle"
    BY DEF Done
  <2>3. Done("error") => drive'.state = "error"
    BY DEF Done
  <2>4. QED
    BY <1>1, <1>3, <1>4, <2>1, <2>2, <2>3, Zenon
<1>6. CalmOf(t)'
  BY <1>1, <1>3, <1>5 DEF CalmOf
<1>7. ASSUME NEW u \in Tasks, u # t PROVE CalmOf(u)'
  BY <1>1, <1>2, <1>7, Alone, UnlockedNext
<1>8. lock' # None
  BY <1>1, <1>2, ATAAssumption
<1>9. QED
  BY <1>3, <1>6, <1>7, <1>8 DEF Calm

Inv == TypeInv /\ UseInv /\ (~scenario.timeouts => Calm)

LEMMA Invariant == ASpec => []Inv
<1>1. AInit => (~scenario.timeouts => Calm)
  <2>1. ASSUME AInit PROVE Calm
    <3>1. ASSUME NEW t \in Tasks PROVE CalmOf(t)
      BY <2>1, Unlocked DEF AInit, Locked
    <3>2. QED
      BY <2>1, <3>1 DEF AInit, Calm
  <2>2. QED
    BY <2>1
<1>2. ASSUME TypeInv, UseInv, ~scenario.timeouts => Calm, [ANext]_avars
      PROVE  (~scenario.timeouts => Calm)'
  <2>1. scenario' = scenario
    BY <1>2 DEF ANext, Hardware, Ready, Flushed, Abort, Transfer, Call, TransferStep, Acquire,
            SendCommand, CommandStatus, Program, Start, Poll, Stop, TransferStatus, Flush,
            FlushStatus, Release, Return, avars
  <2> SUFFICES ASSUME ~scenario.timeouts, Calm PROVE Calm'
    BY <1>2, <2>1
  <2>2. CASE Transfer
    BY <1>2, <2>2, TransferFacts, CalmTransfer
  <2>3. CASE Ready \/ Flushed \/ Abort
    BY <1>2, <2>3, CalmHardware
  <2>4. ASSUME NEW t \in Tasks, Call(t) \/ TransferStep(t) PROVE Calm'
    BY <1>2, <2>4, CalmCalls, CalmAcquire, CalmSteps DEF TransferStep
  <2>5. CASE UNCHANGED avars
    BY <2>5 DEF Calm, CalmOf, Copied, avars
  <2>6. QED
    BY <1>2, <2>2, <2>3, <2>4, <2>5 DEF ANext, Hardware
<1>3. QED
  BY <1>1, <1>2, TypeInvariant, PTL DEF ASpec, Inv

\* A call of ide_dma_read or ide_dma_write that is about to report success has copied exactly
\* its sectors from or to its buffer, whatever failed before and whoever shares the drive.
THEOREM TransfersReported == ASpec => []TransferredWhenReported
<1>1. Inv => TransferredWhenReported
  BY Zenon DEF Inv, Calm, CalmOf, Copied, TransferredWhenReported
<1>2. QED
  BY <1>1, Invariant, PTL

\* A write that is about to report success is on the medium, unless the drive refused the
\* flush, whose result ide_dma_io does not look at.
THEOREM SyncsReported == ASpec => []SyncedWhenReported
<1>1. Inv => SyncedWhenReported
  <2> SUFFICES ASSUME Inv, NEW t \in Tasks,
                      pc[t] = "release" /\ req[t].write /\ ~error[t] /\ ~scenario.timeouts
                        /\ drive.state # "error"
               PROVE  Sectors(req[t]) \cap unsynced = {}
    BY DEF SyncedWhenReported
  <2>1. unsynced = {}
    BY DEF Inv, Calm, CalmOf
  <2>2. QED
    BY <2>1
<1>2. QED
  BY <1>1, Invariant, PTL

\* The sector of a byte.
LEMMA SectorOf ==
  ASSUME NEW lba \in Nat, NEW count \in Nat, NEW k \in 0 .. count * SectorSize - 1
  PROVE  (lba * SectorSize + k) \div SectorSize \in lba .. lba + count - 1
<1> DEFINE q == k \div SectorSize
           r == k % SectorSize
<1>1. k \in Nat /\ q \in Nat /\ r \in 0 .. SectorSize - 1 /\ k = q * SectorSize + r
  <2>1. count * SectorSize \in Nat
    BY Constants
  <2>2. k \in Nat
    BY <2>1
  <2>3. QED
    BY <2>2, Constants, ModRange
<1> HIDE DEF q, r
<1>2. q < count
  <2>1. SUFFICES ASSUME q >= count PROVE FALSE
    BY <1>1
  <2>2. PICK d \in Nat : q = count + d
    <3>1. q - count \in Nat /\ q = count + (q - count)
      BY <1>1, <2>1
    <3>2. QED
      BY <3>1
  <2>3. q * SectorSize = count * SectorSize + d * SectorSize /\ d * SectorSize \in Nat
        /\ count * SectorSize \in Nat
    BY <2>2, Constants
  <2>4. QED
    BY <1>1, <2>3
<1>3. lba * SectorSize + k = (lba + q) * SectorSize + r
  <2>1. (lba + q) * SectorSize = lba * SectorSize + q * SectorSize
    BY <1>1, Constants
  <2>2. lba * SectorSize \in Nat /\ q * SectorSize \in Nat
    BY <1>1, Constants
  <2>3. QED
    BY <1>1, <2>1, <2>2
<1>4. ((lba + q) * SectorSize + r) \div SectorSize = lba + q
  <2>1. lba + q \in Nat
    BY <1>1
  <2>2. QED
    BY <1>1, <2>1, Constants, ModUnique
<1>5. QED
  BY <1>1, <1>2, <1>3, <1>4

\* The bus master writes memory only in the buffer of a read that waits for it, whenever a
\* command that was given up ends, and, when none is, the disk only in the sectors of a write
\* that waits for it.
THEOREM DmaStaysConfined == ASpec => DmaConfined
<1>1. ASSUME Inv, [ANext]_avars, NEW a \in Memory, memory'[a] # memory[a]
      PROVE  \E t \in Tasks : \/ pc[t] \in {"idle", "return"} /\ pc'[t] # pc[t]
                              \/ pc[t] \in {"poll", "stop"} /\ ~req[t].write /\ a \in Buffer(req[t])
  <2>1. CASE Transfer
    <3>1. PICK t \in Tasks, n \in Nat : TransferOf(t, n)
      BY <1>1, <2>1, TransferFacts DEF Inv
    <3>2. ~req[t].write
      BY <1>1, <3>1, TransferWrite DEF Inv
    <3>3. a \in req[t].base .. req[t].base + n - 1
      BY <1>1, <3>1, <3>2, TransferRead DEF Inv
    <3>4. /\ pc[t] \in {"poll", "stop"} /\ n <= Size(req[t]) /\ req[t] \in Fitting
      BY <3>1 DEF TransferOf
    <3>5. req[t].base \in Nat /\ Size(req[t]) \in Nat
      BY <3>4, RequestType DEF Fitting
    <3>6. a \in Buffer(req[t])
      BY <3>3, <3>4, <3>5 DEF Buffer
    <3>7. QED
      BY <3>2, <3>4, <3>6
  <2>2. ASSUME NEW t \in Tasks, Call(t) \/ Return(t)
        PROVE  pc[t] \in {"idle", "return"} /\ pc'[t] # pc[t]
    <3>1. pc \in [Tasks -> PCs]
      BY <1>1 DEF Inv, TypeInv
    <3>2. QED
      BY <2>2, <3>1 DEF Call, Return, Move, Goto
  <2>3. CASE Ready \/ Flushed \/ Abort \/ UNCHANGED avars
    BY <1>1, <2>3 DEF Ready, Flushed, Abort, contents, avars
  <2>4. ASSUME NEW t \in Tasks, TransferStep(t), ~Return(t)
        PROVE  memory' = memory
    BY <2>4 DEF TransferStep, Acquire, SendCommand, CommandStatus, Program, Start, Poll, Stop,
            TransferStatus, Flush, FlushStatus, Release, contents
  <2>5. QED
    BY <1>1, <2>1, <2>2, <2>3, <2>4 DEF ANext, Hardware
<1>2. ASSUME Inv, [ANext]_avars, NEW b \in Bytes, disk'[b] # disk[b], ~scenario.timeouts
      PROVE  \E t \in Tasks : /\ pc[t] \in {"poll", "stop"} /\ req[t].write
                              /\ b \div SectorSize \in Sectors(req[t])
  <2>1. CASE Transfer
    <3>1. PICK t \in Tasks, n \in Nat : TransferOf(t, n)
      BY <1>2, <2>1, TransferFacts DEF Inv
    <3>2. req[t].write
      BY <1>2, <3>1, TransferRead DEF Inv
    <3>3. drive.command = req[t]
      BY <1>2, <3>1, CalmTransfer DEF Inv
    <3>4. b - req[t].lba * SectorSize \in 0 .. n - 1
      BY <1>2, <3>1, <3>2, <3>3, TransferWrite DEF Inv
    <3>5. /\ pc[t] \in {"poll", "stop"} /\ n <= Size(req[t]) /\ req[t] \in Fitting
      BY <3>1 DEF TransferOf
    <3>6. req[t].lba \in Nat /\ req[t].count \in Nat
      BY <3>5, RequestType DEF Fitting
    <3> DEFINE first == req[t].lba * SectorSize
               k == b - first
    <3>7. first \in Nat /\ b \in Nat
      BY <3>6, Constants, Product DEF Bytes
    <3> HIDE DEF first
    <3>8. k \in 0 .. n - 1
      BY <3>4 DEF first
    <3>9. k \in 0 .. req[t].count * SectorSize - 1
      <4>1. req[t].count * SectorSize \in Nat
        BY <3>6, Constants
      <4>2. QED
        BY <3>5, <3>8, <4>1 DEF Size
    <3>10. (first + k) \div SectorSize \in req[t].lba .. req[t].lba + req[t].count - 1
      BY <3>6, <3>9, SectorOf DEF first
    <3>11. first + k = b
      BY <3>7
    <3>12. b \div SectorSize \in Sectors(req[t])
      BY <3>10, <3>11, Zenon DEF Sectors
    <3>13. QED
      BY <3>2, <3>5, <3>12
  <2>2. CASE ~Transfer
    BY <1>2, <2>2 DEF ANext, Hardware, Ready, Flushed, Abort, Call, TransferStep, Acquire,
            SendCommand, CommandStatus, Program, Start, Poll, Stop, TransferStatus, Flush,
            FlushStatus, Release, Return, contents, avars
  <2>3. QED
    BY <2>1, <2>2
<1> DEFINE Confined ==
             /\ \A a \in Memory : memory'[a] # memory[a] =>
                  \E t \in Tasks : \/ pc[t] \in {"idle", "return"} /\ pc'[t] # pc[t]
                                   \/ pc[t] \in {"poll", "stop"} /\ ~req[t].write /\ a \in Buffer(req[t])
             /\ \A b \in Bytes : disk'[b] # disk[b] =>
                  \/ scenario.timeouts
                  \/ \E t \in Tasks : /\ pc[t] \in {"poll", "stop"} /\ req[t].write
                                      /\ b \div SectorSize \in Sectors(req[t])
<1>3. Inv /\ [ANext]_avars => [Confined]_avars
  BY <1>1, <1>2, Zenon
<1>4. ASpec => [][Confined]_avars
  BY <1>3, Invariant, PTL DEF ASpec
<1>5. QED
  BY <1>4 DEF DmaConfined

=============================================================================
