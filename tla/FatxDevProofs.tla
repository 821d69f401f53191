--------------------------- MODULE FatxDevProofs ---------------------------
(***************************************************************************)
(* The sector cache of FatxDev for every sector size, every device and     *)
(* every request.  The invariant says where in its sectors a request is    *)
(* (Stage), which bytes it has transferred (Transferred), and, while reads *)
(* do not fail and the cached sector is not overwritten whole, that the    *)
(* cache has the bytes of its sector at every step (Cached).               *)
(***************************************************************************)
EXTENDS FatxDev, TLAPS

-----------------------------------------------------------------------------
(***************************************************************************)
(* Addresses and sectors                                                   *)
(***************************************************************************)

LEMMA SizesNat == SectorSize \in Nat \ {0} /\ SectorCount \in Nat \ {0}
BY FatxDevAssumption

\* Sectors are as long as they are many bytes apart.
LEMMA SectorOrder ==
  ASSUME NEW s \in Int, NEW t \in Int
  PROVE  /\ s * SectorSize \in Int
         /\ s < t <=> s * SectorSize < t * SectorSize
         /\ (s + 1) * SectorSize = s * SectorSize + SectorSize
<1>1. (s + 1) * SectorSize = s * SectorSize + SectorSize /\ s * SectorSize \in Int
  BY SizesNat
<1>2. ASSUME NEW a \in Int, NEW b \in Int, a < b
      PROVE  a * SectorSize < b * SectorSize
  <2>1. PICK d \in Nat : b = a + 1 + d
    <3>1. b - a - 1 \in Nat /\ b = a + 1 + (b - a - 1)
      BY <1>2
    <3>2. QED
      BY <3>1
  <2>2. b * SectorSize = a * SectorSize + SectorSize + d * SectorSize
    BY <2>1, SizesNat
  <2>3. d * SectorSize \in Nat
    BY SizesNat
  <2>4. QED
    BY <2>2, <2>3, SizesNat
<1>3. s < t => s * SectorSize < t * SectorSize
  BY <1>2
<1>4. t < s => t * SectorSize < s * SectorSize
  BY <1>2
<1>5. QED
  BY <1>1, <1>3, <1>4, SizesNat

\* The sector of an address and its place there.
LEMMA Place ==
  ASSUME NEW p \in Nat
  PROVE  /\ p \div SectorSize \in Nat /\ p % SectorSize \in Offsets
         /\ (p \div SectorSize) * SectorSize \in Nat
         /\ p = (p \div SectorSize) * SectorSize + (p % SectorSize)
BY SizesNat DEF Offsets

LEMMA PlaceOnDevice ==
  ASSUME NEW p \in Addresses
  PROVE  p \div SectorSize \in 0 .. SectorCount - 1
<1> DEFINE q == p \div SectorSize
<1>1. p \in Nat /\ p < SectorCount * SectorSize
  BY SizesNat DEF Addresses
<1>2. q \in Nat /\ q * SectorSize \in Nat /\ q * SectorSize <= p
  BY <1>1, Place DEF Offsets
<1> HIDE DEF q
<1>3. q * SectorSize < SectorCount * SectorSize
  BY <1>1, <1>2, SizesNat
<1>4. q < SectorCount
  BY <1>2, <1>3, SectorOrder, SizesNat
<1>5. QED
  BY <1>2, <1>4, SizesNat DEF q

\* A sector lies between two aligned addresses if one of its bytes does.
LEMMA WholeBetween ==
  ASSUME NEW q \in Int, NEW r \in Int, NEW s \in Int, NEW i \in Offsets,
         q * SectorSize <= s * SectorSize + i, s * SectorSize + i < r * SectorSize
  PROVE  q <= s /\ s < r /\ q * SectorSize <= s * SectorSize
         /\ (s + 1) * SectorSize <= r * SectorSize
<1>1. q * SectorSize \in Int /\ r * SectorSize \in Int /\ s * SectorSize \in Int
  BY SectorOrder
<1>2. q * SectorSize < (s + 1) * SectorSize
  BY <1>1, SectorOrder, SizesNat DEF Offsets
<1>3. q < s + 1
  BY <1>2, SectorOrder
<1>4. s < r
  BY <1>1, SectorOrder, SizesNat DEF Offsets
<1>5. q * SectorSize <= s * SectorSize
  <2>1. q = s \/ q < s
    BY <1>3
  <2>2. QED
    BY <2>1, <1>1, SectorOrder
<1>6. (s + 1) * SectorSize <= r * SectorSize
  <2>1. s + 1 = r \/ s + 1 < r
    BY <1>4
  <2>2. QED
    BY <2>1, <1>1, SectorOrder, SizesNat
<1>7. QED
  BY <1>3, <1>4, <1>5, <1>6

\* The bytes of a request that ends on the device have addresses.
LEMMA InRange ==
  ASSUME NEW o \in Nat, NEW n \in Nat, o + n <= SectorSize * SectorCount
  PROVE  \A i \in 0 .. n - 1 : o + i \in Addresses
<1> DEFINE end == SectorSize * SectorCount
<1>1. end \in Nat /\ o + n <= end
  BY SizesNat
<1>2. Addresses = 0 .. end - 1
  BY DEF Addresses
<1> HIDE DEF end
<1>3. QED
  BY <1>1, <1>2

LEMMA SectorAddress ==
  ASSUME NEW s \in 0 .. SectorCount - 1, NEW i \in Offsets
  PROVE  s * SectorSize + i \in Addresses /\ s * SectorSize \in Nat
<1>1. s \in Nat /\ s * SectorSize \in Nat /\ s + 1 \in Int
  BY SizesNat
<1>2. (s + 1) * SectorSize = s * SectorSize + SectorSize
  BY <1>1, SectorOrder
<1>3. s + 1 = SectorCount \/ s + 1 < SectorCount
  BY SizesNat
<1>4. (s + 1) * SectorSize <= SectorCount * SectorSize
  BY <1>1, <1>3, SectorOrder, SizesNat
<1>5. QED
  BY <1>1, <1>2, <1>4, SizesNat DEF Offsets, Addresses

\* Different sectors have no byte in common.
LEMMA SectorsApart ==
  ASSUME NEW s \in Int, NEW t \in Int, s # t, NEW i \in Offsets, NEW j \in Offsets
  PROVE  s * SectorSize + i # t * SectorSize + j
<1>1. s * SectorSize \in Int /\ t * SectorSize \in Int
  BY SectorOrder
<1>2. ASSUME NEW a \in Int, NEW b \in Int, a < b, NEW k \in Offsets, NEW l \in Offsets
      PROVE  a * SectorSize + k < b * SectorSize + l
  <2>1. a + 1 = b \/ a + 1 < b
    BY <1>2
  <2>2. a * SectorSize + SectorSize <= b * SectorSize
    BY <2>1, SectorOrder, SizesNat
  <2>3. a * SectorSize \in Int /\ b * SectorSize \in Int
    BY SectorOrder
  <2>4. QED
    BY <2>2, <2>3, SizesNat DEF Offsets
<1>3. s < t \/ t < s
  OBVIOUS
<1>4. QED
  BY <1>1, <1>2, <1>3, SizesNat DEF Offsets

LEMMA AlignedMod ==
  ASSUME NEW k \in Nat
  PROVE  (k * SectorSize) % SectorSize = 0 /\ (k * SectorSize) \div SectorSize = k
<1> DEFINE x == k * SectorSize
           d == x \div SectorSize
           r == x % SectorSize
<1>1. x \in Nat
  BY SizesNat
<1>2. d \in Nat /\ r \in Offsets /\ x = d * SectorSize + r
  BY <1>1, Place
<1>3. 0 \in Offsets /\ x = k * SectorSize + 0
  BY <1>1, SizesNat DEF Offsets
<1> HIDE DEF d, r
<1>4. d = k
  BY <1>2, <1>3, SectorsApart
<1>5. r = 0
  BY <1>1, <1>2, <1>4, SizesNat DEF Offsets
<1>6. QED
  BY <1>4, <1>5 DEF d, r

\* A piece of a sector ends with the request or with the sector.
LEMMA ChunkEnds ==
  ASSUME NEW p \in Nat, NEW left \in Nat \ {0}
  PROVE  LET c == Minimum(left, SectorSize - (p % SectorSize))
         IN /\ c \in 1 .. left /\ (p % SectorSize) + c <= SectorSize
            /\ c < left => (p + c) % SectorSize = 0
<1> DEFINE c == Minimum(left, SectorSize - (p % SectorSize))
           q == p \div SectorSize
<1>1. q \in Nat /\ p % SectorSize \in Offsets /\ p = q * SectorSize + (p % SectorSize)
  BY Place
<1>2. c \in 1 .. left /\ (p % SectorSize) + c <= SectorSize
  BY <1>1, SizesNat DEF Minimum, Offsets
<1>3. ASSUME c < left
      PROVE  (p + c) % SectorSize = 0
  <2>1. c = SectorSize - (p % SectorSize)
    BY <1>1, <1>3, SizesNat DEF Minimum, Offsets
  <2>2. q * SectorSize \in Nat
    BY <1>1, SizesNat
  <2>3. p + c = q * SectorSize + SectorSize
    BY <1>1, <2>1, <2>2, SizesNat DEF Offsets
  <2> HIDE DEF c, q
  <2>4. p + c = (q + 1) * SectorSize /\ q + 1 \in Nat
    BY <1>1, <2>3, SizesNat
  <2>5. QED
    BY <2>4, AlignedMod
<1>4. QED
  BY <1>2, <1>3

\* The whole sectors end aligned, and less than a sector is left.
LEMMA FullEnds ==
  ASSUME NEW p \in Nat, p % SectorSize = 0, NEW left \in Nat, left >= SectorSize
  PROVE  LET k == left \div SectorSize
         IN /\ k \in Nat /\ k * SectorSize \in 1 .. left
            /\ p = (p \div SectorSize) * SectorSize
            /\ p + k * SectorSize = ((p \div SectorSize) + k) * SectorSize
            /\ (p + k * SectorSize) % SectorSize = 0
            /\ left - k * SectorSize < SectorSize
            /\ (k * SectorSize) \div SectorSize = k
<1> DEFINE k == left \div SectorSize
           q == p \div SectorSize
           r == left % SectorSize
<1>1. /\ k \in Nat /\ k * SectorSize \in Nat /\ r \in Offsets
      /\ left = k * SectorSize + r
  BY Place
<1>2. q \in Nat /\ q * SectorSize \in Nat /\ p = q * SectorSize + 0
  BY Place
<1> HIDE DEF k, q, r
<1>3. k * SectorSize \in 1 .. left /\ left - k * SectorSize < SectorSize
  BY <1>1, SizesNat DEF Offsets
<1>4. p = q * SectorSize /\ p + k * SectorSize = (q + k) * SectorSize /\ q + k \in Nat
  BY <1>1, <1>2, SizesNat
<1>5. (p + k * SectorSize) % SectorSize = 0
  BY <1>4, AlignedMod
<1>6. (k * SectorSize) \div SectorSize = k
  BY <1>1, AlignedMod
<1>7. QED
  BY <1>1, <1>3, <1>4, <1>5, <1>6 DEF k, q

-----------------------------------------------------------------------------
(***************************************************************************)
(* Where a request is                                                      *)
(***************************************************************************)

Stage ==
  /\ pc \in {"first", "first_store"} => done = 0
  /\ pc \in {"middle", "last", "last_store"} => lba_offset = 0
  /\ pc = "middle" => bytes_remaining >= SectorSize
  /\ pc \in {"last", "last_store"} => bytes_remaining > 0 /\ bytes_remaining < SectorSize
  /\ pc \in {"first", "first_store"} => lba_offset # 0
  /\ pc \in {"first_store", "last_store"} => req.write /\ cached_sector = current_lba
  /\ pc = "return" /\ (req.write => items) => done = req.size

\* At a step of a transfer: the numbers it computes with.
LEMMA InTransfer ==
  ASSUME FTypeOK, Stage, pc \notin {"idle", "return"}
  PROVE  /\ req \in Requests /\ req.offset \in Nat /\ req.size \in Nat \ {0} /\ done \in Nat
         /\ req.write \in BOOLEAN /\ req.offset + req.size <= SectorSize * SectorCount
         /\ buf \in [0 .. req.size - 1 -> Bytes]
         /\ Position \in Addresses /\ Position \in Nat /\ bytes_remaining \in Nat \ {0}
         /\ done + bytes_remaining = req.size
         /\ current_lba \in 0 .. SectorCount - 1 /\ lba_offset \in Offsets
         /\ Position = current_lba * SectorSize + lba_offset
         /\ current_lba * SectorSize \in Nat
<1>1. /\ req \in Requests /\ req.offset \in Nat /\ req.size \in Nat \ {0} /\ req.write \in BOOLEAN
      /\ req.offset + req.size <= SectorSize * SectorCount
      /\ done \in 0 .. req.size /\ buf \in [0 .. req.size - 1 -> Bytes]
  BY FatxDevAssumption DEF FTypeOK
<1>2. bytes_remaining \in Nat \ {0} /\ done + bytes_remaining = req.size
  <2>1. bytes_remaining \in Nat /\ done + bytes_remaining = req.size
    BY <1>1 DEF bytes_remaining
  <2>2. CASE pc \in {"first", "first_store"}
    <3>1. done = 0
      BY <2>2 DEF Stage
    <3>2. QED
      BY <1>1, <2>1, <3>1
  <2>3. CASE pc \in {"middle", "last", "last_store"}
    <3>1. bytes_remaining >= SectorSize \/ bytes_remaining > 0
      BY <2>3 DEF Stage
    <3>2. QED
      BY <2>1, <3>1, SizesNat
  <2>4. QED
    BY <2>2, <2>3 DEF FTypeOK
<1>3. Position \in Addresses /\ Position \in Nat
  <2>1. done \in 0 .. req.size - 1 /\ req.offset + done \in Nat
    BY <1>1, <1>2
  <2>2. req.offset + done \in Addresses
    BY <1>1, <2>1, InRange
  <2>3. QED
    BY <2>1, <2>2 DEF Position
<1>4. QED
  BY <1>1, <1>2, <1>3, Place, PlaceOnDevice DEF current_lba, lba_offset

LEMMA ChunkNow ==
  ASSUME FTypeOK, Stage, pc \notin {"idle", "return"}
  PROVE  /\ chunk \in 1 .. bytes_remaining /\ lba_offset + chunk <= SectorSize
         /\ chunk < bytes_remaining => (Position + chunk) % SectorSize = 0
BY InTransfer, ChunkEnds DEF chunk, lba_offset

LEMMA FullNow ==
  ASSUME FTypeOK, Stage, pc = "middle"
  PROVE  LET k == bytes_remaining \div SectorSize
         IN /\ k \in Nat /\ full_bytes = k * SectorSize /\ full_bytes \in 1 .. bytes_remaining
            /\ Position = current_lba * SectorSize
            /\ Position + full_bytes = (current_lba + k) * SectorSize
            /\ (Position + full_bytes) % SectorSize = 0
            /\ full_bytes \div SectorSize = k
<1>1. /\ Position \in Nat /\ Position % SectorSize = 0 /\ bytes_remaining \in Nat
      /\ bytes_remaining >= SectorSize
  BY InTransfer DEF Stage, lba_offset
<1>2. QED
  BY <1>1, FullEnds DEF full_bytes, current_lba

\* A step that advances ends at the end of the request or of a sector.
LEMMA AdvanceStage ==
  ASSUME FTypeOK, Stage, pc \notin {"idle", "return"}, NEW n \in 1 .. bytes_remaining,
         n < bytes_remaining => (Position + n) % SectorSize = 0,
         Advance(n), req' = req
  PROVE  /\ Stage' /\ done' \in 0 .. req.size /\ done' = done + n /\ items' \in BOOLEAN
         /\ pc' \in {"middle", "last", "return"}
<1>1. /\ req.size \in Nat /\ done \in Nat /\ done + bytes_remaining = req.size
      /\ bytes_remaining \in Nat \ {0} /\ req.offset \in Nat
  BY InTransfer
<1>2. /\ done' = done + n /\ items' = (bytes_remaining = n)
      /\ pc' = IF bytes_remaining - n >= SectorSize THEN "middle"
               ELSE IF bytes_remaining - n > 0 THEN "last" ELSE "return"
  BY DEF Advance, Then
<1>3. bytes_remaining' = bytes_remaining - n /\ Position' = Position + n
  BY <1>1, <1>2 DEF bytes_remaining, Position
<1>4. n < bytes_remaining => lba_offset' = 0
  BY <1>3 DEF lba_offset
<1>5. done' \in 0 .. req.size /\ (n = bytes_remaining => done' = req.size)
  BY <1>1, <1>2
<1>6. Stage'
  BY <1>1, <1>2, <1>3, <1>4, <1>5, SizesNat DEF Stage
<1>7. QED
  BY <1>2, <1>5, <1>6

-----------------------------------------------------------------------------
(***************************************************************************)
(* Types                                                                   *)
(***************************************************************************)

TypeInv == FTypeOK /\ Stage

LEMMA SectorType ==
  ASSUME FTypeOK, NEW s \in 0 .. SectorCount - 1
  PROVE  Sector(s) \in [Offsets -> Bytes]
BY SectorAddress DEF FTypeOK, Sector

LEMMA MergedType ==
  ASSUME FTypeOK, Stage, pc \notin {"idle", "return"}
  PROVE  Merged \in [Offsets -> Bytes]
<1>1. /\ done \in Nat /\ bytes_remaining \in Nat /\ req.size \in Nat /\ lba_offset \in Nat
      /\ done + bytes_remaining = req.size /\ chunk \in Nat /\ chunk <= bytes_remaining
  BY InTransfer, ChunkNow DEF Offsets
<1>2. ASSUME NEW i \in Offsets, i \in lba_offset .. lba_offset + chunk - 1
      PROVE  done + i - lba_offset \in 0 .. req.size - 1
  BY <1>1, <1>2 DEF Offsets
<1>3. QED
  BY <1>2, InTransfer DEF Merged, FTypeOK

LEMMA StoredType ==
  ASSUME FTypeOK, NEW a \in Nat, NEW n \in Nat, NEW m \in Nat, m <= n, NEW contents,
         \A i \in 0 .. n - 1 : contents[i] \in Bytes
  PROVE  Stored(a, m, contents) \in [Addresses -> Bytes]
<1>1. \A x \in Addresses : x \in a .. a + m - 1 => x - a \in 0 .. n - 1
  BY SizesNat DEF Addresses
<1>2. QED
  BY <1>1 DEF FTypeOK, Stored

\* A store of whole sectors, be it cut short, leaves a disk.
LEMMA StoreType ==
  ASSUME FTypeOK, NEW success \in BOOLEAN, NEW a \in Nat, NEW n \in Nat, NEW contents,
         \A i \in 0 .. n - 1 : contents[i] \in Bytes, StoreSectors(success, a, n, contents)
  PROVE  /\ disk' \in [Addresses -> Bytes]
         /\ \E m \in 0 .. n : disk' = Stored(a, m, contents)
                              /\ (success => m = n)
                              /\ \E k \in 0 .. n \div SectorSize : m = n \/ m = k * SectorSize
<1>1. CASE success
  <2>1. disk' = Stored(a, n, contents) /\ 0 \in 0 .. n \div SectorSize
    BY <1>1, Place DEF StoreSectors
  <2>2. QED
    BY <2>1, StoredType
<1>2. CASE ~success
  <2>1. PICK k \in 0 .. n \div SectorSize : disk' = Stored(a, k * SectorSize, contents)
    BY <1>2 DEF StoreSectors
  <2>2. k * SectorSize \in 0 .. n
    <3>1. /\ n \div SectorSize \in Nat /\ (n \div SectorSize) * SectorSize \in Nat
          /\ (n \div SectorSize) * SectorSize <= n
      BY Place, SizesNat DEF Offsets
    <3>2. k \in Nat /\ (k = n \div SectorSize \/ k < n \div SectorSize)
      BY <3>1
    <3>3. k * SectorSize <= (n \div SectorSize) * SectorSize
      BY <3>1, <3>2, SectorOrder
    <3>4. k * SectorSize \in Nat
      BY <3>2, SizesNat
    <3>5. QED
      BY <3>1, <3>3, <3>4
  <2> DEFINE m == k * SectorSize
  <2>3. m \in 0 .. n /\ disk' = Stored(a, m, contents) /\ m = k * SectorSize
    BY <2>1, <2>2
  <2> HIDE DEF m
  <2>4. disk' \in [Addresses -> Bytes]
    BY <2>3, StoredType
  <2>5. QED
    BY <1>2, <2>3, <2>4
<1>3. QED
  BY <1>1, <1>2

LEMMA InitTypeInv == FInit => TypeInv
BY FatxDevAssumption DEF FInit, TypeInv, FTypeOK, Stage

LEMMA RequestTypeInv ==
  ASSUME TypeInv, NEW r \in Requests, Request(r)
  PROVE  TypeInv'
<1>1. /\ r.offset \in Nat /\ r.size \in Nat \ {0} /\ r.data \in [0 .. r.size - 1 -> Bytes]
  BY FatxDevAssumption
<1>2. /\ req' = r /\ buf' = r.data /\ done' = 0 /\ items' = FALSE
      /\ UNCHANGED <<scenario, disk, cached_sector, sector_cache>>
      /\ pc' = IF r.offset % SectorSize # 0 THEN "first"
               ELSE IF r.size >= SectorSize THEN "middle" ELSE "last"
  BY <1>1 DEF Request, Then, cacheVars
<1>3. lba_offset' = r.offset % SectorSize /\ bytes_remaining' = r.size
  BY <1>1, <1>2 DEF lba_offset, Position, bytes_remaining
<1>4. Stage'
  BY <1>1, <1>2, <1>3, SizesNat DEF Stage
<1>5. /\ req' \in Requests /\ done' \in 0 .. req'.size /\ buf' \in [0 .. req'.size - 1 -> Bytes]
  <2>1. req' = r /\ buf' = r.data /\ done' = 0
    BY <1>2
  <2>2. QED
    BY <1>1, <2>1
<1>6. pc' \in {"first", "middle", "last"} /\ items' \in BOOLEAN
  BY <1>2
<1>7. QED
  BY <1>2, <1>4, <1>5, <1>6 DEF TypeInv, FTypeOK

LEMMA LoadSectorType ==
  ASSUME FTypeOK, Stage, pc \notin {"idle", "return"}, NEW success \in BOOLEAN, LoadSector(success)
  PROVE  sector_cache' \in [Offsets -> Bytes]
BY InTransfer, SectorType DEF LoadSector, FTypeOK

LEMMA ReadTypeInv ==
  ASSUME TypeInv, NEW success \in BOOLEAN, ReadPartial(success) \/ ReadWhole(success)
  PROVE  TypeInv'
<1>1. /\ FTypeOK /\ Stage /\ pc \notin {"idle", "return"} /\ req' = req
      /\ UNCHANGED <<scenario, disk>> /\ ~req.write
  BY DEF TypeInv, ReadPartial, ReadWhole, Reading
<1>2. CASE ReadPartial(success)
  <2>1. sector_cache' \in [Offsets -> Bytes] /\ cached_sector' \in (0 .. SectorCount - 1) \cup {None}
    BY <1>1, <1>2, LoadSectorType, InTransfer DEF ReadPartial, cacheVars, FTypeOK
  <2>2. ASSUME NEW i \in done .. done + chunk - 1
        PROVE  lba_offset + i - done \in Offsets
    <3>1. /\ done \in Nat /\ chunk \in Nat /\ lba_offset \in Nat /\ SectorSize \in Nat
          /\ lba_offset + chunk <= SectorSize
      BY <1>1, InTransfer, ChunkNow, SizesNat DEF Offsets
    <3>2. QED
      BY <3>1 DEF Offsets
  <2>3. buf' \in [0 .. req.size - 1 -> Bytes]
    BY <1>1, <1>2, <2>1, <2>2, InTransfer DEF ReadPartial
  <2>4. Advance(chunk)
    BY <1>2 DEF ReadPartial
  <2>5. /\ Stage' /\ done' \in 0 .. req.size /\ items' \in BOOLEAN
        /\ pc' \in {"middle", "last", "return"}
    BY <1>1, <2>4, ChunkNow, AdvanceStage
  <2>6. QED
    BY <1>1, <2>1, <2>3, <2>5 DEF TypeInv, FTypeOK
<1>3. CASE ReadWhole(success)
  <2>1. pc = "middle" /\ Advance(full_bytes) /\ UNCHANGED <<cached_sector, sector_cache>>
    BY <1>3 DEF ReadWhole, Reading, cacheVars
  <2>2. \A i \in 0 .. req.size - 1 : req.offset + i \in Addresses
    <3>1. /\ req.offset \in Nat /\ req.size \in Nat
          /\ req.offset + req.size <= SectorSize * SectorCount
      BY <1>1, InTransfer
    <3>2. QED
      BY <3>1, InRange
  <2>3. buf' \in [0 .. req.size - 1 -> Bytes]
    BY <1>1, <1>3, <2>2, InTransfer DEF ReadWhole, FTypeOK
  <2>4. /\ Stage' /\ done' \in 0 .. req.size /\ items' \in BOOLEAN
        /\ pc' \in {"middle", "last", "return"}
    BY <1>1, <2>1, FullNow, AdvanceStage
  <2>5. QED
    BY <1>1, <2>1, <2>3, <2>4 DEF TypeInv, FTypeOK
<1>4. QED
  BY <1>2, <1>3

LEMMA FillTypeInv ==
  ASSUME TypeInv, NEW success \in BOOLEAN, FillForWrite(success)
  PROVE  TypeInv'
<1>1. /\ FTypeOK /\ Stage /\ pc \in {"first", "last"} /\ req.write
      /\ UNCHANGED <<scenario, disk, req, buf, done>>
  BY DEF TypeInv, FillForWrite, Writing
<1>2. sector_cache' \in [Offsets -> Bytes] /\ cached_sector' \in (0 .. SectorCount - 1) \cup {None}
  BY <1>1, LoadSectorType, InTransfer DEF FillForWrite, cacheVars, FTypeOK
<1>3. current_lba' = current_lba /\ lba_offset' = lba_offset /\ bytes_remaining' = bytes_remaining
  BY <1>1 DEF current_lba, lba_offset, bytes_remaining, Position
<1>4. CASE success
  BY <1>1, <1>2, <1>3, <1>4 DEF TypeInv, FTypeOK, Stage, FillForWrite, cacheVars
<1>5. CASE ~success
  BY <1>1, <1>2, <1>3, <1>5 DEF TypeInv, FTypeOK, Stage, FillForWrite, cacheVars, Return
<1>6. QED
  BY <1>4, <1>5

\* What WriteWhole hands to the device.
Whole == [i \in 0 .. full_bytes - 1 |-> buf[done + i]]

LEMMA WholeType ==
  ASSUME FTypeOK, Stage, pc = "middle"
  PROVE  \A i \in 0 .. full_bytes - 1 : Whole[i] = buf[done + i] /\ Whole[i] \in Bytes
<1>1. /\ done \in Nat /\ bytes_remaining \in Nat /\ req.size \in Nat
      /\ done + bytes_remaining = req.size /\ full_bytes \in Nat /\ full_bytes <= bytes_remaining
  BY InTransfer, FullNow
<1>2. \A i \in 0 .. full_bytes - 1 : done + i \in 0 .. req.size - 1
  BY <1>1
<1>3. QED
  BY <1>2, InTransfer DEF Whole

\* Storing whole sectors leaves a disk that has the request's bytes up to some length.
LEMMA WholeStored ==
  ASSUME FTypeOK, Stage, pc = "middle", NEW success \in BOOLEAN,
         StoreSectors(success, Position, full_bytes, Whole)
  PROVE  /\ disk' \in [Addresses -> Bytes]
         /\ \E m \in 0 .. full_bytes :
              disk' = Stored(Position, m, Whole) /\ (success => m = full_bytes)
<1> DEFINE w == Whole
           p == Position
           n == full_bytes
<1>1. p \in Nat /\ n \in Nat /\ StoreSectors(success, p, n, w)
  BY InTransfer, FullNow
<1>2. \A i \in 0 .. n - 1 : w[i] \in Bytes
  BY WholeType
<1> HIDE DEF w, p, n
<1>3. disk' \in [Addresses -> Bytes] /\ \E m \in 0 .. n : disk' = Stored(p, m, w) /\ (success => m = n)
  BY <1>1, <1>2, StoreType
<1>4. QED
  BY <1>3 DEF w, p, n

LEMMA WriteTypeInv ==
  ASSUME TypeInv, NEW success \in BOOLEAN, WritePartial(success) \/ WriteWhole(success)
  PROVE  TypeInv'
<1>1. /\ FTypeOK /\ Stage /\ pc \notin {"idle", "return"} /\ req.write
      /\ UNCHANGED <<scenario, req, buf>>
  BY DEF TypeInv, WritePartial, WriteWhole, Writing
<1>2. CASE WritePartial(success)
  <2>1. \A i \in 0 .. SectorSize - 1 : Merged[i] \in Bytes
    BY <1>1, MergedType DEF Offsets
  <2>2. /\ StoreSectors(success, current_lba * SectorSize, SectorSize, Merged)
        /\ sector_cache' = Merged /\ cached_sector' \in {cached_sector, None}
    BY <1>2 DEF WritePartial
  <2>3. disk' \in [Addresses -> Bytes] /\ sector_cache' \in [Offsets -> Bytes]
    BY <1>1, <2>1, <2>2, InTransfer, SizesNat, StoreType, MergedType
  <2>4. CASE success
    <3>1. /\ Stage' /\ done' \in 0 .. req.size /\ items' \in BOOLEAN
          /\ pc' \in {"middle", "last", "return"}
      BY <1>1, <1>2, <2>4, ChunkNow, AdvanceStage DEF WritePartial
    <3>2. QED
      BY <1>1, <2>2, <2>3, <3>1 DEF TypeInv, FTypeOK
  <2>5. CASE ~success
    BY <1>1, <1>2, <2>2, <2>3, <2>5 DEF TypeInv, FTypeOK, Stage, WritePartial, Return
  <2>6. QED
    BY <2>4, <2>5
<1>3. CASE WriteWhole(success)
  <2>1. pc = "middle" /\ UNCHANGED <<cached_sector, sector_cache>>
        /\ StoreSectors(success, Position, full_bytes, Whole)
    BY <1>3 DEF WriteWhole, Writing, Whole, cacheVars
  <2>2. disk' \in [Addresses -> Bytes]
    BY <1>1, <2>1, WholeStored
  <2>3. CASE success
    <3>1. /\ Stage' /\ done' \in 0 .. req.size /\ items' \in BOOLEAN
          /\ pc' \in {"middle", "last", "return"}
      BY <1>1, <1>3, <2>1, <2>3, FullNow, AdvanceStage DEF WriteWhole
    <3>2. QED
      BY <1>1, <2>1, <2>2, <3>1 DEF TypeInv, FTypeOK
  <2>4. CASE ~success
    BY <1>1, <1>3, <2>1, <2>2, <2>4 DEF TypeInv, FTypeOK, Stage, WriteWhole, Return
  <2>5. QED
    BY <2>3, <2>4
<1>4. QED
  BY <1>2, <1>3

LEMMA FinishTypeInv ==
  ASSUME TypeInv, Finish
  PROVE  TypeInv'
BY DEF TypeInv, FTypeOK, Stage, Finish, cacheVars

LEMMA TypeInvariant == FSpec => []TypeInv
<1>1. TypeInv /\ [FNext]_fvars => TypeInv'
  <2>1. TypeInv /\ UNCHANGED fvars => TypeInv'
    BY DEF TypeInv, FTypeOK, Stage, lba_offset, bytes_remaining, current_lba, Position, fvars,
           cacheVars, call
  <2>2. QED
    BY <2>1, RequestTypeInv, ReadTypeInv, FillTypeInv, WriteTypeInv, FinishTypeInv DEF FNext
<1>2. QED
  BY <1>1, InitTypeInv, PTL DEF FSpec

\* No transfer goes past the end of the caller's buffer, for every sector size and request.
THEOREM DevTypeCorrect == FSpec => []FTypeOK
<1>1. TypeInv => FTypeOK
  BY DEF TypeInv
<1>2. QED
  BY <1>1, TypeInvariant, PTL

-----------------------------------------------------------------------------
(***************************************************************************)
(* The bytes                                                               *)
(***************************************************************************)

\* The bytes transferred so far are the same on the disk and in the buffer.
Transferred ==
  pc # "idle" /\ (Calm \/ req.write) => \A i \in 0 .. done - 1 : disk[req.offset + i] = buf[i]

\* The cache has its sector, also amid requests, and a write does not go past it.
Cached ==
  Calm => /\ cached_sector # None => sector_cache = Sector(cached_sector)
          /\ pc # "idle" /\ req.write => cached_sector \notin WholeSectors(req)

DInv == TypeInv /\ Transferred /\ Cached

LEMMA InitDInv == FInit => DInv
BY InitTypeInv DEF FInit, DInv, Transferred, Cached

\* A read that works, or any while reads do not fail, has the sector.
LEMMA LoadedWhenCalm ==
  ASSUME Calm, NEW success \in BOOLEAN, LoadSector(success)
  PROVE  success /\ sector_cache' = Sector(current_lba)
BY DEF Calm, LoadSector

\* A piece of a sector, byte by byte: its place in the sector, on the disk, in the buffer.
LEMMA PieceNow ==
  ASSUME FTypeOK, Stage, pc \notin {"idle", "return"}
  PROVE  /\ done \in Nat /\ chunk \in Nat \ {0} /\ chunk <= bytes_remaining /\ req.offset \in Nat
         /\ bytes_remaining \in Nat /\ done + bytes_remaining = req.size /\ req.size \in Nat
         /\ lba_offset \in Nat /\ lba_offset + chunk <= SectorSize
         /\ DOMAIN buf = 0 .. req.size - 1
         /\ \A i \in done .. done + chunk - 1 :
              /\ i \in 0 .. req.size - 1
              /\ lba_offset + i - done \in Offsets
              /\ current_lba * SectorSize + (lba_offset + i - done) = req.offset + i
<1>1. /\ done \in Nat /\ bytes_remaining \in Nat /\ done + bytes_remaining = req.size
      /\ req.size \in Nat /\ req.offset \in Nat /\ lba_offset \in Nat /\ SectorSize \in Nat
      /\ current_lba * SectorSize \in Nat /\ DOMAIN buf = 0 .. req.size - 1
      /\ Position = current_lba * SectorSize + lba_offset
  BY InTransfer, SizesNat DEF Offsets
<1>2. Position = req.offset + done
  BY DEF Position
<1>3. chunk \in Nat \ {0} /\ chunk <= bytes_remaining /\ lba_offset + chunk <= SectorSize
  BY <1>1, ChunkNow
<1>4. ASSUME NEW i \in done .. done + chunk - 1
      PROVE  /\ i \in 0 .. req.size - 1
             /\ lba_offset + i - done \in Offsets
             /\ current_lba * SectorSize + (lba_offset + i - done) = req.offset + i
  <2> DEFINE base == current_lba * SectorSize
  <2>1. base \in Nat /\ base + lba_offset = req.offset + done
    BY <1>1, <1>2
  <2> HIDE DEF base
  <2>2. base + (lba_offset + i - done) = req.offset + i
    <3>1. /\ i \in Int /\ base \in Int /\ done \in Int /\ lba_offset \in Int /\ req.offset \in Int
          /\ base + lba_offset = req.offset + done
      BY <1>1, <1>3, <2>1
    <3>2. base + (lba_offset + i - done) = (base + lba_offset) + (i - done)
      BY <3>1
    <3>3. (req.offset + done) + (i - done) = req.offset + i
      BY <3>1
    <3>4. QED
      BY <3>1, <3>2, <3>3
  <2>3. i \in 0 .. req.size - 1 /\ lba_offset + i - done \in Offsets
    BY <1>1, <1>3 DEF Offsets
  <2>4. QED
    BY <2>2, <2>3 DEF base
<1>5. QED
  BY <1>1, <1>3, <1>4

\* The sector a piece is transferred of is not transferred whole.
LEMMA PartialNotWhole ==
  ASSUME TypeInv, pc \in {"first", "last", "first_store", "last_store"}
  PROVE  current_lba \notin WholeSectors(req)
<1> SUFFICES ASSUME req.offset <= current_lba * SectorSize,
                    (current_lba + 1) * SectorSize <= req.offset + req.size
             PROVE  FALSE
  BY DEF WholeSectors
<1>1. /\ req.offset \in Nat /\ req.size \in Nat /\ done \in Nat /\ bytes_remaining \in Nat
      /\ done + bytes_remaining = req.size /\ Position = req.offset + done
      /\ current_lba \in Nat /\ lba_offset \in Nat /\ current_lba * SectorSize \in Nat
      /\ Position = current_lba * SectorSize + lba_offset
  BY InTransfer DEF TypeInv, Position, Offsets
<1>2. (current_lba + 1) * SectorSize = current_lba * SectorSize + SectorSize
  BY <1>1, SectorOrder
<1>3. CASE pc \in {"first", "first_store"}
  BY <1>1, <1>3 DEF TypeInv, Stage
<1>4. CASE pc \in {"last", "last_store"}
  <2>1. lba_offset = 0 /\ bytes_remaining < SectorSize
    BY <1>4 DEF TypeInv, Stage
  <2>2. QED
    BY <1>1, <1>2, <2>1, SizesNat
<1>5. QED
  BY <1>3, <1>4

LEMMA RequestDInv ==
  ASSUME DInv, NEW r \in Requests, Request(r)
  PROVE  DInv'
<1>1. /\ req' = r /\ done' = 0 /\ UNCHANGED <<scenario, disk, cached_sector, sector_cache>>
      /\ scenario.rewrites \/ ~r.write \/ cached_sector \notin WholeSectors(r)
  BY DEF Request, cacheVars
<1>2. TypeInv'
  BY RequestTypeInv DEF DInv
<1>3. Transferred'
  BY <1>1 DEF Transferred
<1>4. Cached'
  BY <1>1 DEF DInv, Cached, Calm, Sector, WholeSectors
<1>5. QED
  BY <1>2, <1>3, <1>4 DEF DInv

LEMMA ReadPartialDInv ==
  ASSUME DInv, NEW success \in BOOLEAN, ReadPartial(success)
  PROVE  DInv'
<1>1. /\ FTypeOK /\ Stage /\ pc \notin {"idle", "return"} /\ ~req.write
      /\ UNCHANGED <<scenario, disk, req>>
  BY DEF DInv, TypeInv, ReadPartial, Reading
<1>2. TypeInv'
  BY ReadTypeInv DEF DInv
<1>3. Calm => cached_sector' = current_lba /\ sector_cache' = Sector(current_lba)
  BY <1>1, LoadedWhenCalm, InTransfer, FatxDevAssumption DEF ReadPartial, cacheVars, DInv, Cached
<1>4. Cached'
  BY <1>1, <1>3 DEF Cached, Calm, Sector
<1>5. Transferred'
  <2> SUFFICES ASSUME Calm, NEW i \in 0 .. done' - 1
               PROVE  disk[req.offset + i] = buf'[i]
    BY <1>1 DEF Transferred, Calm
  <2>1. /\ done \in Nat /\ chunk \in Nat /\ chunk <= bytes_remaining /\ done' = done + chunk
        /\ bytes_remaining \in Nat /\ done + bytes_remaining = req.size /\ req.size \in Nat
        /\ DOMAIN buf = 0 .. req.size - 1
    BY <1>1, PieceNow DEF ReadPartial, Advance
  <2>2. i \in DOMAIN buf
    BY <2>1
  <2>3. CASE i < done
    <3>1. buf'[i] = buf[i] /\ i \in 0 .. done - 1
      BY <2>1, <2>2, <2>3 DEF ReadPartial
    <3>2. QED
      BY <1>1, <3>1 DEF DInv, Transferred
  <2>4. CASE ~(i < done)
    <3>1. i \in done .. done + chunk - 1
      BY <2>1, <2>4
    <3>2. buf'[i] = sector_cache'[lba_offset + i - done]
      BY <2>2, <3>1 DEF ReadPartial
    <3>3. /\ lba_offset + i - done \in Offsets
          /\ current_lba * SectorSize + (lba_offset + i - done) = req.offset + i
      BY <1>1, <3>1, PieceNow
    <3>4. sector_cache'[lba_offset + i - done] = disk[current_lba * SectorSize + (lba_offset + i - done)]
      BY <1>3, <3>3 DEF Sector
    <3>5. QED
      BY <3>2, <3>3, <3>4
  <2>5. QED
    BY <2>3, <2>4
<1>6. QED
  BY <1>2, <1>4, <1>5 DEF DInv

LEMMA ReadWholeDInv ==
  ASSUME DInv, NEW success \in BOOLEAN, ReadWhole(success)
  PROVE  DInv'
<1>1. /\ FTypeOK /\ Stage /\ pc = "middle" /\ ~req.write
      /\ UNCHANGED <<scenario, disk, req, cached_sector, sector_cache>>
  BY DEF DInv, TypeInv, ReadWhole, Reading, cacheVars
<1>2. TypeInv'
  BY ReadTypeInv DEF DInv
<1>3. Cached'
  BY <1>1 DEF DInv, Cached, Calm, Sector
<1>4. Transferred'
  <2> SUFFICES ASSUME Calm, NEW i \in 0 .. done' - 1
               PROVE  disk[req.offset + i] = buf'[i]
    BY <1>1 DEF Transferred, Calm
  <2>1. /\ done \in Nat /\ full_bytes \in Nat /\ full_bytes <= bytes_remaining
        /\ bytes_remaining \in Nat /\ done + bytes_remaining = req.size /\ req.size \in Nat
        /\ DOMAIN buf = 0 .. req.size - 1 /\ done' = done + full_bytes
    BY <1>1, InTransfer, FullNow DEF ReadWhole, Advance
  <2>2. i \in DOMAIN buf
    BY <2>1
  <2>3. buf' = [j \in DOMAIN buf |-> IF j \in done .. done + full_bytes - 1
                                     THEN disk[req.offset + j] ELSE buf[j]]
    BY DEF ReadWhole, Calm
  <2>4. CASE i < done
    <3>1. buf'[i] = buf[i] /\ i \in 0 .. done - 1
      BY <2>1, <2>2, <2>3, <2>4
    <3>2. QED
      BY <1>1, <3>1 DEF DInv, Transferred
  <2>5. CASE ~(i < done)
    <3>1. i \in done .. done + full_bytes - 1
      BY <2>1, <2>5
    <3>2. QED
      BY <2>2, <2>3, <3>1
  <2>6. QED
    BY <2>4, <2>5
<1>5. QED
  BY <1>2, <1>3, <1>4 DEF DInv

LEMMA FillDInv ==
  ASSUME DInv, NEW success \in BOOLEAN, FillForWrite(success)
  PROVE  DInv'
<1>1. /\ FTypeOK /\ Stage /\ pc \in {"first", "last"} /\ req.write
      /\ UNCHANGED <<scenario, disk, req, buf, done>>
  BY DEF DInv, TypeInv, FillForWrite, Writing
<1>2. TypeInv'
  BY FillTypeInv DEF DInv
<1>3. Transferred'
  BY <1>1 DEF DInv, Transferred, Calm
<1>4. Calm => cached_sector' = current_lba /\ sector_cache' = Sector(current_lba)
  BY <1>1, LoadedWhenCalm, InTransfer, FatxDevAssumption DEF FillForWrite, cacheVars, DInv, Cached
<1>5. current_lba \notin WholeSectors(req)
  BY <1>1, PartialNotWhole DEF DInv
<1>6. Cached'
  BY <1>1, <1>4, <1>5 DEF Cached, Calm, Sector, WholeSectors
<1>7. QED
  BY <1>2, <1>3, <1>6 DEF DInv

\* What writing a sector back changes on the disk: while the cache is right, only the piece.
LEMMA WritePartialBytes ==
  ASSUME DInv, NEW success \in BOOLEAN, WritePartial(success)
  PROVE  /\ success => \A i \in Offsets : disk'[current_lba * SectorSize + i] = Merged[i]
         /\ \A x \in Addresses : disk'[x] # disk[x] =>
              \E i \in Offsets : x = current_lba * SectorSize + i /\ disk'[x] = Merged[i]
         /\ Calm => \A i \in Offsets : disk[current_lba * SectorSize + i] = sector_cache[i]
<1> DEFINE base == current_lba * SectorSize
<1>1. /\ FTypeOK /\ Stage /\ pc \in {"first_store", "last_store"}
      /\ StoreSectors(success, base, SectorSize, Merged)
  BY DEF DInv, TypeInv, WritePartial, Writing
<1>2. /\ base \in Nat /\ SectorSize \in Nat /\ \A i \in 0 .. SectorSize - 1 : Merged[i] \in Bytes
      /\ \A i \in Offsets : base + i \in Addresses
  BY <1>1, InTransfer, MergedType, SizesNat, SectorAddress DEF Offsets
<1>3. PICK m \in 0 .. SectorSize : disk' = Stored(base, m, Merged) /\ (success => m = SectorSize)
  BY <1>1, <1>2, StoreType
<1>4. current_lba \in 0 .. SectorCount - 1 /\ cached_sector = current_lba
  BY <1>1, InTransfer DEF Stage
<1>5. Calm => sector_cache = Sector(current_lba)
  BY <1>4, FatxDevAssumption DEF DInv, Cached
<1>6. Calm => \A i \in Offsets : disk[base + i] = sector_cache[i]
  BY <1>5 DEF Sector
<1> HIDE DEF base
<1>7. ASSUME success, NEW i \in Offsets
      PROVE  disk'[base + i] = Merged[i]
  <2>1. base + i \in base .. base + SectorSize - 1 /\ (base + i) - base = i /\ base + i \in Addresses
    BY <1>2 DEF Offsets
  <2>2. QED
    BY <1>3, <1>7, <2>1 DEF Stored
<1>8. ASSUME NEW x \in Addresses, disk'[x] # disk[x]
      PROVE  \E i \in Offsets : x = base + i /\ disk'[x] = Merged[i]
  <2>1. x \in base .. base + m - 1 /\ disk'[x] = Merged[x - base]
    BY <1>3, <1>8 DEF Stored
  <2>2. x - base \in Offsets /\ x = base + (x - base)
    BY <1>2, <1>3, <2>1 DEF Offsets
  <2>3. QED
    BY <2>1, <2>2
<1>9. QED
  BY <1>6, <1>7, <1>8 DEF base

\* Where the piece is in the sector, Merged has the caller's bytes, elsewhere the cache's.
LEMMA MergedBytes ==
  ASSUME TypeInv, pc \notin {"idle", "return"}, NEW i \in Offsets
  PROVE  \/ Merged[i] = sector_cache[i] /\ i \notin lba_offset .. lba_offset + chunk - 1
         \/ /\ i \in lba_offset .. lba_offset + chunk - 1
            /\ done + i - lba_offset \in done .. done + chunk - 1
            /\ Merged[i] = buf[done + i - lba_offset]
            /\ current_lba * SectorSize + i = req.offset + (done + i - lba_offset)
<1>1. CASE i \in lba_offset .. lba_offset + chunk - 1
  <2> DEFINE j == done + i - lba_offset
  <2>1. done \in Nat /\ lba_offset \in Nat /\ chunk \in Nat /\ i \in Nat
    BY PieceNow DEF TypeInv, Offsets
  <2>2. j \in done .. done + chunk - 1 /\ lba_offset + j - done = i
    BY <1>1, <2>1
  <2>3. Merged[i] = buf[j]
    BY <1>1 DEF Merged
  <2> HIDE DEF j
  <2>4. current_lba * SectorSize + (lba_offset + j - done) = req.offset + j
    BY <2>2, PieceNow DEF TypeInv
  <2>5. QED
    BY <1>1, <2>2, <2>3, <2>4 DEF j
<1>2. CASE i \notin lba_offset .. lba_offset + chunk - 1
  BY <1>2 DEF Merged
<1>3. QED
  BY <1>1, <1>2

\* A disk whose changes are the request's, at or behind Position, keeps what was transferred.
LEMMA EarlierKept ==
  ASSUME DInv, pc # "idle", req.write, req \in Requests,
         \A x \in Addresses : disk'[x] # disk[x] => x >= req.offset + done
  PROVE  \A i \in 0 .. done - 1 : disk'[req.offset + i] = buf[i]
<1> SUFFICES ASSUME NEW i \in 0 .. done - 1
             PROVE  disk'[req.offset + i] = buf[i]
  OBVIOUS
<1>1. /\ req.offset \in Nat /\ done \in 0 .. req.size /\ req.size \in Nat
      /\ req.offset + req.size <= SectorSize * SectorCount
  BY FatxDevAssumption DEF DInv, TypeInv, FTypeOK
<1>2. req.offset + i \in Addresses /\ req.offset + i < req.offset + done
  <2>1. i \in 0 .. req.size - 1 /\ req.offset + i < req.offset + done
    BY <1>1
  <2>2. QED
    BY <1>1, <2>1, InRange
<1>3. req.offset + i \in Int /\ req.offset + done \in Int
  BY <1>1
<1>4. disk'[req.offset + i] = disk[req.offset + i]
  BY <1>2, <1>3
<1>5. QED
  BY <1>4 DEF DInv, Transferred

LEMMA WritePartialDInv ==
  ASSUME DInv, NEW success \in BOOLEAN, WritePartial(success)
  PROVE  DInv'
<1>1. /\ FTypeOK /\ Stage /\ TypeInv /\ pc \in {"first_store", "last_store"} /\ req.write
      /\ req \in Requests /\ sector_cache' = Merged /\ UNCHANGED <<scenario, req, buf>>
  BY InTransfer DEF DInv, TypeInv, WritePartial, Writing
<1>2. TypeInv'
  BY WriteTypeInv DEF DInv
<1>3. \A i \in 0 .. done - 1 : disk'[req.offset + i] = buf[i]
  <2>1. CASE pc = "first_store"
    <3>1. done = 0
      BY <1>1, <2>1 DEF Stage
    <3>2. QED
      BY <3>1
  <2>2. CASE pc = "last_store"
    <3>1. current_lba * SectorSize \in Nat /\ current_lba * SectorSize = req.offset + done
      <4>1. Position = current_lba * SectorSize + lba_offset /\ current_lba * SectorSize \in Nat
        BY <1>1, InTransfer
      <4>2. lba_offset = 0
        BY <1>1, <2>2 DEF Stage
      <4>3. Position = current_lba * SectorSize
        BY <4>1, <4>2
      <4>4. QED
        BY <4>1, <4>3 DEF Position
    <3>2. \A x \in Addresses : disk'[x] # disk[x] => x >= req.offset + done
      BY <3>1, WritePartialBytes DEF Offsets
    <3>3. QED
      BY <1>1, <3>2, EarlierKept
  <2>3. QED
    BY <1>1, <2>1, <2>2
<1>4. CASE ~success
  <2>1. done' = done /\ cached_sector' = None /\ pc' = "return"
    BY <1>4 DEF WritePartial, Return
  <2>2. Transferred'
    BY <1>1, <1>3, <2>1 DEF Transferred
  <2>3. None \notin WholeSectors(req)
    BY FatxDevAssumption DEF WholeSectors
  <2>4. Cached'
    BY <1>1, <2>1, <2>3 DEF Cached, WholeSectors
  <2>5. QED
    BY <1>2, <2>2, <2>4 DEF DInv
<1>5. CASE success
  <2>1. done' = done + chunk /\ cached_sector' = cached_sector /\ cached_sector = current_lba
    BY <1>1, <1>5 DEF WritePartial, Advance, Stage
  <2>2. \A i \in Offsets : disk'[current_lba * SectorSize + i] = Merged[i]
    BY <1>5, WritePartialBytes
  <2>3. ASSUME NEW i \in 0 .. done' - 1
        PROVE  disk'[req.offset + i] = buf[i]
    <3>1. CASE i < done
      <4>1. i \in 0 .. done - 1
        BY <1>1, <2>1, <3>1, PieceNow
      <4>2. QED
        BY <1>3, <4>1
    <3>2. CASE ~(i < done)
      <4> DEFINE j == lba_offset + i - done
      <4>0. done \in Nat /\ chunk \in Nat /\ lba_offset \in Nat
        BY <1>1, PieceNow
      <4>1. i \in done .. done + chunk - 1
        BY <2>1, <3>2, <4>0
      <4>2. j \in Offsets /\ current_lba * SectorSize + j = req.offset + i
        BY <1>1, <4>1, PieceNow
      <4>3. j \in lba_offset .. lba_offset + chunk - 1 /\ done + j - lba_offset = i
        BY <4>0, <4>1
      <4> HIDE DEF j
      <4>4. Merged[j] = buf[i]
        BY <4>2, <4>3 DEF Merged
      <4>5. QED
        BY <2>2, <4>2, <4>4
    <3>3. QED
      BY <3>1, <3>2
  <2>4. Transferred'
    BY <1>1, <2>3 DEF Transferred
  <2>5. Merged = [i \in Offsets |-> disk'[current_lba * SectorSize + i]]
    BY <2>2 DEF Merged
  <2>6. sector_cache' = Sector(cached_sector)'
    BY <1>1, <2>1, <2>5 DEF Sector
  <2>7. Cached'
    BY <1>1, <2>1, <2>6 DEF DInv, Cached, Calm, WholeSectors
  <2>8. QED
    BY <1>2, <2>4, <2>7 DEF DInv
<1>6. QED
  BY <1>4, <1>5

\* What writing whole sectors changes on the disk.
LEMMA WriteWholeBytes ==
  ASSUME DInv, NEW success \in BOOLEAN, WriteWhole(success)
  PROVE  /\ success => \A i \in done .. done + full_bytes - 1 : disk'[req.offset + i] = buf[i]
         /\ \A x \in Addresses : disk'[x] # disk[x] =>
              /\ x \in Position .. Position + full_bytes - 1
              /\ x - req.offset \in done .. done + full_bytes - 1
              /\ disk'[x] = buf[x - req.offset]
<1>1. /\ FTypeOK /\ Stage /\ pc = "middle" /\ StoreSectors(success, Position, full_bytes, Whole)
  BY DEF DInv, TypeInv, WriteWhole, Writing, Whole
<1>2. /\ Position \in Nat /\ full_bytes \in Nat /\ req.offset \in Nat /\ done \in Nat
      /\ req.size \in Nat /\ bytes_remaining \in Nat /\ full_bytes <= bytes_remaining
      /\ done + bytes_remaining = req.size /\ req.offset + req.size <= SectorSize * SectorCount
  BY <1>1, InTransfer, FullNow
<1>3. Position = req.offset + done
  BY DEF Position
<1>4. PICK m \in 0 .. full_bytes : disk' = Stored(Position, m, Whole) /\ (success => m = full_bytes)
  BY <1>1, WholeStored
<1>5. ASSUME success, NEW i \in done .. done + full_bytes - 1
      PROVE  disk'[req.offset + i] = buf[i]
  <2>1. i \in 0 .. req.size - 1 /\ req.offset + i \in Position .. Position + full_bytes - 1
    BY <1>2, <1>3
  <2>2. req.offset + i \in Position .. Position + full_bytes - 1 /\ req.offset + i \in Addresses
    BY <1>2, <2>1, InRange
  <2>3. (req.offset + i) - Position = i - done /\ i - done \in 0 .. full_bytes - 1
        /\ done + (i - done) = i
    BY <1>2, <1>3
  <2>4. Whole[i - done] = buf[done + (i - done)]
    BY <2>3 DEF Whole
  <2>5. disk'[req.offset + i] = Whole[(req.offset + i) - Position]
    BY <1>4, <1>5, <2>2 DEF Stored
  <2>6. QED
    BY <2>3, <2>4, <2>5
<1>6. ASSUME NEW x \in Addresses, disk'[x] # disk[x]
      PROVE  /\ x \in Position .. Position + full_bytes - 1
             /\ x - req.offset \in done .. done + full_bytes - 1
             /\ disk'[x] = buf[x - req.offset]
  <2>1. x \in Position .. Position + m - 1 /\ disk'[x] = Whole[x - Position]
    BY <1>4, <1>6 DEF Stored
  <2>2. /\ x \in Position .. Position + full_bytes - 1 /\ x - Position \in 0 .. full_bytes - 1
        /\ x - req.offset \in done .. done + full_bytes - 1 /\ done + (x - Position) = x - req.offset
    BY <1>2, <1>3, <1>4, <2>1
  <2>3. Whole[x - Position] = buf[done + (x - Position)]
    BY <2>2 DEF Whole
  <2>4. QED
    BY <2>1, <2>2, <2>3
<1>7. QED
  BY <1>5, <1>6

LEMMA WriteWholeDInv ==
  ASSUME DInv, NEW success \in BOOLEAN, WriteWhole(success)
  PROVE  DInv'
<1>1. /\ FTypeOK /\ Stage /\ TypeInv /\ pc = "middle" /\ req.write /\ req \in Requests
      /\ UNCHANGED <<scenario, req, buf, cached_sector, sector_cache>>
  BY InTransfer DEF DInv, TypeInv, WriteWhole, Writing, cacheVars
<1>2. TypeInv'
  BY WriteTypeInv DEF DInv
<1>3. /\ Position \in Nat /\ full_bytes \in Nat /\ req.offset \in Nat /\ done \in Nat
      /\ req.size \in Nat /\ bytes_remaining \in Nat /\ full_bytes <= bytes_remaining
      /\ done + bytes_remaining = req.size
  BY <1>1, InTransfer, FullNow
<1>4. Position = req.offset + done
  BY DEF Position
<1>5. \A i \in 0 .. done - 1 : disk'[req.offset + i] = buf[i]
  <2>1. \A x \in Addresses : disk'[x] # disk[x] => x >= req.offset + done
    BY <1>3, <1>4, WriteWholeBytes
  <2>2. QED
    BY <1>1, <2>1, EarlierKept
<1>6. Transferred'
  <2>1. CASE success
    <3>1. done' = done + full_bytes
      BY <2>1 DEF WriteWhole, Advance
    <3>2. \A i \in 0 .. done' - 1 : i \in 0 .. done - 1 \/ i \in done .. done + full_bytes - 1
      BY <1>3, <3>1
    <3>3. \A i \in 0 .. done' - 1 : disk'[req.offset + i] = buf[i]
      BY <1>5, <2>1, <3>2, WriteWholeBytes
    <3>4. QED
      BY <1>1, <3>3 DEF Transferred
  <2>2. CASE ~success
    <3>1. done' = done
      BY <2>2 DEF WriteWhole
    <3>2. QED
      BY <1>1, <1>5, <3>1 DEF Transferred
  <2>3. QED
    BY <2>1, <2>2
<1>7. Cached'
  <2> SUFFICES ASSUME Calm, cached_sector # None
               PROVE  Sector(cached_sector)' = Sector(cached_sector)
    BY <1>1 DEF DInv, Cached, Calm, WholeSectors
  <2>1. cached_sector \in 0 .. SectorCount - 1 /\ cached_sector \notin WholeSectors(req)
    BY <1>1 DEF FTypeOK, DInv, Cached
  <2>2. ASSUME NEW i \in Offsets
        PROVE  disk'[cached_sector * SectorSize + i] = disk[cached_sector * SectorSize + i]
    <3> DEFINE x == cached_sector * SectorSize + i
               k == bytes_remaining \div SectorSize
    <3>1. x \in Addresses
      BY <2>1, SectorAddress
    <3>2. SUFFICES ASSUME x \in Position .. Position + full_bytes - 1
                   PROVE  FALSE
      BY <3>1, WriteWholeBytes
    <3>3. /\ k \in Nat /\ current_lba \in Nat /\ Position = current_lba * SectorSize
          /\ Position + full_bytes = (current_lba + k) * SectorSize
      BY <1>1, FullNow, InTransfer
    <3> HIDE DEF k
    <3>4. current_lba \in Int /\ current_lba + k \in Int /\ cached_sector \in Int
      BY <2>1, <3>3
    <3>5. current_lba * SectorSize <= x /\ x < (current_lba + k) * SectorSize
      BY <1>3, <3>2, <3>3
    <3>6. /\ current_lba * SectorSize <= cached_sector * SectorSize
          /\ (cached_sector + 1) * SectorSize <= (current_lba + k) * SectorSize
      BY <3>4, <3>5, WholeBetween
    <3>7. req.offset <= cached_sector * SectorSize
      <4>1. cached_sector * SectorSize \in Int
        BY <3>4, SectorOrder
      <4>2. QED
        BY <1>3, <1>4, <3>3, <3>6, <4>1
    <3>8. (cached_sector + 1) * SectorSize <= req.offset + req.size
      <4>1. (cached_sector + 1) * SectorSize \in Int
        BY <3>4, SectorOrder
      <4>2. Position + full_bytes <= req.offset + req.size
        BY <1>3, <1>4
      <4>3. QED
        BY <1>3, <3>3, <3>6, <4>1, <4>2
    <3>9. QED
      BY <2>1, <3>7, <3>8 DEF WholeSectors
  <2>3. QED
    BY <1>1, <2>2 DEF Sector
<1>8. QED
  BY <1>2, <1>6, <1>7 DEF DInv

LEMMA FinishDInv ==
  ASSUME DInv, Finish
  PROVE  DInv'
<1>1. TypeInv' /\ pc' = "idle" /\ UNCHANGED <<scenario, disk, cached_sector, sector_cache>>
  BY FinishTypeInv DEF DInv, Finish, cacheVars
<1>2. QED
  BY <1>1 DEF DInv, Transferred, Cached, Calm, Sector

LEMMA DataInvariant == FSpec => []DInv
<1>1. DInv /\ UNCHANGED fvars => DInv'
  BY DEF DInv, TypeInv, FTypeOK, Stage, Transferred, Cached, Calm, Sector, WholeSectors,
         lba_offset, bytes_remaining, current_lba, Position, fvars, cacheVars, call
<1>2. DInv /\ [FNext]_fvars => DInv'
  <2> SUFFICES ASSUME DInv, FNext
               PROVE  DInv'
    BY <1>1
  <2>1. CASE \E r \in Requests : Request(r)
    BY <2>1, RequestDInv
  <2>2. CASE Finish
    BY <2>2, FinishDInv
  <2>3. ASSUME NEW success \in BOOLEAN,
               \/ ReadPartial(success)
               \/ ReadWhole(success)
               \/ FillForWrite(success)
               \/ WritePartial(success)
               \/ WriteWhole(success)
        PROVE  DInv'
    BY <2>3, ReadPartialDInv, ReadWholeDInv, FillDInv, WritePartialDInv, WriteWholeDInv
  <2>4. QED
    BY <2>1, <2>2, <2>3 DEF FNext
<1>3. QED
  BY <1>2, InitDInv, PTL DEF FSpec

-----------------------------------------------------------------------------
(***************************************************************************)
(* What the layer promises libfatx                                         *)
(***************************************************************************)

\* Failed writes, of whatever sector and at whatever step, never leave bytes in the cache that
\* are not on the disk, as long as reads work and the cached sector is not overwritten whole.
THEOREM CacheCoherentHolds == FSpec => []CacheCoherent
<1>1. DInv => CacheCoherent
  BY DEF DInv, Cached, CacheCoherent
<1>2. QED
  BY <1>1, DataInvariant, PTL

\* Under the same conditions fatx_dev_read hands over the bytes of the disk, for every
\* position and length of the request in its sectors.
THEOREM ReadsTheDiskHolds == FSpec => []ReadsTheDiskWhenCalm
<1>1. DInv => ReadsTheDiskWhenCalm
  <2> SUFFICES ASSUME DInv, Calm, pc = "return", ~req.write
               PROVE  \A i \in DOMAIN buf : buf[i] = disk[req.offset + i]
    BY DEF ReadsTheDiskWhenCalm, ReadsTheDisk
  <2>1. DOMAIN buf = 0 .. done - 1
    BY DEF DInv, TypeInv, FTypeOK, Stage
  <2>2. QED
    BY <2>1 DEF DInv, Transferred
<1>2. QED
  BY <1>1, DataInvariant, PTL

\* What fatx_dev_write reports as written is on the disk, whatever reads and writes fail.
THEOREM WrittenWhenReportedHolds == FSpec => []WrittenWhenReported
<1>1. DInv => WrittenWhenReported
  <2> SUFFICES ASSUME DInv, pc = "return", req.write, items
               PROVE  \A i \in DOMAIN buf : disk[req.offset + i] = buf[i]
    BY DEF WrittenWhenReported
  <2>1. DOMAIN buf = 0 .. done - 1
    BY DEF DInv, TypeInv, FTypeOK, Stage
  <2>2. QED
    BY <2>1 DEF DInv, Transferred
<1>2. QED
  BY <1>1, DataInvariant, PTL

\* The byte a of the disk, if it changes, is one the request names and becomes what it brings.
Requested(a) ==
  disk'[a] # disk[a] => /\ req.write
                        /\ a \in req.offset .. req.offset + req.size - 1
                        /\ disk'[a] = buf[a - req.offset]

LEMMA PartialRequested ==
  ASSUME DInv, Calm, NEW success \in BOOLEAN, WritePartial(success), NEW a \in Addresses
  PROVE  Requested(a)
<1> SUFFICES ASSUME disk'[a] # disk[a]
             PROVE  /\ req.write
                    /\ a \in req.offset .. req.offset + req.size - 1
                    /\ disk'[a] = buf[a - req.offset]
  BY DEF Requested
<1>1. FTypeOK /\ Stage /\ TypeInv /\ pc \notin {"idle", "return"} /\ req.write
  BY DEF DInv, TypeInv, WritePartial, Writing
<1>2. PICK i \in Offsets : a = current_lba * SectorSize + i /\ disk'[a] = Merged[i]
  BY WritePartialBytes
<1>3. disk[current_lba * SectorSize + i] = sector_cache[i]
  BY WritePartialBytes
<1>4. Merged[i] # sector_cache[i]
  BY <1>2, <1>3
<1> DEFINE j == done + i - lba_offset
<1>5. j \in done .. done + chunk - 1 /\ Merged[i] = buf[j] /\ a = req.offset + j
  BY <1>1, <1>2, <1>4, MergedBytes
<1> HIDE DEF j
<1>6. j \in 0 .. req.size - 1 /\ req.offset \in Nat /\ req.size \in Nat
  BY <1>1, <1>5, PieceNow
<1>7. a - req.offset = j /\ a \in req.offset .. req.offset + req.size - 1
  BY <1>5, <1>6
<1>8. QED
  BY <1>1, <1>2, <1>5, <1>7

LEMMA WholeRequested ==
  ASSUME DInv, NEW success \in BOOLEAN, WriteWhole(success), NEW a \in Addresses
  PROVE  Requested(a)
<1> SUFFICES ASSUME disk'[a] # disk[a]
             PROVE  /\ req.write
                    /\ a \in req.offset .. req.offset + req.size - 1
                    /\ disk'[a] = buf[a - req.offset]
  BY DEF Requested
<1>1. FTypeOK /\ Stage /\ pc = "middle" /\ req.write
  BY DEF DInv, TypeInv, WriteWhole, Writing
<1>2. a - req.offset \in done .. done + full_bytes - 1 /\ disk'[a] = buf[a - req.offset]
  BY WriteWholeBytes
<1>3. /\ full_bytes \in Nat /\ full_bytes <= bytes_remaining /\ bytes_remaining \in Nat
      /\ done \in Nat /\ req.size \in Nat /\ done + bytes_remaining = req.size
      /\ req.offset \in Nat
  BY <1>1, InTransfer, FullNow
<1>4. a \in Int
  BY SizesNat DEF Addresses
<1>5. a \in req.offset .. req.offset + req.size - 1
  BY <1>2, <1>3, <1>4
<1>6. QED
  BY <1>1, <1>2, <1>5

\* A request changes no byte it does not name, not even one in the same sector and not when it
\* fails between two sectors, while reads work and the cached sector is not overwritten whole.
THEOREM OnlyTheRequestHolds == FSpec => OnlyTheRequest
<1>1. ASSUME DInv, [FNext]_fvars, Calm, NEW a \in Addresses
      PROVE  Requested(a)
  <2>1. disk' = disk \/ \E success \in BOOLEAN : WritePartial(success) \/ WriteWhole(success)
    BY <1>1 DEF FNext, Request, Finish, ReadPartial, ReadWhole, FillForWrite, fvars
  <2>2. QED
    BY <1>1, <2>1, PartialRequested, WholeRequested DEF Requested
<1>2. DInv /\ [FNext]_fvars =>
        [Calm => \A a \in Addresses :
           disk'[a] # disk[a] => /\ req.write
                                 /\ a \in req.offset .. req.offset + req.size - 1
                                 /\ disk'[a] = buf[a - req.offset]]_fvars
  BY <1>1 DEF Requested
<1>3. QED
  BY <1>2, DataInvariant, PTL DEF FSpec, OnlyTheRequest

=============================================================================
