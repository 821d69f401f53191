------------------------------ MODULE FatxDev ------------------------------
(***************************************************************************)
(* The device layer under libfatx, the last part of src/fs_io/fatx.c: a    *)
(* disk of bytes made of a disk of sectors.  Pieces of sectors at the two  *)
(* ends of a request go through a cache of one sector, the whole sectors   *)
(* in between go directly to the device.  Each call of the device is a     *)
(* step and may fail.  libfatx seeks before every request, and the volume's*)
(* mutex keeps requests apart (but see LockedSerial of FileIO).            *)
(***************************************************************************)
EXTENDS Integers

CONSTANTS
  SectorSize,  \* the bytes of a sector
  SectorCount, \* the sectors of the device
  Bytes,       \* the values of a byte
  Requests,    \* what libfatx asks for: positions, lengths and data
  Scenarios,   \* what may happen
  None         \* CACHE_INVALID, no request

ASSUME FatxDevAssumption ==
  /\ SectorSize \in Nat \ {0} /\ SectorCount \in Nat \ {0}
  /\ None \notin 0 .. SectorCount - 1
  /\ None \notin Requests
  /\ \A r \in Requests :
       /\ r.write \in BOOLEAN /\ r.offset \in Nat /\ r.size \in Nat \ {0}
       /\ r.offset + r.size <= SectorSize * SectorCount
       /\ r.data \in [0 .. r.size - 1 -> Bytes]
  /\ Scenarios \subseteq [readErrors : BOOLEAN,  \* the device may fail to read
                          writeErrors : BOOLEAN, \* it may fail to write
                          rewrites : BOOLEAN]    \* the cached sector is overwritten whole

VARIABLES
  scenario,
  disk,           \* the bytes of the device
  cached_sector,  \* the sector whose bytes the cache has, None if it has none
  sector_cache,   \* the cache
  pc,             \* where fatx_dev_read or fatx_dev_write is
  req,            \* the request
  buf,            \* the bytes handed to or by libfatx
  done,           \* how many have been transferred: buf8 - buf
  items           \* the return value: did the call report success

cacheVars == <<cached_sector, sector_cache>>
call == <<req, buf, done, items>>
fvars == <<scenario, disk, cacheVars, pc, call>>

Offsets == 0 .. SectorSize - 1
Addresses == 0 .. SectorSize * SectorCount - 1

Minimum(a, b) == IF a < b THEN a ELSE b

\* The address of the next byte, its sector, and its place in the sector.
Position == req.offset + done
current_lba == Position \div SectorSize
lba_offset == Position % SectorSize
bytes_remaining == req.size - done

\* The bytes of sector s on the device.
Sector(s) == [i \in Offsets |-> disk[s * SectorSize + i]]

\* The piece of the current sector a step transfers.
chunk == Minimum(bytes_remaining, SectorSize - lba_offset)

full_bytes == (bytes_remaining \div SectorSize) * SectorSize

\* What is left to do: whole sectors, the rest, nothing.
Then(left) ==
  pc' = IF left >= SectorSize THEN "middle" ELSE IF left > 0 THEN "last" ELSE "return"

Return(success) == pc' = "return" /\ items' = success

-----------------------------------------------------------------------------
(***************************************************************************)
(* The device: a sector is written whole or not at all, and a failed       *)
(* transfer may have done its work nevertheless.                           *)
(***************************************************************************)

\* Read a sector into the cache.
LoadSector(success) ==
  /\ success \/ scenario.readErrors
  /\ \/ sector_cache' = Sector(current_lba)
     \/ ~success /\ UNCHANGED sector_cache

\* Write the first n bytes of contents to whole sectors from address a on.
Stored(a, n, contents) ==
  [x \in Addresses |-> IF x \in a .. a + n - 1 THEN contents[x - a] ELSE disk[x]]

StoreSectors(success, a, n, contents) ==
  IF success THEN disk' = Stored(a, n, contents)
  ELSE /\ scenario.writeErrors
       /\ \E k \in 0 .. n \div SectorSize : disk' = Stored(a, k * SectorSize, contents)

-----------------------------------------------------------------------------
(***************************************************************************)
(* fatx_dev_seek, then fatx_dev_read or fatx_dev_write                     *)
(***************************************************************************)

\* The sectors a request transfers whole.
WholeSectors(r) ==
  {s \in 0 .. SectorCount - 1 :
     r.offset <= s * SectorSize /\ (s + 1) * SectorSize <= r.offset + r.size}

Request(r) ==
  /\ pc = "idle"
  /\ scenario.rewrites \/ ~r.write \/ cached_sector \notin WholeSectors(r)
  /\ req' = r
  /\ buf' = r.data
  /\ done' = 0
  /\ items' = FALSE
  /\ IF r.offset % SectorSize # 0 THEN pc' = "first" ELSE Then(r.size)
  /\ UNCHANGED <<scenario, disk, cacheVars>>

Finish ==
  /\ pc = "return"
  /\ pc' = "idle"
  /\ req' = None
  /\ buf' = [i \in {} |-> None]
  /\ done' = 0
  /\ items' = FALSE
  /\ UNCHANGED <<scenario, disk, cacheVars>>

-----------------------------------------------------------------------------
(***************************************************************************)
(* fatx_dev_read                                                           *)
(***************************************************************************)

Reading(where) == pc \in where /\ ~req.write

\* Every read reports success.
Advance(n) ==
  /\ done' = done + n
  /\ Then(bytes_remaining - n)
  /\ items' = (bytes_remaining = n)

\* Fault: the chunk is not cut at the end of the request.
ReadPartial_TooLong(success) ==
  /\ Reading({"first", "last"})
  /\ IF cached_sector = current_lba THEN success /\ UNCHANGED cacheVars
     ELSE LoadSector(success) /\ cached_sector' = current_lba
  /\ buf' = [i \in DOMAIN buf |-> IF i \in done .. done + chunk - 1
                                  THEN sector_cache'[lba_offset + i - done] ELSE buf[i]]
  /\ Advance(SectorSize - lba_offset)
  /\ UNCHANGED <<scenario, disk, req>>

\* Fault: whatever the cache holds is taken for the sector.
ReadPartial_AnySector(success) ==
  /\ Reading({"first", "last"})
  /\ IF cached_sector # None THEN success /\ UNCHANGED cacheVars
     ELSE LoadSector(success) /\ cached_sector' = current_lba
  /\ buf' = [i \in DOMAIN buf |-> IF i \in done .. done + chunk - 1
                                  THEN sector_cache'[lba_offset + i - done] ELSE buf[i]]
  /\ Advance(chunk)
  /\ UNCHANGED <<scenario, disk, req>>

\* A piece of a sector comes from the cache, which is filled first if it has another one;
\* whether that worked is not looked at.
ReadPartial(success) ==
  /\ Reading({"first", "last"})
  /\ IF cached_sector = current_lba THEN success /\ UNCHANGED cacheVars
     ELSE LoadSector(success) /\ cached_sector' = current_lba
  /\ buf' = [i \in DOMAIN buf |-> IF i \in done .. done + chunk - 1
                                  THEN sector_cache'[lba_offset + i - done] ELSE buf[i]]
  /\ Advance(chunk)
  /\ UNCHANGED <<scenario, disk, req>>

\* Whole sectors go to the caller's buffer; this error is not looked at either.
ReadWhole(success) ==
  /\ Reading({"middle"})
  /\ success \/ scenario.readErrors
  /\ \/ buf' = [i \in DOMAIN buf |-> IF i \in done .. done + full_bytes - 1
                                     THEN disk[req.offset + i] ELSE buf[i]]
     \/ ~success /\ UNCHANGED buf
  /\ Advance(full_bytes)
  /\ UNCHANGED <<scenario, disk, cacheVars, req>>

-----------------------------------------------------------------------------
(***************************************************************************)
(* fatx_dev_write                                                          *)
(***************************************************************************)

Writing(where) == pc \in where /\ req.write

\* Fault: the sector is not read before a piece of it is replaced.
FillForWrite_NoRead(success) ==
  /\ Writing({"first", "last"})
  /\ success
  /\ cached_sector' = current_lba
  /\ pc' = IF pc = "first" THEN "first_store" ELSE "last_store"
  /\ UNCHANGED <<scenario, disk, sector_cache, call>>

\* Have the sector in the cache; when it cannot be read nothing is written.
FillForWrite(success) ==
  /\ Writing({"first", "last"})
  /\ IF cached_sector = current_lba THEN success /\ UNCHANGED cacheVars
     ELSE /\ LoadSector(success)
          /\ cached_sector' = IF success THEN current_lba ELSE cached_sector
  /\ IF success THEN pc' = (IF pc = "first" THEN "first_store" ELSE "last_store") /\ UNCHANGED items
     ELSE Return(FALSE)
  /\ UNCHANGED <<scenario, disk, req, buf, done>>

\* The cache with the piece of the request in it.
Merged ==
  [i \in Offsets |-> IF i \in lba_offset .. lba_offset + chunk - 1
                     THEN buf[done + i - lba_offset] ELSE sector_cache[i]]

\* Fault: the cache stays valid when the sector could not be written.
WritePartial_KeepCache(success) ==
  /\ Writing({"first_store", "last_store"})
  /\ sector_cache' = Merged
  /\ StoreSectors(success, current_lba * SectorSize, SectorSize, Merged)
  /\ IF success THEN Advance(chunk) ELSE Return(FALSE) /\ UNCHANGED done
  /\ UNCHANGED <<scenario, cached_sector, req, buf>>

\* Replace the piece and write the sector back; a failure leaves the cache invalid.
WritePartial(success) ==
  /\ Writing({"first_store", "last_store"})
  /\ sector_cache' = Merged
  /\ StoreSectors(success, current_lba * SectorSize, SectorSize, Merged)
  /\ IF success THEN Advance(chunk) /\ UNCHANGED cached_sector
     ELSE Return(FALSE) /\ cached_sector' = None /\ UNCHANGED done
  /\ UNCHANGED <<scenario, req, buf>>

\* Fault: whether the whole sectors were written is not looked at.
WriteWhole_NoCheck(success) ==
  /\ Writing({"middle"})
  /\ StoreSectors(success, Position, full_bytes, [i \in 0 .. full_bytes - 1 |-> buf[done + i]])
  /\ Advance(full_bytes)
  /\ UNCHANGED <<scenario, cacheVars, req, buf>>

\* Whole sectors go to the device; the cache may have had one of them.
WriteWhole(success) ==
  /\ Writing({"middle"})
  /\ StoreSectors(success, Position, full_bytes, [i \in 0 .. full_bytes - 1 |-> buf[done + i]])
  /\ IF success THEN Advance(full_bytes) ELSE Return(FALSE) /\ UNCHANGED done
  /\ UNCHANGED <<scenario, cacheVars, req, buf>>

-----------------------------------------------------------------------------
FInit ==
  /\ scenario \in Scenarios
  /\ disk \in [Addresses -> Bytes]
  /\ cached_sector = None
  /\ sector_cache \in [Offsets -> Bytes]
  /\ pc = "idle"
  /\ req = None
  /\ buf = [i \in {} |-> None]
  /\ done = 0
  /\ items = FALSE

FNext ==
  \/ \E r \in Requests : Request(r)
  \/ Finish
  \/ \E success \in BOOLEAN :
       \/ ReadPartial(success)
       \/ ReadWhole(success)
       \/ FillForWrite(success)
       \/ WritePartial(success)
       \/ WriteWhole(success)

FSpec == FInit /\ [][FNext]_fvars

-----------------------------------------------------------------------------
(***************************************************************************)
(* Properties                                                              *)
(***************************************************************************)

\* The types of the volume's extra data and of the two functions' locals; a transfer never
\* goes past the end of the caller's buffer.
FTypeOK ==
  /\ scenario \in Scenarios
  /\ disk \in [Addresses -> Bytes]
  /\ cached_sector \in 0 .. SectorCount - 1 \cup {None}
  /\ sector_cache \in [Offsets -> Bytes]
  /\ pc \in {"idle", "first", "middle", "last", "first_store", "last_store", "return"}
  /\ req \in Requests \cup {None}
  /\ items \in BOOLEAN
  /\ IF pc = "idle" THEN req = None
     ELSE req \in Requests /\ done \in 0 .. req.size /\ buf \in [0 .. req.size - 1 -> Bytes]

\* No read fails, and no request overwrites the cached sector whole.
Calm == ~scenario.readErrors /\ ~scenario.rewrites

\* Between requests the cache has the bytes of its sector, also after failed writes.
CacheCoherent == Calm /\ pc = "idle" /\ cached_sector # None => sector_cache = Sector(cached_sector)

\* The bytes a read hands over are those on the disk.
ReadsTheDisk ==
  pc = "return" /\ ~req.write => \A i \in DOMAIN buf : buf[i] = disk[req.offset + i]

ReadsTheDiskWhenCalm == Calm => ReadsTheDisk

\* A write that reports success is on the disk, whatever failed before.
WrittenWhenReported ==
  pc = "return" /\ req.write /\ items => \A i \in DOMAIN buf : disk[req.offset + i] = buf[i]

\* A request changes no byte but those it names, and changes them to what it brings, even
\* when it fails half way.
OnlyTheRequest ==
  [][Calm => \A a \in Addresses :
       disk'[a] # disk[a] => /\ req.write
                             /\ a \in req.offset .. req.offset + req.size - 1
                             /\ disk'[a] = buf[a - req.offset]]_fvars

=============================================================================
