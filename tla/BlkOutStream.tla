---------------------------- MODULE BlkOutStream ----------------------------
(***************************************************************************)
(* The block-device output stream of libs/libc/stream/lib_blkoutstream.c.  *)
(* It keeps one sector-sized cache and the write position nput. A sector   *)
(* that is partly written (nput % sectorsize > 0) lives in the cache until *)
(* a puts fills it, a seek leaves it, or flush/close writes it.            *)
(*                                                                         *)
(* The block driver is disk, an array of bytes. Its read and write         *)
(* callbacks move whole sectors, fail for sectors past geo_nsectors, and,  *)
(* when Faulty, may fail on any call. A failed read leaves the buffer as   *)
(* it was. In a call that makes several driver requests, the fault picks   *)
(* the request that fails (0 for none).                                    *)
(*                                                                         *)
(* The stream is used by one caller, so every call is one step.            *)
(***************************************************************************)
EXTENDS Integers, Sequences

CONSTANTS
    SectorSize,  \* geo.geo_sectorsize
    NSectors,    \* geo.geo_nsectors
    Bytes,       \* the values a byte may hold
    MaxLen,      \* longest buffer passed to puts
    SeekCalls,   \* the <<whence, offset>> arguments seek is called with
    Faulty       \* whether the driver may fail a request

ASSUME /\ SectorSize \in Nat \ {0} /\ NSectors \in Nat \ {0}
       /\ MaxLen \in Nat \ {0}
       /\ SeekCalls \subseteq {"SEEK_SET", "SEEK_CUR", "SEEK_END"} \X Int
       /\ Faulty \in BOOLEAN

VARIABLES
    nput,     \* self->nput
    cache,    \* stream->cache, one sector
    disk,     \* the device's content
    opened    \* stream->cache and stream->inode are set

vars == <<nput, cache, disk, opened>>

StreamSize == SectorSize * NSectors
Pos == 0..(StreamSize - 1)
CacheIdx == 0..(SectorSize - 1)

\* The driver requests one call can make, and so the fault numbers.
Faults == IF Faulty THEN 0..3 ELSE {0}

-----------------------------------------------------------------------------
(* The block driver.                                                       *)

\* Sector s of disk d, as a cache.
SectorOf(d, s) == [i \in CacheIdx |-> d[s * SectorSize + i]]

\* The cache as the buffer of a one-sector write.
CacheBuf(c) == [j \in 1..SectorSize |-> c[j - 1]]

\* d with the whole sectors in buffer b stored from sector start on.
WriteSectors(d, start, b) ==
    [i \in Pos |-> IF start * SectorSize <= i /\ i < start * SectorSize + Len(b)
                   THEN b[i - start * SectorSize + 1] ELSE d[i]]

\* Whether request number k of a call, for nsec sectors from start,
\* succeeds under fault f.
DevOk(start, nsec, k, f) == start + nsec <= NSectors /\ k # f

-----------------------------------------------------------------------------
(* blkoutstream_puts. The loop state is r: nput, the cache, the disk, the  *)
(* bytes not yet taken (buf), the driver requests made so far (ops), and   *)
(* whether a request has failed (err).                                     *)

\* write() of b from sector start, as request number r.ops + 1.
PutsWrite(r, start, b, f) ==
    LET ok == DevOk(start, Len(b) \div SectorSize, r.ops + 1, f)
    IN  [r EXCEPT !.ops = @ + 1, !.err = ~ok,
                  !.disk = IF ok THEN WriteSectors(@, start, b) ELSE @]

\* read() of sector s into the cache, as request number r.ops + 1.
PutsRead(r, s, f) ==
    LET ok == DevOk(s, 1, r.ops + 1, f)
    IN  [r EXCEPT !.ops = @ + 1, !.err = ~ok,
                  !.cache = IF ok THEN SectorOf(r.disk, s) ELSE @]

\* The cache with the first n bytes of buf copied in from index at on.
CopyIn(c, at, buf, n) ==
    [i \in CacheIdx |-> IF at <= i /\ i < at + n THEN buf[i - at + 1] ELSE c[i]]

\* Taking n bytes of buf: the copy is at the current offset, and nput moves.
Take(r, n) ==
    [r EXCEPT !.cache = CopyIn(@, r.nput % SectorSize, r.buf, n),
              !.nput = @ + n, !.buf = SubSeq(@, n + 1, Len(@))]

\* One pass of the while loop.
PutsStep(r, f) ==
    LET sector == r.nput \div SectorSize
        offset == r.nput % SectorSize
        remain == Len(r.buf)
        copying == IF offset + remain > SectorSize THEN SectorSize - offset
                   ELSE remain
    IN  IF offset > 0
        THEN LET r1 == Take(r, copying)
             IN  IF offset + copying = SectorSize
                 THEN PutsWrite(r1, sector, CacheBuf(r1.cache), f)
                 ELSE r1
        ELSE IF remain < SectorSize
        THEN LET r1 == PutsRead(r, sector, f)
             IN  IF r1.err THEN r1 ELSE Take(r1, remain)
        ELSE LET n  == (remain \div SectorSize) * SectorSize
                 r1 == PutsWrite(r, sector, SubSeq(r.buf, 1, n), f)
             IN  IF r1.err THEN r1
                 ELSE [r1 EXCEPT !.nput = @ + n, !.buf = SubSeq(@, n + 1, remain)]

RECURSIVE PutsLoop(_, _)
PutsLoop(r, f) ==
    IF r.err \/ r.buf = <<>> THEN r ELSE PutsLoop(PutsStep(r, f), f)

\* blkoutstream_puts(self, buf, len).
Puts(buf) ==
    /\ opened
    /\ \E f \in Faults :
          LET r == PutsLoop([nput |-> nput, cache |-> cache, disk |-> disk,
                             buf |-> buf, ops |-> 0, err |-> FALSE], f)
          IN  /\ nput' = r.nput
              /\ cache' = r.cache
              /\ disk' = r.disk
    /\ UNCHANGED opened

\* blkoutstream_putc(self, ch): a one-byte puts.
PutC(ch) == Puts(<<ch>>)

-----------------------------------------------------------------------------
(* blkoutstream_seek, blkoutstream_flush, open and close.                  *)

\* The offset seek computes from whence and offset.
SeekTarget(whence, off) ==
    CASE whence = "SEEK_SET" -> off
      [] whence = "SEEK_END" -> off + StreamSize
      [] whence = "SEEK_CUR" -> off + nput

\* A plausible bug in seek, for mutation testing of StreamRefinement: the
\* "Inside same sector" test includes the first byte of the next sector.
SameSectorInclusive(offset) ==
    LET sector == nput \div SectorSize
    IN  sector * SectorSize <= offset /\ offset <= (sector + 1) * SectorSize

\* The "Inside same sector" test of seek.
SameSector(offset) ==
    LET sector == nput \div SectorSize
    IN  sector * SectorSize <= offset /\ offset < (sector + 1) * SectorSize

\* A plausible bug in seek, for mutation testing of TypeOK: only negative
\* offsets are refused.
SeekInRangeNoUpper(offset) == 0 <= offset

\* The range test of seek: any other offset returns -EINVAL.
SeekInRange(offset) == 0 <= offset /\ offset <= StreamSize

\* blkoutstream_seek(self, offset, whence); an offset that fails the
\* range test changes nothing.
Seek(whence, off) ==
    LET offset == SeekTarget(whence, off)
        dirty  == nput % SectorSize # 0
        wr     == dirty /\ ~SameSector(offset)
        rd     == offset % SectorSize # 0 /\ ~(dirty /\ SameSector(offset))
    IN  /\ opened
        /\ SeekInRange(offset)
        /\ \E f \in Faults :
             LET wok   == ~wr \/ DevOk(nput \div SectorSize, 1, 1, f)
                 disk1 == IF wr /\ wok
                          THEN WriteSectors(disk, nput \div SectorSize, CacheBuf(cache))
                          ELSE disk
                 rok   == ~rd \/ DevOk(offset \div SectorSize, 1,
                                       IF wr THEN 2 ELSE 1, f)
             IN  /\ disk' = disk1
                 /\ cache' = IF rd /\ wok /\ rok
                             THEN SectorOf(disk1, offset \div SectorSize)
                             ELSE cache
                 /\ nput' = IF wok /\ rok THEN offset ELSE nput
        /\ UNCHANGED opened

\* The disk after blkoutstream_flush under fault f.
Flushed(f) ==
    IF nput % SectorSize > 0 /\ DevOk(nput \div SectorSize, 1, 1, f)
    THEN WriteSectors(disk, nput \div SectorSize, CacheBuf(cache))
    ELSE disk

Flush ==
    /\ opened
    /\ \E f \in Faults : disk' = Flushed(f)
    /\ UNCHANGED <<nput, cache, opened>>

\* lib_blkoutstream_close: flush, whose result is ignored, then free the
\* cache and release the driver.
Close ==
    /\ opened
    /\ \E f \in Faults : disk' = Flushed(f)
    /\ opened' = FALSE
    /\ UNCHANGED <<nput, cache>>

\* lib_blkoutstream_open on a driver with a valid geometry: the stream is
\* zeroed and a new, uninitialised cache is allocated.
Open ==
    /\ ~opened
    /\ opened' = TRUE
    /\ nput' = 0
    /\ cache' \in [CacheIdx -> Bytes]
    /\ UNCHANGED disk

Init ==
    /\ nput = 0
    /\ cache \in [CacheIdx -> Bytes]
    /\ disk \in [Pos -> Bytes]
    /\ opened = FALSE

Next ==
    \/ Open
    \/ \E n \in 1..MaxLen : \E buf \in [1..n -> Bytes] : Puts(buf)
    \/ \E ch \in Bytes : PutC(ch)
    \/ \E sc \in SeekCalls : Seek(sc[1], sc[2])
    \/ Flush
    \/ Close

Spec == Init /\ [][Next]_vars

-----------------------------------------------------------------------------
(* Properties.                                                             *)

TypeOK ==
    /\ nput \in 0..StreamSize
    /\ cache \in [CacheIdx -> Bytes]
    /\ disk \in [Pos -> Bytes]
    /\ opened \in BOOLEAN

\* The device as the caller sees it through the stream: the disk, with the
\* cache over the sector of nput while that sector is partly written.
View ==
    IF opened /\ nput % SectorSize > 0
    THEN WriteSectors(disk, nput \div SectorSize, CacheBuf(cache))
    ELSE disk

Stream == INSTANCE ByteStream WITH
    Size <- StreamSize, content <- View,
    pos <- IF opened THEN nput ELSE 0, isOpen <- opened

\* The stream implements ByteStream. Each puts stores its bytes at nput.
\* The three branches of the puts loop and the read-back of a partly
\* overwritten sector keep the old bytes around the new ones. A seek,
\* flush or close never changes what the caller sees: the partly written
\* sector is in the cache until it is written out. A driver error changes
\* at most the bytes of the failing call, never bytes that an earlier
\* call had accepted.
StreamRefinement == Stream!Spec

=============================================================================
