------------------------------- MODULE Fat32 -------------------------------
(***************************************************************************)
(* The read-only FAT32 driver (fs/fat32.c) on a GPT partition              *)
(* (fs/partition/gpt.c) of an ATA disk read by programmed I/O              *)
(* (drivers/block/virtio/vblk.c).                                          *)
(*                                                                         *)
(* One caller at a time runs in these files: nothing in them locks and     *)
(* nothing in the kernel calls them from two threads.  A routine that      *)
(* walks a cluster chain is a "job": it allocates its cluster buffer, then *)
(* takes one step per cluster, and any allocation or disk read may fail.   *)
(* Sizes are those of the code divided by a common scale: a sector is      *)
(* SECTOR bytes, a FAT entry FAT_ENTRY bytes.  A job that writes past its  *)
(* memory, or whose result depends on memory nothing was written to, goes  *)
(* no further: what the machine does then is not modelled.                 *)
(***************************************************************************)
EXTENDS Integers, Sequences, FiniteSets, SequencesExt

CONSTANTS
  Images,         \* the disks a machine may boot with: name -> sectors
  CyclicImages,   \* those with a cluster chain that never ends
  SECTOR,         \* 512
  MAX_SECTOR,     \* 4096, the largest sector size fat32_mount accepts
  FAT_ENTRY,      \* 4
  FAT28,          \* 2^28: the defined bits of a FAT entry
  U8, U32, U64,   \* 2^8, 2^32, 2^64
  ATA_MAX,        \* 255 sectors of one transfer
  LBA28,          \* 2^28 addressable sectors
  LFN_MAX_SLOTS,  \* 20
  NAME_MAX,       \* 255, the longest name of the virtual file system
  FAT32_NAME_MAX, \* 256, the bytes for a name in a fat32_dirent_t
  DIRENT_SIZE,    \* 280, the bytes of a fat32_dirent_t, which begins with them
  Utf8,           \* the bytes of every character that needs two or three
  Lower,          \* ASCII lower case of every character that has one
  Code,           \* the byte of every character of an 8.3 name
  MAX_BLOCKS,     \* blocks the heap can hold
  NULL

VARIABLES
  image,          \* the disk of this machine
  ata_ready,      \* g_ata_ready
  partitions,     \* partitions[0 .. partition_count - 1], from 1
  vol,            \* the volume fat32_mount filled in, NULL before
  heap,           \* blocks allocated, as <<kind, owner>>
  job,            \* the chain walk in progress
  faulted         \* whether an allocation or a read failed in this call

fat_vars == <<image, ata_ready, partitions, vol, heap, job, faulted>>

FAT32_BAD == FAT28 - 9
FAT32_EOC == FAT28 - 8

Least(a, b) == IF a < b THEN a ELSE b

-----------------------------------------------------------------------------
(* The disk and the partition table. *)

disk == Images[image]

\* Whether a transfer of count sectors from sector on passes the driver's
\* checks and lies on the drive, which reports an error for other sectors.
VirtioBlkReads(sector, count) ==
  /\ ata_ready
  /\ count \in 1 .. ATA_MAX
  /\ sector < LBA28
  /\ \A i \in 0 .. count - 1 : sector + i \in DOMAIN disk

VirtioBlkRead(sector, count) ==
  FlattenSeq([i \in 1 .. count |-> disk[sector + i - 1]])

\* virtio_blk_init: a missing, silent or ATAPI drive leaves the driver not
\* ready.
VirtioBlkInit(ok) == ata_ready' = ok

NumSectors(p) == (p.end_lba - p.start_lba + 1) % U64

\* gpt_init: the header is sector 1, the entries start at sector 2; an entry
\* whose type is zero is skipped.
GptInit(ok) ==
  LET found == /\ ok /\ VirtioBlkReads(1, 1)
               /\ disk[1][1].signature /\ VirtioBlkReads(2, 1)
      listed == SubSeq(disk[2], 1, disk[1][1].num_entries)
  IN partitions' = IF found THEN SelectSeq(listed, LAMBDA e : e.type # 0)
                            ELSE partitions

\* gpt_read_partition_sectors: the bounds check, then the transfer.
ReadsSectors(index, lba, count) ==
  /\ index \in 0 .. Len(partitions) - 1
  /\ (lba + count) % U64 <= NumSectors(partitions[index + 1])
  /\ VirtioBlkReads(partitions[index + 1].start_lba + lba, count)

ReadSectors(index, lba, count) ==
  VirtioBlkRead(partitions[index + 1].start_lba + lba, count)

-----------------------------------------------------------------------------
(* The volume: the boot record, the FAT and the clusters. *)

PowersOfTwo == {2^i : i \in 0 .. 8}

\* The checks of fat32_mount on the boot record b.
ValidBpb(b) ==
  /\ b.signature /\ ~b.fat16 /\ b.fat_size # 0 /\ b.version = 0
  /\ b.bps \in SECTOR .. MAX_SECTOR /\ b.bps \in PowersOfTwo
  /\ b.spc \in PowersOfTwo

DataStart(b) == b.reserved + b.num_fats * b.fat_size

VolOf(index, b) ==
  [index |-> index, bps |-> b.bps, spc |-> b.spc,
   bytes_per_cluster |-> b.bps * b.spc,
   fat_start |-> b.reserved, data_start |-> DataStart(b),
   root |-> b.root,
   cluster_count |->
     (((b.total_sectors - DataStart(b)) % U64) \div b.spc) % U32]

\* fat32_mount
Fat32Mount(index, ok) ==
  LET reads == ok /\ ReadsSectors(index, 0, 1)
      b == ReadSectors(index, 0, 1)[1]
  IN vol' = IF reads /\ ValidBpb(b) THEN VolOf(index, b) ELSE vol

\* fat32_read_fat_entry, which answers FAT32_BAD when the read fails.
FatSector(cluster) == vol.fat_start + cluster \div (vol.bps \div FAT_ENTRY)

fat32_read_fat_entry(cluster, ok) ==
  IF /\ vol.bps <= SECTOR
     /\ ok /\ ReadsSectors(vol.index, FatSector(cluster), 1)
  THEN ReadSectors(vol.index, FatSector(cluster), 1)
         [(cluster % (vol.bps \div FAT_ENTRY)) + 1] % FAT28
  ELSE FAT32_BAD

cluster_to_lba(cluster) == vol.data_start + (cluster - 2) * vol.spc

\* fat32_read_cluster; cluster_count + 1 is a uint32_t.
ReadsCluster(cluster) ==
  /\ cluster \in 2 .. (vol.cluster_count + 1) % U32
  /\ ReadsSectors(vol.index, cluster_to_lba(cluster), vol.spc)

\* What is then in the cluster buffer: sectors are read SECTOR bytes each, so
\* that of larger ones the rest of the buffer is what kmalloc returned.
Unknown == [kind |-> "unknown"]

ReadCluster(cluster) ==
  ReadSectors(vol.index, cluster_to_lba(cluster), vol.spc)
    \o [i \in 1 .. (vol.bps - SECTOR) * vol.spc |-> Unknown]

-----------------------------------------------------------------------------
(* Directory entries.  A raw entry is "end" (first byte 0), "deleted" (first *)
(* byte E5), "label", "lfn" or "short".                                      *)

tolower(s) ==
  [i \in DOMAIN s |-> IF s[i] \in DOMAIN Lower THEN Lower[s[i]] ELSE s[i]]

fat32_name_equal_ci(a, b) == tolower(a) = tolower(b)

\* lfn_checksum: a rotating sum of the eleven bytes.
lfn_checksum(name11) ==
  LET add(s, c) == ((s % 2) * (U8 \div 2) + s \div 2 + Code[c]) % U8
      sum[i \in 0 .. Len(name11)] ==
        IF i = 0 THEN 0 ELSE add(sum[i - 1], name11[i])
  IN sum[Len(name11)]

\* build_83_name: trailing blanks go, letters become lower case.
Stripped(s) ==
  LET last == CHOOSE n \in 0 .. Len(s) :
                /\ \A i \in n + 1 .. Len(s) : s[i] = " "
                /\ n > 0 => s[n] # " "
  IN SubSeq(s, 1, last)

build_83_name(raw) ==
  tolower(Stripped(raw.base)
          \o (IF Stripped(raw.ext) = <<>> THEN <<>>
              ELSE <<".">> \o Stripped(raw.ext)))

\* lfn_state_t; every invalid accumulator is this one.
NoLfn == [valid |-> FALSE, name |-> <<>>, slots |-> 0, expected |-> 0, sum |-> 0]

\* lfn_push: the part is put before what has been collected.
lfn_push(lfn, raw) ==
  IF lfn.slots + 1 > LFN_MAX_SLOTS THEN NoLfn
  ELSE [lfn EXCEPT !.name = raw.part \o @, !.slots = @ + 1,
                   !.expected = (@ - 1) % U8]

\* The accumulator after a raw entry.
LfnAfter(lfn, raw) ==
  LET opened == IF raw.last
                THEN [NoLfn EXCEPT !.valid = TRUE, !.expected = raw.seq,
                                   !.sum = raw.sum]
                ELSE lfn
  IN IF raw.kind # "lfn" THEN NoLfn
     ELSE IF opened.valid /\ raw.seq = opened.expected
          THEN lfn_push(opened, raw)
          ELSE NoLfn

utf16le_to_utf8(units) ==
  FlattenSeq([i \in DOMAIN units |->
                IF units[i] \in DOMAIN Utf8 THEN Utf8[units[i]] ELSE <<units[i]>>])

\* The long name when it is complete and belongs to this 8.3 entry.
NameOf(lfn, raw) ==
  IF /\ lfn.valid /\ lfn.slots > 0 /\ lfn.expected = 0
     /\ lfn_checksum(raw.base \o raw.ext) = lfn.sum
  THEN utf16le_to_utf8(lfn.name)
  ELSE build_83_name(raw)

\* A name as a reader of the entry finds it.  When it leaves no room for its
\* NUL, the attributes, which are written after it, follow it at once; they
\* are not 0 here, and no character of a path.
InDirent(name) ==
  IF Len(name) < FAT32_NAME_MAX THEN name
  ELSE SubSeq(name, 1, FAT32_NAME_MAX) \o <<"attributes">>

\* fat32_dirent_t
DirentOf(lfn, raw) ==
  [name |-> InDirent(NameOf(lfn, raw)), dir |-> raw.dir,
   cluster |-> raw.cluster, size |-> raw.size]

RootDirent ==
  [name |-> <<"/">>, dir |-> TRUE, cluster |-> vol.root, size |-> 0]

-----------------------------------------------------------------------------
(* Jobs: fat32_read_dir, fat32_lookup, fat32_readdir_index and             *)
(* fat32_read_file_at.  job.rc is "start", "run" and then the outcome.     *)

NoJob == [kind |-> "none", rc |-> "none"]

DirJob(kind, cluster, arg) ==
  [kind |-> kind, rc |-> "start", at |-> cluster, arg |-> arg,
   lfn |-> NoLfn, out |-> <<>>, seen |-> 0, done |-> FALSE]

FileJob(cluster, size, offset, len) ==
  [kind |-> "read_at", rc |-> "start", at |-> cluster, out |-> <<>>,
   skip |-> offset, size |-> size, want |-> len]

Lost == job.rc \in {"overrun", "unknown"}
Ended == job.rc \notin {"none", "start", "run"} /\ ~Lost
ClusterBuf == <<"cluster", <<>>>>

\* Whether a name and its NUL end beyond the entries there is memory for: the
\* rest of the caller's array, or the one entry of fat32_iter_dir.  The other
\* fields are written after the name, and the entries that follow after this
\* one, so that a name within them only loses its NUL.
Overruns(j, name) ==
  Len(name) + 1 > DIRENT_SIZE * (IF j.kind = "read_dir" THEN j.arg - Len(j.out) ELSE 1)

\* What an entry does to a scan: process_dir_cluster keeps the first arg
\* entries; the callbacks of fat32_iter_dir stop at the entry they want.
ScanEntry(j, raw) ==
  LET ent == DirentOf(j.lfn, raw)
      next == [j EXCEPT !.lfn = LfnAfter(j.lfn, raw)]
      hit == \/ j.kind = "lookup" /\ fat32_name_equal_ci(ent.name, j.arg)
             \/ j.kind = "index" /\ j.seen = j.arg
  IN CASE j.done -> j
       [] ~j.done /\ raw.kind = "end" -> [j EXCEPT !.done = TRUE]
       [] ~j.done /\ raw.kind \in {"deleted", "label", "lfn"} -> next
       [] ~j.done /\ raw.kind = "unknown" -> [j EXCEPT !.done = TRUE, !.rc = "unknown"]
       [] ~j.done /\ raw.kind = "short" ->
            IF j.kind = "read_dir" /\ Len(j.out) >= j.arg THEN next
            ELSE IF Overruns(j, NameOf(j.lfn, raw))
                 THEN [j EXCEPT !.done = TRUE, !.rc = "overrun"]
            ELSE IF j.kind = "read_dir" THEN [next EXCEPT !.out = Append(@, ent)]
            ELSE IF hit THEN [next EXCEPT !.out = <<ent>>, !.done = TRUE]
                 ELSE IF j.kind = "index" THEN [next EXCEPT !.seen = @ + 1]
                      ELSE next

\* The entries of a cluster in turn (\in makes TLC evaluate each step once).
ScanCluster(j, raws) ==
  LET scan[i \in 0 .. Len(raws)] ==
        IF i = 0 THEN j
        ELSE CHOOSE after \in {ScanEntry(s, raws[i]) : s \in {scan[i - 1]}} : TRUE
  IN scan[Len(raws)]

\* The end of a job: the cluster buffer is freed.
FinishJob(j, rc) ==
  /\ job' = [j EXCEPT !.rc = rc]
  /\ heap' = heap \ {ClusterBuf}

\* The checks before the loop, and the allocation of the cluster buffer.
JobRefused ==
  CASE job.kind \in {"lookup", "index"} /\ job.at < 2 -> "INVAL"
    [] job.kind = "read_at" /\ (job.skip >= job.size \/ job.want = 0) -> "OK"
    [] job.kind = "read_at" /\ job.skip < job.size /\ job.want > 0 /\ job.at < 2
         -> "IO"
    [] OTHER -> "none"

\* The code of a failed allocation; fat32_read_dir only answers false.
NoBuffer == IF job.kind = "read_dir" THEN "IO" ELSE "NOMEM"

Clamped(j) ==
  IF j.kind = "read_at" THEN [j EXCEPT !.want = Least(@, j.size - j.skip)]
  ELSE j

JobStart(ok) ==
  /\ job.rc = "start"
  /\ IF JobRefused # "none"
     THEN /\ ok
          /\ job' = [job EXCEPT !.rc = JobRefused]
          /\ heap' = heap
     ELSE IF ok /\ Cardinality(heap) < MAX_BLOCKS
     THEN /\ heap' = heap \cup {ClusterBuf}
          /\ job' = [Clamped(job) EXCEPT !.rc = "run"]
     ELSE /\ heap' = heap
          /\ job' = [job EXCEPT !.rc = NoBuffer]
  /\ faulted' = (faulted \/ job'.rc = NoBuffer)

\* One cluster of a directory: fat32_read_dir and fat32_iter_dir.
DirStep(clusterOk, fatOk) ==
  /\ job.rc = "run" /\ job.kind # "read_at"
  /\ fatOk \/ clusterOk
  /\ faulted' = (faulted \/ ~clusterOk \/ ~fatOk)
  /\ IF job.at < 2 \/ job.at >= FAT32_BAD
     THEN clusterOk /\ fatOk /\ FinishJob(job, "OK")
     ELSE IF ~clusterOk \/ ~ReadsCluster(job.at)
     THEN fatOk /\ FinishJob(job, "IO")
     ELSE \E after \in {ScanCluster(job, raws) : raws \in {ReadCluster(job.at)}},
             next \in {fat32_read_fat_entry(job.at, fatOk)} :
            IF after.rc # "run" THEN fatOk /\ job' = after /\ heap' = heap
            ELSE IF after.done THEN fatOk /\ FinishJob(after, "OK")
            ELSE IF next = FAT32_BAD THEN FinishJob(after, "IO")
            ELSE job' = [after EXCEPT !.at = next] /\ heap' = heap

\* One cluster skipped or copied by fat32_read_file_at.
SkipStep(fatOk) ==
  LET next == fat32_read_fat_entry(job.at, fatOk)
  IN /\ job.rc = "run" /\ job.kind = "read_at"
     /\ job.skip >= vol.bytes_per_cluster
     /\ faulted' = (faulted \/ ~fatOk)
     /\ CASE next = FAT32_BAD -> FinishJob(job, "IO")
          [] next >= FAT32_EOC -> FinishJob(job, "OK")
          [] next < FAT32_BAD ->
               /\ job' = [job EXCEPT !.at = next,
                                     !.skip = @ - vol.bytes_per_cluster]
               /\ heap' = heap

\* What memcpy takes of a cluster.
Chunk(bytes) ==
  SubSeq(bytes, job.skip + 1, Least(Len(bytes), job.skip + job.want))

CopyStep(clusterOk, fatOk) ==
  LET read == clusterOk /\ ReadsCluster(job.at)
      chunk == Chunk(ReadCluster(job.at))
      after == [job EXCEPT !.out = @ \o chunk, !.want = @ - Len(chunk),
                           !.skip = 0]
      next == fat32_read_fat_entry(job.at, fatOk)
  IN /\ job.rc = "run" /\ job.kind = "read_at"
     /\ job.skip < vol.bytes_per_cluster
     /\ fatOk \/ clusterOk
     /\ faulted' = (faulted \/ ~clusterOk \/ ~fatOk)
     /\ IF job.at < 2 \/ job.at >= FAT32_EOC
        THEN clusterOk /\ fatOk /\ FinishJob(job, "OK")
        ELSE IF ~read THEN fatOk /\ FinishJob(job, "IO")
        ELSE IF after.want = 0 THEN fatOk /\ FinishJob(after, "OK")
        ELSE IF next = FAT32_BAD THEN FinishJob(after, "IO")
        ELSE IF next >= FAT32_EOC THEN FinishJob(after, "OK")
        ELSE job' = [after EXCEPT !.at = next] /\ heap' = heap

JobStep ==
  /\ \/ \E ok \in BOOLEAN : JobStart(ok) \/ SkipStep(ok)
     \/ \E c, f \in BOOLEAN : DirStep(c, f) \/ CopyStep(c, f)
  /\ UNCHANGED <<image, ata_ready, partitions, vol>>
=============================================================================
