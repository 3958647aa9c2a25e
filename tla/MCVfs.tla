------------------------------- MODULE MCVfs -------------------------------
(***************************************************************************)
(* Small disks for module Vfs.  A sector holds four FAT entries, two       *)
(* directory entries or eight bytes.                                       *)
(***************************************************************************)
EXTENDS Vfs

Chars == {"d", "x", "g", "D", "X", "G", "~", ".", " "}
\* One character of two bytes and one of three.
MCUtf8 == ("v" :> <<"v1", "v2">>) @@ ("w" :> <<"w1", "w2", "w3">>)
MCLower == [c \in {"D", "X", "G"} |-> CASE c = "D" -> "d" [] c = "X" -> "x"
                                       [] c = "G" -> "g"]
MCCode == [c \in Chars |-> CASE c = "D" -> 68 [] c = "X" -> 88 [] c = "G" -> 71
                             [] c = "~" -> 126 [] c = "." -> 46 [] c = " " -> 32
                             [] OTHER -> 97]

End == [kind |-> "end"]
Deleted == [kind |-> "deleted"]
Label == [kind |-> "label"]
Entry(base, dir, cluster, size) ==
  [kind |-> "short", base |-> base, ext |-> <<" ">>, dir |-> dir,
   cluster |-> cluster, size |-> size]
Long(seq, last, part, base) ==
  [kind |-> "lfn", seq |-> seq, last |-> last, part |-> part,
   sum |-> lfn_checksum(base \o <<" ">>)]

File(base, cluster, size) == Entry(base, FALSE, cluster, size)
Dir(base, cluster) == Entry(base, TRUE, cluster, 0)

Bytes(k) == [i \in 1 .. 8 |-> 8 * k + i]

Eoc == FAT28 - 1
Bpb == [signature |-> TRUE, fat16 |-> FALSE, fat_size |-> 3, version |-> 0,
        bps |-> 8, spc |-> 1, reserved |-> 1, num_fats |-> 1, root |-> 2,
        total_sectors |-> 12]

Header == [signature |-> TRUE, num_entries |-> 2]
Part(type, first, last) == [type |-> type, start_lba |-> first, end_lba |-> last]

\* A disk whose partition starts at sector 4: the boot record, three sectors
\* of FAT and the clusters from 2 on.
Disk(header, parts, bpb, fat, sectors) ==
  (1 :> <<header>>) @@ (2 :> parts) @@ (4 :> <<bpb>>)
  @@ [s \in 5 .. 7 |-> SubSeq(fat, 4 * (s - 5) + 1, 4 * (s - 5) + 4)]
  @@ [s \in 8 .. 7 + Len(sectors) |-> sectors[s - 7]]

Parts == <<Part(0, 0, 0), Part(1, 4, 15)>>

\* The root directory fills two clusters to the last entry: the file "dx" by
\* its long name and the directory "d", with "g" in its second cluster.  "g"
\* has 11 bytes in clusters 6 and 7; "dx" claims 20 bytes and has 8.
Good ==
  Disk(Header, Parts, Bpb,
       <<Eoc, Eoc, 3, FAT28 + Eoc, 5, Eoc, 7, Eoc, Eoc, 0, 0, 0>>,
       <<<<Long(2, TRUE, <<"x">>, <<"D", "~">>), Long(1, FALSE, <<"d">>, <<"D", "~">>)>>,
         <<File(<<"D", "~">>, 8, 20), Dir(<<"D", " ">>, 4)>>,
         <<Dir(<<".", " ">>, 4), Dir(<<".", ".">>, 0)>>,
         <<File(<<"G", " ">>, 6, 11), End>>,
         Bytes(1), Bytes(2), Bytes(3)>>)

\* Clusters of two sectors.  Long names of another file, of a deleted one, out
\* of order and too long; "g" is cut by a bad cluster after 16 of 20 bytes and
\* the root directory ends without a mark in a free cluster.
Odd ==
  Disk(Header, Parts, [Bpb EXCEPT !.spc = 2, !.num_fats = 3, !.fat_size = 1],
       <<Eoc, Eoc, 3, 5, FAT32_BAD, 0, 0, 0, 0, 0, 0, 0>>,
       <<<<Long(1, TRUE, <<"x">>, <<"D", "~">>), Label>>,
         <<Long(1, TRUE, <<"x">>, <<"D", "~">>), File(<<"G", " ">>, 4, 20)>>,
         <<Long(2, TRUE, <<"d">>, <<"D", "~">>), Deleted>>,
         <<Long(1, FALSE, <<"x">>, <<"D", "~">>), File(<<"D", "~">>, 0, 3)>>,
         Bytes(1), Bytes(2),
         <<Long(3, TRUE, <<"d">>, <<"D", " ">>), Long(2, FALSE, <<"d">>, <<"D", " ">>)>>,
         <<Long(1, FALSE, <<"x">>, <<"D", " ">>), Dir(<<"D", " ">>, 9)>>>>)

\* Root directories whose chain is cyclic, bad, or leaves the volume, the last
\* one with a sector count that makes the number of clusters wrap around; with
\* another the largest cluster number wraps to 0; and sectors of two times 512.
Root(next, bpb) ==
  Disk(Header, Parts, bpb, <<Eoc, Eoc, next, 2, 0, 0, 0, 0, 0, 0, 0, 0>>,
       <<<<File(<<"G", " ">>, 4, 9), Deleted>>, <<Deleted, Deleted>>, Bytes(1)>>)

\* A long name of three bytes, which leaves no room for the NUL, and one of
\* two, which fits; "g" has a size but an end mark for a cluster.
Wide ==
  Disk(Header, Parts, Bpb, <<Eoc, Eoc, 3, 4, Eoc, 0, 0, 0, 0, 0, 0, 0>>,
       <<<<Long(1, TRUE, <<"w">>, <<"X", " ">>), File(<<"X", " ">>, 0, 0)>>,
         <<Long(1, TRUE, <<"v">>, <<"D", " ">>), Dir(<<"D", " ">>, 5)>>,
         <<File(<<"G", " ">>, Eoc, 3), End>>, <<End, End>>>>)

\* A name of six bytes in a directory below the root.
Overlong ==
  Disk(Header, Parts, Bpb, <<Eoc, Eoc, Eoc, 4, Eoc, 0, 0, 0, 0, 0, 0, 0>>,
       <<<<Dir(<<"D", " ">>, 3), File(<<"G", " ">>, 0, 0)>>,
         <<Long(1, TRUE, <<"w", "w">>, <<"G", " ">>), File(<<"G", " ">>, 0, 0)>>,
         <<End, End>>>>)

\* A root directory with more entries than the largest capacity below U32.
Many ==
  Disk(Header, Parts, Bpb, <<Eoc, Eoc, 3, 4, 5, 6, Eoc, 0, 0, 0, 0, 0>>,
       [i \in 1 .. 5 |-> <<File(<<"G", " ">>, 0, 0), File(<<"X", " ">>, 0, 0)>>])

Unmountable(bpb) == Root(Eoc, bpb)

MCImages ==
  [good |-> Good, odd |-> Odd, cyclic |-> Root(3, Bpb), bad |-> Root(FAT32_BAD, Bpb),
   outside |-> Root(FAT28 \div 2, Bpb),
   wrapped |-> Root(12, [Bpb EXCEPT !.total_sectors = 1]),
   wrapped0 |-> Root(Eoc, [Bpb EXCEPT !.total_sectors = 3]),
   wide |-> Wide, overlong |-> Overlong, many |-> Many,
   large |-> Root(Eoc, [Bpb EXCEPT !.bps = 16]),
   no_gpt |-> Disk([Header EXCEPT !.signature = FALSE], Parts, Bpb,
                   [i \in 1 .. 12 |-> 0], <<>>),
   no_mark |-> Unmountable([Bpb EXCEPT !.signature = FALSE]),
   fat16 |-> Unmountable([Bpb EXCEPT !.fat16 = TRUE]),
   no_fat |-> Unmountable([Bpb EXCEPT !.fat_size = 0]),
   version |-> Unmountable([Bpb EXCEPT !.version = 1]),
   bps |-> Unmountable([Bpb EXCEPT !.bps = 12]),
   spc |-> Unmountable([Bpb EXCEPT !.spc = 0])]

\* "/", "/d", "/D/g/", "/dx", "/dx/g", "//G", "/xxx", "/v" and "g"
MCPaths == {<<"/">>, <<"/", "d">>, <<"/", "D", "/", "g", "/">>, <<"/", "d", "x">>,
            <<"/", "d", "x", "/", "g">>, <<"/", "/", "G">>, <<"/", "x", "x", "x">>,
            <<"/", "v1", "v2">>, <<"g">>}
MCMountPaths == {<<"/">>, <<"/", "d", "/">>, <<"d">>}
\* "d//G", "/", "d/..", "d/../g", "xxxx", "w" and "dx/g"
MCDriverPaths == {<<"d", "/", "/", "G">>, <<"/">>, <<"d", "/", ".", ".">>,
                  <<"d", "/", ".", ".", "/", "g">>, <<"x", "x", "x", "x">>,
                  <<"w1", "w2", "w3">>, <<"d", "x", "/", "g">>}
=============================================================================
