-------------------------------- MODULE Vfs --------------------------------
(***************************************************************************)
(* The virtual file system (fs/vfs/vfs.c) with FAT32 volumes mounted in it *)
(* (fs/vfs/fat32_vfs.c), above the FAT32 driver of module Fat32.           *)
(*                                                                         *)
(* A path is a sequence of characters, a name a sequence without "/".  A   *)
(* node is identified by its root and the names that lead to it.  Nodes    *)
(* are made when a lookup first meets them and live until their mount is   *)
(* removed; a directory keeps its children and, once listed, its entries.  *)
(***************************************************************************)
EXTENDS Fat32, TLC

CONSTANTS
  Paths,        \* paths callers pass
  MountPaths,   \* paths they mount volumes at
  DriverPaths,  \* paths they pass to the FAT32 driver itself
  Handles,      \* open files a caller may hold
  Lens,         \* lengths read
  Indexes,      \* indexes listed
  MAX_ROOTS,    \* roots that may exist at a time
  DIR_CACHE_CAP \* 64, the first capacity of a directory cache

VARIABLES
  mounts,       \* g_mounts: records [path, root]
  nodes,        \* node identity -> node and its FAT32 inode
  files,        \* open files
  call          \* the call in progress

vfs_vars == <<mounts, nodes, files, call>>
vars == <<fat_vars, vfs_vars>>

Idle == [op |-> "none", pc |-> "idle"]

Init ==
  /\ image \in DOMAIN Images
  /\ ata_ready = FALSE /\ partitions = <<>> /\ vol = NULL
  /\ heap = {} /\ job = NoJob /\ faulted = FALSE
  /\ mounts = {} /\ nodes = <<>> /\ files = [h \in Handles |-> NULL]
  /\ call = [Idle EXCEPT !.pc = "ata"]

-----------------------------------------------------------------------------
(* Start-up: virtio_blk_init, gpt_init, and the volume. *)

BootAta(ok) ==
  /\ call.pc = "ata" /\ call' = [call EXCEPT !.pc = "gpt"]
  /\ VirtioBlkInit(ok)
  /\ UNCHANGED <<image, partitions, vol, heap, job, faulted, mounts, nodes, files>>

BootGpt(ok) ==
  /\ call.pc = "gpt" /\ call' = Idle
  /\ GptInit(ok)
  /\ UNCHANGED <<image, ata_ready, vol, heap, job, faulted, mounts, nodes, files>>

MountVolume(index, ok) ==
  /\ call.pc = "idle" /\ vol = NULL
  /\ Fat32Mount(index, ok)
  /\ UNCHANGED <<image, ata_ready, partitions, heap, job, faulted, vfs_vars>>

-----------------------------------------------------------------------------
(* Paths. *)

\* vfs_trim_path_len
Trim(path) ==
  LET len == CHOOSE n \in 1 .. Len(path) :
               /\ \A i \in n + 1 .. Len(path) : path[i] = "/"
               /\ n = 1 \/ path[n] # "/"
  IN SubSeq(path, 1, len)

\* vfs_skip_slashes
SkipSlashes(s) ==
  LET first == CHOOSE n \in 0 .. Len(s) :
                 /\ \A i \in 1 .. n : s[i] = "/"
                 /\ n < Len(s) => s[n + 1] # "/"
  IN SubSeq(s, first + 1, Len(s))

\* The characters of s before its first "/", and what follows them.
FirstSegment(s) ==
  LET n == CHOOSE n \in 0 .. Len(s) :
             /\ \A i \in 1 .. n : s[i] # "/"
             /\ n < Len(s) => s[n + 1] = "/"
  IN SubSeq(s, 1, n)

AfterSegment(s) == SkipSlashes(SubSeq(s, Len(FirstSegment(s)) + 1, Len(s)))

\* vfs_path_is_prefix
vfs_path_is_prefix(m, path) ==
  \/ Len(m.path) = 1
  \/ /\ Len(path) >= Len(m.path)
     /\ SubSeq(path, 1, Len(m.path)) = m.path
     /\ Len(path) > Len(m.path) => path[Len(m.path) + 1] = "/"

Covering(path) == {m \in mounts : vfs_path_is_prefix(m, path)}

\* vfs_find_mount_for_path
vfs_find_mount_for_path(path) ==
  CHOOSE m \in Covering(path) :
    \A o \in Covering(path) : Len(o.path) <= Len(m.path)

-----------------------------------------------------------------------------
(* Nodes and the blocks they own. *)

NodeBlocks(n) == {<<"node", n>>, <<"name", n>>}
InodeBlock(n) == <<"inode", n>>
CacheBlock(n) == <<"cache", n>>
MountBlocks(n) == {<<"mount", n>>, <<"path", n>>}
FileBlock(h) == <<"file", <<h>>>>

Room(h, n) == Cardinality(h) + n <= MAX_BLOCKS

\* vfs_node_create: the heaps that may result from h, and whether there is a
\* node; without a name the node is freed.
vfs_node_create(h, n) ==
  LET node == h \cup {<<"node", n>>}
  IN {[ok |-> FALSE, heap |-> h],
      [ok |-> FALSE, heap |-> node \ {<<"node", n>>}]}
     \cup (IF Room(h, 2) THEN {[ok |-> TRUE, heap |-> node \cup {<<"name", n>>}]}
                         ELSE {})

\* vfs_node_destroy
vfs_node_destroy(h, n) == h \ NodeBlocks(n)

\* A node and its inode, when the node is kept without one (mutant).
NodeKept(h, n) ==
  UNION {IF ~r.ok THEN {r}
         ELSE {[ok |-> FALSE, heap |-> r.heap],
               [ok |-> TRUE, heap |-> r.heap \cup {InodeBlock(n)}]}
         : r \in vfs_node_create(h, n)}

\* A node and its inode: fat32_vfs_make_node, and the root of
\* fat32_vfs_mount; without an inode the node is destroyed.
NodeWithInode(h, n) ==
  UNION {IF ~r.ok THEN {r}
         ELSE {[ok |-> FALSE, heap |-> vfs_node_destroy(r.heap, n)]}
              \cup (IF Room(h, 3)
                    THEN {[ok |-> TRUE, heap |-> r.heap \cup {InodeBlock(n)}]}
                    ELSE {})
         : r \in vfs_node_create(h, n)}

NodeOf(ent) ==
  [dir |-> ent.dir, cluster |-> ent.cluster, size |-> ent.size,
   kids |-> <<>>, cache |-> NULL]

\* fat32_find_child_ci: the first child with that name.
Child(n, name) ==
  LET hits == {i \in DOMAIN nodes[n].kids :
                 fat32_name_equal_ci(Last(nodes[n].kids[i]), name)}
  IN IF hits = {} THEN NULL
     ELSE nodes[n].kids[CHOOSE i \in hits : \A k \in hits : i <= k]

\* The entry a directory cache holds for a name.
Cached(n, name) ==
  LET hits == {i \in DOMAIN nodes[n].cache :
                 fat32_name_equal_ci(nodes[n].cache[i].name, name)}
  IN IF hits = {} THEN NULL
     ELSE nodes[n].cache[CHOOSE i \in hits : \A k \in hits : i <= k]

Tree(root) == {n \in DOMAIN nodes : IsPrefix(root, n)}

\* fat32_vfs_free_tree
TreeBlocks(root) ==
  UNION {NodeBlocks(n) \cup {InodeBlock(n)}
         \cup (IF nodes[n].cache = NULL THEN {} ELSE {CacheBlock(n)})
         : n \in Tree(root)}

Without(root) == [n \in DOMAIN nodes \ Tree(root) |-> nodes[n]]

-----------------------------------------------------------------------------
(* The calls.  call.pc names what a call does next; a finished call is      *)
(* "done" and holds its code rc and its answer val.                         *)

Called(op, path, h, arg) ==
  [op |-> op, pc |-> op, path |-> path, h |-> h, arg |-> arg,
   rest |-> <<>>, cap |-> 0, node |-> <<>>, ent |-> NULL, root |-> <<>>,
   rc |-> "", val |-> NULL]

FreeRoots == {r \in 1 .. MAX_ROOTS : <<r>> \notin DOMAIN nodes}

Invoke(c) ==
  /\ call.pc = "idle" /\ call' = c
  /\ UNCHANGED <<fat_vars, mounts, nodes, files>>

CallMount == vol # NULL /\ FreeRoots # {}
  /\ \E p \in MountPaths : Invoke(Called("mount", p, NULL, 0))

\* Callers close the files below a mount before they remove it: the code does
\* not check, and a file whose node is freed must not be used again.
CallUnmount == \E p \in MountPaths :
  /\ \A m \in mounts, h \in Handles :
       m.path = Trim(p) /\ files[h] # NULL => ~IsPrefix(m.root, files[h].node)
  /\ Invoke(Called("unmount", p, NULL, 0))

CallOpen == \E p \in Paths, h \in Handles :
  files[h] = NULL /\ Invoke(Called("open", p, h, 0))

CallStat == \E p \in Paths : Invoke(Called("stat", p, NULL, 0))

CallFile == \E h \in Handles :
  /\ files[h] # NULL
  /\ \/ \E op \in {"close", "write", "fstat"} : Invoke(Called(op, <<>>, h, 0))
     \/ \E l \in Lens : Invoke(Called("read", <<>>, h, l))
     \/ \E i \in Indexes : Invoke(Called("readdir", <<>>, h, i))

CallDriver == \E p \in DriverPaths :
  /\ vol # NULL /\ mounts = {}
  /\ \/ Invoke(Called("lookup_path", p, NULL, 0))
     \/ \E n \in Indexes : Invoke(Called("read_dir_path", p, NULL, n))

Done(c, rc, val) == [c EXCEPT !.pc = "done", !.rc = rc, !.val = val]

Answer(rc, val) ==
  /\ call' = Done(call, rc, val)
  /\ UNCHANGED <<fat_vars, mounts, nodes, files>>

Return ==
  /\ call.pc = "done" /\ call' = Idle /\ faulted' = FALSE
  /\ UNCHANGED <<image, ata_ready, partitions, vol, heap, job,
                 mounts, nodes, files>>
-----------------------------------------------------------------------------
(* Path resolution: vfs_resolve_path and fat32_vfs_lookup. *)

DiskSame == UNCHANGED <<image, ata_ready, partitions, vol>>
Goto(pc) == [call EXCEPT !.pc = pc]
Failing(rc) == [call EXCEPT !.pc = "fail", !.rc = rc]

Moves(c) == call' = c /\ UNCHANGED <<fat_vars, mounts, nodes, files>>

\* The next call record of a job's owner, which takes the job's result.
Takes(c) ==
  /\ call' = c /\ job' = NoJob
  /\ DiskSame /\ UNCHANGED <<heap, faulted, mounts, files>>

Starts(pc, j) ==
  /\ call' = Goto(pc) /\ job' = j
  /\ DiskSame /\ UNCHANGED <<heap, faulted, mounts, nodes, files>>

\* A failed call; fat32_vfs_mount first frees the root it made.
Fail ==
  /\ call.pc = "fail"
  /\ call' = Done(call, call.rc, NULL)
  /\ IF call.op = "mount" /\ call.root \in DOMAIN nodes
     THEN /\ heap' = vfs_node_destroy(heap \ {InodeBlock(call.root)}, call.root)
          /\ nodes' = Without(call.root)
     ELSE UNCHANGED <<heap, nodes>>
  /\ DiskSame /\ UNCHANGED <<job, faulted, mounts, files>>

ResolveBegin ==
  LET path == Trim(call.path)
      m == vfs_find_mount_for_path(path)
      rest == SkipSlashes(SubSeq(path, Len(m.path) + 1, Len(path)))
  IN /\ call.pc \in {"open", "stat", "mountpoint"}
     /\ CASE call.path[1] # "/" -> Moves(Failing("INVAL"))
          [] call.path[1] = "/" /\ Covering(path) = {} -> Moves(Failing("NOENT"))
          [] call.path[1] = "/" /\ Covering(path) # {} ->
               Moves([call EXCEPT !.pc = IF rest = <<>> THEN "resolved" ELSE "resolve",
                                  !.rest = rest, !.node = m.root])

\* The call once the next node of its path is n.
StepTo(n, dir) ==
  LET rest == AfterSegment(call.rest)
  IN CASE rest = <<>> -> [call EXCEPT !.pc = "resolved", !.node = n, !.ent = NULL,
                                      !.rest = <<>>]
       [] rest # <<>> /\ ~dir -> Failing("NOTDIR")
       [] rest # <<>> /\ dir -> [call EXCEPT !.pc = "resolve", !.node = n,
                                             !.ent = NULL, !.rest = rest]

\* One segment: a child already there, an entry of the directory cache, or a
\* search of the directory on disk.
ResolveSegment ==
  LET name == FirstSegment(call.rest)
      kid == Child(call.node, name)
      dir == nodes[call.node]
      ent == Cached(call.node, name)
  IN /\ call.pc = "resolve"
     /\ IF Len(name) > NAME_MAX THEN Moves(Failing("NAMETOOLONG"))
        ELSE IF kid # NULL THEN Moves(StepTo(kid, nodes[kid].dir))
        ELSE IF dir.cache = NULL
             THEN Starts("lookup", DirJob("lookup", dir.cluster, name))
        ELSE IF ent = NULL THEN Moves(Failing("NOENT"))
        ELSE Moves([call EXCEPT !.pc = "make", !.ent = ent])

\* Any failure of the search is "no such entry".
LookupEnds ==
  /\ call.pc = "lookup" /\ Ended
  /\ Takes(IF job.rc = "OK" /\ job.out # <<>>
           THEN [call EXCEPT !.pc = "make", !.ent = job.out[1]]
           ELSE Failing("NOENT"))
  /\ UNCHANGED nodes

\* fat32_vfs_make_node and vfs_add_child, which puts the child first.
MakeNode == call.pc = "make" /\ \E r \in NodeWithInode(heap, call.node \o <<call.ent.name>>) :
  LET n == call.node \o <<call.ent.name>>
  IN /\ heap' = r.heap
     /\ faulted' = (faulted \/ ~r.ok)
     /\ IF r.ok
        THEN /\ nodes' = [nodes EXCEPT ![call.node].kids = <<n>> \o @]
                           @@ (n :> NodeOf(call.ent))
             /\ call' = StepTo(n, call.ent.dir)
        ELSE nodes' = nodes /\ call' = Failing("NOENT")
     /\ DiskSame /\ UNCHANGED <<job, mounts, files>>

-----------------------------------------------------------------------------
(* Mounting. *)

\* fat32_vfs_mount makes the root, then vfs_mount checks the path.
MountRoot == call.pc = "mount" /\ \E r \in NodeWithInode(heap, <<Min(FreeRoots)>>) :
  LET root == <<Min(FreeRoots)>>
      path == Trim(call.path)
      pc == IF Len(path) > 1 /\ mounts # {} THEN "mountpoint" ELSE "attach"
  IN /\ heap' = r.heap
     /\ faulted' = (faulted \/ ~r.ok)
     /\ nodes' = IF r.ok THEN nodes @@ (root :> NodeOf(RootDirent)) ELSE nodes
     /\ call' =
          CASE ~r.ok -> Failing("NOMEM")
            [] r.ok /\ call.path[1] # "/" ->
                 [Failing("INVAL") EXCEPT !.root = root]
            [] r.ok /\ call.path[1] = "/" /\ (\E m \in mounts : m.path = path) ->
                 [Failing("EXIST") EXCEPT !.root = root]
            [] OTHER -> [call EXCEPT !.pc = pc, !.root = root]
     /\ DiskSame /\ UNCHANGED <<job, mounts, files>>

MountPoint ==
  /\ call.pc = "resolved" /\ call.op = "mount"
  /\ Moves(IF nodes[call.node].dir THEN Goto("attach") ELSE Failing("NOTDIR"))

\* The mount record and its path, from the heap that is left.
AttachHeaps(h, n) ==
  {[ok |-> FALSE, heap |-> h],
   [ok |-> FALSE, heap |-> (h \cup {<<"mount", n>>}) \ {<<"mount", n>>}]}
  \cup (IF Room(h, 2) THEN {[ok |-> TRUE, heap |-> h \cup MountBlocks(n)]} ELSE {})

Attach == call.pc = "attach" /\ \E r \in AttachHeaps(heap, call.root) :
  /\ heap' = r.heap
  /\ faulted' = (faulted \/ ~r.ok)
  /\ mounts' = IF r.ok THEN mounts \cup {[path |-> Trim(call.path), root |-> call.root]}
                       ELSE mounts
  /\ call' = IF r.ok THEN Done(call, "OK", NULL) ELSE Failing("NOMEM")
  /\ DiskSame /\ UNCHANGED <<job, nodes, files>>

\* fat32_vfs_unmount: vfs_unmount_detach, then fat32_vfs_free_tree.
Unmount ==
  LET hit == {m \in mounts : m.path = Trim(call.path)}
      m == CHOOSE x \in hit : TRUE
  IN /\ call.pc = "unmount"
     /\ IF call.path[1] # "/" THEN Answer("INVAL", NULL)
        ELSE IF hit = {} THEN Answer("NOENT", NULL)
        ELSE /\ mounts' = mounts \ {m}
             /\ heap' = heap \ (MountBlocks(m.root) \cup TreeBlocks(m.root))
             /\ nodes' = Without(m.root)
             /\ call' = Done(call, "OK", NULL)
             /\ DiskSame /\ UNCHANGED <<job, faulted, files>>
-----------------------------------------------------------------------------
(* Files. *)

View(n) == [dir |-> nodes[n].dir, cluster |-> nodes[n].cluster,
            size |-> nodes[n].size]

\* vfs_open once the path is resolved.
Open(ok) ==
  /\ call.pc = "resolved" /\ call.op = "open"
  /\ IF ok /\ Room(heap, 1)
     THEN /\ heap' = heap \cup {FileBlock(call.h)}
          /\ files' = [files EXCEPT ![call.h] = [node |-> call.node, pos |-> 0]]
          /\ call' = Done(call, "OK", View(call.node))
          /\ faulted' = faulted
     ELSE /\ UNCHANGED <<heap, files>>
          /\ call' = Failing("NOMEM")
          /\ faulted' = TRUE
  /\ DiskSame /\ UNCHANGED <<job, mounts, nodes>>

\* vfs_close
Close ==
  /\ call.pc = "close"
  /\ heap' = heap \ {FileBlock(call.h)}
  /\ files' = [files EXCEPT ![call.h] = NULL]
  /\ call' = Done(call, "OK", NULL)
  /\ DiskSame /\ UNCHANGED <<job, faulted, mounts, nodes>>

\* vfs_write: directories have no write, FAT32 files refuse it.
Write == call.pc = "write" /\ Answer("NOTSUP", NULL)

\* vfs_read and fat32_vfs_read
Read ==
  LET f == files[call.h]
      n == nodes[f.node]
  IN /\ call.pc = "read"
     /\ IF n.dir THEN Answer("NOTSUP", NULL)
        ELSE Starts("reading", FileJob(n.cluster, n.size, f.pos, call.arg))

ReadEnds ==
  LET f == files[call.h]
  IN /\ call.pc = "reading" /\ Ended
     /\ call' = IF job.rc = "OK" THEN Done(call, "OK", [from |-> f.pos, data |-> job.out])
                ELSE Done(call, job.rc, NULL)
     /\ files' = IF job.rc = "OK"
                 THEN [files EXCEPT ![call.h].pos = @ + Len(job.out)]
                 ELSE files
     /\ job' = NoJob
     /\ DiskSame /\ UNCHANGED <<heap, faulted, mounts, nodes>>

\* vfs_stat and vfs_fstat: fat32_vfs_stat looks a node that has a parent up
\* again, by its name.
Stat ==
  LET n == IF call.op = "stat" THEN call.node ELSE files[call.h].node
  IN /\ \/ call.pc = "resolved" /\ call.op = "stat"
        \/ call.pc = "fstat"
     /\ IF Len(n) = 1 THEN Answer("OK", View(n))
        ELSE /\ call' = [call EXCEPT !.pc = "stating", !.node = n]
             /\ job' = DirJob("lookup", nodes[Front(n)].cluster, Last(n))
             /\ DiskSame /\ UNCHANGED <<heap, faulted, mounts, nodes, files>>

StatEnds ==
  LET size == IF job.rc = "OK" /\ job.out # <<>> THEN job.out[1].size
              ELSE nodes[call.node].size
  IN /\ call.pc = "stating" /\ Ended
     /\ nodes' = [nodes EXCEPT ![call.node].size = size]
     /\ Takes(Done(call, "OK", [View(call.node) EXCEPT !.size = size]))

-----------------------------------------------------------------------------
(* Listing: vfs_readdir, fat32_vfs_readdir, fat32_vfs_load_dir_cache. *)

\* The end of fat32_vfs_readdir with entry i of ents: there may be none, and
\* its name has to end within NAME_MAX bytes.
Listed(ents, i) ==
  IF i >= Len(ents) THEN Done(call, "OK", NULL)
  ELSE IF Len(ents[i + 1].name) > NAME_MAX THEN Done(call, "NAMETOOLONG", NULL)
  ELSE Done(call, "OK", [name |-> ents[i + 1].name, dir |-> ents[i + 1].dir])

Readdir ==
  LET n == files[call.h].node
  IN /\ call.pc = "readdir"
     /\ IF ~nodes[n].dir THEN Answer("NOTDIR", NULL)
        ELSE IF nodes[n].cache # NULL THEN Moves(Listed(nodes[n].cache, call.arg))
        ELSE Moves([call EXCEPT !.pc = "load", !.node = n, !.cap = DIR_CACHE_CAP])

\* One round of the capacity loop; without memory, or when the capacity has
\* wrapped to 0, the directory is searched instead.
LoadCache(ok) ==
  /\ call.pc = "load"
  /\ call.cap = 0 => ok
  /\ IF call.cap > 0 /\ ok /\ Room(heap, 1)
     THEN /\ heap' = heap \cup {CacheBlock(call.node)}
          /\ call' = Goto("loading") /\ faulted' = faulted
          /\ job' = DirJob("read_dir", nodes[call.node].cluster, call.cap)
     ELSE /\ heap' = heap
          /\ call' = Goto("fallback") /\ faulted' = (faulted \/ call.cap > 0)
          /\ job' = DirJob("index", nodes[call.node].cluster, call.arg)
  /\ DiskSame /\ UNCHANGED <<mounts, nodes, files>>

\* The listing is complete when it did not fill the buffer (mutant: when it
\* fits the buffer).
Fits(out, cap) == Len(out) <= cap
Complete(out, cap) == Len(out) < cap

\* The capacity of the next round (mutant: the same).
SameCap(cap) == cap
NextCap(cap) == (cap * 2) % U32

LoadEnds ==
  /\ call.pc = "loading" /\ Ended
  /\ job' = NoJob
  /\ IF job.rc = "OK" /\ Complete(job.out, call.cap)
     THEN /\ nodes' = [nodes EXCEPT ![call.node].cache = job.out]
          /\ call' = Listed(job.out, call.arg)
          /\ heap' = heap
     ELSE /\ nodes' = nodes
          /\ heap' = heap \ {CacheBlock(call.node)}
          /\ call' = IF job.rc = "OK" THEN [call EXCEPT !.pc = "load",
                                                        !.cap = NextCap(@)]
                     ELSE Done(call, "IO", NULL)
  /\ DiskSame /\ UNCHANGED <<faulted, mounts, files>>

FallbackEnds ==
  /\ call.pc = "fallback" /\ Ended
  /\ Takes(IF job.rc # "OK" THEN Done(call, job.rc, NULL) ELSE Listed(job.out, 0))
  /\ UNCHANGED nodes

-----------------------------------------------------------------------------
(* The driver's own path calls: fat32_lookup_path, fat32_read_dir_path. *)

WalkBegin ==
  LET rest == SkipSlashes(call.path)
  IN /\ call.pc \in {"lookup_path", "read_dir_path"}
     /\ Moves([call EXCEPT !.pc = IF rest = <<>> THEN "walked" ELSE "walk",
                           !.rest = rest, !.ent = RootDirent])

WalkSegment ==
  LET name == FirstSegment(call.rest)
  IN /\ call.pc = "walk"
     /\ IF Len(name) > FAT32_NAME_MAX THEN Moves(Failing("NAMETOOLONG"))
        ELSE Starts("walking", DirJob("lookup", call.ent.cluster, name))

WalkEnds ==
  LET rest == AfterSegment(call.rest)
      ent == job.out[1]
  IN /\ call.pc = "walking" /\ Ended
     /\ Takes(CASE job.rc # "OK" -> Failing(job.rc)
                [] job.rc = "OK" /\ job.out = <<>> -> Failing("NOENT")
                [] job.rc = "OK" /\ job.out # <<>> ->
                     IF rest # <<>> /\ ~ent.dir THEN Failing("NOTDIR")
                     ELSE IF rest # <<>> /\ ent.cluster < 2 THEN Failing("IO")
                     ELSE [call EXCEPT !.pc = IF rest = <<>> THEN "walked" ELSE "walk",
                                       !.rest = rest, !.ent = ent])
     /\ UNCHANGED nodes

\* A directory entry without a cluster, like ".." below the root, lists the
\* root directory.
Walked ==
  /\ call.pc = "walked"
  /\ IF call.op = "lookup_path"
     THEN Answer("OK", [dir |-> call.ent.dir, cluster |-> call.ent.cluster,
                        size |-> call.ent.size])
     ELSE IF ~call.ent.dir THEN Answer("NOTDIR", NULL)
     ELSE Starts("listing", DirJob("read_dir",
                   IF call.ent.cluster < 2 THEN vol.root ELSE call.ent.cluster,
                   call.arg))

ListEnds ==
  /\ call.pc = "listing" /\ Ended
  /\ Takes(IF job.rc = "OK" THEN Done(call, "OK", job.out) ELSE Done(call, "IO", NULL))
  /\ UNCHANGED nodes

-----------------------------------------------------------------------------
\* A job that is lost goes no further.
Stuck == Lost /\ UNCHANGED vars

Calls == \/ CallMount \/ CallUnmount \/ CallOpen \/ CallStat \/ CallFile
         \/ CallDriver

Steps ==
  \/ \E ok \in BOOLEAN : BootAta(ok) \/ BootGpt(ok)
  \/ Fail \/ ResolveBegin \/ ResolveSegment \/ LookupEnds \/ MakeNode
  \/ MountRoot \/ MountPoint \/ Attach \/ Unmount
  \/ \E ok \in BOOLEAN : Open(ok) \/ LoadCache(ok)
  \/ Close \/ Write \/ Read \/ ReadEnds \/ Stat \/ StatEnds
  \/ Readdir \/ LoadEnds \/ FallbackEnds
  \/ WalkBegin \/ WalkSegment \/ WalkEnds \/ Walked \/ ListEnds
  \/ Return \/ Stuck
  \/ JobStep /\ UNCHANGED vfs_vars

Next ==
  \/ \E ok \in BOOLEAN, i \in -1 .. Len(partitions) : MountVolume(i, ok)
  \/ Calls
  \/ Steps

\* The processor keeps running the call it is in.
Spec == Init /\ [][Next]_vars /\ WF_vars(Steps)
-----------------------------------------------------------------------------
(* What the disk says, for the properties: the clusters of a chain and the  *)
(* value that ends it, the visible entries of a directory, the bytes of a   *)
(* file and the entry a list of names leads to.                             *)

\* The element of a singleton: The({F(x) : x \in {e}}) is F(e), evaluated once.
The(S) == CHOOSE x \in S : TRUE

\* The chain from c, given where each cluster leads; a cluster outside the
\* volume leads nowhere.
ChainBy(next, c) ==
  LET at[n \in 0 .. vol.cluster_count] == IF n = 0 THEN c ELSE next[at[n - 1]]
      ends == {n \in DOMAIN at : next[at[n]] = at[n]}
      len == IF ends = {} THEN vol.cluster_count ELSE Min(ends)
  IN [clusters |-> [i \in 1 .. len |-> at[i - 1]], tail |-> at[len]]

Chain(c) ==
  The({ChainBy(next, c) : next \in
         {[x \in 0 .. FAT28 - 1 |->
             IF ReadsCluster(x) THEN fat32_read_fat_entry(x, TRUE) ELSE x]}})

Contents(c) ==
  The({FlattenSeq([i \in DOMAIN ch.clusters |-> ReadCluster(ch.clusters[i])]) :
         ch \in {Chain(c)}})

\* Whether the chain ends in a value that is neither free nor an end mark.
BadTail(c) == Chain(c).tail \notin {0, 1} \cup FAT32_EOC .. FAT28 - 1

\* The number of long name entries that belong to the 8.3 entry e[i].
LongParts(e, i) ==
  {k \in 1 .. LFN_MAX_SLOTS :
     /\ k < i
     /\ \A j \in 1 .. k : /\ e[i - j].kind = "lfn" /\ e[i - j].seq = j
                          /\ e[i - j].last = (j = k)
     /\ e[i - k].sum = lfn_checksum(e[i].base \o e[i].ext)}

EntryOnDisk(e, i, parts) ==
  [name |-> IF parts = {} THEN build_83_name(e[i])
            ELSE utf16le_to_utf8(FlattenSeq([j \in 1 .. Min(parts) |-> e[i - j].part])),
   dir |-> e[i].dir, cluster |-> e[i].cluster, size |-> e[i].size]

\* The 8.3 entries of e before its end mark, in order, each with its name.
EntriesIn(e) ==
  LET used(i) == e[i].kind = "short" /\ \A j \in 1 .. i : e[j].kind # "end"
      shown == SelectSeq([i \in DOMAIN e |-> i], used)
  IN [k \in DOMAIN shown |-> The({EntryOnDisk(e, shown[k], parts) :
                                    parts \in {LongParts(e, shown[k])}})]

Entries(c) ==
  The({EntriesIn(e) : e \in {IF ReadsCluster(c) THEN Contents(c) ELSE <<>>}})

Names(path) ==
  LET starts == {i \in DOMAIN path : path[i] # "/" /\ (i > 1 => path[i - 1] = "/")}
  IN The({[k \in DOMAIN from |-> FirstSegment(SubSeq(path, from[k], Len(path)))] :
            from \in {SetToSortSeq(starts, <)}})

\* The first entry with that name; NULL if there is none.
Named(es, name) ==
  LET hits == {i \in DOMAIN es : fat32_name_equal_ci(es[i].name, name)}
  IN IF hits = {} THEN NULL ELSE es[Min(hits)]

Below(ent, name) ==
  IF ent = NULL THEN NULL
  ELSE IF ~ent.dir THEN NULL
  ELSE The({Named(es, name) : es \in {Entries(ent.cluster)}})

\* The entry that names lead to from the root directory; NULL if there is none.
Leads(names) ==
  LET at[n \in 0 .. Len(names)] ==
        IF n = 0 THEN RootDirent
        ELSE The({Below(ent, names[n]) : ent \in {at[n - 1]}})
  IN at[Len(names)]

\* The same from the longest mount path that starts the names.
LeadsFromMount(names) ==
  LET over == {Names(m.path) : m \in mounts}
      best == {o \in over : /\ IsPrefix(o, names)
                            /\ \A x \in over : IsPrefix(x, names) => Len(x) <= Len(o)}
  IN IF best = {} THEN NULL
     ELSE Leads(SubSeq(names, Len(The(best)) + 1, Len(names)))

\* What the disk holds for the object of this call.
Expected ==
  IF vol = NULL THEN NULL
  ELSE CASE call.op \in {"open", "stat"} ->
              IF call.path[1] # "/" THEN NULL ELSE LeadsFromMount(Names(call.path))
         [] call.op \in {"lookup_path", "read_dir_path"} -> Leads(Names(call.path))
         [] call.op \in {"fstat", "read", "readdir"} ->
              Leads(Tail(files[call.h].node))
         [] OTHER -> NULL

\* Doubled slashes hide a mount below the root: such paths are left out.
Plain(path) == \/ \A m \in mounts : Len(m.path) = 1
               \/ \A i \in 2 .. Len(path) : path[i] = "/" => path[i - 1] # "/"

\* Names within the limit of both layers.
Short(name) == Len(name) <= NAME_MAX

FindsRight(ent) ==
  /\ call.rc = "OK" =>
       ent # NULL /\ call.val = [dir |-> ent.dir, cluster |-> ent.cluster,
                                 size |-> ent.size]
  /\ ~faulted /\ ent # NULL /\ (\A i \in DOMAIN Names(call.path) : Short(Names(call.path)[i]))
       => call.rc = "OK"

ReadsRight(ent, bytes) ==
  /\ call.rc = "OK" =>
       call.val.data =
         SubSeq(bytes, call.val.from + 1,
                Min({call.val.from + call.arg, ent.size, Len(bytes)}))
  /\ ~faulted /\ call.rc # "OK" => ent.dir \/ BadTail(ent.cluster) \/ ent.cluster < 2

\* readdir of a directory with entries es.
ListsRight(ent, es) ==
  LET there == call.arg < Len(es)
      e == es[call.arg + 1]
  IN /\ call.rc = "OK" =>
          call.val = IF there THEN [name |-> e.name, dir |-> e.dir] ELSE NULL
     /\ ~faulted /\ call.rc # "OK" =>
          \/ ~ent.dir \/ BadTail(ent.cluster)
          \/ call.rc = "NAMETOOLONG" /\ there /\ ~Short(e.name)

\* Two entries are the same, but for a name that is not short.
SameEntry(d, e) ==
  /\ [d EXCEPT !.name = <<>>] = [e EXCEPT !.name = <<>>]
  /\ Short(d.name) \/ Short(e.name) => d.name = e.name

(***************************************************************************)
(* Every answer is what the disk says.  open, stat and fat32_lookup_path   *)
(* reach the entry that the names of the path lead to, whether it came     *)
(* from a child node, a directory cache or a search of the disk, and find  *)
(* it unless an allocation or a read failed in that very call.  read       *)
(* returns the file's bytes from its position on, cut off at the request,  *)
(* the size and the chain.  readdir and fat32_read_dir_path return the     *)
(* visible entries in the order of the disk, complete for any number of    *)
(* rounds of the cache's capacity loop.  A name of more than NAME_MAX      *)
(* bytes is refused with NAMETOOLONG by open, stat and readdir and not     *)
(* found by the driver.  Volumes with sectors of more than 512 bytes, of   *)
(* which the driver reads only a part, are left out.                       *)
(***************************************************************************)
AnswersRight ==
  call.pc = "done" /\ (vol # NULL => vol.bps = SECTOR) => \A ent \in {Expected} :
    CASE call.op \in {"open", "stat", "lookup_path", "fstat"} ->
           Plain(call.path) => FindsRight(ent)
      [] call.op = "read" ->
           \A bytes \in {Contents(ent.cluster)} : ReadsRight(ent, bytes)
      [] call.op = "readdir" ->
           \A es \in {IF ent.dir THEN Entries(ent.cluster) ELSE <<>>} :
             ListsRight(ent, es)
      [] call.op = "read_dir_path" ->
           call.rc = "OK" =>
             \A es \in {Entries(IF ent.cluster < 2 THEN vol.root ELSE ent.cluster)} :
               /\ Len(call.val) = Least(call.arg, Len(es))
               /\ \A i \in DOMAIN call.val : SameEntry(call.val[i], es[i])
      [] OTHER -> TRUE

Owned ==
  UNION ({NodeBlocks(n) \cup {InodeBlock(n)} : n \in DOMAIN nodes}
         \cup {{CacheBlock(n)} : n \in {x \in DOMAIN nodes : nodes[x].cache # NULL}}
         \cup {MountBlocks(m.root) : m \in mounts}
         \cup {{FileBlock(h)} : h \in {x \in Handles : files[x] # NULL}}
         \cup {{ClusterBuf} : x \in {j \in {job} : j.rc = "run" \/ Lost}}
         \cup {{CacheBlock(c.node)} : c \in {x \in {call} : x.pc = "loading"}})

(***************************************************************************)
(* No block is leaked or freed while it is in use, on any path through the *)
(* failures: the heap holds exactly the blocks of the nodes, mounts, files *)
(* and buffers in use, and every node is a child of its parent exactly     *)
(* once or the root of a mount (or of the mount being made), so that       *)
(* fat32_vfs_free_tree reaches it.                                         *)
(***************************************************************************)
HeapExact ==
  /\ heap = Owned
  /\ \A n \in DOMAIN nodes :
       IF Len(n) = 1
       THEN \/ \E m \in mounts : m.root = n
            \/ call.op = "mount" /\ call.pc # "done" /\ call.root = n
       ELSE /\ Front(n) \in DOMAIN nodes
            /\ Cardinality({i \in DOMAIN nodes[Front(n)].kids :
                              nodes[Front(n)].kids[i] = n}) = 1

(***************************************************************************)
(* Every call returns, on a volume without a cyclic cluster chain: the     *)
(* walks end, and so does the loop of fat32_vfs_load_dir_cache that        *)
(* enlarges its buffer until the directory fits, or until the capacity     *)
(* wraps to 0.  A call that overruns its memory is not followed.           *)
(***************************************************************************)
CallsEnd == call.pc # "idle" /\ image \notin CyclicImages ~> call.pc = "idle" \/ Lost
=============================================================================
