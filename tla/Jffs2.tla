------------------------------- MODULE Jffs2 -------------------------------
(***************************************************************************)
(* The JFFS2 reader (fs/jffs2/jffs2_1pass.c) and its commands              *)
(* (common/cmd_jffs2.c) on a partition that Linux writes.                  *)
(*                                                                         *)
(* The partition is a row of words; its contents are the sequence of the   *)
(* nodes in it, in the order of their places.  A node is a piece of a file *)
(* (an inode), an entry of the directory (a dirent), the marker of an      *)
(* erased block, or the rest of a write that failed: "bad" when its header *)
(* can be read and its checksum is wrong, "junk" when not even that.  What *)
(* no node covers is erased.  The reader goes once through the partition,  *)
(* keeps the places of inodes and dirents in two lists, and uses the lists *)
(* for the commands that follow.                                           *)
(*                                                                         *)
(* A page of data is a word of four bytes, and its contents are the version*)
(* of the node that wrote it.  There is one directory.                     *)
(***************************************************************************)
EXTENDS Integers, Sequences, FiniteSets, SequencesExt, FiniteSetsExt

CONSTANTS
  Names,        \* of files; model values
  NoName,
  Images,       \* file systems made by mkfs.jffs2: sets of [name, pages]
  Block,        \* words of an erase block
  Blocks,       \* of the partition
  PerChunk,     \* b_nodes in a MALLOC_CHUNK
  Chunks,       \* chunks the heap has room for
  MaxFiles      \* inodes Linux makes

Size == Block * Blocks
InodeLen == 17
DirentLen == 11
CleanLen == 3
Page == 4            \* bytes of a page, which is a word long
Root == 1

ASSUME Jffs2Assumption ==
  /\ Block \in Nat /\ Block > CleanLen + InodeLen + 1
  /\ {Blocks, PerChunk, MaxFiles} \subseteq Nat \ {0} /\ Chunks \in Nat

VARIABLES
  flash,        \* the nodes of the partition
  files,        \* what Linux holds to be in it: by inode number, its pages
  dir,          \* and the inode of each name, 0 for none
  linux,        \* Linux runs, or the monitor
  list,         \* g_1PassList, the heap it takes from, and what it was made of
  loaded        \* the result of the last command, if it was fsload

vars == <<flash, files, dir, linux, list, loaded>>

-----------------------------------------------------------------------------
(* The partition, as the reader looks at it.                               *)

NodesAt(w) == {k \in DOMAIN flash : flash[k].at = w}
NodeAt(w) == flash[CHOOSE k \in NodesAt(w) : TRUE]
IsKind(w, kinds) == \E k \in NodesAt(w) : flash[k].kind \in kinds
EmptyWord(w) == \A k \in DOMAIN flash : w \notin flash[k].at .. flash[k].at + flash[k].len - 1

\* The last place at which the reader looks for a node, and one.
MaxOffset == Size - InodeLen

\* jffs2_scan_empty: two empty words nine words on mean that no node lies between.
Hop == 8
ScanEmptyWide(start) ==
  IF start + 2 * Hop < MaxOffset /\ EmptyWord(start + 2 * Hop) /\ EmptyWord(start + 2 * Hop + 1)
  THEN start + 2 * Hop + 1 ELSE start + 1
ScanEmpty(start) ==
  LET from[s \in Nat] ==
        IF s + Hop < MaxOffset /\ EmptyWord(s + Hop) /\ EmptyWord(s + Hop + 1)
        THEN from[s + Hop + 1] ELSE s
      first == start + Hop
  IN  IF first < MaxOffset /\ EmptyWord(first) /\ EmptyWord(first + 1)
      THEN from[first + 1] ELSE start + 1

\* The places of the nodes met from w on (jffs2_1pass_build_lists).
Scan[w \in Nat] ==
  IF w >= MaxOffset THEN <<>>
  ELSE IF IsKind(w, {"inode", "dirent", "clean", "bad"})
  THEN <<w>> \o Scan[w + NodeAt(w).len]
  ELSE IF EmptyWord(w) THEN Scan[ScanEmpty(w)]
  ELSE Scan[w + 1]

NoList == [frags |-> <<>>, dirs |-> <<>>, used |-> 0, ok |-> TRUE,
           of |-> <<>>, partial |-> FALSE]

\* add_node: every PerChunk-th node of a list needs a chunk, which is never freed.
Add(l, which, w) ==
  LET need == IF Len(l[which]) % PerChunk = 0 THEN 1 ELSE 0
  IN  IF l.used + need > Chunks THEN [l EXCEPT !.ok = FALSE, !.partial = TRUE]
      ELSE [l EXCEPT ![which] = Append(@, w), !.used = @ + need]

AddNode(l, w) ==
  IF l.ok /\ IsKind(w, {"inode"}) THEN Add(l, "frags", w)
  ELSE IF l.ok /\ IsKind(w, {"dirent"}) THEN Add(l, "dirs", w)
  ELSE l

BuildLists == FoldLeft(AddNode, [NoList EXCEPT !.used = list.used, !.of = flash], Scan[0])

RescanNeeded ==
  \/ list.frags = <<>>
  \/ \E w \in ToSet(list.dirs) : ~IsKind(w, {"dirent"})

\* jffs2_get_list.  A list that was there is ok, even when its scan was not.
GetList == IF RescanNeeded THEN BuildLists ELSE [list EXCEPT !.ok = TRUE]

-----------------------------------------------------------------------------
(* Finding and reading a file.                                             *)

Dirents(l, Test(_)) == {NodeAt(w) : w \in {v \in ToSet(l.dirs) : Test(NodeAt(v))}}
Newest(dirents) == CHOOSE d \in dirents : \A e \in dirents : e.version =< d.version

FindInodeFirst(l, name) ==
  LET entries == Dirents(l, LAMBDA d : d.name = name /\ d.ino # 0)
  IN  IF entries = {} THEN 0
      ELSE (CHOOSE d \in entries : \A e \in entries : d.at =< e.at).ino

\* jffs2_1pass_find_inode: the newest entry of that name which is not an unlink.
FindInode(l, name) ==
  LET entries == Dirents(l, LAMBDA d : d.name = name /\ d.ino # 0)
  IN  IF entries = {} THEN 0 ELSE Newest(entries).ino

FragsOf(l, ino) ==
  SelectSeq(l.frags, LAMBDA w : IsKind(w, {"inode"}) /\ NodeAt(w).ino = ino)

\* jffs2_1pass_resolve_inode: one symbolic link is followed.
ResolveInode(l, ino) ==
  LET entry == Newest(Dirents(l, LAMBDA d : d.ino = ino))
      frags == FragsOf(l, ino)
  IN  IF entry.target = NoName \/ frags = <<>> THEN ino
      ELSE FindInode(l, NodeAt(frags[1]).target)

\* jffs2_1pass_read_inode: nodes are taken in the order of their places until
\* as many words came as the file has, once its length is known.
ReadNode(r, w) ==
  LET n == NodeAt(w)
      twice == n.isize = r.old /\ n.isize > r.total
      total == IF twice THEN n.isize
               ELSE IF ~r.set THEN r.size + n.dsize + 1 ELSE r.total
  IN  IF r.size >= r.total THEN r
      ELSE [size |-> r.size + n.dsize, total |-> total, set |-> r.set \/ twice,
            old |-> n.isize,
            mem |-> IF n.dsize = 0 THEN r.mem ELSE [r.mem EXCEPT ![n.offset \div Page] = n.version]]

Memory == 0 .. Size
Untouched == [page \in Memory |-> 0]
ReadInode(l, ino) ==
  FoldLeft(ReadNode,
           [size |-> 0, total |-> 1, set |-> FALSE, old |-> 0, mem |-> Untouched],
           FragsOf(l, ino))

Nothing == [name |-> NoName, ino |-> 0, size |-> 0, mem |-> Untouched]

\* do_jffs2_fsload
Fsload(name) ==
  LET l == GetList
      found == IF l.ok THEN FindInode(l, name) ELSE 0
      ino == IF found = 0 THEN 0 ELSE ResolveInode(l, found)
      r == ReadInode(l, ino)
  IN  /\ ~linux
      /\ list' = l
      /\ loaded' = IF ino = 0 THEN [Nothing EXCEPT !.name = name]
                   ELSE [name |-> name, ino |-> ino, size |-> r.size, mem |-> r.mem]
      /\ UNCHANGED <<flash, files, dir, linux>>

\* do_jffs2_ls and do_jffs2_fsinfo: they may build the lists too.
Look ==
  /\ ~linux /\ list' = GetList /\ loaded' = Nothing
  /\ UNCHANGED <<flash, files, dir, linux>>

-----------------------------------------------------------------------------
(* The partition's other users.                                            *)

End(nodes) == IF nodes = <<>> THEN 0 ELSE Last(nodes).at + Last(nodes).len
Clean(at) == [kind |-> "clean", at |-> at, len |-> CleanLen]

\* A node goes behind the last one if its block has room, else to the next
\* block, behind its marker.
PlaceIn(nodes, node) ==
  LET end == End(nodes)
      block == IF end = 0 THEN 0 ELSE (end - 1) \div Block
      fits == end > 0 /\ end + node.len =< Block * (block + 1)
      next == IF end = 0 THEN 0 ELSE Block * (block + 1)
  IN  IF fits THEN Append(nodes, [node EXCEPT !.at = end])
      ELSE nodes \o <<Clean(next), [node EXCEPT !.at = next + CleanLen]>>
PlaceAll(nodes, more) == FoldLeft(PlaceIn, nodes, more)

Inode(ino, version, isize, offset, dsize, target) ==
  [kind |-> "inode", at |-> 0, len |-> InodeLen + dsize \div Page, ino |-> ino, version |-> version,
   isize |-> isize, offset |-> offset, dsize |-> dsize, target |-> target]
Dirent(name, ino, version, target) ==
  [kind |-> "dirent", at |-> 0, len |-> DirentLen, name |-> name, ino |-> ino,
   version |-> version, target |-> target]

Versions(nodes, ino) ==
  {nodes[k].version : k \in {j \in DOMAIN nodes : nodes[j].kind = "inode" /\ nodes[j].ino = ino}}
Entries(nodes) ==
  {nodes[k].version : k \in {j \in DOMAIN nodes : nodes[j].kind = "dirent"}}
NextVersion(set) == Max({0} \union set) + 1

\* An image: every file's pieces, each with the file's length, then its entry.
FileOf(image, name) == CHOOSE f \in image : f.name = name
OfImage(nodes, f) ==
  LET ino == Root + 1 + Cardinality(Entries(nodes))
      pieces == [p \in 1 .. f.pages |-> Inode(ino, p, Page * f.pages, Page * (p - 1), Page, NoName)]
  IN  PlaceAll(nodes, pieces \o <<Dirent(f.name, ino, NextVersion(Entries(nodes)), NoName)>>)
NodesOf(image) == FoldLeft(OfImage, <<>>, SetToSeq(image))
InoOf(nodes, name) ==
  Max({0} \union {nodes[k].ino : k \in {j \in DOMAIN nodes :
                      nodes[j].kind = "dirent" /\ nodes[j].name = name}})

NewFile == [pages |-> <<>>, image |-> FALSE, rewritten |-> FALSE, changed |-> FALSE,
            target |-> NoName]
NoFile == [NewFile EXCEPT !.changed = TRUE]
Inos == Root + 1 .. Root + MaxFiles
FilesOf(nodes, image) ==
  [ino \in Inos |->
     IF \E f \in image : InoOf(nodes, f.name) = ino
     THEN LET f == CHOOSE g \in image : InoOf(nodes, g.name) = ino
          IN  [NewFile EXCEPT !.pages = [p \in 1 .. f.pages |-> p], !.image = f.pages > 1]
     ELSE NoFile]

Holds(image) ==
  LET nodes == NodesOf(image)
  IN  [flash |-> nodes, files |-> FilesOf(nodes, image),
       dir |-> [n \in Names |-> InoOf(nodes, n)]]

Init ==
  /\ \E image \in Images \union {{}} :
       /\ flash = Holds(image).flash
       /\ files = Holds(image).files
       /\ dir = Holds(image).dir
  /\ linux \in BOOLEAN
  /\ list = NoList
  /\ loaded = Nothing

\* Linux adds nodes, all or none (but see Torn), and knows what they mean.
Log(nodes) ==
  /\ linux
  /\ flash' = PlaceAll(flash, nodes)
  /\ End(flash') =< Size
  /\ UNCHANGED <<linux, list, loaded>>

EntryFor(name, ino, target) == Dirent(name, ino, NextVersion(Entries(flash)), target)
Unlinked(name) == Dirent(name, 0, NextVersion(Entries(flash)) + 1, NoName)

Create(name, target) == \E ino \in Inos :
  /\ dir[name] = 0 /\ target # name
  /\ files[ino] = NoFile /\ \A j \in Inos : j < ino => files[j] # NoFile
  /\ Log(<<IF target = NoName THEN Inode(ino, 1, 0, 0, 0, NoName)
                                ELSE Inode(ino, 1, Page, 0, Page, target),
           EntryFor(name, ino, target)>>)
  /\ files' = [files EXCEPT ![ino] = [NewFile EXCEPT !.target = target]]
  /\ dir' = [dir EXCEPT ![name] = ino]

\* Page p of a file is written: one more, or one that is there.
Write(name) == \E p \in 1 .. Len(files[dir[name]].pages) + 1 :
  LET ino == dir[name]
      f == files[ino]
      size == Max({p, Len(f.pages)})
      version == NextVersion(Versions(flash, ino))
  IN  /\ f.target = NoName
      /\ Log(<<Inode(ino, version, Page * size, Page * (p - 1), Page, NoName)>>)
      /\ files' = [files EXCEPT ![ino] =
            [f EXCEPT !.pages = [q \in 1 .. size |-> IF q = p THEN version ELSE f.pages[q]],
                      !.rewritten = @ \/ p =< Len(f.pages),
                      !.changed = f.image]]
      /\ UNCHANGED dir

\* chmod, touch: a node without data.
Touch(name) ==
  LET ino == dir[name]
      f == files[ino]
  IN  /\ f.target = NoName
      /\ Log(<<Inode(ino, NextVersion(Versions(flash, ino)), Page * Len(f.pages), 0, 0, NoName)>>)
      /\ files' = [files EXCEPT ![ino].changed = f.image]
      /\ UNCHANGED dir

Rename(from, to) ==
  /\ from # to /\ dir[from] # 0
  /\ Log(<<EntryFor(to, dir[from], files[dir[from]].target), Unlinked(from)>>)
  /\ dir' = [dir EXCEPT ![to] = dir[from], ![from] = 0]
  /\ UNCHANGED files

UnlinkName(name) ==
  /\ dir[name] # 0
  /\ Log(<<EntryFor(name, 0, NoName)>>)
  /\ dir' = [dir EXCEPT ![name] = 0]
  /\ UNCHANGED files

\* The power fails while a node's header is written; Linux starts again.
Torn == \E kind \in {"bad", "junk"} :
  /\ Log(<<[kind |-> kind, at |-> 0, len |-> DirentLen]>>)
  /\ flash # <<>> /\ Last(flash).kind \notin {"bad", "junk"}
  /\ UNCHANGED <<files, dir>>

\* The board is reset: the monitor starts, without lists.  Or Linux is booted.
Reset ==
  /\ linux' = ~linux /\ list' = NoList /\ loaded' = Nothing
  /\ UNCHANGED <<flash, files, dir>>

\* erase and cp.b over the partition, from the monitor.
Reflash == \E image \in Images \union {{}} :
  /\ ~linux
  /\ flash' = Holds(image).flash
  /\ files' = Holds(image).files
  /\ dir' = Holds(image).dir
  /\ loaded' = Nothing
  /\ UNCHANGED <<linux, list>>

Next ==
  \/ \E name \in Names : Fsload(name) \/ UnlinkName(name)
  \/ \E name \in Names, target \in Names \union {NoName} : Create(name, target)
  \/ \E name \in Names : dir[name] # 0 /\ (Write(name) \/ Touch(name))
  \/ \E from, to \in Names : Rename(from, to)
  \/ Look \/ Torn \/ Reset \/ Reflash

Spec == Init /\ [][Next]_vars

-----------------------------------------------------------------------------
(* Properties.                                                             *)

Places(kind) ==
  SelectSeq([k \in DOMAIN flash |-> flash[k].at],
            LAMBDA w : w < MaxOffset /\ IsKind(w, {kind}))

\* The lists fit the heap, and the directory names files that exist.
TypeOK ==
  /\ End(flash) =< Size
  /\ list.used \in 0 .. Chunks
  /\ ToSet(list.frags) \union ToSet(list.dirs) \subseteq 0 .. MaxOffset - 1
  /\ \A name \in Names : dir[name] \in {0} \union {ino \in Inos : files[ino] # NoFile}

\* A scan that had memory lists every inode and every dirent that starts
\* before its limit, once and in order: no hop over erased words, no broken
\* node and no boundary of a block makes it miss one.
ScanComplete ==
  ~list.partial /\ list.of = flash =>
    list.frags = Places("inode") /\ list.dirs = Places("dirent")

\* What the reader cannot see: lists cut short, dirents where the old ones
\* were, a node at the end; and of a file that came in several pieces with an
\* image, what Linux changed later.
Blind ==
  \/ list.partial
  \/ list.of # flash /\ \A w \in ToSet(list.dirs) : IsKind(w, {"dirent"})
  \/ flash # <<>> /\ Last(flash).at >= MaxOffset

LinkedTo(name) ==
  LET target == files[dir[name]].target IN IF target = NoName THEN name ELSE target

\* fsload of a name that exists finds the file that has the name now, through
\* a symbolic link as well, and puts its pages as they are now, and nothing
\* else, into memory; its size is right if no page was written twice.
LoadIntact ==
  loaded.name # NoName /\ ~Blind /\ dir[loaded.name] # 0 =>
    LET ino == dir[LinkedTo(loaded.name)]
        f == files[ino]
    IN  ino # 0 /\ ~f.changed /\ f.target = NoName =>
          /\ loaded.ino = ino
          /\ \A page \in Memory : loaded.mem[page] =
               IF page < Len(f.pages) THEN f.pages[page + 1] ELSE 0
          /\ ~f.rewritten => loaded.size = Page * Len(f.pages)
=============================================================================
