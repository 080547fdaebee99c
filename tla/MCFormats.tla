------------------------------ MODULE MCFormats ------------------------------
(* Formats over small trees and directories. *)
EXTENDS Formats

(* Sorted records: apart, or the k'th from the first covering the next few. *)
Recs(n, k) == [i \in 1..n |-> [low |-> 2 * i, high |-> IF i = k THEN 2 * i + 5 ELSE 2 * i]]

McTrees == {[kind |-> "ag", recs |-> Recs(n, k), leafMax |-> lm, nodeMax |-> nm] :
               n \in 0..14, k \in {0, 1, 4}, lm \in {2, 3}, nm \in {2, 3}}

McForks == {[kind |-> "fork", recs |-> Recs(n, 0), max |-> m, rootMax |-> r, attr |-> a] :
               n \in 1..14, m \in {2, 3}, r \in {1, 2}, a \in BOOLEAN}

Ino(n, b) == [n |-> n, big |-> b]
Geo(fork, per) == [dbs |-> 48, hdr |-> 16, fsbPer |-> per, leafFirst |-> 1000, freeFirst |-> 2000,
                   fork |-> fork, dot |-> 3, dotdot |-> 3]
Hashed(i, n, h) == CASE h = "up" -> i [] h = "down" -> n - i [] h = "same" -> 3 [] h = "pairs" -> (i * 5) % 4

Names(n, h, long, big) ==
    [i \in 1..n |-> [id |-> i, len |-> IF i % 3 = long THEN 10 ELSE 3, hash |-> Hashed(i, n, h),
                     ino |-> Ino(i, i = big), ftype |-> "file"]]

McDirs == {[kind |-> "dir", g |-> Geo(30, per), self |-> Ino(0, FALSE), parent |-> Ino(100, b = 0),
            names |-> Names(n, h, l, b), piece |-> p] :
              n \in (0..18) \cup {31, 32, 40}, h \in {"up", "down", "same", "pairs"}, l \in {0, 3}, b \in {0, 99},
              per \in {1, 2}, p \in {1, 3}}

(* Free lists of every length and place in rings of three and four. *)
McRings == UNION {{[kind |-> "agfl", recs |-> [i \in 1..n |-> 40 + i], size |-> z, first |-> f] :
                     n \in 0..z, f \in 0..(z - 1)} : z \in {3, 4}}

(* Files of three blocks of any kind, and of four of data, in blocks of    *)
(* two bytes, that end inside a block, at its end or before the last.      *)
Cellses == [1..3 -> {"data", "unwritten", "hole"}] \cup {<<"data", "data", "data", "data">>}
McFiles == {[kind |-> "file", cells |-> c, size |-> z, piece |-> p, bs |-> 2] :
              c \in Cellses, z \in {3, 5, 6}, p \in {1, 2}}

McLinks == {[kind |-> "link", target |-> [i \in 1..n |-> 50 + i], fork |-> 4, payload |-> 3] : n \in 1..12}

(* Attributes of all namespaces, with values of none to five bytes. *)
Spaces == <<"user", "system", "parent", "trusted", "incomplete", "security">>
AttrNo(i, r) ==
    LET ns == Spaces[((i + r) % 6) + 1]
        plain == [k \in 1..((i + 2 * r) % 6) |-> 10 * i + k]
    IN  [ns |-> ns, name |-> IF ns = "system" THEN "SGI_ACL_FILE" ELSE "name",
         disk |-> IF ns = "system" THEN <<2, AclUser, 7, 4, 1, 9, 6>> ELSE plain,
         value |-> IF ns = "system" THEN <<AclVersion, AclUser, 4, 7, 1, 6, NoId>> ELSE plain]

McAttrs == {[kind |-> "attr", attrs |-> [i \in 1..n |-> AttrNo(i, r)], perLeaf |-> p, deep |-> d,
             local |-> l, inline |-> 2, payload |-> 2] :
               n \in 1..5, r \in 0..5, p \in {1, 2, 5}, d \in BOOLEAN, l \in {FALSE}}
           \cup {[kind |-> "attr", attrs |-> [i \in 1..n |-> AttrNo(i, r)], perLeaf |-> 3, deep |-> FALSE,
                  local |-> TRUE, inline |-> 2, payload |-> 2] : n \in 1..3, r \in 0..5}

(* Superblocks of blocks of 512 bytes and one or two inodes in each, in    *)
(* groups of three to eight blocks, the last perhaps short; and each with  *)
(* one field wrong, a logarithm by the width of its word as well.          *)
Sb(ib, count, blocks, log, short) ==
    [magic |-> TRUE, version |-> 5, versionnum |-> {}, features2 |-> {}, checksum |-> TRUE,
     incompat |-> {"FTYPE"}, ro_compat |-> {}, log_incompat |-> {},
     block_bits |-> 9, block_log |-> 9, inode_bits |-> ib, inodes_per_block |-> 2 ^ (9 - ib),
     inopb_log |-> 9 - ib, ag_count |-> count, ag_blocks |-> blocks, agblk_log |-> log,
     dirblk_log |-> 0, data_blocks |-> count * blocks - short, log_start |-> 1]

Good == {Sb(ib, count, blocks, log, short) :
           ib \in {8, 9}, count \in 1..3, blocks \in {3, 4}, log \in {2, 3}, short \in {0, 2}}

Off(s) ==
    {[s EXCEPT !.block_log = v] : v \in {8, 10}} \cup {[s EXCEPT !.inopb_log = 1 - @, !.agblk_log = 2]}
    \cup {[s EXCEPT !.inodes_per_block = 2 * @]} \cup {[s EXCEPT !.agblk_log = v] : v \in {0, 1, 4, 32, 64}}
    \cup {[s EXCEPT !.ag_count = 0], [s EXCEPT !.ag_blocks = 0], [s EXCEPT !.ag_blocks = 9]}
    \cup {[s EXCEPT !.dirblk_log = v] : v \in {1, 7, 8}} \cup {[s EXCEPT !.block_bits = v] : v \in {8, 17}}
    \cup {[s EXCEPT !.inode_bits = v] : v \in {7, 12}} \cup {[s EXCEPT !.magic = FALSE]}
    \cup {[s EXCEPT !.version = 4], [s EXCEPT !.version = 4, !.versionnum = {"DIRV2"}], [s EXCEPT !.version = 3]}
    \cup {[s EXCEPT !.checksum = FALSE], [s EXCEPT !.incompat = {"NEEDSREPAIR"}], [s EXCEPT !.incompat = {"LATER"}]}
    \cup {[s EXCEPT !.block_log = 41], [s EXCEPT !.inopb_log = @ + 32], [s EXCEPT !.dirblk_log = 56]}

McGeometries == {[kind |-> "sb", s |-> s, checked |-> c] :
                   s \in UNION {Off(g) \cup {g} : g \in Good}, c \in BOOLEAN}

McNarrow == [w |-> 3, giga |-> 5, ext |-> [offset |-> 2, high |-> 1, low |-> 2, count |-> 2], minor |-> 2]

(* Archives of two entries, of which one needs nothing special. *)
Time(s, n) == [secs |-> s, nsecs |-> n]
Entry(k, path, link, uid, t, size, x) ==
    [kind |-> k, path |-> path, link |-> link, uid |-> uid, gid |-> 10 - uid, mtime |-> t, size |-> size,
     dev |-> IF k = "device" THEN 7 ELSE 0, xattrs |-> x]
Plain(z) == Entry("file", 2, 0, 3, Time(4, 0), z, <<>>)
Xattrs == {<<>>, <<[name |-> 4, value |-> 1], [name |-> 3, value |-> 80]>>}

McEntries ==
    {Entry("file", p, 0, u, t, z, x) :
       p \in {3, 6, 89, 90, 91, 92}, u \in {3, 9}, z \in {0, 1, 16, 25}, x \in Xattrs,
       t \in {Time(5, 0), Time(5, 1), Time(-2, 500), Time(-1, 0), Time(-1, 1), Time(301, 0)}}
    \cup {Entry("file", 3, 0, 3, Time(5, 0), 300, <<>>)}
    \cup {Entry(k, 3, l, 3, t, 4, x) : k \in {"symlink", "hardlink", "dir", "device"}, l \in {0, 7},
                                       t \in {Time(5, 0), Time(-1, 1)}, x \in Xattrs}
McArchives == {[kind |-> "tar", entries |-> es] :
                 es \in {<<>>} \cup UNION {{<<e, Plain(3)>>, <<Plain(17), e>>} : e \in McEntries}}
=============================================================================
