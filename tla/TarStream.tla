------------------------------- MODULE TarStream -------------------------------
(***************************************************************************)
(* The tar stream (tar.rs): ustar headers, PAX records for what they       *)
(* cannot hold, contents and padding, and how a reader of tar takes it     *)
(* apart (external).                                                       *)
(*                                                                         *)
(* A stream is a sequence of cells, one a byte: a header or a record is in *)
(* its first cell and the rest are filler.  A name or a value is its       *)
(* length, and a time is [secs, nsecs].  The sizes of the format are       *)
(* parameters, so that they can be scaled down.                            *)
(***************************************************************************)
EXTENDS Integers, Sequences

CONSTANTS
    Block,     \* bytes of a block                       (BLOCK)
    NameMax,   \* bytes of a name in a header            (100)
    IdMax,     \* IDs a header holds are below this      (8^7)
    SizeMax,   \* sizes and times likewise               (8^11)
    Giga       \* nanoseconds in a second

ASSUME TarAssumption == {Block, NameMax, IdMax, SizeMax, Giga} \subseteq Nat \ {0}

Filler == [c |-> "filler"]
ZeroByte == [c |-> "zero"]
Cells(n, c) == [i \in 1..n |-> c]
Framed(r, n) == <<r>> \o Cells(n - 1, Filler)
ToBlock(n) == (Block - (n % Block)) % Block

----------------------------------------------------------------------------
(* PAX records.                                                            *)

Digits(n) ==
    LET d[m \in Nat] == IF m < 10 THEN 1 ELSE 1 + d[m \div 10] IN d[n]

(* Mutant: the length is worked out once. *)
pax_len_once(key, value) ==
    LET body == key + value + 3 IN body + Digits(body)

(* The length `pax_record` puts in "<len> <key>=<value>\n", which counts   *)
(* its own digits: tried until it comes out right.                         *)
pax_len(key, value) ==
    LET body == key + value + 3
        try[len \in Nat] == IF len = body + Digits(len) THEN len ELSE try[body + Digits(len)]
    IN  try[body + 1]

(* `pax_record`: as many cells as the text has bytes. *)
pax_record(key, keyLen, value, valueLen) ==
    LET len == pax_len(keyLen, valueLen)
    IN  Framed([c |-> "pax", key |-> key, value |-> value, len |-> len],
               keyLen + valueLen + 3 + Digits(len))

(* A time in decimal: the sign, and the whole and the fraction of its      *)
(* distance from 1970.                                                     *)
pax_time(t) ==
    IF t.nsecs = 0 THEN [neg |-> t.secs < 0, whole |-> IF t.secs < 0 THEN -t.secs ELSE t.secs, frac |-> 0]
    ELSE IF t.secs >= 0 THEN [neg |-> FALSE, whole |-> t.secs, frac |-> t.nsecs]
    ELSE [neg |-> TRUE, whole |-> -(t.secs + 1), frac |-> Giga - t.nsecs]

TimeLen(p) == Digits(p.whole) + (IF p.neg THEN 1 ELSE 0) + (IF p.frac = 0 THEN 0 ELSE 10)

----------------------------------------------------------------------------
(* Headers.  An entry h is [path, kind, link, uid, gid, mtime, size, dev,  *)
(* xattrs], an attribute [name, value].                                    *)

(* What an octal field holds: the number, or nothing if it is too large. *)
octal(v, max) == IF v < max THEN v ELSE 0

(* A name cut to the field. *)
Cut(n) == IF n <= NameMax THEN n ELSE NameMax

ustar(kind, path, h, size) ==
    [c |-> "header", kind |-> kind, path |-> Cut(path), link |-> Cut(h.link),
     uid |-> octal(h.uid, IdMax), gid |-> octal(h.gid, IdMax), size |-> octal(size, SizeMax),
     time |-> IF h.mtime.secs >= 0 THEN octal(h.mtime.secs, SizeMax) ELSE 0,
     dev |-> IF h.kind = "device" THEN octal(h.dev, IdMax) ELSE 0]

(* Whether `ustar` could put everything in. *)
fits(h, size) ==
    /\ h.path <= NameMax /\ h.link <= NameMax
    /\ h.uid < IdMax /\ h.gid < IdMax /\ size < SizeMax
    /\ h.mtime.secs >= 0 /\ h.mtime.secs < SizeMax
    /\ h.kind = "device" => h.dev < IdMax

(* The PAX records of an entry, end to end. *)
PaxOf(h, size) ==
    LET long(key, keyLen, n) == IF n > NameMax THEN pax_record(key, keyLen, n, n) ELSE <<>>
        t == pax_time(h.mtime)
        xattr[i \in 0..Len(h.xattrs)] ==
            IF i = 0 THEN <<>>
            ELSE xattr[i - 1] \o pax_record("xattr", 13 + h.xattrs[i].name, h.xattrs[i], h.xattrs[i].value)
    IN  (IF fits(h, size) /\ h.mtime.nsecs = 0 THEN <<>>
         ELSE long("path", 4, h.path) \o long("linkpath", 8, h.link)
              \o pax_record("size", 4, size, Digits(size))
              \o pax_record("uid", 3, h.uid, Digits(h.uid))
              \o pax_record("gid", 3, h.gid, Digits(h.gid))
              \o pax_record("mtime", 5, t, TimeLen(t)))
        \o xattr[Len(h.xattrs)]

(* The header of the records themselves: nobody's, and before no file. *)
PaxHeader(h) ==
    [kind |-> "file", link |-> 0, uid |-> 0, gid |-> 0, dev |-> 0,
     mtime |-> [secs |-> IF h.mtime.secs > 0 THEN h.mtime.secs ELSE 0, nsecs |-> 0]]
PaxPath(h) == 11 + (IF h.path < 80 THEN h.path ELSE 80)

----------------------------------------------------------------------------
(* The writer: what has gone out, content bytes owed, padding owed, and    *)
(* whether an assert has failed.                                           *)

NewWriter == [out |-> <<>>, owed |-> 0, pad |-> 0, failed |-> FALSE]

finish_entry(w) == [w EXCEPT !.out = @ \o Cells(w.pad, ZeroByte), !.pad = 0]

(* `begin`: the last entry padded, the records with a header of their own, *)
(* then the entry's header.                                                *)
begin(w, h) ==
    LET size == IF h.kind = "file" THEN h.size ELSE 0
        pax == PaxOf(h, size)
        ext == IF pax = <<>> THEN <<>>
               ELSE Framed(ustar("x", PaxPath(h), PaxHeader(h), Len(pax)), Block)
                    \o pax \o Cells(ToBlock(Len(pax)), ZeroByte)
    IN  [out |-> finish_entry(w).out \o ext \o Framed(ustar(h.kind, h.path, h, size), Block),
         owed |-> size, pad |-> ToBlock(size), failed |-> w.failed \/ w.owed # 0]

(* `data`. *)
tar_data(w, bytes) ==
    [w EXCEPT !.out = @ \o bytes, !.owed = @ - Len(bytes), !.failed = @ \/ Len(bytes) > w.owed]

(* `finish`. *)
tar_finish(w) ==
    [finish_entry(w) EXCEPT !.out = @ \o Cells(2 * Block, ZeroByte), !.failed = @ \/ w.owed # 0]

(* An archive of entries with the given contents, handed over at once      *)
(* (`append`) or in two parts.                                             *)
Archive(entries, contents) ==
    LET w[i \in 0..Len(entries)] ==
            IF i = 0 THEN NewWriter
            ELSE LET bytes == contents[i]
                     half == Len(bytes) \div 2
                 IN  tar_data(tar_data(begin(w[i - 1], entries[i]), SubSeq(bytes, 1, half)),
                              SubSeq(bytes, half + 1, Len(bytes)))
    IN  tar_finish(w[Len(entries)])

----------------------------------------------------------------------------
(* A reader of tar (external): PAX records, if there are any, override the *)
(* header after them.                                                      *)

Bad == <<[c |-> "bad"]>>

PaxAt(out, from, end) ==
    LET recs[p \in from..end] ==
            IF p = end THEN <<>>
            ELSE IF out[p].c # "pax" THEN Bad
            ELSE IF p + out[p].len > end THEN Bad
            ELSE <<out[p]>> \o recs[p + out[p].len]
    IN  recs[from]

(* What the records say of a key, or else what the header does. *)
Overridden(recs, key, default) ==
    LET said == {i \in DOMAIN recs : recs[i].key = key}
    IN  IF said = {} THEN default ELSE recs[CHOOSE i \in said : \A j \in said : j <= i].value

(* A time from its distance from 1970. *)
TimeOf(p) ==
    LET ns == (p.whole * Giga + p.frac) * (IF p.neg THEN -1 ELSE 1)
    IN  [secs |-> ns \div Giga, nsecs |-> ns % Giga]

EntryAt(out, p, recs) ==
    LET h == out[p]
        size == Overridden(recs, "size", h.size)
    IN  [kind |-> h.kind, path |-> Overridden(recs, "path", h.path),
         link |-> Overridden(recs, "linkpath", h.link), dev |-> h.dev,
         uid |-> Overridden(recs, "uid", h.uid), gid |-> Overridden(recs, "gid", h.gid),
         mtime |-> TimeOf(Overridden(recs, "mtime", [neg |-> FALSE, whole |-> h.time, frac |-> 0])),
         xattrs |-> LET x == SelectSeq(recs, LAMBDA r : r.key = "xattr") IN [i \in DOMAIN x |-> x[i].value],
         size |-> size, bytes |-> SubSeq(out, p + Block, p + Block + size - 1)]

(* The entries of a stream up to its two blocks of zeroes, which are its   *)
(* end; Bad where there is neither a header nor the end.                   *)
ReadTar(out) ==
    LET after(p, n) == p + Block + n + ToBlock(n)
        read[p \in 1..(Len(out) + 1)] ==
            IF p > Len(out) THEN Bad
            ELSE IF out[p].c = "zero"
                THEN IF SubSeq(out, p, Len(out)) = Cells(2 * Block, ZeroByte) THEN <<>> ELSE Bad
            ELSE IF out[p].c # "header" THEN Bad
            ELSE LET ext == out[p].kind = "x"
                     recs == IF ext THEN PaxAt(out, p + Block, p + Block + out[p].size) ELSE <<>>
                     q == IF ext THEN after(p, out[p].size) ELSE p
                 IN  IF (\E i \in DOMAIN recs : recs[i].c = "bad") \/ q > Len(out) THEN Bad
                     ELSE IF out[q].c # "header" THEN Bad
                     ELSE LET e == EntryAt(out, q, recs)
                          IN  <<e>> \o (IF after(q, e.size) > Len(out) THEN Bad ELSE read[after(q, e.size)])
    IN  read[1]
=============================================================================
