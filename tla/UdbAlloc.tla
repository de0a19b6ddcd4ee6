------------------------------ MODULE UdbAlloc ------------------------------
(***************************************************************************)
(* The space in the database file (udb.c): a buddy allocator whose chunks  *)
(* are moved to the front of the file when others are freed, with the      *)
(* pointers that have to follow them: the relative pointers stored in      *)
(* chunks, which are on a list at the chunk they point to, and the udb_ptr *)
(* variables of the running program, which are in a hash table.            *)
(*                                                                         *)
(* ud.chunk maps the offset of a chunk to its exp and type ("free", or     *)
(* "data" for all the types in use), the object that its user keeps in it, *)
(* its one relative pointer rel (an offset or 0) and ptrlist, the offsets  *)
(* of the chunks whose relative pointer points here; offset 1 stands for   *)
(* user_global in the file header.  ud.free[e] is the free list of chunks  *)
(* of 2^e units.  ud.ptr are the udb_ptrs and ud.bucket the hash table.    *)
(* ud.sees and ud.refers are what the users of the file believe: which     *)
(* object a udb_ptr points to, and the relative pointer of which object    *)
(* points to which object.                                                 *)
(*                                                                         *)
(* The header of a chunk takes one unit.  Chunks above 2^MaxExp (XL        *)
(* chunks, above 1 Mb) are not modelled: no caller asks for one.           *)
(***************************************************************************)
EXTENDS Integers, Sequences, FiniteSets, SequencesExt, FiniteSetsExt

CONSTANTS
    MinExp, MaxExp,     \* UDB_ALLOC_CHUNK_MINEXP, UDB_ALLOC_CHUNKS_MAX
    HeaderSize,         \* UDB_HEADER_SIZE
    DiskSize,           \* the file cannot grow larger
    Obj,                \* objects: numbers above 0
    Sz,                 \* sizes that are asked for
    UdbPtr,             \* udb_ptr variables of the program
    RamSize             \* initial size of the hash table of udb_ptrs (1024)

ASSUME UdbAssumption ==
    /\ MinExp \in Nat /\ MaxExp \in Nat /\ MinExp < MaxExp
    /\ HeaderSize % 2^MinExp = 0 /\ HeaderSize > 1
    /\ \A s \in Sz : s + 1 <= 2^MaxExp

\* udb_base_link_ptr doubles the hash table when it holds as many udb_ptrs as it has
\* buckets, and grow_ram_hash then leaves the elements out of the new table.  NSD
\* has a few dozen udb_ptrs at a time, variables on the stack, and 1024 buckets.
ASSUME RamAssumption == Cardinality(UdbPtr) < RamSize

VARIABLE ud

Mb == 2^MaxExp
Global == 1
NoObj == 0
Freed(e) == [exp |-> e, type |-> "free", obj |-> NoObj, rel |-> 0, ptrlist |-> <<>>]
InUse(e) == [exp |-> e, type |-> "data", obj |-> NoObj, rel |-> 0, ptrlist |-> <<>>]

UdRequire(d, cond, where) == IF cond THEN d ELSE [d EXCEPT !.bad = @ \cup {where}]

\* The header, with no chunk behind it (udb_base_create_new).
NewFile ==
    [base_size |-> HeaderSize, nextgrow |-> HeaderSize, chunk |-> <<>>,
     free |-> [e \in MinExp..MaxExp |-> <<>>], stat_free |-> 0, stat_alloc |-> 0,
     user |-> 0, dirty |-> "clean", clean_close |-> FALSE, inhibit |-> FALSE, useful |-> FALSE,
     ptr |-> [p \in UdbPtr |-> 0], ram_num |-> 0, bucket |-> [i \in 0..RamSize - 1 |-> <<>>],
     sees |-> [p \in UdbPtr |-> NoObj], refers |-> [o \in Obj \cup {NoObj} |-> NoObj], bad |-> {}]
-----------------------------------------------------------------------------
\* Sizes and offsets.

udb_exp_size(a) == CHOOSE x \in 0..a : 2^x >= a /\ (x = 0 \/ 2^(x - 1) < a)
udb_exp_offset(o) == CHOOSE x \in 0..o : o % 2^x = 0 /\ o % 2^(x + 1) # 0
udb_alloc_exp_needed(sz) == IF sz + 1 <= 2^MinExp THEN MinExp ELSE udb_exp_size(sz + 1)

\* The other half of the chunk of twice the size: f ^ esz.
Buddy(f, e) == IF (f \div 2^e) % 2 = 0 THEN f + 2^e ELSE f - 2^e

SetChunk(d, f, c) ==
    [d EXCEPT !.chunk = [x \in DOMAIN d.chunk \cup {f} |-> IF x = f THEN c ELSE d.chunk[x]]]
DropChunk(d, f) == [d EXCEPT !.chunk = [x \in DOMAIN d.chunk \ {f} |-> d.chunk[x]]]
-----------------------------------------------------------------------------
\* The free lists.

udb_alloc_unlink_fl(d, f, e) ==
    UdRequire([d EXCEPT !.free[e] = SelectSeq(@, LAMBDA x : x # f)],
              d.chunk[f].exp = e /\ d.chunk[f].type = "free" /\ f \in Range(d.free[e]), "udb.c:998")

\* The first element has been read from the list: pop it.
udb_alloc_pop_fl(d, e) ==
    UdRequire([d EXCEPT !.free[e] = Tail(@)],
              d.chunk[Head(d.free[e])].exp = e /\ d.chunk[Head(d.free[e])].type = "free", "udb.c:1019")

udb_alloc_push_fl(d, f, e) == [SetChunk(d, f, Freed(e)) EXCEPT !.free[e] = <<f>> \o @]

\* Halve the chunk big of 2^e2 until it has size 2^e; the later halves go free.
RECURSIVE udb_alloc_subdivide(_, _, _, _)
udb_alloc_subdivide(d, big, e2, e) ==
    LET u == udb_alloc_push_fl(d, big + 2^(e2 - 1), e2 - 1)
    IN  IF e2 - 1 = e THEN u ELSE udb_alloc_subdivide(u, big, e2 - 1, e)

\* The free list to take a chunk of 2^e from, or 0.
have_free_for(d, e) ==
    LET S == {x \in e..MaxExp : d.free[x] # <<>>} IN IF S = {} THEN 0 ELSE Min(S)

coagulate_possible(d, f, e) ==
    LET other == Buddy(f, e)
    IN  /\ e # MaxExp /\ other < d.base_size /\ other < d.nextgrow /\ other >= HeaderSize
        /\ other \in DOMAIN d.chunk /\ d.chunk[other].exp = e /\ d.chunk[other].type = "free"

\* Merge f with its buddies as long as they are free, and put it on its list.
RECURSIVE Coagulate(_, _, _)
Coagulate(d, f, e) ==
    LET other == Buddy(f, e)
    IN  IF coagulate_possible(d, f, e)
        THEN Coagulate(DropChunk(DropChunk(udb_alloc_unlink_fl(d, other, e), f), other),
                       Min({f, other}), e + 1)
        ELSE udb_alloc_push_fl(d, f, e)
-----------------------------------------------------------------------------
\* The hash table of the udb_ptrs.

NumBuckets(d) == Cardinality(DOMAIN d.bucket)
chunk_hash_ptr(d, to) == to % NumBuckets(d)

\* The count is incremented, and p is in front of its bucket.
udb_base_link_ptr(d, p, to) ==
    [d EXCEPT !.ram_num = @ + 1, !.ptr[p] = to, !.bucket[chunk_hash_ptr(d, to)] = <<p>> \o @]

udb_base_unlink_ptr(d, p) ==
    [d EXCEPT !.ram_num = @ - 1, !.ptr[p] = 0,
              !.bucket[chunk_hash_ptr(d, d.ptr[p])] = SelectSeq(@, LAMBDA q : q # p)]

udb_ptr_set(d, p, to) ==
    LET u == IF d.ptr[p] # 0 THEN udb_base_unlink_ptr(d, p) ELSE d
    IN  IF to # 0 THEN udb_base_link_ptr(u, p, to) ELSE u

\* Mutant of udb_base_ram_ptr_edit: the udb_ptrs do not follow.
EditNothing(d, old, new) == d

\* Those on the bucket of the old place, in order.
udb_base_ram_ptr_edit(d, old, new) ==
    FoldLeft(LAMBDA u, p : udb_base_link_ptr(udb_base_unlink_ptr(u, p), p, new), d,
             SelectSeq(d.bucket[chunk_hash_ptr(d, old)], LAMBDA p : d.ptr[p] = old))
-----------------------------------------------------------------------------
\* Relative pointers: of the chunk at 'from', or user_global.

RelOf(d, from) == IF from = Global THEN d.user ELSE d.chunk[from].rel
SetRel(d, from, to) ==
    IF from = Global THEN [d EXCEPT !.user = to] ELSE [d EXCEPT !.chunk[from].rel = to]

udb_rel_ptr_unlink(d, from) ==
    LET to == RelOf(d, from)
    IN  IF to = 0 THEN d
        ELSE [d EXCEPT !.chunk[to].ptrlist = SelectSeq(@, LAMBDA x : x # from)]
udb_rel_ptr_link(d, from, to) ==
    IF to = 0 THEN d ELSE [d EXCEPT !.chunk[to].ptrlist = <<from>> \o @]
udb_rel_ptr_set(d, from, to) ==
    SetRel(udb_rel_ptr_link(udb_rel_ptr_unlink(d, from), from, to), from, to)

\* The chunk at f has been copied to g.  Its own relative pointer is at another
\* place now, and the list it is on is told.  When it points to its own chunk and is
\* first on the list there, the new place is not written into the header of the
\* chunk but, at the same distance, into the data behind it (data[1] is the place
\* of the data), over the object.
Renamed(s, f, g) == [i \in DOMAIN s |-> IF s[i] = f THEN g ELSE s[i]]
chunk_fix_ptr_each(d, f, g) ==
    LET to == d.chunk[g].rel
    IN  CASE to = 0 -> d
          [] to # 0 /\ to # f -> [d EXCEPT !.chunk[to].ptrlist = Renamed(@, f, g)]
          [] to = f /\ Head(d.chunk[g].ptrlist) # f -> [d EXCEPT !.chunk[g].ptrlist = Renamed(@, f, g)]
          [] OTHER -> [d EXCEPT !.chunk[g].obj = NoObj]

\* Those that point to f get g.
udb_rel_ptr_edit(d, g) == FoldLeft(LAMBDA u, from : SetRel(u, from, g), d, d.chunk[g].ptrlist)
chunk_fix_ptrs(d, f, g) ==
    udb_base_ram_ptr_edit(udb_rel_ptr_edit(chunk_fix_ptr_each(d, f, g), g), f, g)
-----------------------------------------------------------------------------
\* Compaction: the last chunk goes to free space in front of it.

\* Take a free chunk for 2^e off list e2.
TakeFree(d, e, e2) ==
    LET f == Head(d.free[e2])
        u == udb_alloc_pop_fl(d, e2)
    IN  IF e = e2 THEN u ELSE udb_alloc_subdivide(u, f, e2, e)

move_chunk(d, f, e, e2) ==
    LET g == Head(d.free[e2])
    IN  chunk_fix_ptrs(UdRequire(SetChunk(TakeFree(d, e, e2), g, d.chunk[f]), g # f, "udb.c:1405"), f, g)

ShortenUsage(d, f, e) == [DropChunk(d, f) EXCEPT !.stat_free = @ - 2^e, !.nextgrow = f]

RECURSIVE CompactFrom(_)
CompactFrom(d) ==
    LET f == CHOOSE x \in DOMAIN d.chunk : x + 2^d.chunk[x].exp = d.nextgrow
        e == d.chunk[f].exp
        e2 == have_free_for(d, e)
    IN  IF d.nextgrow <= HeaderSize THEN d
        ELSE IF d.chunk[f].type = "free"
        THEN CompactFrom(ShortenUsage(udb_alloc_unlink_fl(d, f, e), f, e))
        ELSE IF e2 # 0 THEN CompactFrom(ShortenUsage(move_chunk(d, f, e, e2), f, e))
        ELSE d

enough_free(d) ==
    LET space == d.base_size - d.nextgrow
    IN  IF d.base_size <= 2 * Mb THEN d.nextgrow * 3 <= d.base_size
        ELSE space >= Mb /\ (space * 4 >= d.base_size \/ d.base_size < 4 * Mb)

\* The file is truncated; that leaves it clean.
udb_base_shrink(d, nsize) == [d EXCEPT !.base_size = nsize, !.dirty = "clean"]

ShrinkIfUseful(d) == IF enough_free(d) THEN udb_base_shrink(d, d.nextgrow) ELSE d
udb_alloc_compact(d) ==
    IF d.inhibit THEN d ELSE ShrinkIfUseful(CompactFrom([d EXCEPT !.useful = FALSE]))
-----------------------------------------------------------------------------
\* Allocation.

grow_end_calc(d, e) ==
    LET sz == 2^e
    IN  IF d.nextgrow % sz = 0 THEN d.nextgrow + sz
        ELSE (d.nextgrow \div sz) * sz + 2 * sz

grow_extra_check(d, ge) ==
    LET bsz  == d.base_size
        want == ((bsz \div 8) \div Mb) * Mb + Mb
    IN  IF bsz <= Mb THEN Max({ge, 2 * bsz}) ELSE Max({ge, bsz + want})

\* Fails when the disk is full, and leaves the file marked dirty then.
udb_base_grow_and_remap(d, nsize) ==
    IF nsize > DiskSize THEN [d EXCEPT !.dirty = "fsize"]
    ELSE [d EXCEPT !.dirty = "clean", !.base_size = nsize]

RECURSIVE grow_align(_, _)
grow_align(d, esz) ==
    LET fexp == udb_exp_offset(d.nextgrow)
        fn   == d.nextgrow + 2^fexp
    IN  IF d.nextgrow % esz = 0 THEN d
        ELSE grow_align([udb_alloc_push_fl(UdRequire(d, fn <= d.base_size, "udb.c:1074"), d.nextgrow, fexp)
                           EXCEPT !.stat_free = @ + 2^fexp, !.nextgrow = fn], esz)

TakeAtEnd(d, e) ==
    UdRequire([SetChunk(d, d.nextgrow, InUse(e)) EXCEPT !.stat_alloc = @ + 2^e,
                                                       !.nextgrow = @ + 2^e, !.dirty = "clean"],
              d.nextgrow + 2^e <= d.base_size, "udb.c:1104")
grow_chunks(d, e) == TakeAtEnd(grow_align(d, 2^e), e)

\* An allocation is the file after it and the chunk, 0 when there is no space.
udb_alloc_grow_space(d, e) ==
    LET ge  == grow_end_calc(d, e)
        u   == IF ge <= d.base_size THEN [d EXCEPT !.dirty = "clean"]
               ELSE udb_base_grow_and_remap(d, grow_extra_check(d, ge))
        v   == grow_chunks(u, e)
    IN  IF u.dirty # "clean" THEN [d |-> u, f |-> 0] ELSE [d |-> v, f |-> v.nextgrow - 2^e]

udb_alloc_space(d, sz) ==
    LET e  == udb_alloc_exp_needed(sz)
        e2 == have_free_for(d, e)
        f  == Head(d.free[e2])
        u  == SetChunk(TakeFree(d, e, e2), f, InUse(e))
    IN  IF e2 = 0 THEN udb_alloc_grow_space(d, e)
        ELSE [d |-> [UdRequire(u, u.stat_free >= 2^e, "udb.c:1309") EXCEPT
                        !.stat_alloc = @ + 2^e, !.stat_free = @ - 2^e, !.dirty = "clean"],
              f |-> f]

udb_alloc_free(d, f) ==
    LET e == d.chunk[f].exp
        u == UdRequire(d, d.chunk[f].type # "free" /\ d.chunk[f].ptrlist = <<>>, "udb.c:1767")
        v == Coagulate([u EXCEPT !.stat_free = @ + 2^e, !.stat_alloc = @ - 2^e], f, e)
        w == [v EXCEPT !.dirty = "clean"]
    IN  IF d.inhibit THEN [w EXCEPT !.useful = TRUE] ELSE udb_alloc_compact(w)
-----------------------------------------------------------------------------
\* What the users of the file do.  p and q are udb_ptrs.

ObjAt(d, f) == IF f \in DOMAIN d.chunk THEN d.chunk[f].obj ELSE NoObj
Objects == {ud.chunk[f].obj : f \in DOMAIN ud.chunk} \ {NoObj}

UdInit == ud = NewFile

\* udb_ptr_alloc_space, for a udb_ptr that is not in use.
StoreNew(r, p, o) ==
    [udb_ptr_set([r.d EXCEPT !.chunk[r.f].obj = o], p, r.f) EXCEPT
        !.sees[p] = o, !.refers[o] = NoObj]
udb_ptr_alloc_space(p, sz) ==
    LET r == udb_alloc_space(ud, sz)
        o == Min(Obj \ Objects)
    IN  /\ ud.ptr[p] = 0 /\ Obj \ Objects # {}
        /\ ud' = IF r.f = 0 THEN r.d ELSE StoreNew(r, p, o)

\* The object of p is deleted: its relative pointer is zeroed, the udb_ptr given
\* up, the chunk freed.  Nothing else may point to it.
udb_ptr_free_space(p) ==
    LET f == ud.ptr[p]
        u == [udb_ptr_set(udb_rel_ptr_set(ud, f, 0), p, 0) EXCEPT !.sees[p] = NoObj]
    IN  /\ f # 0
        /\ \A q \in UdbPtr \ {p} : ud.sees[q] # ud.sees[p]
        /\ \A o \in Objects \cup {NoObj} : ud.refers[o] # ud.sees[p]
        /\ ud' = [udb_alloc_free(u, f) EXCEPT !.refers[ud.sees[p]] = NoObj]

\* udb_rptr_set_ptr and udb_rptr_zero, the relative pointer in the object of p.  No
\* user of the file (udbradtree.c, udbzone.c, difffile.c) makes an object point to
\* itself: chunk_fix_ptr_each would damage it when it is moved.
udb_rptr_set_ptr(p, q) ==
    /\ ud.ptr[p] # 0 /\ ud.sees[q] # ud.sees[p]
    /\ ud' = [udb_rel_ptr_set(ud, ud.ptr[p], ud.ptr[q]) EXCEPT !.refers[ud.sees[p]] = ud.sees[q]]
udb_base_set_userdata(q) ==
    ud' = [udb_rel_ptr_set(ud, Global, ud.ptr[q]) EXCEPT !.refers[NoObj] = ud.sees[q]]

\* udb_ptr_set_rptr: p follows the relative pointer of its object, or starts at
\* user_global (udb_ptr_new).
udb_ptr_follow(p) ==
    LET from == IF ud.ptr[p] = 0 THEN Global ELSE ud.ptr[p]
    IN  ud' = [udb_ptr_set(ud, p, RelOf(ud, from)) EXCEPT !.sees[p] = ud.refers[ud.sees[p]]]
udb_ptr_zero(p) ==
    ud.ptr[p] # 0 /\ ud' = [udb_ptr_set(ud, p, 0) EXCEPT !.sees[p] = NoObj]

\* Reload inhibits compaction, then allows and does it (server.c).
udb_compact_inhibited == ~ud.inhibit /\ ud' = [ud EXCEPT !.inhibit = TRUE]
udb_compact ==
    LET u == [ud EXCEPT !.inhibit = FALSE]
    IN  ud.inhibit /\ ud' = IF ud.useful THEN udb_alloc_compact(u) ELSE u

\* Mutant of udb_base_close: the mark of a clean close is not set.
CloseUnmarked(d) == d

\* The program ends and is started again.  Only a file that was closed, and that
\* is not dirty, is used again; else a new one is made (udb_base_create_fd fails
\* and namedb_open makes a new one).  It is not closed in the middle of a reload.
udb_base_close(d) ==
    [IF d.nextgrow < d.base_size THEN udb_base_shrink(d, d.nextgrow) ELSE d EXCEPT !.clean_close = TRUE]
udb_base_create_fd(d) ==
    IF d.clean_close /\ d.dirty = "clean"
    THEN [NewFile EXCEPT !.base_size = d.base_size, !.nextgrow = d.nextgrow, !.chunk = d.chunk,
              !.free = d.free, !.stat_free = d.stat_free, !.stat_alloc = d.stat_alloc,
              !.user = d.user, !.refers = d.refers, !.bad = d.bad]
    ELSE [NewFile EXCEPT !.bad = d.bad]
Restart(clean) ==
    (clean => ~ud.inhibit) /\ ud' = udb_base_create_fd(IF clean THEN udb_base_close(ud) ELSE ud)

UdNext ==
    \/ \E p \in UdbPtr, sz \in Sz : udb_ptr_alloc_space(p, sz)
    \/ \E p \in UdbPtr : udb_ptr_free_space(p) \/ udb_ptr_follow(p) \/ udb_ptr_zero(p)
    \/ \E p, q \in UdbPtr : udb_rptr_set_ptr(p, q)
    \/ \E q \in UdbPtr : udb_base_set_userdata(q)
    \/ udb_compact_inhibited \/ udb_compact
    \/ Restart(TRUE) \/ Restart(FALSE)
-----------------------------------------------------------------------------
\* Properties.

ChunkEnd(f) == f + 2^ud.chunk[f].exp
Of(type) == {f \in DOMAIN ud.chunk : ud.chunk[f].type = type}
SpaceOf(type) == SumSet({f * 2^(MaxExp + 1) + 2^ud.chunk[f].exp : f \in Of(type)})
                 - SumSet({f * 2^(MaxExp + 1) : f \in Of(type)})

\* The chunks tile the space in use, each at a multiple of its size.
Tiled ==
    /\ \A f \in DOMAIN ud.chunk : /\ f % 2^ud.chunk[f].exp = 0
                                  /\ ChunkEnd(f) \in DOMAIN ud.chunk \cup {ud.nextgrow}
    /\ ud.nextgrow = HeaderSize \/ HeaderSize \in DOMAIN ud.chunk

\* The free lists hold every free chunk once, and the statistics in the file are
\* the sums over the chunks.  (Free buddies need not have been merged: grow_align
\* adds one next to the free chunk that inhibited compaction left at the end.)
FreeListed ==
    /\ \A e \in MinExp..MaxExp : /\ Range(ud.free[e]) = {f \in Of("free") : ud.chunk[f].exp = e}
                                 /\ Cardinality(Range(ud.free[e])) = Len(ud.free[e])
    /\ ud.stat_free = SpaceOf("free") /\ ud.stat_alloc = SpaceOf("data")

\* Unless compaction is inhibited there is no free chunk at the end, and the
\* last chunk fits into no free space before it.
Compacted ==
    ~ud.inhibit /\ ~ud.useful =>
        \A f \in DOMAIN ud.chunk : ChunkEnd(f) = ud.nextgrow =>
            ud.chunk[f].type = "data" /\ have_free_for(ud, ud.chunk[f].exp) = 0

\* The list at each chunk is exactly the relative pointers that point to it, and
\* no free chunk has one.
PtrlistsExact ==
    \A f \in DOMAIN ud.chunk :
        LET s == ud.chunk[f].ptrlist
        IN  /\ Range(s) = {x \in Of("data") \cup {Global} : RelOf(ud, x) = f}
            /\ Len(s) = Cardinality(Range(s))

\* A udb_ptr and a relative pointer lead to the object that they were set to,
\* though compaction has moved the object, the chunk that holds the pointer, or
\* both.
PointersFollow ==
    /\ \A p \in UdbPtr : ObjAt(ud, ud.ptr[p]) = ud.sees[p]
    /\ ObjAt(ud, ud.user) = ud.refers[NoObj]
    /\ \A f \in Of("data") : ObjAt(ud, ud.chunk[f].rel) = ud.refers[ud.chunk[f].obj]

\* Every udb_ptr in use is in the bucket of the offset that it points to, as
\* udb_ptr_is_on_bucket asserts: compaction finds it there.
OnBucket ==
    \A p \in UdbPtr : ud.ptr[p] # 0 => p \in Range(ud.bucket[chunk_hash_ptr(ud, ud.ptr[p])])

\* However allocation, freeing, growth, compaction and restarts are mixed, no
\* assertion of udb.c fails, no chunk is lost or overlaps another, the free lists,
\* statistics and pointer lists agree with the chunks, the file is as short as
\* compaction can make it, and every pointer follows the object it was set to.
UdSound ==
    /\ ud.bad = {} /\ Tiled /\ FreeListed /\ Compacted
    /\ PointersFollow /\ PtrlistsExact /\ OnBucket

\* No object is lost but the one that is deleted: a file that is closed and opened
\* again has them all.  The exceptions are a program that ends without closing the
\* file, and a file whose last growth failed (udb_base_create_fd).
UdKeepsObjects ==
    [][/\ ud.dirty = "clean" /\ Restart(TRUE) => Objects' = Objects
       /\ \/ Restart(FALSE) \/ ud.dirty # "clean" \/ Objects \subseteq Objects'
          \/ \E p \in UdbPtr : Objects' = Objects \ {ud.sees[p]} /\ ud'.sees[p] = NoObj]_ud
=============================================================================
