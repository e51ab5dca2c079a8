---------------------------- MODULE MMBlocksLemmas ----------------------------
(***************************************************************************)
(* What the size arithmetic of mm.c computes and what each of its          *)
(* functions does to a well-formed heap, for every value of the constants. *)
(* "pending" holds the free block that a function has in hand and that is  *)
(* on no list, so the lemmas follow a block from remove_from_list to       *)
(* add_to_list; the calls of mm.h (mm_init, mm_malloc, mm_free,            *)
(* mm_realloc) are put together from them.                                 *)
(***************************************************************************)
EXTENDS MMBlocks, DataLemmas

(***************************************************************************)
(* Sizes                                                                   *)
(***************************************************************************)
\* ALIGN rounds up to a multiple of 8, by less than 8, when it does not wrap.
LEMMA AlignUp ==
    ASSUME NEW n \in Nat, n + 7 < SIZE_MOD
    PROVE  /\ ALIGN(n) \in Nat /\ ALIGN(n) % 8 = 0
           /\ ALIGN(n) >= n /\ ALIGN(n) <= n + 7
<1>1. (n + 7) % SIZE_MOD = n + 7
  BY ModSmall, SizesAssumption
<1>. QED
  BY <1>1 DEF ALIGN

\* ADJUST_WORDCOUNT gives an odd number of words, at least 3, and adds at
\* most one to a larger count.
LEMMA WordCount ==
    ASSUME NEW w \in Nat
    PROVE  /\ ADJUST_WORDCOUNT(w) \in Nat
           /\ ADJUST_WORDCOUNT(w) >= 3 /\ ADJUST_WORDCOUNT(w) >= w
           /\ ADJUST_WORDCOUNT(w) % 2 = 1
           /\ ADJUST_WORDCOUNT(w) <= w + 1 \/ ADJUST_WORDCOUNT(w) = 3
BY DEF ADJUST_WORDCOUNT

\* ADJUST_BYTESIZE gives a block size (a multiple of 8, at least MIN_SIZE)
\* that has room for the payload and the header, for every request that is
\* more than 15 bytes away from wrapping.
LEMMA AdjustedSize ==
    ASSUME NEW n \in Nat, n > 0, n + 16 <= SIZE_MOD
    PROVE  /\ ADJUST_BYTESIZE(n) \in Nat
           /\ ADJUST_BYTESIZE(n) % 8 = 0
           /\ ADJUST_BYTESIZE(n) >= MIN_SIZE
           /\ ADJUST_BYTESIZE(n) >= n + WSIZE
           /\ ADJUST_BYTESIZE(n) <= n + 15
<1> DEFINE w == (n + 3) \div 4
           k == ADJUST_WORDCOUNT(w)
<1>1. (n + WSIZE - 1) % SIZE_MOD = n + 3
  BY ModSmall, SizesAssumption DEF WSIZE
<1>2. w \in Nat /\ 4 * w >= n /\ 4 * w <= n + 3
  OBVIOUS
<1>3. /\ k \in Nat /\ k >= 3 /\ k >= w /\ k % 2 = 1
      /\ k <= w + 1 \/ k = 3
  BY <1>2, WordCount
<1> HIDE DEF w, k
<1>4. k * 4 + 7 < SIZE_MOD /\ k * 4 \in Nat /\ k * 4 < SIZE_MOD
  BY <1>2, <1>3, SizesAssumption
<1>5. (k * 4) % SIZE_MOD = k * 4
  BY <1>4, ModSmall, SizesAssumption
<1>6. ADJUST_BYTESIZE(n) = ALIGN(k * 4)
  BY <1>1, <1>5 DEF ADJUST_BYTESIZE, WSIZE, w, k
<1>7. /\ ALIGN(k * 4) \in Nat /\ ALIGN(k * 4) % 8 = 0
      /\ ALIGN(k * 4) >= k * 4 /\ ALIGN(k * 4) <= k * 4 + 7
  BY <1>4, AlignUp
<1>8. ALIGN(k * 4) # k * 4
  BY <1>3, <1>7
<1>. QED
  BY <1>2, <1>3, <1>6, <1>7, <1>8 DEF MIN_SIZE, WSIZE

\* calc_list_index always names one of the free lists.
LEMMA ListIndexType ==
    ASSUME NEW size
    PROVE  calc_list_index(size) \in 0 .. FREELIST_COUNT - 1
<1> DEFINE S == {bits \in 0 .. FREELIST_COUNT - 1 :
                   size \div 2^bits <= 1 \/ bits + 1 >= FREELIST_COUNT}
<1>1. FREELIST_COUNT - 1 \in S /\ S \subseteq 0 .. FREELIST_COUNT - 1
      /\ FREELIST_COUNT - 1 \in Nat
  BY SizesAssumption
<1>2. Min(S) \in S
  BY <1>1, MinBelow, Zenon
<1>. QED
  BY <1>2 DEF calc_list_index

\* When mem_sbrk succeeds and the sum did not wrap, the break is still in
\* the arena.
LEMMA SbrkStaysInArena ==
    ASSUME NEW brk \in Nat, NEW incr \in Nat,
           mem_start_brk + brk + incr < SIZE_MOD, ~SbrkFails(brk, incr)
    PROVE  brk + incr <= MAX_HEAP
<1>1. (mem_start_brk + brk + incr) % SIZE_MOD = mem_start_brk + brk + incr
  BY ModSmall, SizesAssumption
<1>. QED
  BY <1>1, SizesAssumption DEF SbrkFails

(***************************************************************************)
(* Free lists, merging and splitting                                       *)
(***************************************************************************)
\* Removing a node that is not on a list changes nothing.
LEMMA RemoveAbsent ==
    ASSUME NEW s \in Seq(Nat), NEW e, e \notin Range(s)
    PROVE  Unlinked(s, e) = s
<1>1. DOMAIN s = 1 .. Len(s)
  OBVIOUS
<1>. QED
  BY <1>1 DEF Unlinked, Range

\* Removing a node from a list of distinct nodes takes away that node and no
\* other.
LEMMA RemovePresent ==
    ASSUME NEW s \in Seq(Nat), NEW e, IsInjective(s), e \in Range(s)
    PROVE  /\ Unlinked(s, e) \in Seq(Nat)
           /\ IsInjective(Unlinked(s, e))
           /\ Range(Unlinked(s, e)) = Range(s) \ {e}
<1>1. DOMAIN s = 1 .. Len(s)
  OBVIOUS
<1>2. PICK k \in 1 .. Len(s) : s[k] = e
  BY <1>1 DEF Range
<1>3. {i \in 1 .. Len(s) : s[i] = e} = {k}
  BY <1>1, <1>2 DEF IsInjective
<1>4. Min({k}) = k
  BY <1>2 DEF Min
<1>5. Unlinked(s, e) = SubSeq(s, 1, k - 1) \o SubSeq(s, k + 1, Len(s))
  BY <1>3, <1>4, Zenon DEF Unlinked
<1> DEFINE t == SubSeq(s, 1, k - 1) \o SubSeq(s, k + 1, Len(s))
<1>6. t \in Seq(Nat) /\ IsInjective(t) /\ Range(t) = Range(s) \ {s[k]}
  BY DropOne, Zenon DEF Without
<1> HIDE DEF t
<1>. QED
  BY <1>2, <1>5, <1>6, Zenon DEF t

\* What writing one header does to the size fields.
LEMMA PutSizeIs ==
    ASSUME NEW size, NEW gone, NEW bp, NEW n
    PROVE  /\ DOMAIN PutSize(size, gone, bp, n) = (DOMAIN size \ gone) \cup {bp}
           /\ PutSize(size, gone, bp, n)[bp] = n
           /\ \A b \in DOMAIN size \ gone :
                 b # bp => PutSize(size, gone, bp, n)[b] = size[b]
BY DEF PutSize

\* remove_from_list on a free block's own list leaves a well-formed heap with
\* that block in hand.
LEMMA Unlink ==
    ASSUME NEW h, NEW pending, NEW b, WellFormed(h, pending),
           IsFree(h, b), b \notin pending
    PROVE  LET u == remove_from_list(h, b, calc_list_index(h.size[b]))
           IN  /\ u.size = h.size /\ u.alloc = h.alloc
               /\ u.prev = h.prev /\ u.brk = h.brk
               /\ WellFormed(u, pending \cup {b})
<1> DEFINE i == calc_list_index(h.size[b])
           u == remove_from_list(h, b, i)
<1>1. /\ u.size = h.size /\ u.alloc = h.alloc /\ u.prev = h.prev /\ u.brk = h.brk
      /\ u.lists = [h.lists EXCEPT ![i] = Unlinked(@, b)]
  BY DEF remove_from_list, Heap
<1>2. i \in ListIndices
  BY ListIndexType DEF ListIndices
<1> HIDE DEF i, u
<1>3. /\ h.lists[i] \in Seq(Nat) /\ IsInjective(h.lists[i]) /\ b \in Range(h.lists[i])
  BY <1>2 DEF WellFormed, Listed, IsFree, i
<1>4. /\ Unlinked(h.lists[i], b) \in Seq(Nat)
      /\ IsInjective(Unlinked(h.lists[i], b))
      /\ Range(Unlinked(h.lists[i], b)) = Range(h.lists[i]) \ {b}
  BY <1>3, RemovePresent
<1>5. Listed(u, pending \cup {b})
  <2>1. u.lists \in [ListIndices -> Seq(Nat)]
    BY <1>1, <1>4, Zenon DEF WellFormed, Listed
  <2>2. ASSUME NEW j \in ListIndices
        PROVE  /\ IsInjective(u.lists[j])
               /\ Range(u.lists[j]) =
                    {c \in DOMAIN h.size \ (h.alloc \cup pending \cup {b}) :
                        calc_list_index(h.size[c]) = j}
    <3>1. CASE j = i
      <4>1. u.lists[j] = Unlinked(h.lists[i], b)
        BY <1>1, <1>2, <3>1 DEF WellFormed, Listed
      <4>. QED  BY <1>4, <3>1, <4>1 DEF WellFormed, Listed
    <3>2. CASE j # i
      <4>1. u.lists[j] = h.lists[j]
        BY <1>1, <3>2 DEF WellFormed, Listed
      <4>. QED  BY <3>2, <4>1 DEF WellFormed, Listed, i
    <3>. QED  BY <3>1, <3>2
  <2>. QED  BY <1>1, <2>1, <2>2 DEF WellFormed, Listed
<1>6. Tiled(u)
  BY <1>1 DEF WellFormed, Tiled
<1>7. Marked(u, pending \cup {b})
  BY <1>1 DEF WellFormed, Marked, IsFree
<1>. QED
  BY <1>1, <1>5, <1>6, <1>7 DEF WellFormed, u, i

\* add_to_list puts the block in hand on its list and leaves none in hand,
\* provided its header says that the block before it is allocated.
LEMMA Link ==
    ASSUME NEW h, NEW b, WellFormed(h, {b}), IsFree(h, b), b \in h.prev
    PROVE  LET u == add_to_list(h, b, calc_list_index(h.size[b]))
           IN  /\ u.size = h.size /\ u.alloc = h.alloc
               /\ u.prev = h.prev /\ u.brk = h.brk
               /\ WellFormed(u, {})
<1> DEFINE i == calc_list_index(h.size[b])
           u == add_to_list(h, b, i)
<1>1. /\ u.size = h.size /\ u.alloc = h.alloc /\ u.prev = h.prev /\ u.brk = h.brk
      /\ u.lists = [h.lists EXCEPT ![i] = Append(@, b)]
  BY DEF add_to_list, Heap
<1>2. i \in ListIndices
  BY ListIndexType DEF ListIndices
<1> HIDE DEF i, u
<1>3. /\ h.lists[i] \in Seq(Nat) /\ IsInjective(h.lists[i])
      /\ b \notin Range(h.lists[i]) /\ b \in Nat
  BY <1>2 DEF WellFormed, Listed, Tiled, IsFree
<1>4. /\ Append(h.lists[i], b) \in Seq(Nat)
      /\ IsInjective(Append(h.lists[i], b))
      /\ Range(Append(h.lists[i], b)) = Range(h.lists[i]) \cup {b}
  BY <1>3, AppendFresh
<1>5. Listed(u, {})
  <2>1. u.lists \in [ListIndices -> Seq(Nat)]
    BY <1>1, <1>4, Zenon DEF WellFormed, Listed
  <2>2. ASSUME NEW j \in ListIndices
        PROVE  /\ IsInjective(u.lists[j])
               /\ Range(u.lists[j]) =
                    {c \in DOMAIN h.size \ h.alloc : calc_list_index(h.size[c]) = j}
    <3>1. CASE j = i
      <4>1. u.lists[j] = Append(h.lists[i], b)
        BY <1>1, <1>2, <3>1 DEF WellFormed, Listed
      <4>. QED  BY <1>4, <3>1, <4>1 DEF WellFormed, Listed, IsFree, i
    <3>2. CASE j # i
      <4>1. u.lists[j] = h.lists[j]
        BY <1>1, <3>2 DEF WellFormed, Listed
      <4>. QED  BY <3>2, <4>1 DEF WellFormed, Listed, i
    <3>. QED  BY <3>1, <3>2
  <2>. QED  BY <1>1, <2>1, <2>2 DEF WellFormed, Listed
<1>6. Tiled(u)
  BY <1>1 DEF WellFormed, Tiled
<1>7. Marked(u, {})
  BY <1>1 DEF WellFormed, Marked, IsFree
<1>. QED
  BY <1>1, <1>5, <1>6, <1>7 DEF WellFormed, u, i

\* r is h with its free blocks a and b made one, the one at a.
MergeOf(h, a, b, r) ==
    /\ WellFormed(r, {a}) /\ IsFree(r, a)
    /\ DOMAIN r.size = DOMAIN h.size \ {b}
    /\ r.size[a] = h.size[a] + h.size[b]
    /\ \A c \in DOMAIN h.size \ {a, b} : r.size[c] = h.size[c]
    /\ r.alloc = h.alloc /\ r.prev = h.prev \ {b} /\ r.brk = h.brk

\* Two neighbouring free blocks in hand become one, and the heap stays
\* well-formed (the header and footer writes of coalesce).
LEMMA Merge ==
    ASSUME NEW h, NEW a, NEW b, WellFormed(h, {a, b}),
           IsFree(h, a), IsFree(h, b), b = a + h.size[a]
    PROVE  MergeOf(h, a, b, Merged(h, a, b))
<1> DEFINE s == PutSize(h.size, {b}, a, h.size[a] + h.size[b])
           r == Merged(h, a, b)
           B == DOMAIN h.size
<1>1. /\ r.size = s /\ r.alloc = h.alloc /\ r.prev = h.prev \ {b}
      /\ r.lists = h.lists /\ r.brk = h.brk
  BY DEF Heap, Merged
<1>2. /\ a \in B /\ b \in B /\ a < b
      /\ h.size[a] \in Nat /\ h.size[b] \in Nat /\ a \in Nat /\ b \in Nat
      /\ a \notin h.alloc /\ b \notin h.alloc
  BY DEF WellFormed, Tiled, IsFree, MIN_SIZE
<1>3. /\ DOMAIN s = B \ {b}
      /\ s[a] = h.size[a] + h.size[b]
      /\ \A c \in B \ {a, b} : s[c] = h.size[c]
  <2>1. a # b
    BY <1>2
  <2>2. DOMAIN s = (DOMAIN h.size \ {b}) \cup {a}
    BY DEF PutSize
  <2>3. s[a] = h.size[a] + h.size[b]
    BY DEF PutSize
  <2>4. \A c \in B \ {a, b} : s[c] = h.size[c]
    BY DEF PutSize
  <2> HIDE DEF s
  <2>. QED  BY <1>2, <2>1, <2>2, <2>3, <2>4
<1>4. \A c \in B : /\ c \in Nat /\ h.size[c] \in Nat /\ c >= FIRST
                   /\ h.size[c] >= 16
                   /\ c + h.size[c] <= h.brk
                   /\ c + h.size[c] \in B \/ c + h.size[c] = h.brk
  BY DEF WellFormed, Tiled, MIN_SIZE
<1>mod. \A c \in B : c % 8 = 0 /\ h.size[c] % 8 = 0
  BY DEF WellFormed, Tiled
<1>5. \A c, d \in B : c < d => c + h.size[c] <= d
  BY DEF WellFormed, Tiled
<1>6. h.brk \in Nat /\ h.brk % 8 = 0 /\ FIRST \in B
  BY DEF WellFormed, Tiled
<1> HIDE DEF s, r, B
<1>7. Tiled(r)
  <2>1. s \in [DOMAIN s -> Nat] /\ DOMAIN s \subseteq Nat
    <3>1. s = [c \in DOMAIN s |-> s[c]]
      BY DEF s, PutSize
    <3>2. \A c \in DOMAIN s : s[c] \in Nat
      <4> TAKE c \in DOMAIN s
      <4>1. c = a \/ c \in B \ {a, b}
        BY <1>3
      <4>. QED  BY <1>2, <1>3, <1>4, <4>1
    <3>. QED  BY <1>3, <1>4, <3>1, <3>2
  <2>2. FIRST \in DOMAIN s
    BY <1>2, <1>3, <1>4, <1>6 DEF FIRST, WSIZE
  <2>3. ASSUME NEW c \in DOMAIN s
        PROVE  /\ c >= FIRST /\ c % 8 = 0
               /\ s[c] >= MIN_SIZE /\ s[c] % 8 = 0
               /\ c + s[c] <= h.brk
               /\ c + s[c] \in DOMAIN s \cup {h.brk}
    <3>1. CASE c = a
      <4>1. c + s[c] = b + h.size[b] /\ c + s[c] # b
        BY <1>2, <1>3, <1>4, <3>1
      <4>2. s[c] >= MIN_SIZE /\ s[c] % 8 = 0
        BY <1>2, <1>3, <1>4, <1>mod, <3>1 DEF MIN_SIZE
      <4>. QED  BY <1>2, <1>3, <1>4, <1>mod, <3>1, <4>1, <4>2
    <3>2. CASE c # a
      <4>1. c \in B /\ c # b /\ s[c] = h.size[c]
        BY <1>3, <3>2
      <4>2. c + h.size[c] # b
        <5>1. CASE c < a
          <6>1. c + h.size[c] <= a /\ c \in Nat /\ h.size[c] \in Nat
            BY <1>2, <1>4, <1>5, <4>1, <5>1, Zenon
          <6>. QED  BY <1>2, <6>1
        <5>2. CASE c > a
          <6>1. b <= c /\ c \in Nat /\ h.size[c] \in Nat /\ h.size[c] >= 16
            BY <1>2, <1>4, <1>5, <4>1, <5>2, Zenon
          <6>. QED  BY <1>2, <6>1
        <5>3. c \in Nat
          BY <1>4, <4>1
        <5>. QED  BY <1>2, <3>2, <5>1, <5>2, <5>3
      <4>. QED  BY <1>3, <1>4, <1>mod, <4>1, <4>2 DEF MIN_SIZE
    <3>. QED  BY <3>1, <3>2
  <2>4. ASSUME NEW c \in DOMAIN s, NEW d \in DOMAIN s, c < d
        PROVE  c + s[c] <= d
    <3>1. c \in B /\ d \in B /\ d # b /\ c # b
      BY <1>3
    <3>2. CASE c = a
      <4>1. b <= d
        BY <1>2, <1>5, <2>4, <3>1, <3>2, Zenon
      <4>2. b + h.size[b] <= d
        <5>1. b < d
          <6>1. d \in Nat
            BY <1>4, <3>1
          <6>. QED  BY <1>2, <3>1, <4>1, <6>1
        <5>. QED  BY <1>2, <1>5, <3>1, <5>1, Zenon
      <4>. QED  BY <1>2, <1>3, <3>2, <4>2
    <3>3. CASE c # a
      BY <1>3, <1>5, <2>4, <3>1, <3>3
    <3>. QED  BY <3>2, <3>3
  <2>. QED  BY <1>1, <1>6, <2>1, <2>2, <2>3, <2>4 DEF Tiled
<1>8. Listed(r, {a})
  BY <1>1, <1>2, <1>3 DEF WellFormed, Listed, B
<1>9. Marked(r, {a})
  <2>1. b # h.brk /\ a # h.brk
    BY <1>2, <1>4, <1>6
  <2>2. /\ r.prev \subseteq DOMAIN r.size \cup {r.brk}
        /\ DOMAIN r.size \ {a} \subseteq r.prev
    BY <1>1, <1>3 DEF WellFormed, Marked, B
  <2>3. ASSUME NEW x \in {a, h.brk}, x \notin h.prev
        PROVE  \E p \in DOMAIN s \ h.alloc : p + s[p] = x
    <3>1. PICK p \in B \ h.alloc : p + h.size[p] = x
      BY <2>3 DEF WellFormed, Marked, B
    <3>2. CASE p = b
      <4>1. a + s[a] = x
        BY <1>2, <1>3, <3>1, <3>2
      <4>. QED  BY <1>2, <1>3, <4>1
    <3>3. CASE p = a
      <4>1. x = b
        BY <3>1, <3>3
      <4>. QED  BY <1>2, <2>1, <4>1
    <3>4. CASE p # a /\ p # b
      BY <1>3, <3>1, <3>4
    <3>. QED  BY <3>2, <3>3, <3>4
  <2>. QED  BY <1>1, <1>2, <2>1, <2>2, <2>3 DEF Marked
<1>10. WellFormed(r, {a})
  BY <1>7, <1>8, <1>9 DEF WellFormed
<1>11. IsFree(r, a)
  BY <1>1, <1>2, <1>3 DEF IsFree
<1>. QED
  BY <1>1, <1>3, <1>10, <1>11 DEF MergeOf, r, B

\* The blocks in A have the same size in r as in h.
Kept(A, h, r) == \A b \in A : b \in DOMAIN r.size /\ r.size[b] = h.size[b]

\* Case 2 of coalesce: the next block is merged into the one in hand; no
\* allocated block changes.
LEMMA AbsorbNextKeeps ==
    ASSUME NEW h, NEW bp, WellFormed(h, {bp}), IsFree(h, bp),
           IsFree(h, bp + h.size[bp])
    PROVE  LET r == AbsorbNext(h, bp)
           IN  /\ WellFormed(r, {bp})
               /\ IsFree(r, bp)
               /\ r.alloc = h.alloc /\ r.brk = h.brk
               /\ Kept(h.alloc, h, r)
               /\ r.size[bp] >= h.size[bp]
               /\ bp \in r.prev <=> bp \in h.prev
               /\ \A p \in DOMAIN h.size :
                     p + h.size[p] = bp => p \in DOMAIN r.size /\ r.size[p] = h.size[p]
<1> DEFINE next == bp + h.size[bp]
           u == remove_from_list(h, next, calc_list_index(h.size[next]))
           r == AbsorbNext(h, bp)
<1>1. /\ bp \in DOMAIN h.size /\ bp \in Nat /\ h.size[bp] \in Nat
      /\ h.size[bp] >= 16 /\ bp \notin h.alloc
      /\ next \in DOMAIN h.size /\ next \notin h.alloc
      /\ h.size[next] \in Nat
      /\ h.alloc \subseteq DOMAIN h.size
  BY DEF WellFormed, Tiled, Listed, IsFree, MIN_SIZE
<1>2. next # bp /\ next \in Nat /\ next > bp
  BY <1>1
<1>3. /\ u.size = h.size /\ u.alloc = h.alloc /\ u.prev = h.prev /\ u.brk = h.brk
      /\ WellFormed(u, {bp} \cup {next})
  <2> HIDE DEF next
  <2>. QED  BY <1>2, Unlink DEF next
<1>4. r = Merged(u, bp, next)
  BY DEF AbsorbNext
<1> HIDE DEF next, u, r
<1>5. {bp} \cup {next} = {bp, next}
  OBVIOUS
<1>6. WellFormed(u, {bp, next}) /\ IsFree(u, bp) /\ IsFree(u, next)
      /\ next = bp + u.size[bp]
  BY <1>1, <1>3, <1>5, Zenon DEF IsFree, next
<1>7. /\ WellFormed(r, {bp}) /\ IsFree(r, bp)
      /\ DOMAIN r.size = DOMAIN h.size \ {next}
      /\ r.size[bp] = h.size[bp] + h.size[next]
      /\ \A c \in DOMAIN h.size \ {bp, next} : r.size[c] = h.size[c]
      /\ r.alloc = h.alloc /\ r.prev = h.prev \ {next} /\ r.brk = h.brk
  <2>1. MergeOf(u, bp, next, r)
    BY <1>4, <1>6, Merge
  <2>. QED  BY <1>3, <2>1 DEF MergeOf
<1>8. Kept(h.alloc, h, r)
  BY <1>1, <1>7 DEF Kept
<1>9. r.size[bp] >= h.size[bp]
  BY <1>1, <1>7
<1>10. ASSUME NEW p \in DOMAIN h.size, p + h.size[p] = bp
       PROVE  p \in DOMAIN r.size /\ r.size[p] = h.size[p]
  <2>1. p \in Nat /\ h.size[p] \in Nat /\ h.size[p] >= 16
    BY DEF WellFormed, Tiled, MIN_SIZE
  <2>2. p # bp /\ p # next
    BY <1>1, <1>2, <1>10, <2>1
  <2>. QED  BY <1>7, <2>2
<1>. QED
  BY <1>2, <1>7, <1>8, <1>9, <1>10 DEF r

\* In a tiled heap only one block ends where another begins, so GET_PREVBLOCK
\* is well defined.
LEMMA PrevBlockIs ==
    ASSUME NEW h, NEW bp, Tiled(h), NEW p \in DOMAIN h.size, p + h.size[p] = bp
    PROVE  PrevBlock(h, bp) = p
<1>1. ASSUME NEW q \in DOMAIN h.size, q + h.size[q] = bp PROVE q = p
  <2>1. /\ p \in Nat /\ q \in Nat /\ h.size[p] \in Nat /\ h.size[q] \in Nat
        /\ h.size[p] >= 16 /\ h.size[q] >= 16
        /\ p < q => p + h.size[p] <= q
        /\ q < p => q + h.size[q] <= p
    BY DEF Tiled, MIN_SIZE
  <2>. QED  BY <1>1, <2>1
<1>. QED
  BY <1>1 DEF PrevBlock

\* Case 3 of coalesce: when the PREVALLOC bit is clear the block before is
\* free, and merging with it changes no allocated block.
LEMMA AbsorbPrevKeeps ==
    ASSUME NEW h, NEW bp, WellFormed(h, {bp}), IsFree(h, bp), bp \notin h.prev
    PROVE  LET r == AbsorbPrev(h, bp)
               p == PrevBlock(h, bp)
           IN  /\ p + h.size[p] = bp /\ p \in DOMAIN h.size
               /\ WellFormed(r, {p})
               /\ IsFree(r, p)
               /\ p \in r.prev
               /\ r.alloc = h.alloc /\ r.brk = h.brk
               /\ Kept(h.alloc, h, r)
               /\ r.size[p] >= h.size[bp]
<1> DEFINE p == PrevBlock(h, bp)
           u == remove_from_list(h, p, calc_list_index(h.size[p]))
           r == AbsorbPrev(h, bp)
<1>1. PICK q \in DOMAIN h.size \ h.alloc : q + h.size[q] = bp
  BY DEF WellFormed, Marked
<1>2. p = q
  BY <1>1, PrevBlockIs DEF WellFormed
<1>3. r = Merged(u, p, bp)
  BY DEF AbsorbPrev
<1> HIDE DEF p, r
<1>4. /\ p \in DOMAIN h.size /\ p \notin h.alloc /\ p \in Nat
      /\ p + h.size[p] = bp /\ h.size[p] \in Nat /\ h.size[p] >= 16
      /\ bp \in DOMAIN h.size /\ bp \notin h.alloc /\ bp \in Nat
      /\ h.size[bp] \in Nat
      /\ h.alloc \subseteq DOMAIN h.size
  BY <1>1, <1>2 DEF WellFormed, Tiled, Listed, IsFree, MIN_SIZE
<1>5. p # bp
  BY <1>4
<1>6. /\ u.size = h.size /\ u.alloc = h.alloc /\ u.prev = h.prev /\ u.brk = h.brk
      /\ WellFormed(u, {bp} \cup {p})
  BY <1>4, <1>5, Unlink, Zenon DEF IsFree
<1> HIDE DEF u
<1>7. {bp} \cup {p} = {p, bp}
  OBVIOUS
<1>8. WellFormed(u, {p, bp}) /\ IsFree(u, p) /\ IsFree(u, bp) /\ bp = p + u.size[p]
  BY <1>4, <1>6, <1>7 DEF IsFree
<1>9. /\ WellFormed(r, {p}) /\ IsFree(r, p)
      /\ DOMAIN r.size = DOMAIN h.size \ {bp}
      /\ r.size[p] = h.size[p] + h.size[bp]
      /\ \A c \in DOMAIN h.size \ {p, bp} : r.size[c] = h.size[c]
      /\ r.alloc = h.alloc /\ r.prev = h.prev \ {bp} /\ r.brk = h.brk
  <2>1. MergeOf(u, p, bp, r)
    BY <1>3, <1>8, Merge
  <2>. QED  BY <1>6, <2>1 DEF MergeOf
<1>10. Kept(h.alloc, h, r)
  BY <1>4, <1>9 DEF Kept
<1>11. r.size[p] >= h.size[bp]
  BY <1>4, <1>9
<1>12. p \in r.prev
  BY <1>4, <1>5, <1>9 DEF WellFormed, Marked
<1>. QED
  BY <1>4, <1>9, <1>10, <1>11, <1>12 DEF r, p

\* coalesce takes the block in hand to a well-formed heap with none in hand:
\* the block it returns is free, at least as large, and no allocated block
\* has changed.
LEMMA CoalesceKeeps ==
    ASSUME NEW h, NEW bp, WellFormed(h, {bp}), IsFree(h, bp)
    PROVE  LET r == coalesce(h, bp)
           IN  /\ WellFormed(r.heap, {})
               /\ IsFree(r.heap, r.bp)
               /\ r.heap.alloc = h.alloc /\ r.heap.brk = h.brk
               /\ Kept(h.alloc, h, r.heap)
               /\ r.heap.size[r.bp] >= h.size[bp]
<1> DEFINE n == IF IsFree(h, bp + h.size[bp]) THEN AbsorbNext(h, bp) ELSE h
           start == IF bp \in h.prev THEN bp ELSE PrevBlock(h, bp)
           m == IF bp \in h.prev THEN n ELSE AbsorbPrev(n, bp)
           f == add_to_list(m, start, calc_list_index(m.size[start]))
           r == coalesce(h, bp)
<1>1. r.heap = f /\ r.bp = start
  BY DEF coalesce
<1>2. bp \in DOMAIN h.size /\ h.size[bp] \in Nat /\ h.alloc \subseteq DOMAIN h.size
  BY DEF WellFormed, Tiled, Listed, IsFree
<1> HIDE DEF f, r
<1>3. /\ WellFormed(n, {bp}) /\ IsFree(n, bp)
      /\ n.alloc = h.alloc /\ n.brk = h.brk /\ Kept(h.alloc, h, n)
      /\ n.size[bp] >= h.size[bp]
      /\ bp \in n.prev <=> bp \in h.prev
      /\ \A p \in DOMAIN h.size :
            p + h.size[p] = bp => p \in DOMAIN n.size /\ n.size[p] = h.size[p]
  <2>1. CASE IsFree(h, bp + h.size[bp])
    BY <2>1, AbsorbNextKeeps
  <2>2. CASE ~IsFree(h, bp + h.size[bp])
    BY <1>2, <2>2 DEF Kept
  <2>. QED  BY <2>1, <2>2
<1>4. n.size[bp] \in Nat
  BY <1>3, Zenon DEF WellFormed, Tiled, IsFree
<1> HIDE DEF n
<1>5. /\ WellFormed(m, {start}) /\ IsFree(m, start) /\ start \in m.prev
      /\ m.alloc = h.alloc /\ m.brk = h.brk /\ Kept(h.alloc, h, m)
      /\ m.size[start] >= h.size[bp]
  <2>1. CASE bp \in h.prev
    BY <1>3, <2>1
  <2>2. CASE bp \notin h.prev
    <3> DEFINE q == PrevBlock(n, bp)
               w == AbsorbPrev(n, bp)
    <3>1. /\ q + n.size[q] = bp /\ q \in DOMAIN n.size
          /\ WellFormed(w, {q}) /\ IsFree(w, q) /\ q \in w.prev
          /\ w.alloc = n.alloc /\ w.brk = n.brk /\ Kept(n.alloc, n, w)
          /\ w.size[q] >= n.size[bp]
      BY <1>3, <2>2, AbsorbPrevKeeps, Zenon
    <3>2. PICK p \in DOMAIN h.size : p + h.size[p] = bp
      BY <2>2 DEF WellFormed, Marked
    <3>3. p \in DOMAIN n.size /\ p + n.size[p] = bp
      BY <1>3, <3>2
    <3>4. PrevBlock(h, bp) = p /\ q = p
      BY <1>3, <3>2, <3>3, PrevBlockIs DEF WellFormed
    <3>5. start = q /\ m = w
      BY <2>2, <3>4
    <3> HIDE DEF q, w, start, m
    <3>6. Kept(h.alloc, h, w)
      BY <1>3, <3>1 DEF Kept
    <3>7. w.size[q] \in Nat
      BY <3>1 DEF WellFormed, Tiled, IsFree
    <3>8. w.size[q] >= h.size[bp]
      BY <1>2, <1>3, <1>4, <3>1, <3>7
    <3>. QED  BY <1>3, <3>1, <3>5, <3>6, <3>8
  <2>. QED  BY <2>1, <2>2
<1> HIDE DEF start, m
<1>6. /\ f.size = m.size /\ f.alloc = m.alloc /\ f.prev = m.prev /\ f.brk = m.brk
      /\ WellFormed(f, {})
  BY <1>5, Link DEF f
<1>. QED
  BY <1>1, <1>5, <1>6 DEF r, Kept, IsFree

\* When mem_sbrk succeeds, extend_heap returns a free block of at least the
\* size asked for in a well-formed heap that ends inside the arena.
LEMMA ExtendKeeps ==
    ASSUME NEW h, WellFormed(h, {}), h.brk <= MAX_HEAP,
           NEW n \in Nat, n >= MIN_SIZE, n % 8 = 0,
           mem_start_brk + MAX_HEAP + n < SIZE_MOD, ~SbrkFails(h.brk, n)
    PROVE  LET r == extend_heap(h, n)
           IN  /\ WellFormed(r.heap, {})
               /\ IsFree(r.heap, r.bp)
               /\ r.heap.alloc = h.alloc
               /\ r.heap.brk = h.brk + n /\ h.brk + n <= MAX_HEAP
               /\ Kept(h.alloc, h, r.heap)
               /\ r.heap.size[r.bp] >= n
<1> DEFINE bp == h.brk
           s == PutSize(h.size, {}, bp, n)
           g == Heap(s, h.alloc, h.prev, h.lists, h.brk + n)
           r == extend_heap(h, n)
           B == DOMAIN h.size
<1>1. r = coalesce(g, bp)
  BY DEF extend_heap
<1>2. /\ g.size = s /\ g.alloc = h.alloc /\ g.prev = h.prev
      /\ g.lists = h.lists /\ g.brk = h.brk + n
  BY DEF Heap
<1>3. /\ h.brk \in Nat /\ h.brk % 8 = 0 /\ FIRST \in B /\ h.alloc \subseteq B
      /\ h.size \in [B -> Nat] /\ B \subseteq Nat
  BY DEF WellFormed, Tiled, Listed
<1>4. \A b \in B : /\ b \in Nat /\ h.size[b] \in Nat /\ b >= FIRST
                   /\ h.size[b] >= 16 /\ b + h.size[b] <= h.brk
                   /\ b + h.size[b] \in B \/ b + h.size[b] = h.brk
  BY DEF WellFormed, Tiled, MIN_SIZE
<1>5. \A b \in B : b % 8 = 0 /\ h.size[b] % 8 = 0
  BY DEF WellFormed, Tiled
<1>6. \A b, c \in B : b < c => b + h.size[b] <= c
  BY DEF WellFormed, Tiled
<1>7. \A b \in B : b < bp /\ b # bp
  BY <1>3, <1>4
<1>8. /\ DOMAIN s = B \cup {bp} /\ s[bp] = n
      /\ \A b \in B : s[b] = h.size[b]
  BY <1>7 DEF PutSize
<1>9. s = [b \in DOMAIN s |-> s[b]]
  BY DEF PutSize
<1>10. h.brk + n <= MAX_HEAP
  <2>1. mem_start_brk + h.brk + n < SIZE_MOD
    BY <1>3, SizesAssumption
  <2>. QED  BY <1>3, <2>1, SbrkStaysInArena
<1> HIDE DEF bp, s, g, r, B
<1>11. bp \in Nat /\ bp % 8 = 0 /\ bp = h.brk
  BY <1>3 DEF bp
<1>12. Tiled(g)
  <2>1. s \in [DOMAIN s -> Nat] /\ DOMAIN s \subseteq Nat
    BY <1>4, <1>8, <1>9, <1>11
  <2>2. h.brk + n \in Nat /\ (h.brk + n) % 8 = 0
    BY <1>3
  <2>3. ASSUME NEW b \in DOMAIN s
        PROVE  /\ b >= FIRST /\ b % 8 = 0 /\ s[b] >= MIN_SIZE /\ s[b] % 8 = 0
               /\ b + s[b] <= h.brk + n
               /\ b + s[b] \in DOMAIN s \cup {h.brk + n}
    <3>1. CASE b \in B
      <4>1. s[b] = h.size[b] /\ b % 8 = 0 /\ s[b] % 8 = 0
        BY <1>5, <1>8, <3>1
      <4>2. b >= FIRST /\ s[b] >= MIN_SIZE /\ b + s[b] \in DOMAIN s
        BY <1>4, <1>8, <1>11, <3>1 DEF MIN_SIZE
      <4>3. b + s[b] <= h.brk + n
        <5>1. b \in Nat /\ h.size[b] \in Nat /\ b + h.size[b] <= h.brk
          BY <1>4, <3>1
        <5>. QED  BY <1>3, <4>1, <5>1
      <4>. QED  BY <4>1, <4>2, <4>3
    <3>2. CASE b = bp
      <4>1. FIRST <= bp
        BY <1>3, <1>4, <1>11
      <4>. QED  BY <1>8, <1>11, <3>2, <4>1
    <3>. QED  BY <1>8, <3>1, <3>2
  <2>4. ASSUME NEW b \in DOMAIN s, NEW c \in DOMAIN s, b < c
        PROVE  b + s[b] <= c
    <3>1. b \in B
      <4>1. c <= bp /\ c \in Nat
        BY <1>4, <1>7, <1>8, <1>11
      <4>. QED  BY <1>8, <1>11, <2>4, <4>1
    <3>2. CASE c \in B
      BY <1>6, <1>8, <2>4, <3>1, <3>2
    <3>3. CASE c = bp
      BY <1>4, <1>8, <1>11, <3>1, <3>3
    <3>. QED  BY <1>8, <3>2, <3>3
  <2>. QED  BY <1>2, <1>3, <1>8, <2>1, <2>2, <2>3, <2>4 DEF Tiled
<1>13. Listed(g, {bp})
  BY <1>2, <1>3, <1>7, <1>8 DEF WellFormed, Listed, B
<1>14. Marked(g, {bp})
  <2>1. /\ g.prev \subseteq DOMAIN g.size \cup {g.brk}
        /\ DOMAIN g.size \ {bp} \subseteq g.prev
    BY <1>2, <1>7, <1>8, <1>11 DEF WellFormed, Marked, B
  <2>2. ASSUME bp \notin h.prev
        PROVE  \E p \in DOMAIN s \ h.alloc : p + s[p] = bp
    BY <1>8, <1>11, <2>2 DEF WellFormed, Marked, B
  <2>3. \E p \in DOMAIN s \ h.alloc : p + s[p] = h.brk + n
    BY <1>3, <1>7, <1>8, <1>11
  <2>. QED  BY <1>2, <2>1, <2>2, <2>3 DEF Marked
<1>15. WellFormed(g, {bp}) /\ IsFree(g, bp)
  BY <1>2, <1>3, <1>7, <1>8, <1>12, <1>13, <1>14, Zenon DEF WellFormed, IsFree
<1>16. /\ WellFormed(r.heap, {}) /\ IsFree(r.heap, r.bp)
       /\ r.heap.alloc = g.alloc /\ r.heap.brk = g.brk
       /\ Kept(g.alloc, g, r.heap) /\ r.heap.size[r.bp] >= g.size[bp]
  BY <1>1, <1>15, CoalesceKeeps
<1>17. Kept(h.alloc, h, r.heap)
  BY <1>2, <1>3, <1>8, <1>16, Zenon DEF Kept
<1>. QED
  BY <1>2, <1>8, <1>10, <1>16, <1>17 DEF r

\* r is h with its free block bp handed out, with at least n bytes.
PlacedIn(h, bp, n, r) ==
    /\ WellFormed(r, {})
    /\ r.alloc = h.alloc \cup {bp} /\ r.brk = h.brk
    /\ Kept(h.alloc, h, r)
    /\ bp \in DOMAIN r.size /\ r.size[bp] >= n

\* allocate without a split: the whole block is marked, and so is PREVALLOC in
\* the header after it.
LEMMA UseWholeKeeps ==
    ASSUME NEW h, NEW bp, WellFormed(h, {bp}), IsFree(h, bp), bp \in h.prev,
           NEW n, n <= h.size[bp]
    PROVE  PlacedIn(h, bp, n, UseWhole(h, bp))
<1> DEFINE r == UseWhole(h, bp)
           next == bp + h.size[bp]
<1>1. /\ r.size = h.size /\ r.alloc = h.alloc \cup {bp}
      /\ r.prev = h.prev \cup {next} /\ r.lists = h.lists /\ r.brk = h.brk
  BY DEF UseWhole, Heap
<1>2. bp \in DOMAIN h.size /\ next \in DOMAIN h.size \cup {h.brk}
  BY DEF WellFormed, Tiled, IsFree
<1> HIDE DEF r
<1>3. Tiled(r)
  BY <1>1 DEF WellFormed, Tiled
<1>4. Listed(r, {})
  BY <1>1, <1>2 DEF WellFormed, Listed
<1>5. Marked(r, {})
  <2>1. /\ r.prev \subseteq DOMAIN r.size \cup {r.brk}
        /\ DOMAIN r.size \subseteq r.prev
    BY <1>1, <1>2 DEF WellFormed, Marked
  <2>2. ASSUME h.brk \notin r.prev
        PROVE  \E p \in DOMAIN r.size \ r.alloc : p + r.size[p] = h.brk
    <3>1. h.brk \notin h.prev /\ h.brk # next
      BY <1>1, <2>2
    <3>2. PICK p \in DOMAIN h.size \ h.alloc : p + h.size[p] = h.brk
      BY <3>1 DEF WellFormed, Marked
    <3>3. p # bp
      BY <3>1, <3>2
    <3>. QED  BY <1>1, <3>2, <3>3
  <2>. QED  BY <1>1, <2>1, <2>2 DEF Marked
<1>6. Kept(h.alloc, h, r)
  BY <1>1 DEF Kept, WellFormed, Listed
<1>7. WellFormed(r, {})
  BY <1>3, <1>4, <1>5 DEF WellFormed
<1>. QED
  BY <1>1, <1>2, <1>6, <1>7 DEF PlacedIn, r

\* Sums and differences of multiples of 8 are multiples of 8.
LEMMA SumOfEights ==
    ASSUME NEW a \in Nat, NEW b \in Nat, a % 8 = 0, b % 8 = 0
    PROVE  (a + b) % 8 = 0 /\ (a - b) % 8 = 0
OBVIOUS

\* allocate with a split: the front is handed out, and the rest, coalesced
\* with what follows, is a free block on its list.
LEMMA SplitKeeps ==
    ASSUME NEW h, NEW bp, WellFormed(h, {bp}), IsFree(h, bp), bp \in h.prev,
           NEW n \in Nat, n % 8 = 0, n >= MIN_SIZE, h.size[bp] - n >= MIN_SIZE
    PROVE  PlacedIn(h, bp, n, Split(h, bp, n))
<1> DEFINE rest == bp + n
           s == PutSize(PutSize(h.size, {}, bp, n), {}, rest, h.size[bp] - n)
           g == Heap(s, h.alloc \cup {bp}, h.prev \cup {rest}, h.lists, h.brk)
           r == Split(h, bp, n)
           B == DOMAIN h.size
<1>1. r = coalesce(g, rest).heap
  BY DEF Split
<1>2. /\ g.size = s /\ g.alloc = h.alloc \cup {bp} /\ g.prev = h.prev \cup {rest}
      /\ g.lists = h.lists /\ g.brk = h.brk
  BY DEF Heap
<1>3. /\ h.brk \in Nat /\ h.brk % 8 = 0 /\ FIRST \in B /\ h.alloc \subseteq B
      /\ h.size \in [B -> Nat] /\ B \subseteq Nat
  <2>1. Tiled(h) /\ h.alloc \subseteq B
    BY DEF WellFormed, Listed
  <2>. QED  BY <2>1 DEF Tiled
<1>4. \A b \in B : /\ b \in Nat /\ h.size[b] \in Nat /\ b >= FIRST
                   /\ h.size[b] >= 16 /\ b + h.size[b] <= h.brk
                   /\ b + h.size[b] \in B \/ b + h.size[b] = h.brk
  BY DEF WellFormed, Tiled, MIN_SIZE
<1>5. \A b \in B : b % 8 = 0 /\ h.size[b] % 8 = 0
  BY DEF WellFormed, Tiled
<1>6. \A b, c \in B : b < c => b + h.size[b] <= c
  BY DEF WellFormed, Tiled
<1>7. /\ bp \in B /\ bp \notin h.alloc /\ bp \in Nat /\ h.size[bp] \in Nat
      /\ rest \in Nat /\ rest = bp + n /\ rest > bp
      /\ rest + 16 <= bp + h.size[bp] /\ n >= 16
      /\ FIRST \in Nat
  BY <1>4 DEF IsFree, MIN_SIZE, FIRST, WSIZE
<1>8. rest \notin B
  <2> SUFFICES ASSUME rest \in B PROVE FALSE
    OBVIOUS
  <2>1. bp + h.size[bp] <= rest
    BY <1>6, <1>7
  <2>. QED  BY <1>7, <2>1
<1>9. /\ DOMAIN s = B \cup {rest} /\ s[rest] = h.size[bp] - n /\ s[bp] = n
      /\ \A b \in B \ {bp} : s[b] = h.size[b]
  <2>1. bp # rest
    BY <1>7
  <2>. QED  BY <1>7, <1>8, <2>1 DEF PutSize
<1>10. s = [b \in DOMAIN s |-> s[b]]
  BY DEF PutSize
<1> HIDE DEF rest, s, g, r, B
<1>11. /\ s[rest] \in Nat /\ s[rest] >= 16 /\ s[rest] % 8 = 0 /\ rest % 8 = 0
       /\ rest + s[rest] = bp + h.size[bp]
  <2>1. s[rest] \in Nat /\ s[rest] >= 16 /\ rest + s[rest] = bp + h.size[bp]
    BY <1>7, <1>9 DEF MIN_SIZE
  <2>2. bp % 8 = 0 /\ h.size[bp] % 8 = 0
    BY <1>5, <1>7
  <2>3. rest % 8 = 0 /\ s[rest] % 8 = 0
    BY <1>7, <1>9, <2>2, SumOfEights
  <2>. QED  BY <2>1, <2>3
<1>12. Tiled(g)
  <2>1. s \in [DOMAIN s -> Nat] /\ DOMAIN s \subseteq Nat
    <3>1. \A b \in DOMAIN s : s[b] \in Nat
      BY <1>4, <1>7, <1>9, <1>11, Zenon
    <3>. QED  BY <1>3, <1>7, <1>9, <1>10, <3>1
  <2>2. ASSUME NEW b \in DOMAIN s
        PROVE  /\ b >= FIRST /\ b % 8 = 0 /\ s[b] >= MIN_SIZE /\ s[b] % 8 = 0
               /\ b + s[b] <= h.brk
               /\ b + s[b] \in DOMAIN s \cup {h.brk}
    <3>1. CASE b \in B \ {bp}
      BY <1>4, <1>5, <1>9, <3>1 DEF MIN_SIZE
    <3>2. CASE b = bp
      <4>1. bp >= FIRST /\ bp % 8 = 0 /\ bp + h.size[bp] <= h.brk
        BY <1>4, <1>5, <1>7
      <4>2. b + s[b] = rest /\ s[b] = n
        BY <1>7, <1>9, <3>2
      <4>3. rest <= h.brk
        BY <1>3, <1>7, <4>1
      <4>. QED  BY <1>9, <3>2, <4>1, <4>2, <4>3
    <3>3. CASE b = rest
      <4>1. bp >= FIRST /\ bp + h.size[bp] <= h.brk
            /\ bp + h.size[bp] \in B \cup {h.brk}
        BY <1>4, <1>7
      <4>2. rest >= FIRST
        BY <1>7, <4>1
      <4>. QED  BY <1>9, <1>11, <3>3, <4>1, <4>2 DEF MIN_SIZE
    <3>. QED  BY <1>9, <3>1, <3>2, <3>3
  <2>3. ASSUME NEW b \in DOMAIN s, NEW c \in DOMAIN s, b < c
        PROVE  b + s[b] <= c
    <3>1. CASE b \in B \ {bp} /\ c \in B
      BY <1>6, <1>9, <2>3, <3>1
    <3>2. CASE b \in B \ {bp} /\ c = rest
      <4>1. b < bp
        <5>1. b \in Nat /\ (bp < b => bp + h.size[bp] <= b)
          BY <1>4, <1>6, <1>7, <3>2, Zenon
        <5>. QED  BY <1>7, <2>3, <3>2, <5>1
      <4>2. b + h.size[b] <= bp /\ b \in Nat /\ h.size[b] \in Nat
        BY <1>4, <1>6, <1>7, <3>2, <4>1, Zenon
      <4>. QED  BY <1>7, <1>9, <3>2, <4>2
    <3>3. CASE b = bp
      <4>1. CASE c \in B
        <5>1. bp + h.size[bp] <= c /\ c \in Nat
          BY <1>4, <1>6, <1>7, <2>3, <3>3, <4>1, Zenon
        <5>. QED  BY <1>7, <1>9, <3>3, <5>1
      <4>2. CASE c = rest
        BY <1>7, <1>9, <3>3, <4>2
      <4>. QED  BY <1>9, <4>1, <4>2
    <3>4. CASE b = rest /\ c \in B
      <4>1. bp < c
        <5>1. c \in Nat /\ rest < c
          BY <1>4, <2>3, <3>4
        <5>. QED  BY <1>7, <5>1
      <4>2. bp + h.size[bp] <= c
        BY <1>6, <1>7, <3>4, <4>1, Zenon
      <4>. QED  BY <1>11, <3>4, <4>2
    <3>5. ~(b = rest /\ c = rest)
      BY <1>7, <2>3
    <3>. QED  BY <1>9, <3>1, <3>2, <3>3, <3>4, <3>5
  <2>. QED  BY <1>2, <1>3, <1>9, <2>1, <2>2, <2>3 DEF Tiled
<1>13. Listed(g, {rest})
  <2>1. /\ h.lists \in [ListIndices -> Seq(Nat)]
        /\ \A i \in ListIndices :
              /\ IsInjective(h.lists[i])
              /\ Range(h.lists[i]) = {b \in B \ (h.alloc \cup {bp}) :
                                        calc_list_index(h.size[b]) = i}
    BY DEF WellFormed, Listed, B
  <2>2. g.alloc \subseteq DOMAIN g.size
    BY <1>2, <1>3, <1>7, <1>9
  <2>3. DOMAIN g.size \ (g.alloc \cup {rest}) = B \ (h.alloc \cup {bp})
    BY <1>2, <1>7, <1>8, <1>9
  <2>4. \A b \in B \ (h.alloc \cup {bp}) : g.size[b] = h.size[b]
    BY <1>2, <1>9
  <2>5. ASSUME NEW i \in ListIndices
        PROVE  {b \in B \ (h.alloc \cup {bp}) : calc_list_index(g.size[b]) = i}
                 = {b \in B \ (h.alloc \cup {bp}) : calc_list_index(h.size[b]) = i}
    BY <2>4
  <2>. QED  BY <1>2, <2>1, <2>2, <2>3, <2>5 DEF Listed
<1>14. Marked(g, {rest})
  <2>1. /\ g.prev \subseteq DOMAIN g.size \cup {g.brk}
        /\ DOMAIN g.size \ {rest} \subseteq g.prev
    BY <1>2, <1>9 DEF WellFormed, Marked, B
  <2>2. ASSUME h.brk \notin g.prev
        PROVE  \E p \in DOMAIN s \ g.alloc : p + s[p] = h.brk
    <3>1. PICK p \in B \ h.alloc : p + h.size[p] = h.brk
      BY <1>2, <2>2 DEF WellFormed, Marked, B
    <3>2. CASE p = bp
      <4>1. rest \in DOMAIN s \ g.alloc /\ rest + s[rest] = h.brk
        BY <1>2, <1>3, <1>7, <1>8, <1>9, <1>11, <3>1, <3>2
      <4>. QED  BY <4>1
    <3>3. CASE p # bp
      BY <1>2, <1>9, <3>1, <3>3
    <3>. QED  BY <3>2, <3>3
  <2>. QED  BY <1>2, <2>1, <2>2 DEF Marked
<1>15. WellFormed(g, {rest}) /\ IsFree(g, rest)
  BY <1>2, <1>3, <1>7, <1>8, <1>9, <1>12, <1>13, <1>14 DEF WellFormed, IsFree
<1>16. /\ WellFormed(r, {}) /\ r.alloc = g.alloc /\ r.brk = g.brk
       /\ Kept(g.alloc, g, r)
  BY <1>1, <1>15, CoalesceKeeps
<1>17. Kept(h.alloc, h, r)
  BY <1>2, <1>3, <1>7, <1>9, <1>16, Zenon DEF Kept
<1>18. bp \in DOMAIN r.size /\ r.size[bp] >= n
  BY <1>2, <1>9, <1>16 DEF Kept
<1>. QED
  BY <1>2, <1>16, <1>17, <1>18 DEF PlacedIn, r

\* allocate hands out a free block that is large enough, split or whole.
LEMMA AllocateKeeps ==
    ASSUME NEW h, NEW bp, WellFormed(h, {}), IsFree(h, bp),
           NEW n \in Nat, n % 8 = 0, n >= MIN_SIZE, n <= h.size[bp]
    PROVE  PlacedIn(h, bp, n, allocate(h, bp, n))
<1> DEFINE u == remove_from_list(h, bp, calc_list_index(h.size[bp]))
<1>1. /\ u.size = h.size /\ u.alloc = h.alloc /\ u.prev = h.prev /\ u.brk = h.brk
      /\ WellFormed(u, {} \cup {bp})
  <2>1. PICK none : none = {}
    OBVIOUS
  <2>2. WellFormed(h, none) /\ bp \notin none
    BY <2>1
  <2>3. /\ u.size = h.size /\ u.alloc = h.alloc /\ u.prev = h.prev /\ u.brk = h.brk
        /\ WellFormed(u, none \cup {bp})
    BY <2>2, Unlink
  <2>. QED  BY <2>1, <2>3
<1>2. allocate(h, bp, n) = IF h.size[bp] - n >= MIN_SIZE
                           THEN Split(u, bp, n) ELSE UseWhole(u, bp)
  BY DEF allocate
<1> HIDE DEF u
<1>3. {} \cup {bp} = {bp}
  OBVIOUS
<1>4. WellFormed(u, {bp}) /\ IsFree(u, bp) /\ bp \in u.prev
  BY <1>1, <1>3 DEF WellFormed, Marked, IsFree
<1>5. PlacedIn(u, bp, n, allocate(h, bp, n))
  <2>1. CASE h.size[bp] - n >= MIN_SIZE
    BY <1>1, <1>2, <1>4, <2>1, SplitKeeps
  <2>2. CASE ~(h.size[bp] - n >= MIN_SIZE)
    BY <1>1, <1>2, <1>4, <2>2, UseWholeKeeps
  <2>. QED  BY <2>1, <2>2
<1>. QED
  BY <1>1, <1>5 DEF PlacedIn, Kept

\* mm_free gives an allocated block back and changes no other allocated block.
LEMMA FreeKeeps ==
    ASSUME NEW h, NEW bp, WellFormed(h, {}), bp \in h.alloc
    PROVE  /\ WellFormed(mm_free(h, bp), {})
           /\ mm_free(h, bp).alloc = h.alloc \ {bp}
           /\ mm_free(h, bp).brk = h.brk
           /\ Kept(h.alloc \ {bp}, h, mm_free(h, bp))
<1> DEFINE g == free_block(h, bp)
<1>1. /\ g.size = h.size /\ g.alloc = h.alloc \ {bp} /\ g.prev = h.prev
      /\ g.lists = h.lists /\ g.brk = h.brk
  BY DEF free_block, Heap
<1>2. bp \in DOMAIN h.size
  BY DEF WellFormed, Listed
<1>3. mm_free(h, bp) = coalesce(g, bp).heap
  BY DEF mm_free
<1> HIDE DEF g
<1>4. Tiled(g)
  BY <1>1 DEF WellFormed, Tiled
<1>5. Listed(g, {bp})
  BY <1>1, <1>2 DEF WellFormed, Listed
<1>6. Marked(g, {bp})
  BY <1>1, <1>2 DEF WellFormed, Marked
<1>7. WellFormed(g, {bp}) /\ IsFree(g, bp)
  BY <1>1, <1>2, <1>4, <1>5, <1>6 DEF WellFormed, IsFree
<1>8. /\ WellFormed(mm_free(h, bp), {}) /\ mm_free(h, bp).alloc = g.alloc
      /\ mm_free(h, bp).brk = g.brk /\ Kept(g.alloc, g, mm_free(h, bp))
  BY <1>3, <1>7, CoalesceKeeps
<1>. QED
  BY <1>1, <1>8 DEF Kept

\* find_fit's answer is a free block of the size asked for.
LEMMA FitIsFree ==
    ASSUME NEW h, WellFormed(h, {}), NEW n,
           find_fit(h, n).bp # NULL
    PROVE  /\ IsFree(h, find_fit(h, n).bp)
           /\ h.size[find_fit(h, n).bp] >= n
           /\ find_fit(h, n).index \in ListIndices
<1> DEFINE fits == FittingLists(h, n)
           i == Min(fits)
           bp == Head(h.lists[i])
<1>1. fits # {} /\ find_fit(h, n).bp = bp /\ find_fit(h, n).index = i
  BY DEF find_fit
<1>2. fits \subseteq 0 .. FREELIST_COUNT - 1 /\ FREELIST_COUNT - 1 \in Nat
  BY ListIndexType, SizesAssumption DEF FittingLists
<1> HIDE DEF fits
<1>3. i \in fits
  BY <1>1, <1>2, MinBelow, Zenon
<1> HIDE DEF i
<1>4. i \in ListIndices /\ h.lists[i] # <<>> /\ h.size[bp] >= n
  BY <1>2, <1>3 DEF ListIndices, FittingLists, fits
<1>5. h.lists[i] \in Seq(Nat)
  BY <1>4 DEF WellFormed, Listed
<1>6. bp \in Range(h.lists[i])
  <2>1. 1 \in DOMAIN h.lists[i] /\ bp = h.lists[i][1]
    BY <1>4, <1>5
  <2>. QED  BY <2>1 DEF Range
<1>7. bp \in DOMAIN h.size \ h.alloc
  BY <1>4, <1>6 DEF WellFormed, Listed
<1>. QED
  BY <1>1, <1>4, <1>7 DEF IsFree

\* A block that has been handed out is on no list: taking it off again is idle.
LEMMA SecondRemoveIdle ==
    ASSUME NEW h, WellFormed(h, {}), NEW bp \in h.alloc, NEW i \in ListIndices
    PROVE  LET r == remove_from_list(h, bp, i)
           IN  /\ r.size = h.size /\ r.alloc = h.alloc /\ r.prev = h.prev
               /\ r.lists = h.lists /\ r.brk = h.brk
<1>1. h.lists \in [ListIndices -> Seq(Nat)] /\ bp \notin Range(h.lists[i])
  BY DEF WellFormed, Listed
<1>2. Unlinked(h.lists[i], bp) = h.lists[i]
  BY <1>1, RemoveAbsent
<1>3. [h.lists EXCEPT ![i] = Unlinked(@, bp)] = h.lists
  BY <1>1, <1>2, Zenon
<1>. QED
  BY <1>3 DEF remove_from_list, Heap

\* What mm_malloc answers: NULL and the heap as it was, or a new block.
MallocAnswers(h, size, r) ==
    \/ r.bp = NULL /\ r.heap = h
    \/ /\ size # 0
       /\ r.bp \in Nat /\ r.bp >= FIRST /\ r.bp \notin h.alloc
       /\ WellFormed(r.heap, {})
       /\ r.heap.alloc = h.alloc \cup {r.bp}
       /\ r.heap.brk \in Nat /\ h.brk <= r.heap.brk /\ r.heap.brk <= MAX_HEAP
       /\ Kept(h.alloc, h, r.heap)
       /\ r.bp \in DOMAIN r.heap.size
       /\ r.heap.size[r.bp] >= size + WSIZE

\* ADJUSTED_PAGESIZE is a block size, and growing by it does not wrap.
LEMMA PageSize ==
    /\ ADJUSTED_PAGESIZE \in Nat /\ ADJUSTED_PAGESIZE % 8 = 0
    /\ ADJUSTED_PAGESIZE >= MIN_SIZE
    /\ mem_start_brk + MAX_HEAP + ADJUSTED_PAGESIZE < SIZE_MOD
<1> DEFINE m == ADJUST_BYTESIZE(2 * PAGE_SIZE)
<1>1. /\ 2 * PAGE_SIZE \in Nat /\ 2 * PAGE_SIZE > 0
      /\ mem_start_brk + MAX_HEAP + 2 * PAGE_SIZE + 16 <= SIZE_MOD
  BY RequestsAssumption, SizesAssumption
<1>2. (PAGE_SIZE * 2) % SIZE_MOD = 2 * PAGE_SIZE
  <2>1. PAGE_SIZE * 2 = 2 * PAGE_SIZE
    BY SizesAssumption
  <2>2. 2 * PAGE_SIZE < SIZE_MOD
    BY <1>1, SizesAssumption
  <2>. QED  BY <1>1, <2>1, <2>2, ModSmall, SizesAssumption
<1>3. ADJUSTED_PAGESIZE = m
  BY <1>2 DEF ADJUSTED_PAGESIZE
<1>4. m \in Nat /\ m % 8 = 0 /\ m >= MIN_SIZE /\ m <= 2 * PAGE_SIZE + 15
  <2>1. 2 * PAGE_SIZE + 16 <= SIZE_MOD
    BY <1>1, SizesAssumption
  <2>. QED  BY <1>1, <2>1, AdjustedSize
<1> HIDE DEF m
<1>5. mem_start_brk + MAX_HEAP + m < SIZE_MOD
  BY <1>1, <1>4, SizesAssumption
<1>. QED
  BY <1>3, <1>4, <1>5

\* The size mm_malloc looks for, and the one it grows the heap by, are block
\* sizes that do not wrap.
LEMMA AskedSize ==
    ASSUME NEW size \in Requests, size # 0
    PROVE  LET n == ADJUST_BYTESIZE(size)
               k == Max({n, ADJUSTED_PAGESIZE})
           IN  /\ n \in Nat /\ n % 8 = 0 /\ n >= MIN_SIZE /\ n >= size + WSIZE
               /\ k \in Nat /\ k % 8 = 0 /\ k >= MIN_SIZE /\ k >= n
               /\ mem_start_brk + MAX_HEAP + k < SIZE_MOD
<1> DEFINE n == ADJUST_BYTESIZE(size)
           m == ADJUSTED_PAGESIZE
<1>1. size \in Nat /\ size > 0 /\ mem_start_brk + MAX_HEAP + size + 16 <= SIZE_MOD
  BY RequestsAssumption, SizesAssumption
<1>2. /\ n \in Nat /\ n % 8 = 0 /\ n >= MIN_SIZE /\ n >= size + WSIZE
      /\ n <= size + 15
  <2>1. size + 16 <= SIZE_MOD
    BY <1>1, SizesAssumption
  <2>. QED  BY <1>1, <2>1, AdjustedSize
<1>3. /\ m \in Nat /\ m % 8 = 0 /\ m >= MIN_SIZE
      /\ mem_start_brk + MAX_HEAP + m < SIZE_MOD
  BY PageSize
<1> HIDE DEF n, m
<1>4. Max({n, m}) \in {n, m} /\ Max({n, m}) >= n
  BY <1>2, <1>3, LargerOfTwo
<1>5. mem_start_brk + MAX_HEAP + n < SIZE_MOD
  BY <1>1, <1>2, SizesAssumption
<1>6. CASE Max({n, m}) = n
  BY <1>2, <1>4, <1>5, <1>6 DEF n, m
<1>7. CASE Max({n, m}) = m
  BY <1>2, <1>3, <1>4, <1>7 DEF n, m
<1>. QED
  BY <1>4, <1>6, <1>7

\* mm_malloc on a well-formed heap: by a fit, by growing the heap, or not at
\* all.
LEMMA MallocKeeps ==
    ASSUME NEW h, WellFormed(h, {}), h.brk <= MAX_HEAP, NEW size \in Requests
    PROVE  MallocAnswers(h, size, mm_malloc(h, size))
<1> DEFINE n == ADJUST_BYTESIZE(size)
           k == Max({n, ADJUSTED_PAGESIZE})
           fit == find_fit(h, n)
           more == extend_heap(h, k)
           r == mm_malloc(h, size)
<1>1. CASE size = 0
  BY <1>1, Zenon DEF mm_malloc, MallocAnswers
<1>2. CASE size # 0 /\ fit.bp # NULL
  <2> DEFINE p == fit.bp
             a == allocate(h, p, n)
             q == remove_from_list(a, p, fit.index)
  <2>1. r.heap = q /\ r.bp = p
    BY <1>2, Zenon DEF mm_malloc
  <2>2. n \in Nat /\ n % 8 = 0 /\ n >= MIN_SIZE /\ n >= size + WSIZE /\ size \in Nat
    BY <1>2, AskedSize, RequestsAssumption, Zenon
  <2> HIDE DEF n, fit, r
  <2>3. IsFree(h, p) /\ h.size[p] >= n /\ fit.index \in ListIndices
    BY <1>2, FitIsFree DEF fit
  <2>4. p \in Nat /\ p >= FIRST /\ p \notin h.alloc /\ h.size[p] \in Nat
    BY <2>3 DEF IsFree, WellFormed, Tiled
  <2>5. n <= h.size[p]
    BY <2>2, <2>3, <2>4
  <2>6. PlacedIn(h, p, n, a)
    BY <2>2, <2>3, <2>5, AllocateKeeps
  <2> HIDE DEF p, a
  <2>7. WellFormed(a, {}) /\ p \in a.alloc
    BY <2>6 DEF PlacedIn
  <2>8. /\ q.size = a.size /\ q.alloc = a.alloc /\ q.prev = a.prev
        /\ q.lists = a.lists /\ q.brk = a.brk
    BY <2>3, <2>7, SecondRemoveIdle
  <2> HIDE DEF q
  <2>9. WellFormed(q, {})
    <3>a. Tiled(a) /\ Listed(a, {}) /\ Marked(a, {})
      BY <2>7 DEF WellFormed
    <3>1. Tiled(q)
      BY <2>8, <3>a DEF Tiled
    <3>2. Listed(q, {})
      BY <2>8, <3>a DEF Listed
    <3>3. Marked(q, {})
      BY <2>8, <3>a DEF Marked
    <3>. QED  BY <3>1, <3>2, <3>3 DEF WellFormed
  <2>10. q.size[p] \in Nat /\ q.size[p] >= size + WSIZE
    <3>1. q.size[p] \in Nat /\ q.size[p] >= n
      BY <2>6, <2>8, <2>9 DEF PlacedIn, WellFormed, Tiled
    <3>. QED  BY <2>2, <3>1 DEF WSIZE
  <2>11. /\ q.alloc = h.alloc \cup {p} /\ q.brk = h.brk /\ p \in DOMAIN q.size
         /\ Kept(h.alloc, h, q) /\ q.brk \in Nat
    BY <2>6, <2>8, <2>9 DEF PlacedIn, Kept, WellFormed, Tiled
  <2>. QED  BY <1>2, <2>1, <2>4, <2>9, <2>10, <2>11 DEF MallocAnswers, r
<1>3. CASE size # 0 /\ fit.bp = NULL /\ more.bp = NULL
  BY <1>3, Zenon DEF mm_malloc, MallocAnswers
<1>4. CASE size # 0 /\ fit.bp = NULL /\ more.bp # NULL
  <2> DEFINE p == more.bp
             q == allocate(more.heap, p, n)
  <2>1. r.heap = q /\ r.bp = p
    BY <1>4, Zenon DEF mm_malloc
  <2>2. /\ n \in Nat /\ n % 8 = 0 /\ n >= MIN_SIZE /\ n >= size + WSIZE /\ size \in Nat
        /\ k \in Nat /\ k % 8 = 0 /\ k >= MIN_SIZE /\ k >= n
        /\ mem_start_brk + MAX_HEAP + k < SIZE_MOD
    BY <1>4, AskedSize, RequestsAssumption
  <2>3. ~SbrkFails(h.brk, k)
    BY <1>4 DEF extend_heap
  <2> HIDE DEF n, k, r
  <2>4. /\ WellFormed(more.heap, {}) /\ IsFree(more.heap, p)
        /\ more.heap.alloc = h.alloc
        /\ more.heap.brk = h.brk + k /\ h.brk + k <= MAX_HEAP
        /\ Kept(h.alloc, h, more.heap)
        /\ more.heap.size[p] >= k
    BY <2>2, <2>3, ExtendKeeps
  <2> HIDE DEF more
  <2>5. p \in Nat /\ p >= FIRST /\ p \notin h.alloc /\ more.heap.size[p] \in Nat
    BY <2>4 DEF IsFree, WellFormed, Tiled
  <2>6. n <= more.heap.size[p]
    BY <2>2, <2>4, <2>5
  <2>7. PlacedIn(more.heap, p, n, q)
    BY <2>2, <2>4, <2>6, AllocateKeeps
  <2> HIDE DEF p, q
  <2>8. q.size[p] \in Nat /\ q.size[p] >= size + WSIZE
    <3>1. q.size[p] \in Nat /\ q.size[p] >= n
      BY <2>7 DEF PlacedIn, WellFormed, Tiled
    <3>. QED  BY <2>2, <3>1 DEF WSIZE
  <2>9. h.brk \in Nat
    BY DEF WellFormed, Tiled
  <2>10. q.brk \in Nat /\ h.brk <= q.brk /\ q.brk <= MAX_HEAP
    BY <2>2, <2>4, <2>7, <2>9 DEF PlacedIn
  <2>11. /\ WellFormed(q, {}) /\ q.alloc = h.alloc \cup {p} /\ p \in DOMAIN q.size
         /\ Kept(h.alloc, h, q)
    BY <2>4, <2>7 DEF PlacedIn, Kept
  <2>. QED  BY <1>4, <2>1, <2>5, <2>8, <2>10, <2>11, Zenon DEF MallocAnswers, r
<1>. QED
  BY <1>1, <1>2, <1>3, <1>4

\* What mm_realloc does with a new block: the old one is given back.
MovedTo(h, bp, size, r) ==
    /\ size # 0
    /\ r.bp \in Nat /\ r.bp >= FIRST /\ r.bp \notin h.alloc
    /\ WellFormed(r.heap, {})
    /\ r.heap.alloc = (h.alloc \cup {r.bp}) \ {bp}
    /\ r.heap.brk \in Nat /\ h.brk <= r.heap.brk /\ r.heap.brk <= MAX_HEAP
    /\ Kept(h.alloc \ {bp}, h, r.heap)
    /\ r.bp \in DOMAIN r.heap.size
    /\ r.heap.size[r.bp] >= size + WSIZE

\* mm_realloc is mm_malloc followed, if that succeeds, by mm_free of the old
\* block.
LEMMA ReallocKeeps ==
    ASSUME NEW h, WellFormed(h, {}), h.brk <= MAX_HEAP,
           NEW bp \in h.alloc, NEW size \in Requests
    PROVE  LET r == mm_realloc(h, bp, size)
           IN  /\ r.bp = mm_malloc(h, size).bp
               /\ \/ r.bp = NULL /\ r.heap = h
                  \/ MovedTo(h, bp, size, r)
<1> DEFINE new == mm_malloc(h, size)
           r == mm_realloc(h, bp, size)
           f == mm_free(new.heap, bp)
<1>1. MallocAnswers(h, size, new)
  BY MallocKeeps
<1>2. r.bp = new.bp
  BY DEF mm_realloc
<1>3. CASE new.bp = NULL
  <2>1. r = new /\ new.heap = h
    BY <1>1, <1>3 DEF mm_realloc, MallocAnswers, NULL, FIRST, WSIZE
  <2>. QED  BY <1>2, <1>3, <2>1
<1>4. CASE new.bp # NULL
  <2>1. r.heap = f
    BY <1>4 DEF mm_realloc
  <2> HIDE DEF new, r, f
  <2>2. /\ size # 0
        /\ new.bp \in Nat /\ new.bp >= FIRST /\ new.bp \notin h.alloc
        /\ WellFormed(new.heap, {})
        /\ new.heap.alloc = h.alloc \cup {new.bp}
        /\ new.heap.brk \in Nat /\ h.brk <= new.heap.brk /\ new.heap.brk <= MAX_HEAP
        /\ Kept(h.alloc, h, new.heap)
        /\ new.bp \in DOMAIN new.heap.size
        /\ new.heap.size[new.bp] >= size + WSIZE
    BY <1>1, <1>4 DEF MallocAnswers
  <2>3. bp \in new.heap.alloc
    BY <2>2
  <2>4. /\ WellFormed(f, {}) /\ f.alloc = new.heap.alloc \ {bp}
        /\ f.brk = new.heap.brk /\ Kept(new.heap.alloc \ {bp}, new.heap, f)
    BY <2>2, <2>3, FreeKeeps, Zenon DEF f
  <2>5. new.bp # bp
    BY <2>2
  <2>6. Kept(h.alloc \ {bp}, h, f)
    BY <2>2, <2>4 DEF Kept
  <2>7. new.bp \in DOMAIN f.size /\ f.size[new.bp] = new.heap.size[new.bp]
    BY <2>2, <2>4, <2>5 DEF Kept
  <2>8. MovedTo(h, bp, size, r)
    BY <1>2, <2>1, <2>2, <2>4, <2>6, <2>7 DEF MovedTo
  <2>. QED  BY <1>2, <2>8 DEF r, new
<1>. QED
  BY <1>3, <1>4

\* A new block lies inside the arena, is aligned, and shares no byte with an
\* allocated block.
LEMMA NewBlockApart ==
    ASSUME NEW h, WellFormed(h, {}), NEW size \in Requests, NEW r,
           MallocAnswers(h, size, r), r.bp # NULL
    PROVE  /\ size # 0 /\ r.bp \in 1 .. MAX_HEAP /\ r.bp % 8 = 0
           /\ r.bp + size <= MAX_HEAP
           /\ \A b \in h.alloc : /\ b \in Nat /\ h.size[b] \in Nat
                                 /\ r.bp + size <= b \/ b + h.size[b] <= r.bp
<1> DEFINE g == r.heap
           p == r.bp
<1>1. /\ size # 0 /\ p \in Nat /\ p >= FIRST /\ p \notin h.alloc
      /\ WellFormed(g, {}) /\ p \in DOMAIN g.size
      /\ g.brk \in Nat /\ g.brk <= MAX_HEAP
      /\ Kept(h.alloc, h, g) /\ g.size[p] >= size + WSIZE
  BY DEF MallocAnswers
<1>2. size \in Nat
  BY RequestsAssumption
<1> HIDE DEF g, p
<1>3. g.size[p] \in Nat /\ p + g.size[p] <= g.brk /\ p % 8 = 0
  BY <1>1 DEF WellFormed, Tiled
<1>4. g.size[p] >= size
  BY <1>1, <1>2, <1>3 DEF WSIZE
<1>5. p \in 1 .. MAX_HEAP /\ p + size <= MAX_HEAP
  BY <1>1, <1>2, <1>3, <1>4, SizesAssumption DEF FIRST, WSIZE
<1>6. ASSUME NEW b \in h.alloc
      PROVE  /\ b \in Nat /\ h.size[b] \in Nat
             /\ p + size <= b \/ b + h.size[b] <= p
  <2>1. b \in DOMAIN g.size /\ g.size[b] = h.size[b] /\ b # p
    BY <1>1 DEF Kept
  <2>2. /\ b \in Nat /\ g.size[b] \in Nat
        /\ p < b => p + g.size[p] <= b
        /\ b < p => b + g.size[b] <= p
    BY <1>1, <2>1 DEF WellFormed, Tiled
  <2>3. CASE p < b
    BY <1>1, <1>2, <1>3, <1>4, <2>1, <2>2, <2>3
  <2>4. CASE b < p
    BY <2>1, <2>2, <2>4
  <2>. QED  BY <1>1, <2>1, <2>2, <2>3, <2>4
<1>. QED
  BY <1>1, <1>3, <1>5, <1>6 DEF p

\* mm_init's heap is well-formed: one free block between the prologue and the
\* epilogue, on its list.
LEMMA InitKeeps ==
    /\ WellFormed(mm_init, {}) /\ mm_init.alloc = {}
    /\ mm_init.brk = FIRST + ADJUSTED_PAGESIZE
    /\ mm_init.brk \in FIRST .. MAX_HEAP
<1> DEFINE P == ADJUSTED_PAGESIZE
           g == Heap([b \in {FIRST} |-> P], {}, {FIRST},
                     [i \in ListIndices |-> <<>>], FIRST + P)
<1>1. P \in Nat /\ P % 8 = 0 /\ P >= 16 /\ FIRST + P <= MAX_HEAP
  BY PageSize, InitialHeapFits DEF MIN_SIZE
<1>2. /\ g.size = [b \in {FIRST} |-> P] /\ g.alloc = {} /\ g.prev = {FIRST}
      /\ g.lists = [i \in ListIndices |-> <<>>] /\ g.brk = FIRST + P
  BY DEF Heap
<1>3. mm_init = add_to_list(g, FIRST, calc_list_index(g.size[FIRST]))
  BY <1>2 DEF mm_init
<1> HIDE DEF g, P
<1>4. FIRST = 16
  BY DEF FIRST, WSIZE
<1>5. DOMAIN g.size = {FIRST} /\ g.size[FIRST] = P
  BY <1>2
<1>6. Tiled(g)
  <2>1. g.size \in [DOMAIN g.size -> Nat] /\ DOMAIN g.size \subseteq Nat
    BY <1>1, <1>2, <1>4
  <2>2. g.brk \in Nat /\ g.brk % 8 = 0
    BY <1>1, <1>2, <1>4
  <2>3. ASSUME NEW b \in DOMAIN g.size
        PROVE  /\ b >= FIRST /\ b % 8 = 0
               /\ g.size[b] >= MIN_SIZE /\ g.size[b] % 8 = 0
               /\ b + g.size[b] <= g.brk /\ b + g.size[b] = g.brk
    BY <1>1, <1>2, <1>4, <1>5 DEF MIN_SIZE
  <2>4. \A b, c \in DOMAIN g.size : b < c => b + g.size[b] <= c
    BY <1>4, <1>5
  <2>. QED  BY <1>5, <2>1, <2>2, <2>3, <2>4 DEF Tiled
<1>7. Listed(g, {FIRST})
  <2>1. \A i \in ListIndices : g.lists[i] = <<>>
    BY <1>2
  <2>2. g.lists \in [ListIndices -> Seq(Nat)]
    BY <1>2
  <2>3. IsInjective(<<>>) /\ Range(<<>>) = {}
    BY DEF IsInjective, Range
  <2>. QED  BY <1>2, <1>5, <2>1, <2>2, <2>3 DEF Listed
<1>8. Marked(g, {FIRST})
  <2>1. FIRST + g.size[FIRST] = g.brk
    BY <1>2, <1>5
  <2>. QED  BY <1>2, <1>5, <2>1 DEF Marked
<1>9. WellFormed(g, {FIRST}) /\ IsFree(g, FIRST) /\ FIRST \in g.prev
  BY <1>2, <1>5, <1>6, <1>7, <1>8 DEF WellFormed, IsFree
<1>10. mm_init.alloc = {} /\ mm_init.brk = FIRST + P /\ WellFormed(mm_init, {})
  BY <1>2, <1>3, <1>9, Link
<1>11. FIRST + P \in FIRST .. MAX_HEAP
  BY <1>1, <1>4, SizesAssumption
<1>. QED
  BY <1>10, <1>11 DEF P

(***************************************************************************)
(* The least block size                                                    *)
(***************************************************************************)
\* The word count that ADJUST_BYTESIZE reaches, in bytes, is four short of a
\* multiple of eight: ALIGN adds the header's word.
LEMMA OddWords ==
    ASSUME NEW w \in Nat, w % 2 = 1
    PROVE  (w * 4 + 7) - ((w * 4 + 7) % 8) = w * 4 + 4
  OBVIOUS

\* Nothing wraps for a size up to LARGEST, so ADJUST_BYTESIZE is the adjusted word
\* count in bytes and the header's word.
LEMMA AdjustedIs ==
    ASSUME NEW n \in 0 .. LARGEST, SIZE_MOD > 16
    PROVE  LET w == (n + 3) \div 4
           IN  ADJUST_BYTESIZE(n) = ADJUST_WORDCOUNT(w) * 4 + 4
  <1> DEFINE w == (n + 3) \div 4
             a == ADJUST_WORDCOUNT(w)
  <1>1. n \in Nat /\ n <= SIZE_MOD - 12 /\ SIZE_MOD \in Nat /\ SIZE_MOD % 16 = 0
    BY SizesAssumption DEF LARGEST, DSIZE, WSIZE
  <1>2. w \in Nat /\ w * 4 <= n + 3 /\ n <= w * 4
    BY <1>1
  <1>3. a \in Nat /\ a >= 3 /\ a % 2 = 1 /\ (a <= w + 1 \/ a = 3)
    BY <1>2, WordCount
  <1>4. a * 4 + 7 < SIZE_MOD
    <2>1. CASE a = 3
      BY <1>1, <2>1
    <2>2. CASE a <= w + 1 /\ a > 3
      <3>1. a % 2 = 1 /\ a <= w + 1 /\ w * 4 <= SIZE_MOD - 9
        BY <1>1, <1>2, <1>3, <2>2
      <3> HIDE DEF w, a
      <3>2. w * 4 <= SIZE_MOD - 12 
        BY <1>1, <1>2, <3>1
      <3>3. a * 4 <= SIZE_MOD - 8
        BY <1>1, <1>2, <1>3, <3>1, <3>2
      <3>. QED BY <1>1, <1>3, <3>3
    <2>. QED BY <1>3, <2>1, <2>2
  <1>5. (n + WSIZE - 1) % SIZE_MOD = n + 3
    BY <1>1 DEF WSIZE
  <1>6. (a * 4) % SIZE_MOD = a * 4 /\ (a * 4 + 7) % SIZE_MOD = a * 4 + 7
    <2> HIDE DEF a
    <2>1. a * 4 \in Nat /\ a * 4 < SIZE_MOD /\ a * 4 + 7 \in Nat
      BY <1>1, <1>3, <1>4
    <2>. QED BY <1>1, <1>4, <2>1, ModSmall
  <1>7. ADJUST_BYTESIZE(n) = ALIGN(a * 4)
    BY <1>5, <1>6 DEF ADJUST_BYTESIZE, WSIZE
  <1> HIDE DEF a, w
  <1>. QED BY <1>3, <1>6, <1>7, OddWords DEF ALIGN, a, w

\* ADJUST_BYTESIZE, with its detour over an odd number of words, gives the least
\* block size that holds the payload and its header.
THEOREM AdjustedSizeLeast ==
    ASSUME SIZE_MOD > 16
    PROVE  \A n \in 0 .. LARGEST : ADJUST_BYTESIZE(n) = LeastBlockSize(n)
  <1> TAKE n \in 0 .. LARGEST
  <1> DEFINE w == (n + 3) \div 4
             a == ADJUST_WORDCOUNT(w)
             r == a * 4 + 4
             S == {m \in BlockSizes : m >= n + WSIZE}
  <1>1. n \in Nat /\ n <= SIZE_MOD - 12 /\ SIZE_MOD \in Nat /\ SIZE_MOD % 16 = 0
    BY SizesAssumption DEF LARGEST, DSIZE, WSIZE
  <1>2. w \in Nat /\ w * 4 <= n + 3 /\ n <= w * 4
    BY <1>1
  <1>3. a \in Nat /\ a >= 3 /\ a % 2 = 1 /\ a >= w /\ (a <= w + 1 \/ a = 3)
    BY <1>2, WordCount
  <1> HIDE DEF w, a
  <1>4. r \in Nat /\ r % 8 = 0 /\ r >= 16 /\ r >= n + 4
    BY <1>2, <1>3
  <1>5. ASSUME NEW m \in Nat, m % 8 = 0, m >= 16, m >= n + 4
        PROVE  r <= m
    <2>1. CASE a = 3
      BY <1>5, <2>1
    <2>2. CASE a <= w + 1
      <3>1. PICK k \in Int : m = 8 * k
        BY <1>5
      <3>2. PICK h \in Int : a = 2 * h + 1
        BY <1>3
      <3>3. 8 * h <= w * 4 /\ n >= w * 4 - 3 /\ r = 8 * h + 8
        BY <1>1, <1>2, <1>3, <2>2, <3>2
      <3>4. 8 * k >= 8 * h + 1
        BY <1>1, <1>2, <1>5, <3>1, <3>3
      <3>. QED BY <3>1, <3>3, <3>4
    <2>. QED BY <1>3, <2>1, <2>2
  <1>6. r < SIZE_MOD
    <2>1. SIZE_MOD - 8 \in Nat /\ (SIZE_MOD - 8) % 8 = 0 /\ SIZE_MOD - 8 >= 16
          /\ SIZE_MOD - 8 >= n + 4
      BY <1>1
    <2>2. r <= SIZE_MOD - 8
      BY <1>5, <2>1
    <2>. QED BY <1>1, <1>4, <2>2
  <1>7. ADJUST_BYTESIZE(n) = r
    BY AdjustedIs DEF w, a
  <1> HIDE DEF r
  <1>8. r \in S /\ \A m \in S : r <= m
    BY <1>1, <1>4, <1>5, <1>6 DEF BlockSizes, DSIZE, MIN_SIZE, WSIZE
  <1>9. S \subseteq 0 .. SIZE_MOD - 1 /\ SIZE_MOD - 1 \in Nat /\ S # {}
    BY <1>1, <1>8, SizesAssumption DEF BlockSizes
  <1> HIDE DEF S
  <1>10. Min(S) \in S /\ \A m \in S : Min(S) <= m
    BY <1>9, MinBelow, Zenon
  <1>11. Min(S) = r
    <2>1. PICK x : x = Min(S)
      OBVIOUS
    <2>2. x \in S /\ x <= r /\ r <= x
      BY <1>8, <1>10, <2>1
    <2>3. x \in Nat
      BY <1>9, <2>2
    <2>. QED BY <1>4, <2>1, <2>2, <2>3
  <1>. QED BY <1>7, <1>11 DEF LeastBlockSize, S
===============================================================================
