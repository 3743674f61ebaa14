----------------------------- MODULE HashTable -----------------------------
(***************************************************************************)
(* The hash table of khash.h, which venowm uses for the windows of a       *)
(* workspace and for the key bindings: open addressing in a power of two   *)
(* of buckets, each empty, live or deleted, probed in growing steps.  The  *)
(* two flag bits of a bucket are the sets live and deleted; the arrays     *)
(* keys and vals are one array of cells.  A bucket that is not live is     *)
(* never read, so its cell is NULL.                                        *)
(***************************************************************************)
EXTENDS Naturals, FiniteSets

CONSTANTS
  Key, Val,
  Hash,    \* __hash_func, a function from Key to Nat
  NULL

Element == Key \X Val
Cell    == Element \cup {NULL}

Buckets(h) == 0..(h.n_buckets - 1)
Empty(h)   == Buckets(h) \ (h.live \cup h.deleted)

TableOK(h) ==
  /\ {h.n_buckets, h.size, h.n_occupied, h.upper_bound} \subseteq Nat
  /\ h.live \subseteq Buckets(h) /\ h.deleted \subseteq Buckets(h) \ h.live
  /\ h.cells \in [Buckets(h) -> Cell]
  /\ \A i \in Buckets(h) : h.cells[i] \in IF i \in h.live THEN Element ELSE {NULL}

kh_init == [ n_buckets |-> 0, size |-> 0, n_occupied |-> 0, upper_bound |-> 0,
             live |-> {}, deleted |-> {}, cells |-> [i \in {} |-> NULL] ]

(* __ac_HASH_UPPER: 77 percent of the buckets, rounded. *)
UpperBound(n) == (77 * n + 50) \div 100

(* Where the search for key begins, and the next bucket after i; a mask of  *)
(* n - 1 is the remainder by n.                                             *)
Home(key, n)     == Hash[key] % n
After(i, step, n) == (i + step + 1) % n

(* The bucket at which the search for key stops: it is empty or holds the   *)
(* key, or the search came round to where it began; and the last deleted    *)
(* bucket on the way, n_buckets if there was none.                          *)
Stops(h, key) ==
  Empty(h) \cup {i \in h.live : h.cells[i][1] = key}

Search(h, key) ==
  LET n == h.n_buckets
      from[at \in Nat \X Nat \X Nat] ==
        LET i    == at[1]
            next == After(i, at[2], n)
            seen == IF i \in h.deleted THEN i ELSE at[3]
        IN  IF i \in Stops(h, key) THEN [at |-> i, site |-> at[3], round |-> FALSE]
            ELSE IF next = Home(key, n) THEN [at |-> next, site |-> seen, round |-> TRUE]
            ELSE from[<<next, at[2] + 1, seen>>]
  IN  from[<<Home(key, n), 0, n>>]

(* The bucket of key, or n_buckets. *)
kh_get(h, key) ==
  IF h.n_buckets = 0 THEN 0
  ELSE LET found == Search(h, key)
       IN  IF found.round \/ found.at \notin h.live THEN h.n_buckets ELSE found.at

(* The elements move within one array: old are the buckets that are still   *)
(* to be moved, new those that are taken in the new table.                  *)
Moving(n) == [ old : SUBSET (0..(n - 1)), new : SUBSET (0..(n - 1)),
               cells : [0..(n - 1) -> Cell] ]

free_bucket(key, n, new) ==
  LET from[at \in Nat \X Nat] ==
        IF at[1] \notin new THEN at[1]
        ELSE from[<<After(at[1], at[2], n), at[2] + 1>>]
  IN  from[<<Home(key, n), 0>>]

(* The cell is put where it belongs, and then the one that was there.       *)
kick_out(cell, n, moving) ==
  LET from[at \in Cell \X Moving(n)] ==
        LET m    == at[2]
            i    == free_bucket(at[1][1], n, m.new)
            kept == [m EXCEPT !.old = @ \ {i}, !.new = @ \cup {i},
                              !.cells[i] = at[1]]
        IN  IF i \in m.old THEN from[<<m.cells[i], kept>>] ELSE kept
  IN  from[<<cell, moving>>]

rehash(h, n) ==
  LET Bucket == 0..(n - 1)
      moved[j \in 0..h.n_buckets] ==
        IF j = 0
          THEN [ old |-> h.live, new |-> {},
                 cells |-> [i \in Bucket |-> IF i \in h.live THEN h.cells[i] ELSE NULL] ]
        ELSE LET m == moved[j - 1]
             IN  IF j - 1 \notin m.old THEN m
                 ELSE kick_out(m.cells[j - 1], n, [m EXCEPT !.old = @ \ {j - 1}])
      done == moved[h.n_buckets]
  IN  [h EXCEPT !.live  = done.new,
                !.cells = [i \in Bucket |->
                             IF i \in done.new THEN done.cells[i] ELSE NULL]]

(* The least power of two, from 4 on, that is wanted. *)
roundup(wanted) ==
  LET from[n \in Nat] == IF n >= wanted THEN n ELSE from[2 * n]
  IN  from[4]

(* The table never shrinks: it is made no smaller than it was. *)
kh_resize(h, wanted) ==
  LET n == roundup(wanted)
  IN  IF h.size >= UpperBound(n) THEN h
      ELSE [rehash(h, n) EXCEPT !.n_buckets = n, !.deleted = {},
                                !.n_occupied = h.size,
                                !.upper_bound = UpperBound(n)]

(* A mutation: deleted buckets do not count. *)
make_room_by_size(h) ==
  IF h.size < h.upper_bound THEN h ELSE kh_resize(h, h.n_buckets + 1)

(* Too many buckets are live or deleted: the deleted ones are cleared, or   *)
(* the table grows.                                                         *)
make_room(h) ==
  IF h.n_occupied < h.upper_bound THEN h
  ELSE IF h.n_buckets > 2 * h.size THEN kh_resize(h, h.n_buckets - 1)
  ELSE kh_resize(h, h.n_buckets + 1)

kh_put(h, key, val) ==
  LET r     == make_room(h)
      found == Search(r, key)
      x     == IF found.site # r.n_buckets /\ (found.round \/ found.at \in Empty(r))
               THEN found.site ELSE found.at
      put   == [r EXCEPT !.cells[x] = <<key, val>>,
                         !.live = @ \cup {x}, !.deleted = @ \ {x}]
  IN  IF x \in Empty(r)
        THEN [put EXCEPT !.size = @ + 1, !.n_occupied = @ + 1]
      ELSE IF x \in r.deleted THEN [put EXCEPT !.size = @ + 1]
      ELSE put

(* A mutation: the bucket becomes empty. *)
kh_del_empties(h, x) ==
  [h EXCEPT !.live = @ \ {x}, !.cells[x] = NULL,
            !.size = @ - 1, !.n_occupied = @ - 1]

kh_del(h, x) ==
  IF x = h.n_buckets \/ x \notin h.live THEN h
  ELSE [h EXCEPT !.live = @ \ {x}, !.deleted = @ \cup {x},
                 !.cells[x] = NULL, !.size = @ - 1]
=============================================================================
