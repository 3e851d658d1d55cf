----------------------------- MODULE HashTable ------------------------------
(***************************************************************************)
(* The table of cfuhash.c, shared by threads.  What a function does        *)
(* between lock_hash() and unlock_hash() is one action; what it reads      *)
(* after unlock_hash(), the two counters that decide about a rehash, is    *)
(* read in steps of its own, in either order (they are the operands of     *)
(* one division).  A chain is the set of its entries: nothing the table    *)
(* promises depends on their order, so a walk may meet them in any.        *)
(***************************************************************************)
EXTENDS Integers, Sequences, FiniteSets

CONSTANTS
  Thread,
  Key,          (* keys as they are spelled                                *)
  Value,
  HashOf,       (* the hash function on keys in lower case                 *)
  Lower,        (* a key in lower case                                     *)
  Flags,        (* of CFUHASH_..., given to cfuhash_new_with_flags()       *)
  HasFreeFn,    (* cfuhash_set_free_function() was called                  *)
  Sizes,        (* the powers of two a table may have as its size          *)
  InitialSize,
  MaxEntries,   (* bound on the counter of entries                         *)
  NULL

(* The least size a table of s entries may get (hash_size of the source).  *)
IsSizeFor(n, s) == n >= s /\ \A m \in Sizes : m >= s => n <= m
hash_size(s) == CHOOSE n \in Sizes : IsSizeFor(n, s)

ASSUME KeyAssumption ==
  /\ Lower \in [Key -> Key] /\ \A k \in Key : Lower[Lower[k]] = Lower[k]
  /\ HashOf \in [Key -> Nat]
  /\ NULL \notin Value

ASSUME SizesAssumption ==
  /\ Sizes \subseteq Nat \ {0}
  /\ InitialSize \in Sizes
  /\ MaxEntries \in Nat /\ NULL \notin Thread
  /\ \A s \in 0..(2 * MaxEntries) : \E n \in Sizes : IsSizeFor(n, s)

VARIABLES
  alive,        (* the table exists                                        *)
  num_buckets, entries, chain,
  resized,      (* resized_count > 0                                       *)
  owner,        (* the thread that called cfuhash_lock()                   *)
  each,         (* each_bucket_index, and what follows each_chain_entry    *)
  visited,      (* the keys the iteration has returned                     *)
  pc, seen,     (* per thread: what it is about to do, the counters it read *)
  left, copied, (* per thread, in cfuhash_copy: keys to do, keys copied    *)
  result,       (* what an operation has just returned, else NULL          *)
  uncounted,    (* history: removals entries does not know of              *)
  gone          (* history: keys that were absent during a thread's copy   *)

counters == <<num_buckets, entries, resized>>
table == <<alive, num_buckets, entries, chain, resized, uncounted>>
iteration == <<owner, each, visited>>
copying == <<left, copied, gone>>
threads == <<pc, seen>>
vars == <<table, iteration, copying, threads, result>>

Unread == -1
NoEach == [bucket |-> -1, rest |-> {}]
Unseen == [entries |-> Unread, buckets |-> Unread]

(* Keys that count as one, and the chain of a key in a table of n buckets. *)
hash_func(k) == HashOf[k]
hash_key_dup_lower_case(k) == Lower[k]
Canon(k) == IF "IGNORE_CASE" \in Flags THEN hash_key_dup_lower_case(k) ELSE k
hash_value(k, n) == hash_func(Canon(k)) % n
hash_cmp(k, e) == Canon(k) = Canon(e.key)
Index == {Canon(k) : k \in Key}

(* A walk along a chain ends at an entry that matches.                     *)
Matching(k) == {e \in chain[hash_value(k, num_buckets)] : hash_cmp(k, e)}
Found(k) == Matching(k) # {}
Entry(k) == CHOOSE e \in Matching(k) : TRUE

AllEntries == UNION {chain[b] : b \in DOMAIN chain}
ListsOf(S, n) == {s \in [1..n -> S] : \A i, j \in 1..n : s[i] = s[j] => i = j}
KeysOf(s) == [i \in DOMAIN s |-> Canon(s[i].key)]
Empty(n) == [b \in 0..(n - 1) |-> {}]

Init ==
  /\ alive = TRUE /\ num_buckets = InitialSize /\ entries = 0
  /\ chain = Empty(InitialSize) /\ resized = FALSE /\ uncounted = 0
  /\ owner = NULL /\ each = NoEach /\ visited = << >>
  /\ pc = [t \in Thread |-> "idle"] /\ seen = [t \in Thread |-> Unseen]
  /\ left = [t \in Thread |-> {}] /\ copied = [t \in Thread |-> {}]
  /\ gone = [t \in Thread |-> {}] /\ result = NULL

(* A thread at a place of its program, with the lock of the table free.    *)
Locked(t, place) == alive /\ owner = NULL /\ pc[t] = place
Goto(t, place) == pc' = [pc EXCEPT ![t] = place]
Returns(r) == result' = r
ReturnsNothing == result' = NULL
GivenBack(e) == IF HasFreeFn THEN NULL ELSE e.data

-----------------------------------------------------------------------------
cfuhash_get_data(t, k) ==
  /\ Locked(t, "idle")
  /\ Returns(IF Found(k) THEN Entry(k).data ELSE NULL)
  /\ UNCHANGED <<table, iteration, copying, pc, seen>>

hash_add_entry(k, v) ==
  LET b == hash_value(k, num_buckets)
  IN /\ chain' = [chain EXCEPT ![b] = @ \cup {[key |-> k, data |-> v]}]
     /\ entries' = entries + 1

(* Whether a caller that added an entry goes on to look at the load.       *)
AfterAdd_OwnFlag == IF Flags # {} THEN "idle" ELSE "grow"
AfterAdd == IF "FROZEN" \in Flags THEN "idle" ELSE "grow"

PutNew(t, k, v) ==
  /\ ~Found(k) /\ entries < MaxEntries
  /\ hash_add_entry(k, v)
  /\ Returns(NULL)
  /\ Goto(t, AfterAdd)

PutOld(t, k, v) ==
  /\ Found(k)
  /\ chain' = [chain EXCEPT ![hash_value(k, num_buckets)] =
                 (@ \ {Entry(k)}) \cup {[Entry(k) EXCEPT !.data = v]}]
  /\ Returns(GivenBack(Entry(k)))
  /\ UNCHANGED <<entries, pc>>

cfuhash_put_data(t, k, v) ==
  /\ Locked(t, "idle")
  /\ PutNew(t, k, v) \/ PutOld(t, k, v)
  /\ UNCHANGED <<alive, num_buckets, resized, uncounted, seen, iteration, copying>>

(* Whether a caller that removed something goes on to look at the load.    *)
AfterRemove ==
  IF \/ "FROZEN" \in Flags
     \/ "FROZEN_UNTIL_GROWS" \in Flags /\ ~resized
  THEN "idle" ELSE "shrink"

Absent(S) == gone' = [t \in Thread |-> gone[t] \cup S]

cfuhash_delete_data(t, k) ==
  /\ Locked(t, "idle")
  /\ IF Found(k)
     THEN /\ chain' = [chain EXCEPT ![hash_value(k, num_buckets)] =
                                      @ \ {Entry(k)}]
          /\ entries' = entries - 1
          /\ Returns(GivenBack(Entry(k)))
          /\ Goto(t, AfterRemove)
     ELSE Returns(NULL) /\ UNCHANGED <<chain, entries, pc>>
  /\ Absent({Canon(k)})
  /\ UNCHANGED <<alive, num_buckets, resized, uncounted, seen, iteration, left,
                 copied>>

cfuhash_clear(t) ==
  /\ Locked(t, "idle")
  /\ chain' = Empty(num_buckets) /\ entries' = 0 /\ uncounted' = 0
  /\ Goto(t, AfterRemove)
  /\ Absent(Index) /\ ReturnsNothing
  /\ UNCHANGED <<alive, num_buckets, resized, seen, iteration, left, copied>>

(* r_fn chooses the entries of R.  The counter is left alone.              *)
cfuhash_foreach_remove(t, R) ==
  /\ Locked(t, "idle")
  /\ R # {}
  /\ chain' = [b \in DOMAIN chain |-> chain[b] \ R]
  /\ uncounted' = uncounted + Cardinality(R)
  /\ Absent({Canon(e.key) : e \in R}) /\ ReturnsNothing
  /\ UNCHANGED <<alive, counters, threads, iteration, left, copied>>

-----------------------------------------------------------------------------
(* The test for a rehash, on counters read without the lock.               *)
TooFull(s) == 4 * s.entries > 3 * s.buckets
TooEmpty(s) == 4 * s.entries < s.buckets
Decision(t, s) ==
  IF Unread \in {s.entries, s.buckets} THEN pc[t]
  ELSE IF (pc[t] = "grow" /\ TooFull(s)) \/ (pc[t] = "shrink" /\ TooEmpty(s))
  THEN "rehash" ELSE "idle"

Read(t, s) ==
  /\ pc[t] \in {"grow", "shrink"}
  /\ Goto(t, Decision(t, s))
  /\ seen' = [seen EXCEPT ![t] = IF Unread \in {s.entries, s.buckets} THEN s
                                 ELSE Unseen]
  /\ ReturnsNothing
  /\ UNCHANGED <<table, iteration, copying>>

ReadEntries(t) == /\ seen[t].entries = Unread
                  /\ Read(t, [seen[t] EXCEPT !.entries = entries])
ReadBuckets(t) == /\ seen[t].buckets = Unread
                  /\ Read(t, [seen[t] EXCEPT !.buckets = num_buckets])

(* Every entry goes to its new chain.  high + low is 1.                    *)
Relinked_OldIndex(n) ==
  [b \in 0..(n - 1) |-> {e \in AllEntries : hash_value(e.key, num_buckets) % n = b}]
Relinked(n) ==
  [b \in 0..(n - 1) |-> {e \in AllEntries : hash_value(e.key, n) = b}]

Resize(n) ==
  IF n = num_buckets THEN UNCHANGED <<num_buckets, chain, resized>>
  ELSE num_buckets' = n /\ chain' = Relinked(n) /\ resized' = TRUE

cfuhash_rehash(t) ==
  /\ Locked(t, "rehash") \/ Locked(t, "idle")
  /\ Resize(hash_size(2 * entries))
  /\ Goto(t, "idle") /\ ReturnsNothing
  /\ UNCHANGED <<alive, entries, uncounted, seen, iteration, copying>>

-----------------------------------------------------------------------------
(* Lists of keys: all at once, by a function that may stop, one by one.    *)
(* The first has room for as many as the counter says, and takes no more.  *)
Listed == LET n == Cardinality(AllEntries)
          IN ListsOf(AllEntries, IF entries < n THEN entries ELSE n)

cfuhash_keys_data(t) ==
  /\ Locked(t, "idle")
  /\ \E s \in Listed : Returns(KeysOf(s))
  /\ UNCHANGED <<table, iteration, copying, pc, seen>>

cfuhash_foreach(t) ==
  /\ Locked(t, "idle")
  /\ \E n \in 0..Cardinality(AllEntries) :
       \E s \in ListsOf(AllEntries, n) : Returns(<<"first", KeysOf(s)>>)
  /\ UNCHANGED <<table, iteration, copying, pc, seen>>

(* cfuhash_each and cfuhash_next with the lock held, as cfuhash.h asks.    *)
EachLock(t) ==
  /\ Locked(t, "idle")
  /\ owner' = t /\ each' = NoEach /\ visited' = << >>
  /\ Goto(t, "each") /\ ReturnsNothing
  /\ UNCHANGED <<table, copying, seen>>

(* Where the next entry is: in the rest of this chain, or in the first one *)
(* that is not empty of those that follow.                                 *)
NonEmpty == {b \in DOMAIN chain : b > each.bucket /\ chain[b] # {}}
NextChain == {[bucket |-> b, rest |-> chain[b]] :
                b \in {c \in NonEmpty : \A d \in NonEmpty : c <= d}}
Ahead_SkipChain == NextChain
Ahead == IF each.rest # {} THEN {each} ELSE NextChain

Visit(a, e) == /\ each' = [a EXCEPT !.rest = @ \ {e}]
               /\ visited' = Append(visited, Canon(e.key))
               /\ ReturnsNothing
               /\ UNCHANGED <<owner, pc>>
EachEnd(t) == /\ owner' = NULL /\ each' = NoEach /\ visited' = << >>
              /\ Returns(visited)
              /\ Goto(t, "idle")

cfuhash_next_data(t) ==
  /\ owner = t
  /\ \/ \E a \in Ahead : \E e \in a.rest : Visit(a, e)
     \/ Ahead = {} /\ EachEnd(t)
  /\ UNCHANGED <<table, copying, seen>>

(* cfuhash_copy (and each half of cfuhash_merge): the keys, then a get and *)
(* a put into another table for each of them.                              *)
CopyKeys(t) ==
  /\ Locked(t, "idle")
  /\ \E s \in Listed : left' = [left EXCEPT ![t] = {Canon(s[i].key) : i \in DOMAIN s}]
  /\ copied' = [copied EXCEPT ![t] = {}]
  /\ gone' = [gone EXCEPT ![t] = {k \in Index : ~Found(k)}]
  /\ Goto(t, "copy") /\ ReturnsNothing
  /\ UNCHANGED <<table, iteration, seen>>

LeftAfter_StopAtMissing(t, k) == IF Found(k) THEN left[t] \ {k} ELSE {}
LeftAfter(t, k) == left[t] \ {k}

CopyOne(t, k) ==
  /\ Locked(t, "copy") /\ k \in left[t]
  /\ IF Found(k)
     THEN copied' = [copied EXCEPT ![t] = @ \cup {k}] /\ Returns(Entry(k).data)
     ELSE UNCHANGED copied /\ Returns(NULL)
  /\ left' = [left EXCEPT ![t] = LeftAfter(t, k)]
  /\ UNCHANGED <<table, iteration, gone, pc, seen>>

CopyEnd(t) ==
  /\ pc[t] = "copy" /\ left[t] = {}
  /\ Goto(t, "idle") /\ ReturnsNothing
  /\ copied' = [copied EXCEPT ![t] = {}] /\ gone' = [gone EXCEPT ![t] = {}]
  /\ UNCHANGED <<table, iteration, left, seen>>

(* Only when no thread uses the table, which is up to the caller.          *)
cfuhash_destroy ==
  /\ alive /\ \A t \in Thread : pc[t] = "idle"
  /\ alive' = FALSE /\ chain' = Empty(num_buckets) /\ entries' = 0 /\ uncounted' = 0
  /\ gone' = [t \in Thread |-> {}] /\ ReturnsNothing
  /\ UNCHANGED <<num_buckets, resized, iteration, threads, left, copied>>

cfuhash_new ==
  /\ ~alive /\ alive' = TRUE
  /\ num_buckets' = InitialSize /\ chain' = Empty(InitialSize) /\ resized' = FALSE
  /\ ReturnsNothing
  /\ UNCHANGED <<entries, uncounted, iteration, copying, threads>>

Next ==
  \/ \E t \in Thread :
       \/ \E k \in Key : \/ cfuhash_get_data(t, k) \/ cfuhash_delete_data(t, k)
                         \/ \E v \in Value : cfuhash_put_data(t, k, v)
       \/ \E R \in SUBSET AllEntries : cfuhash_foreach_remove(t, R)
       \/ cfuhash_foreach(t)
       \/ cfuhash_clear(t) \/ ReadEntries(t) \/ ReadBuckets(t) \/ cfuhash_rehash(t)
       \/ cfuhash_keys_data(t) \/ EachLock(t) \/ cfuhash_next_data(t)
       \/ CopyKeys(t) \/ CopyEnd(t) \/ \E k \in Index : CopyOne(t, k)
  \/ cfuhash_destroy \/ cfuhash_new

Spec == Init /\ [][Next]_vars

-----------------------------------------------------------------------------
(* Whatever order the threads run in, every entry is in the chain its hash *)
(* selects for the present number of buckets, no key has two entries, and  *)
(* the counter differs from the entries there are by the removals of       *)
(* cfuhash_foreach_remove alone.                                           *)
WellLinked ==
  /\ \A b \in DOMAIN chain : \A e \in chain[b] : hash_value(e.key, num_buckets) = b
  /\ \A e, f \in AllEntries : hash_cmp(e.key, f) => e = f
  /\ entries = Cardinality(AllEntries) + uncounted

(* A table that is too full is never left so: some thread has yet to test  *)
(* for it, and will see it, or has decided to rehash, although the test    *)
(* is made after the lock has been released.                               *)
WillNotice(t) ==
  \/ pc[t] = "rehash"
  \/ /\ pc[t] = "grow"
     /\ seen[t].entries = Unread \/ seen[t].entries >= entries
     /\ seen[t].buckets = Unread \/ seen[t].buckets = num_buckets
Overfull == 4 * entries > 3 * num_buckets
OverfullNoticed ==
  Overfull /\ "FROZEN" \notin Flags => \E t \in Thread : WillNotice(t)

(* A key that was in the table all through a copy is in the copy, so the   *)
(* second table of cfuhash_merge wins.                                     *)
CopyComplete ==
  \A t \in Thread : pc[t] = "copy" /\ left[t] = {} => Index \ gone[t] \subseteq copied[t]

(* The table with its chains, rehashing and races implements a map, whose  *)
(* operations take effect at once.                                         *)
Dict == INSTANCE Dictionary WITH
  dict <- [k \in Index |-> IF Found(k) THEN Entry(k).data ELSE NULL],
  result <- result
MapSpec == Dict!Spec

=============================================================================
