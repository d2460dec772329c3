----------------------------- MODULE Immutable -----------------------------
(***************************************************************************)
(* Interned strings (immutable/immutable.c) of several threads, over the   *)
(* chained hash table of table/table.c: buckets of items, each of which    *)
(* points to the next one.  An item is known by its address, a number; a   *)
(* bucket, or the next field of an item, is a place that holds an address. *)
(*                                                                         *)
(* One step is one step along a chain, or one item moved by a resize: the  *)
(* steps of threads interleave as their mutex lets them.                   *)
(***************************************************************************)
EXTENDS Integers, Sequences

CONSTANTS
  Threads,
  Strings,         \* what threads intern, "" and the results of realpath(3)
  Real,            \* realpath(3) of a path: a string, or Missing
  Hash,            \* _table_hash_sdbm_string
  FirstSize,       \* 1031, the size of the first table
  MaxCalls         \* bound: calls of a thread

Missing == "missing"
Null == 0
NoThread == "nobody"

ASSUME InternAssumption ==
  /\ NoThread \notin Threads
  /\ "" \in Strings /\ Missing \notin Strings
  /\ Real \in [Strings -> Strings \cup {Missing}]
  /\ Hash \in [Strings -> Nat]
  /\ FirstSize \in Nat \ {0}

VARIABLES
  holder,    \* namespace->mutex: who has it
  buckets,   \* table: an address for each bucket
  items,     \* what is at each address: [key, next]
  count,     \* item_count
  resolved,  \* the buffer of realpath(3)
  thread,    \* what each thread is doing
  returned   \* history: the address each call returned, by thread

internVars == <<holder, buckets, items, count, resolved, thread, returned>>

InternInit ==
  /\ holder = NoThread /\ buckets = <<>> /\ items = <<>> /\ count = 0 /\ resolved = ""
  /\ thread = [t \in Threads |-> [pc |-> "rest", input |-> "", path |-> FALSE, key |-> "",
                                  place |-> <<"bucket", 0>>, old |-> <<>>]]
  /\ returned = [t \in Threads |-> <<>>]

GoesTo(t, step) == thread' = [thread EXCEPT ![t].pc = step]

\* Buckets are counted from zero.
Size == Len(buckets)
BucketOf(key) == Hash[key] % Size
At(place) ==
  IF place[1] = "bucket" THEN buckets[place[2] + 1] ELSE items[place[2]].next

-----------------------------------------------------------------------------
\* immutable_string, or immutable_path.
Call(t) ==
  /\ thread[t].pc = "rest" /\ Len(returned[t]) < MaxCalls
  /\ \E s \in Strings : \E path \in BOOLEAN :
       thread' = [thread EXCEPT ![t].pc = "lock", ![t].input = s, ![t].path = path,
                                ![t].key = s]
  /\ UNCHANGED <<holder, buckets, items, count, resolved, returned>>

\* Mutant: a namespace has no mutex.
Lock_Not(t) ==
  /\ thread[t].pc = "lock"
  /\ GoesTo(t, IF thread[t].path THEN "resolve" ELSE "include")
  /\ UNCHANGED <<holder, buckets, items, count, resolved, returned>>

Lock(t) ==
  /\ thread[t].pc = "lock" /\ holder = NoThread
  /\ holder' = t
  /\ GoesTo(t, IF thread[t].path THEN "resolve" ELSE "include")
  /\ UNCHANGED <<buckets, items, count, resolved, returned>>

\* realpath(3): the string of a path that is not there is the empty one.
Resolve(t) ==
  /\ thread[t].pc = "resolve"
  /\ resolved' = IF Real[thread[t].input] = Missing THEN resolved ELSE Real[thread[t].input]
  /\ thread' = [thread EXCEPT ![t].pc = "include",
                              ![t].key = IF Real[thread[t].input] = Missing THEN ""
                                         ELSE resolved']
  /\ UNCHANGED <<holder, buckets, items, count, returned>>

-----------------------------------------------------------------------------
(* _table_string_include.                                                  *)

Full == 100 * count >= 80 * Size
NewSize == IF count = 0 THEN FirstSize ELSE (count * 271828) \div 100000
Empty(n) == [b \in 1..n |-> Null]

\* table_resize: a table of empty buckets, and the old one beside it.
ResizeStarts(t) ==
  /\ thread[t].pc = "include" /\ Full
  /\ buckets' = Empty(NewSize)
  /\ thread' = [thread EXCEPT ![t].pc = "resize", ![t].old = buckets]
  /\ UNCHANGED <<holder, items, count, resolved, returned>>

\* Items are put in front of the chain they come to.
Moving(old) == CHOOSE b \in 1..Len(old) : old[b] # Null

\* Mutant: the next item of the old chain is forgotten.
ResizeMoves_LosesChain(t) ==
  /\ thread[t].pc = "resize"
  /\ LET old == thread[t].old IN
     /\ \E b \in 1..Len(old) : old[b] # Null
     /\ LET item == old[Moving(old)]
            b == BucketOf(items[item].key) + 1
        IN  /\ items' = [items EXCEPT ![item].next = buckets[b]]
            /\ buckets' = [buckets EXCEPT ![b] = item]
            /\ thread' = [thread EXCEPT ![t].old[Moving(old)] = Null]
  /\ UNCHANGED <<holder, count, resolved, returned>>

ResizeMoves(t) ==
  /\ thread[t].pc = "resize"
  /\ LET old == thread[t].old IN
     /\ \E b \in 1..Len(old) : old[b] # Null
     /\ LET item == old[Moving(old)]
            b == BucketOf(items[item].key) + 1
        IN  /\ items' = [items EXCEPT ![item].next = buckets[b]]
            /\ buckets' = [buckets EXCEPT ![b] = item]
            /\ thread' = [thread EXCEPT ![t].old[Moving(old)] = items[item].next]
  /\ UNCHANGED <<holder, count, resolved, returned>>

ResizeEnds(t) ==
  /\ thread[t].pc = "resize" /\ \A b \in 1..Len(thread[t].old) : thread[t].old[b] = Null
  /\ thread' = [thread EXCEPT ![t].pc = "bucket", ![t].old = <<>>]
  /\ UNCHANGED <<holder, buckets, items, count, resolved, returned>>

\* table_string_bucket.
FindBucket(t) ==
  /\ thread[t].pc = "bucket" \/ (thread[t].pc = "include" /\ ~Full)
  /\ thread' = [thread EXCEPT ![t].pc = "match",
                              ![t].place = <<"bucket", BucketOf(thread[t].key)>>]
  /\ UNCHANGED <<holder, buckets, items, count, resolved, returned>>

\* table_string_match: on to the next place of the chain.
IsMatch(t) == At(thread[t].place) # Null /\ items[At(thread[t].place)].key = thread[t].key

MatchGoesOn(t) ==
  /\ thread[t].pc = "match" /\ At(thread[t].place) # Null /\ ~IsMatch(t)
  /\ thread' = [thread EXCEPT ![t].place = <<"next", At(thread[t].place)>>]
  /\ UNCHANGED <<holder, buckets, items, count, resolved, returned>>

MatchFinds(t) ==
  /\ thread[t].pc = "match" /\ IsMatch(t)
  /\ GoesTo(t, "unlock")
  /\ UNCHANGED <<holder, buckets, items, count, resolved, returned>>

\* table_insert_size_into: an item of its own at the end of the chain.
Insert(t) ==
  /\ thread[t].pc = "match" /\ At(thread[t].place) = Null
  /\ LET place == thread[t].place
         new == Len(items) + 1
         linked == IF place[1] = "next" THEN [items EXCEPT ![place[2]].next = new] ELSE items
     IN  /\ items' = Append(linked, [key |-> thread[t].key, next |-> Null])
         /\ buckets' = IF place[1] = "bucket" THEN [buckets EXCEPT ![place[2] + 1] = new]
                       ELSE buckets
  /\ count' = count + 1
  /\ GoesTo(t, "unlock")
  /\ UNCHANGED <<holder, resolved, returned>>

\* Mutant: the mutex is unlocked on the way of an insertion only.
Unlock_Inserted(t) ==
  /\ thread[t].pc = "unlock"
  /\ holder' = IF items[At(thread[t].place)].next = Null THEN NoThread ELSE holder
  /\ returned' = [returned EXCEPT ![t] = Append(@, [input |-> thread[t].input,
                    path |-> thread[t].path, address |-> At(thread[t].place)])]
  /\ GoesTo(t, "rest")
  /\ UNCHANGED <<buckets, items, count, resolved>>

Unlock(t) ==
  /\ thread[t].pc = "unlock"
  /\ holder' = NoThread
  /\ returned' = [returned EXCEPT ![t] = Append(@, [input |-> thread[t].input,
                    path |-> thread[t].path, address |-> At(thread[t].place)])]
  /\ GoesTo(t, "rest")
  /\ UNCHANGED <<buckets, items, count, resolved>>

Steps(t) ==
  \/ Lock(t) \/ Resolve(t) \/ ResizeStarts(t) \/ ResizeMoves(t) \/ ResizeEnds(t)
  \/ FindBucket(t) \/ MatchGoesOn(t) \/ MatchFinds(t) \/ Insert(t) \/ Unlock(t)

InternNext == \E t \in Threads : Call(t) \/ Steps(t)

InternSpec == InternInit /\ [][InternNext]_internVars

\* As long as some thread in a call can run, one does.
InternFair == WF_internVars(\E t \in Threads : Steps(t))

-----------------------------------------------------------------------------
\* What a call was to return the string of.
Wanted(call) ==
  IF ~call.path THEN call.input
  ELSE IF Real[call.input] = Missing THEN "" ELSE Real[call.input]

Calls == UNION {{returned[t][i] : i \in 1..Len(returned[t])} : t \in Threads}

\* Whatever threads did and however often the table grew in between, an address
\* that was returned holds the string that was wanted, and two are the same just
\* when the strings are (immutable.c:26-67): strings may be compared by address.
AddressIsString ==
  /\ \A c \in Calls : c.address \in 1..Len(items) /\ items[c.address].key = Wanted(c)
  /\ \A c, d \in Calls : (c.address = d.address) <=> (Wanted(c) = Wanted(d))

\* Every call returns.  (Calls are finitely many: all of them have returned when
\* all threads rest for good.)
CallsReturn == <>[](\A t \in Threads : thread[t].pc = "rest")
=============================================================================
