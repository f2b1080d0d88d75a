------------------------------ MODULE SSTCache ------------------------------
(***************************************************************************)
(* SSTCache (src/src/table/sst_cache.cc) over the LRU cache: threads that   *)
(* look up an open table or open it, use it, and release it, while          *)
(* RemoveObsoleteFiles evicts tables of files that no version needs and     *)
(* ~SSTCache ends it all.  The cached value of an entry is the open file    *)
(* with its Table; the deleter closes it.  Every entry is charged 1.        *)
(***************************************************************************)
EXTENDS LRUCache

CONSTANT Clients   \* the threads that call Get or use an iterator

ASSUME SSTCacheAssumption == 1 \in Charges

VARIABLES
    pc,      \* where each thread is: "idle", "opening" or "using"
    number,  \* the file it reads
    handle,  \* its Cache::Handle
    live     \* the files that some version or pending output names

clientVars == <<pc, number, handle>>
sstVars == <<vars, clientVars, live>>

(* FindTable's Lookup.  A thread only reads files of a version it refers   *)
(* to, which keeps them live.                                              *)
FindTable(t, k) ==
    /\ pc[t] = "idle" /\ k \in live
    /\ Lookup(k)
    /\ number' = [number EXCEPT ![t] = k]
    /\ handle' = [handle EXCEPT ![t] = shard.table[k]]
    /\ pc' = [pc EXCEPT ![t] = IF shard.table[k] = NoHandle THEN "opening" ELSE "using"]
    /\ UNCHANGED live

(* The file is opened without the cache's mutex, and then inserted; another *)
(* thread may have inserted a table of the same file meanwhile.             *)
OpenAndInsert(t, h) ==
    /\ pc[t] = "opening"
    /\ Insert(number[t], 1, h)
    /\ handle' = [handle EXCEPT ![t] = h]
    /\ pc' = [pc EXCEPT ![t] = "using"]
    /\ UNCHANGED <<number, live>>

(* NewRandomAccessFile or Table::OpenSST fails: nothing is cached. *)
OpenFails(t) ==
    /\ pc[t] = "opening"
    /\ pc' = [pc EXCEPT ![t] = "idle"]
    /\ UNCHANGED <<vars, number, handle, live>>

(* Get has its answer, or the iterator is destroyed (UnrefEntry). *)
ReleaseTable(t) ==
    /\ pc[t] = "using"
    /\ Release(handle[t])
    /\ pc' = [pc EXCEPT ![t] = "idle"]
    /\ handle' = [handle EXCEPT ![t] = NoHandle]
    /\ UNCHANGED <<number, live>>

Uses(t, k) == pc[t] # "idle" /\ number[t] = k

(* Mutant: the table stays in the cache. *)
EvictTable_Skipped(k) == UNCHANGED vars

(* SSTCache::Evict *)
EvictTable(k) == Erase(k)

(* RemoveObsoleteFiles deletes a file that nobody needs any more. *)
RemoveFile(k) ==
    /\ k \in live /\ \A t \in Clients : ~Uses(t, k)
    /\ EvictTable(k)
    /\ live' = live \ {k}
    /\ UNCHANGED clientVars

(* ~SSTCache, once every iterator and every Get is done. *)
Close ==
    /\ \A t \in Clients : pc[t] = "idle"
    /\ Destroy
    /\ UNCHANGED <<clientVars, live>>

(* Steps of the cache itself, and Prune, which anyone may call. *)
CacheStep ==
    (Evict \/ InsertDone \/ Prune \/ PruneStep) /\ UNCHANGED <<clientVars, live>>

SSTInit ==
    /\ Init
    /\ pc = [t \in Clients |-> "idle"]
    /\ number = [t \in Clients |-> NoHandle]
    /\ handle = [t \in Clients |-> NoHandle]
    /\ live = Keys

SSTNext ==
    \/ \E t \in Clients, k \in Keys : FindTable(t, k)
    \/ \E t \in Clients, h \in Handles : OpenAndInsert(t, h)
    \/ \E t \in Clients : OpenFails(t) \/ ReleaseTable(t)
    \/ \E k \in Keys : RemoveFile(k)
    \/ CacheStep \/ Close

SSTSpec == SSTInit /\ [][SSTNext]_sstVars

-----------------------------------------------------------------------------
(***************************************************************************)
(* Properties                                                              *)
(***************************************************************************)

(* The table a thread uses is open and is the one of the file it asked     *)
(* for, whatever other threads insert, replace, evict or release.          *)
TableUsable ==
    \A t \in Clients : pc[t] = "using" =>
        /\ handle[t] \notin shard.freed
        /\ key[handle[t]] = number[t]

(* When RemoveObsoleteFiles has deleted a file, none of the tables that    *)
(* were opened for it, by however many threads at once, is still open: the *)
(* descriptor would keep the space on disk.                                *)
NoStaleTable ==
    \A h \in Allocated : key[h] \notin live => h \in shard.freed

=============================================================================
