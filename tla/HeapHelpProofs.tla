--------------------------- MODULE HeapHelpProofs ---------------------------
(***************************************************************************)
(* Proofs about HeapHelp: HeapTypeOK, RecordOnce and InitFirst, for every  *)
(* finite set of threads and all addresses.                                *)
(*                                                                         *)
(* Most steps only move threads along (Moves); alloc_trace_new takes a     *)
(* record in one section under the lock (Take) and links it in another     *)
(* (Record), and alloc_free gives one back (Unlink).                       *)
(***************************************************************************)
EXTENDS HeapHelp, DataTheorems, FiniteSetTheorems

(* Where the tracing of a block goes on, there is a block.  getline comes  *)
(* to tracing from alloc_free.                                             *)
HasResult(r) ==
  r.pc \in {"trace", "take", "record"} \/ (r.call = "getline" /\ r.pc \in {"untrace", "unlink"})
    => r.res \in Addrs

Results == \A t \in Threads : HasResult(thread[t])

(* Before the initialisation ends main_thread is alone, and afterwards     *)
(* nobody is on the way into it.                                           *)
Beginnings ==
  /\ setup.is_init_done =>
       setup.default = "libc" /\ \A t \in Threads : thread[t].pc \notin {"touch", "dlsym"}
  /\ ~setup.is_init_done =>
       \A t \in Threads :
         thread[t].pc = "none" \/ (t = main_thread /\ thread[t].pc \in {"idle", "touch", "dlsym"})

HeapInvariant == HeapTypeOK /\ RecordOnce /\ Results /\ Beginnings

-----------------------------------------------------------------------------
(* The threads that have a record in their hands. *)
Recording == {t \in Threads : thread[t].pc = "record"}

(* One more thread with a record, or one less.                           *)
LEMMA RecordingCount ==
  ASSUME NEW t \in Threads
  PROVE  /\ Cardinality(Recording) \in Nat
         /\ Cardinality(Recording \cup {t}) =
              IF thread[t].pc = "record" THEN Cardinality(Recording) ELSE Cardinality(Recording) + 1
         /\ Cardinality(Recording \ {t}) =
              IF thread[t].pc = "record" THEN Cardinality(Recording) - 1 ELSE Cardinality(Recording)
<1>1. IsFiniteSet(Recording)
  BY HeapHelpAssumption, FS_Subset DEF Recording
<1>2. t \in Recording <=> thread[t].pc = "record"
  BY DEF Recording
<1>3. Cardinality(Recording) \in Nat
  BY <1>1, FS_CardinalityType
<1>4. Cardinality(Recording \cup {t}) =
        IF t \in Recording THEN Cardinality(Recording) ELSE Cardinality(Recording) + 1
  BY <1>1, FS_AddElement
<1>5. Cardinality(Recording \ {t}) =
        IF t \in Recording THEN Cardinality(Recording) - 1 ELSE Cardinality(Recording)
  BY <1>1, FS_RemoveElement
<1>6. QED
  BY <1>2, <1>3, <1>4, <1>5

(* Unlinking takes one record out of the list (heap_help.c:212-232).    *)
LEMMA RemoveOne ==
  ASSUME NEW S, NEW s \in Seq(S), NEW i \in DOMAIN s
  PROVE  RemoveAt(s, i) \in Seq(S) /\ Len(RemoveAt(s, i)) = Len(s) - 1 /\ Len(s) \in Nat \ {0}
<1>1. Len(s) \in Nat /\ i \in 1..Len(s)
  OBVIOUS
<1>2. RemoveAt(s, i) \in Seq(S) /\ Len(RemoveAt(s, i)) = Len(s) - 1
  BY RemoveAtPlace
<1>3. QED
  BY <1>1, <1>2

-----------------------------------------------------------------------------
(* What the ends of the functions do to the threads: thread t goes on, and *)
(* pthread_create may have made another one.                               *)
Moves(t) ==
  /\ thread' \in [Threads -> ThreadRecords]
  /\ owned' \subseteq Addrs
  /\ \A u \in Threads \ {t} :
       thread'[u] = thread[u] \/ (thread[u].pc = "none" /\ thread'[u] = Idle)
  /\ HasResult(thread'[t])
  /\ thread'[t].pc \notin {"touch", "dlsym"}

(* A thread outside of the tracker has nothing to show for it.           *)
LEMMA IdleType == Idle \in ThreadRecords /\ HasResult(Idle) /\ Idle.pc = "idle"
BY HeapHelpAssumption DEF Idle, ThreadRecords, HasResult

(* The end of a call of the program.                                      *)
LEMMA ReturnMoves ==
  ASSUME HeapTypeOK, NEW t \in Threads, NEW res \in Addrs \cup {NULL}, Return(t, res)
  PROVE  Moves(t) /\ thread'[t].pc = "idle"
<1>1. CASE thread[t].call = "pthread_create"
  BY <1>1, IdleType DEF Return, HeapTypeOK, Moves
<1>2. CASE thread[t].call # "pthread_create"
  BY <1>2, IdleType DEF Return, HeapTypeOK, Moves
<1>3. QED
  BY <1>1, <1>2

(* Thread t gets the local state r. *)
LEMMA BecomesMoves ==
  ASSUME HeapTypeOK, NEW t \in Threads, NEW r \in ThreadRecords,
         thread' = [thread EXCEPT ![t] = r], owned' \subseteq Addrs,
         HasResult(r), r.pc \notin {"touch", "dlsym"}
  PROVE  Moves(t) /\ thread'[t] = r
BY DEF Moves, HeapTypeOK

(* Setting the place of a thread keeps its call and its result.            *)
LEMMA PlacedRecord ==
  ASSUME NEW r \in ThreadRecords, NEW pc, NEW depth \in 0..2,
         pc \in {"dlsym", "enter", "trace", "take", "record", "untrace", "unlink", "release",
                 "report", "printing", "ended"}
  PROVE  LET q == [r EXCEPT !.pc = pc, !.depth = depth]
         IN  /\ q \in ThreadRecords
             /\ q.pc = pc /\ q.call = r.call /\ q.res = r.res
             /\ q = [r EXCEPT !.depth = depth, !.pc = pc]
<1> DEFINE q == [r EXCEPT !.pc = pc, !.depth = depth]
<1>1. q \in ThreadRecords
  BY DEF ThreadRecords
<1>2. q.pc = pc /\ q.call = r.call /\ q.res = r.res
  BY DEF ThreadRecords
<1>3. q = [r EXCEPT !.depth = depth, !.pc = pc]
  BY DEF ThreadRecords
<1>4. QED
  BY <1>1, <1>2, <1>3

(* Thread t goes on to another place, perhaps at another depth.           *)
LEMMA PlacedMoves ==
  ASSUME HeapTypeOK, NEW t \in Threads, NEW pc, NEW depth \in 0..2,
         \/ thread' = [thread EXCEPT ![t].pc = pc, ![t].depth = depth]
         \/ thread' = [thread EXCEPT ![t].depth = depth, ![t].pc = pc],
         UNCHANGED owned,
         pc \in {"enter", "trace", "take", "record", "untrace", "unlink", "release",
                 "report", "printing", "ended"},
         pc \in {"trace", "take", "record"} \/ (thread[t].call = "getline" /\ pc \in {"untrace", "unlink"})
           => thread[t].res \in Addrs
  PROVE  Moves(t) /\ thread'[t].pc = pc
<1> DEFINE q == [thread[t] EXCEPT !.pc = pc, !.depth = depth]
<1>1. thread[t] \in ThreadRecords /\ thread \in [Threads -> ThreadRecords]
  BY DEF HeapTypeOK
<1>2. /\ q \in ThreadRecords
      /\ q.pc = pc /\ q.call = thread[t].call /\ q.res = thread[t].res
      /\ q = [thread[t] EXCEPT !.depth = depth, !.pc = pc]
  BY <1>1, PlacedRecord
<1>3. thread' = [thread EXCEPT ![t] = q]
  <2>1. CASE thread' = [thread EXCEPT ![t].pc = pc, ![t].depth = depth]
    BY <1>1, <2>1
  <2>2. CASE thread' = [thread EXCEPT ![t].depth = depth, ![t].pc = pc]
    <3>1. thread' = [thread EXCEPT ![t] = [thread[t] EXCEPT !.depth = depth, !.pc = pc]]
      BY <1>1, <2>2
    <3>2. QED
      BY <1>2, <3>1
  <2>3. QED
    BY <2>1, <2>2
<1> HIDE DEF q
<1>4. HasResult(q) /\ q.pc \notin {"touch", "dlsym"} /\ owned' \subseteq Addrs
  BY <1>2 DEF HasResult, HeapTypeOK
<1>5. QED
  BY <1>2, <1>3, <1>4, BecomesMoves

(* Goto keeps the depth, too. *)
LEMMA GotoMoves ==
  ASSUME HeapTypeOK, NEW t \in Threads, NEW pc, Goto(t, pc), UNCHANGED owned,
         pc \in {"enter", "trace", "take", "record", "untrace", "unlink", "release",
                 "report", "printing", "ended"},
         pc \in {"trace", "take", "record"} \/ (thread[t].call = "getline" /\ pc \in {"untrace", "unlink"})
           => thread[t].res \in Addrs
  PROVE  Moves(t) /\ thread'[t].pc = pc
<1>1. thread[t] \in ThreadRecords /\ thread \in [Threads -> ThreadRecords] /\ thread[t].depth \in 0..2
  BY DEF HeapTypeOK, ThreadRecords
<1>2. [thread[t] EXCEPT !.pc = pc, !.depth = thread[t].depth] = [thread[t] EXCEPT !.pc = pc]
  BY <1>1 DEF ThreadRecords
<1>3. thread' = [thread EXCEPT ![t] = [thread[t] EXCEPT !.pc = pc]]
  BY <1>1 DEF Goto
<1>4. thread' = [thread EXCEPT ![t].pc = pc, ![t].depth = thread[t].depth]
  BY <1>1, <1>2, <1>3
<1>5. QED
  BY <1>1, <1>4, PlacedMoves

(* Where alloc_trace_new leads back to, the thread has no record.         *)
LEMMA AfterTraceMoves ==
  ASSUME HeapTypeOK, Results, NEW t \in Threads, AfterTrace(t),
         thread[t].pc \in {"trace", "record"}
  PROVE  Moves(t) /\ thread'[t].pc # "record"
<1>1. thread[t].res \in Addrs
  BY DEF Results, HasResult
<1>2. CASE thread[t].depth = 1
  BY <1>1, <1>2, ReturnMoves DEF AfterTrace
<1>3. CASE thread[t].depth # 1
  <2> DEFINE pc == IF thread[t].ptr = NULL THEN "trace" ELSE "untrace"
  <2>1. thread' = [thread EXCEPT ![t].depth = 1, ![t].pc = pc] /\ UNCHANGED owned
    BY <1>3 DEF AfterTrace
  <2>2. pc \in {"trace", "untrace"} /\ 1 \in 0..2
    OBVIOUS
  <2> HIDE DEF pc
  <2>3. Moves(t) /\ thread'[t].pc = pc
    BY <1>1, <2>1, <2>2, PlacedMoves
  <2>4. QED
    BY <2>2, <2>3
<1>4. QED
  BY <1>2, <1>3

(* Where alloc_free leads back to, realloc and getline have a new block.  *)
LEMMA AfterUntraceMoves ==
  ASSUME HeapTypeOK, Results, NEW t \in Threads, AfterUntrace(t),
         thread[t].pc \in {"untrace", "unlink"} \/ thread[t].call \in {"free", "freeaddrinfo"}
  PROVE  Moves(t) /\ thread'[t].pc # "record"
<1>1. thread[t] \in ThreadRecords
  BY DEF HeapTypeOK
<1>2. CASE thread[t].call = "realloc" /\ thread[t].res \in {NULL, thread[t].ptr}
  <2>1. Return(t, thread[t].res) /\ thread[t].res \in Addrs \cup {NULL}
    BY <1>1, <1>2 DEF AfterUntrace, ThreadRecords
  <2>2. QED
    BY <2>1, ReturnMoves
<1>3. CASE ~(thread[t].call = "realloc" /\ thread[t].res \in {NULL, thread[t].ptr})
  <2> DEFINE pc == CASE thread[t].call = "freeaddrinfo" /\ thread[t].depth = 1 -> "untrace"
                     [] thread[t].call \in {"realloc", "getline"} -> "trace"
                     [] OTHER -> "release"
             depth == IF pc = "untrace" THEN 2 ELSE thread[t].depth
  <2>1. thread' = [thread EXCEPT ![t].pc = pc, ![t].depth = depth] /\ UNCHANGED owned
    BY <1>3 DEF AfterUntrace
  <2>2. pc \in {"trace", "untrace", "release"} /\ depth \in 0..2
    BY <1>1 DEF ThreadRecords
  <2>3. pc = "trace" => thread[t].res \in Addrs
    BY <1>1, <1>3 DEF ThreadRecords, Results, HasResult
  <2>4. pc = "untrace" => thread[t].call # "getline"
    OBVIOUS
  <2> HIDE DEF pc, depth
  <2>5. QED
    BY <2>1, <2>2, <2>3, <2>4, PlacedMoves
<1>4. QED
  BY <1>2, <1>3

-----------------------------------------------------------------------------
(* What the moves of threads preserve.                                     *)

(* Who is inside a function of the tracker came after the initialisation.  *)
LEMMA Initialised ==
  ASSUME HeapInvariant, NEW t \in Threads,
         thread[t].pc \notin {"none", "idle", "touch", "dlsym"}
  PROVE  setup.is_init_done
BY DEF HeapInvariant, Beginnings

(* A thread that goes on after the initialisation does not get into it.   *)
LEMMA MovesKeep ==
  ASSUME HeapInvariant, NEW t \in Threads, setup.is_init_done, Moves(t), UNCHANGED setup
  PROVE  Results' /\ Beginnings'
<1>1. ASSUME NEW u \in Threads
      PROVE  HasResult(thread'[u]) /\ thread'[u].pc \notin {"touch", "dlsym"}
  <2>1. CASE u = t
    BY <2>1 DEF Moves
  <2>2. CASE u # t
    BY <2>2, IdleType DEF Moves, HeapInvariant, Results, Beginnings
  <2>3. QED
    BY <2>1, <2>2
<1>2. Results'
  BY <1>1 DEF Results
<1>3. Beginnings'
  BY <1>1 DEF HeapInvariant, Beginnings
<1>4. QED
  BY <1>2, <1>3

(* The number of records that threads have in their hands changes with t.  *)
LEMMA RecordingMoves ==
  ASSUME HeapTypeOK, NEW t \in Threads, Moves(t)
  PROVE  Recording' = IF thread'[t].pc = "record" THEN Recording \cup {t} ELSE Recording \ {t}
<1>1. \A u \in Threads \ {t} : thread'[u].pc = "record" <=> thread[u].pc = "record"
  BY IdleType DEF Moves
<1>2. QED
  BY <1>1 DEF Recording

(* The number of records in the batches. *)
Made ==
  IF alloc_batch.made = 0 THEN 0
  ELSE (alloc_batch.made - 1) * ALLOCATION_BATCH_SIZE + alloc_batch.used

(* RecordOnce in these words.                                            *)
LEMMA RecordOnceDef ==
  RecordOnce <=> /\ alloc_count = Len(allocs)
                 /\ alloc_count + alloc_pool + Cardinality(Recording) = Made
BY DEF RecordOnce, Recording, Made

(* A thread moves on and takes or leaves no record.                        *)
LEMMA QuietStep ==
  ASSUME HeapInvariant, NEW t \in Threads, setup.is_init_done, Moves(t),
         thread[t].pc # "record", thread'[t].pc # "record",
         UNCHANGED <<setup, records>>,
         heap' \in [Addrs -> Blocks],
         allocs_lock' \in {NULL, main_thread}, is_exit_done' \in BOOLEAN,
         report' \in {NULL} \cup [leaks : Nat, suppressed : Nat]
  PROVE  HeapInvariant'
<1>1. Results' /\ Beginnings'
  BY MovesKeep
<1>2. HeapTypeOK'
  BY DEF HeapInvariant, HeapTypeOK, Moves, records
<1>3. Recording' = Recording
  <2>1. Recording' = Recording \ {t}
    BY RecordingMoves DEF HeapInvariant
  <2>2. QED
    BY <2>1 DEF Recording
<1>4. RecordOnce'
  BY <1>3 DEF HeapInvariant, RecordOnce, Recording, records
<1>5. QED
  BY <1>1, <1>2, <1>4 DEF HeapInvariant

-----------------------------------------------------------------------------
(* The actions.                                                            *)

(* The process starts with one thread and nothing allocated.             *)
LEMMA InitInvariant == Init => HeapInvariant
<1> SUFFICES ASSUME Init PROVE HeapInvariant
  OBVIOUS
<1>1. \A t \in Threads : thread[t] = [Idle EXCEPT !.pc = IF t = main_thread THEN "idle" ELSE "none"]
  BY DEF Init
<1>2. \A t \in Threads :
        /\ thread[t] \in ThreadRecords /\ HasResult(thread[t])
        /\ thread[t].pc = IF t = main_thread THEN "idle" ELSE "none"
  <2> SUFFICES ASSUME NEW t \in Threads
               PROVE  /\ thread[t] \in ThreadRecords /\ HasResult(thread[t])
                      /\ thread[t].pc = IF t = main_thread THEN "idle" ELSE "none"
    OBVIOUS
  <2> DEFINE pc == IF t = main_thread THEN "idle" ELSE "none"
  <2>1. thread[t] = [pc |-> pc, call |-> NULL, ptr |-> NULL, res |-> NULL, depth |-> 0,
                     forgotten |-> FALSE]
    BY <1>1 DEF Idle
  <2>2. pc \in {"idle", "none"}
    OBVIOUS
  <2> HIDE DEF pc
  <2>3. thread[t] \in ThreadRecords /\ thread[t].pc = pc
    BY <2>1, <2>2 DEF ThreadRecords
  <2>4. HasResult(thread[t])
    BY <2>1, <2>2, HeapHelpAssumption DEF HasResult
  <2>5. QED
    BY <2>3, <2>4 DEF pc
<1>3. HeapTypeOK
  <2>1. thread \in [Threads -> ThreadRecords]
    BY <1>2 DEF Init
  <2>2. setup \in [is_init_done : BOOLEAN, init_lock : BOOLEAN,
                   default : {"none", "static", "libc"}, static_used : 0..STATIC_SIZE,
                   report_mode : ReportModes]
    <3>1. 0 \in 0..STATIC_SIZE
      BY HeapHelpAssumption
    <3>2. QED
      BY <3>1 DEF Init
  <2>3. heap \in [Addrs -> Blocks]
    BY DEF Init, NoBlock, Blocks
  <2>4. alloc_batch \in [made : Nat, used : 0..ALLOCATION_BATCH_SIZE]
    <3>1. 0 \in 0..ALLOCATION_BATCH_SIZE
      BY HeapHelpAssumption
    <3>2. QED
      BY <3>1 DEF Init
  <2>5. QED
    <3>1. allocs \in Seq([mem : Addrs, internal : BOOLEAN])
      BY DEF Init
    <3>2. QED
      BY <2>1, <2>2, <2>3, <2>4, <3>1 DEF Init, HeapTypeOK
<1>4. RecordOnce
  <2>1. Recording = {}
    BY <1>2 DEF Recording
  <2>2. Cardinality(Recording) = 0 /\ Len(<<>>) = 0
    BY <2>1, FS_EmptySet
  <2>3. QED
    BY <2>2, RecordOnceDef DEF Init, Made
<1>5. ~setup.is_init_done
  BY DEF Init
<1>6. QED
  <2>1. Results
    BY <1>2 DEF Results
  <2>2. Beginnings
    <3>1. ASSUME NEW t \in Threads
          PROVE  thread[t].pc = "none" \/ (t = main_thread /\ thread[t].pc \in {"idle", "touch", "dlsym"})
      <4>1. thread[t].pc = IF t = main_thread THEN "idle" ELSE "none"
        BY <1>2
      <4>2. QED
        BY <4>1
    <3>2. QED
      BY <1>5, <3>1 DEF Beginnings
  <2>3. QED
    BY <1>3, <1>4, <2>1, <2>2 DEF HeapInvariant

(* heaph_touch: only main_thread finds the tracker not initialised.       *)
LEMMA CallStep ==
  ASSUME HeapInvariant, NEW t \in Threads, NEW call \in Calls,
         NEW ptr \in owned \cup {NULL} \cup 0..(STATIC_SIZE - 1), Call(t, call, ptr)
  PROVE  HeapInvariant'
<1> DEFINE pc == IF setup.is_init_done THEN "enter" ELSE "touch"
           forgotten == ptr \in owned /\ heap[ptr].forgotten
           r == [Idle EXCEPT !.pc = pc, !.call = call, !.ptr = ptr, !.depth = 1,
                             !.forgotten = forgotten]
<1>1. /\ thread' = [thread EXCEPT ![t] = r]
      /\ owned' = owned \ {ptr} /\ UNCHANGED <<setup, is_exit_done, allocs_lock, records, heap, report>>
      /\ thread[t].pc = "idle"
  BY DEF Call, At
<1>2. pc \in {"enter", "touch"} /\ forgotten \in BOOLEAN /\ ptr \in Addrs \cup {NULL} \cup 0..(STATIC_SIZE - 1)
  BY DEF HeapInvariant, HeapTypeOK, Blocks
<1> HIDE DEF pc, forgotten
<1>3. r \in ThreadRecords /\ r.pc = pc
  <2> DEFINE q == Idle
             one == 1
  <2>1. q \in ThreadRecords /\ one \in 0..2
    BY IdleType
  <2>2. r = [q EXCEPT !.pc = pc, !.call = call, !.ptr = ptr, !.depth = one,
                      !.forgotten = forgotten]
    OBVIOUS
  <2> HIDE DEF q, one, r
  <2>3. QED
    BY <1>2, <2>1, <2>2 DEF ThreadRecords
<1>4. HasResult(r)
  BY <1>2, <1>3, HeapHelpAssumption DEF HasResult
<1> HIDE DEF r
<1>5. owned' \subseteq Addrs
  BY <1>1 DEF HeapInvariant, HeapTypeOK
<1>6. CASE setup.is_init_done
  <2>1. r.pc = "enter"
    BY <1>3, <1>6 DEF pc
  <2>2. Moves(t) /\ thread'[t].pc = "enter"
    BY <1>1, <1>3, <1>4, <1>5, <2>1, BecomesMoves DEF HeapInvariant
  <2>3. QED
    BY <1>1, <1>6, <2>2, QuietStep DEF HeapInvariant, HeapTypeOK
<1>7. CASE ~setup.is_init_done
  <2>1. r.pc = "touch"
    BY <1>3, <1>7 DEF pc
  <2>2. thread'[t] = r /\ \A u \in Threads \ {t} : thread'[u] = thread[u]
    BY <1>1 DEF HeapInvariant, HeapTypeOK
  <2>3. HeapTypeOK'
    BY <1>1, <1>3, <1>5 DEF HeapInvariant, HeapTypeOK, records
  <2>4. Recording' = Recording
    BY <1>1, <2>1, <2>2 DEF Recording
  <2>5. RecordOnce'
    BY <1>1, <2>4 DEF HeapInvariant, RecordOnce, Recording, records
  <2>6. Results'
    BY <1>4, <2>2 DEF HeapInvariant, Results
  <2>7. Beginnings'
    BY <1>1, <1>7, <2>1, <2>2 DEF HeapInvariant, Beginnings
  <2>8. QED
    BY <2>3, <2>5, <2>6, <2>7 DEF HeapInvariant
<1>8. QED
  BY <1>6, <1>7

(* An assertion of the tracker fails, or nothing happens. *)
LEMMA NothingStep ==
  ASSUME HeapInvariant,
         UNCHANGED <<setup, is_exit_done, allocs_lock, records, heap, owned, thread, report>>
  PROVE  HeapInvariant'
<1>1. HeapTypeOK'
  BY DEF HeapInvariant, HeapTypeOK, records
<1>2. RecordOnce'
  BY DEF HeapInvariant, RecordOnce, records
<1>3. QED
  BY <1>1, <1>2 DEF HeapInvariant, Results, Beginnings

(* heaph_init, as long as it runs. *)
LEMMA InitStartStep ==
  ASSUME HeapInvariant, NEW t \in Threads, InitStart(t)
  PROVE  HeapInvariant'
<1> DEFINE q == [thread[t] EXCEPT !.pc = "dlsym"]
<1>1. /\ ~setup.is_init_done /\ t = main_thread /\ thread[t].pc = "touch"
      /\ thread[t] \in ThreadRecords /\ thread[t].depth \in 0..2
      /\ \A u \in Threads \ {t} : thread[u].pc = "none"
  BY DEF HeapInvariant, Beginnings, HeapTypeOK, ThreadRecords, InitStart, At
<1>2. /\ q \in ThreadRecords /\ q.pc = "dlsym"
  BY <1>1 DEF ThreadRecords
<1>3. thread' = [thread EXCEPT ![t] = q]
  BY <1>1 DEF InitStart, Goto, HeapInvariant, HeapTypeOK
<1> HIDE DEF q
<1>4. /\ thread'[t] = q /\ \A u \in Threads \ {t} : thread'[u] = thread[u]
      /\ thread' \in [Threads -> ThreadRecords]
  BY <1>2, <1>3 DEF HeapInvariant, HeapTypeOK
<1>5. /\ setup' \in [is_init_done : BOOLEAN, init_lock : BOOLEAN,
                     default : {"none", "static", "libc"}, static_used : 0..STATIC_SIZE,
                     report_mode : ReportModes]
      /\ ~setup'.is_init_done
  BY <1>1 DEF InitStart, HeapInvariant, HeapTypeOK
<1>6. HeapTypeOK'
  BY <1>4, <1>5 DEF InitStart, HeapInvariant, HeapTypeOK, records
<1>7. Recording' = Recording
  BY <1>1, <1>2, <1>4 DEF Recording
<1>8. RecordOnce'
  BY <1>7 DEF InitStart, HeapInvariant, RecordOnce, Recording, records
<1>9. Results'
  BY <1>2, <1>4 DEF HeapInvariant, Results, HasResult
<1>10. Beginnings'
  BY <1>1, <1>2, <1>4, <1>5 DEF Beginnings
<1>11. QED
  BY <1>6, <1>8, <1>9, <1>10 DEF HeapInvariant

(* dlsym gets memory from the static allocator.                          *)
LEMMA InitAllocatesStep ==
  ASSUME HeapInvariant, NEW t \in Threads, InitAllocates(t)
  PROVE  HeapInvariant'
<1>1. ~setup.is_init_done
  BY DEF InitAllocates, At, HeapInvariant, Beginnings
<1>2. setup.static_used + 1 \in 0..STATIC_SIZE
  BY HeapHelpAssumption DEF InitAllocates, HeapInvariant, HeapTypeOK
<1>3. /\ setup' \in [is_init_done : BOOLEAN, init_lock : BOOLEAN,
                     default : {"none", "static", "libc"}, static_used : 0..STATIC_SIZE,
                     report_mode : ReportModes]
      /\ ~setup'.is_init_done
  BY <1>1, <1>2 DEF InitAllocates, HeapInvariant, HeapTypeOK
<1>4. HeapTypeOK'
  BY <1>3 DEF InitAllocates, HeapInvariant, HeapTypeOK, records
<1>5. RecordOnce'
  BY DEF InitAllocates, HeapInvariant, RecordOnce, records
<1>6. Beginnings' /\ Results'
  BY <1>1, <1>3 DEF InitAllocates, HeapInvariant, Results, Beginnings
<1>7. QED
  BY <1>4, <1>5, <1>6 DEF HeapInvariant

(* From here on the other threads may come. *)
LEMMA InitEndStep ==
  ASSUME HeapInvariant, NEW t \in Threads, InitEnd(t)
  PROVE  HeapInvariant'
<1>1. /\ ~setup.is_init_done /\ t = main_thread /\ thread[t].pc = "dlsym"
      /\ \A u \in Threads \ {t} : thread[u].pc = "none"
  BY DEF HeapInvariant, Beginnings, InitEnd, At
<1>2. Moves(t) /\ thread'[t].pc = "enter"
  BY GotoMoves DEF InitEnd, HeapInvariant
<1>3. \A u \in Threads \ {t} : thread'[u] = thread[u] \/ thread'[u] = Idle
  BY <1>2 DEF Moves
<1>4. /\ setup' \in [is_init_done : BOOLEAN, init_lock : BOOLEAN,
                     default : {"none", "static", "libc"}, static_used : 0..STATIC_SIZE,
                     report_mode : ReportModes]
      /\ setup'.is_init_done /\ setup'.default = "libc"
  BY DEF InitEnd, HeapInvariant, HeapTypeOK
<1>5. HeapTypeOK'
  BY <1>2, <1>4 DEF InitEnd, HeapInvariant, HeapTypeOK, Moves, records
<1>6. Recording' = Recording
  <2>1. Recording' = Recording \ {t}
    BY <1>2, RecordingMoves DEF HeapInvariant
  <2>2. QED
    BY <1>1, <2>1 DEF Recording
<1>7. RecordOnce'
  BY <1>6 DEF InitEnd, HeapInvariant, RecordOnce, Recording, records
<1>8. \A u \in Threads : HasResult(thread'[u]) /\ thread'[u].pc \notin {"touch", "dlsym"}
  <2>1. ASSUME NEW u \in Threads, u # t
        PROVE  HasResult(thread'[u]) /\ thread'[u].pc \notin {"touch", "dlsym"}
    BY <1>1, <1>3, <2>1, IdleType DEF HeapInvariant, Results
  <2>2. QED
    BY <1>2, <2>1 DEF Moves
<1>9. Results' /\ Beginnings'
  BY <1>4, <1>8 DEF Results, Beginnings
<1>10. QED
  BY <1>5, <1>7, <1>9 DEF HeapInvariant

(* A new block, not recorded yet, or none. *)
LEMMA AllocateStep ==
  ASSUME HeapInvariant, NEW t \in Threads, Allocate(t)
  PROVE  HeapInvariant'
<1>1. thread[t].pc = "enter" /\ thread[t] \in ThreadRecords
  BY DEF Allocate, At, HeapInvariant, HeapTypeOK
<1>2. setup.is_init_done
  BY <1>1, Initialised
<1>3. ASSUME NEW a \in Free,
             heap' = [heap EXCEPT ![a] =
               [NoBlock EXCEPT !.live = TRUE, !.internal = trace_is_internal(thread[t].call),
                               !.info = thread[t].call = "getaddrinfo"]],
             thread' = [thread EXCEPT ![t].pc = "trace", ![t].ptr = NULL, ![t].res = a,
               ![t].call = IF thread[t].call = "pthread_create" THEN thread[t].call ELSE "malloc",
               ![t].depth = IF thread[t].call \in {"strdup", "getaddrinfo", "getline"} THEN 2 ELSE 1],
             UNCHANGED owned
      PROVE  Moves(t) /\ thread'[t].pc = "trace" /\ heap' \in [Addrs -> Blocks]
  <2> DEFINE call == IF thread[t].call = "pthread_create" THEN thread[t].call ELSE "malloc"
             depth == IF thread[t].call \in {"strdup", "getaddrinfo", "getline"} THEN 2 ELSE 1
             r == thread[t]
             q == [r EXCEPT !.pc = "trace", !.ptr = NULL, !.res = a, !.call = call, !.depth = depth]
  <2>1. call \in Calls \cup {NULL, "malloc"} /\ depth \in 0..2 /\ a \in Addrs /\ r \in ThreadRecords
    BY <1>1 DEF Free, ThreadRecords
  <2>2. thread' = [thread EXCEPT ![t].pc = "trace", ![t].ptr = NULL, ![t].res = a,
                                 ![t].call = call, ![t].depth = depth]
    BY <1>3
  <2> HIDE DEF call, depth
  <2>3. thread' = [thread EXCEPT ![t] = q]
    BY <2>2 DEF HeapInvariant, HeapTypeOK
  <2> HIDE DEF r
  <2>4. q \in ThreadRecords /\ q.pc = "trace" /\ q.res = a
    BY <2>1 DEF ThreadRecords
  <2> HIDE DEF q
  <2>5. HasResult(q) /\ owned' \subseteq Addrs
    BY <1>3, <2>1, <2>4 DEF HasResult, HeapInvariant, HeapTypeOK
  <2>6. Moves(t) /\ thread'[t] = q
    BY <2>3, <2>4, <2>5, BecomesMoves DEF HeapInvariant
  <2>7. heap' \in [Addrs -> Blocks]
    <3> DEFINE internal == trace_is_internal(thread[t].call)
               info == thread[t].call = "getaddrinfo"
    <3>1. internal \in BOOLEAN /\ info \in BOOLEAN
      BY DEF trace_is_internal
    <3> HIDE DEF internal, info
    <3>2. [NoBlock EXCEPT !.live = TRUE, !.internal = internal, !.info = info] \in Blocks
      BY <3>1 DEF NoBlock, Blocks
    <3>3. QED
      BY <1>3, <3>2 DEF HeapInvariant, HeapTypeOK, internal, info
  <2>8. QED
    BY <2>4, <2>6, <2>7
<1>4. ASSUME Return(t, NULL), UNCHANGED heap
      PROVE  Moves(t) /\ thread'[t].pc = "idle" /\ heap' \in [Addrs -> Blocks]
  BY <1>4, ReturnMoves DEF HeapInvariant, HeapTypeOK
<1>5. Moves(t) /\ thread'[t].pc # "record" /\ heap' \in [Addrs -> Blocks]
  BY <1>3, <1>4 DEF Allocate
<1>6. QED
  BY <1>1, <1>2, <1>5, QuietStep DEF Allocate, HeapInvariant, HeapTypeOK

(* default_realloc leaves a block behind or not. *)
LEMMA ResizeStep ==
  ASSUME HeapInvariant, NEW t \in Threads, Resize(t)
  PROVE  HeapInvariant'
<1> DEFINE ptr == thread[t].ptr
           r == thread[t]
<1>1. /\ thread[t].pc = "enter" /\ r \in ThreadRecords /\ ptr \in Addrs
      /\ thread[t].call \in {"realloc", "getline"}
      /\ heap \in [Addrs -> Blocks] /\ thread \in [Threads -> ThreadRecords] /\ owned \subseteq Addrs
  BY DEF Resize, At, HeapInvariant, HeapTypeOK
<1>2. setup.is_init_done
  BY <1>1, Initialised
<1>3. NoBlock \in Blocks /\ \A q \in Blocks : \A f \in BOOLEAN : [q EXCEPT !.forgotten = f] \in Blocks
  BY DEF NoBlock, Blocks
<1>4. CASE Return(t, ptr) /\ UNCHANGED heap
  <2>1. Moves(t) /\ thread'[t].pc = "idle"
    BY <1>1, <1>4, ReturnMoves DEF HeapInvariant
  <2>2. QED
    BY <1>1, <1>2, <1>4, <2>1, QuietStep DEF Resize, HeapInvariant, HeapTypeOK
<1>5. ASSUME NEW a \in Free,
             heap' = [heap EXCEPT ![ptr] = NoBlock, ![a] = [heap[ptr] EXCEPT !.forgotten = FALSE]],
             thread' = [thread EXCEPT ![t].pc = "untrace", ![t].res = a,
                  ![t].depth = IF thread[t].call = "getline" THEN 2 ELSE 1],
             UNCHANGED owned
      PROVE  HeapInvariant'
  <2> DEFINE depth == IF thread[t].call = "getline" THEN 2 ELSE 1
             q == [r EXCEPT !.pc = "untrace", !.res = a, !.depth = depth]
  <2>1. a \in Addrs /\ depth \in 0..2
    BY DEF Free
  <2>2. thread' = [thread EXCEPT ![t].pc = "untrace", ![t].res = a, ![t].depth = depth]
    BY <1>5
  <2> HIDE DEF depth
  <2>3. thread' = [thread EXCEPT ![t] = q]
    BY <1>1, <2>2
  <2> HIDE DEF r
  <2>4. q \in ThreadRecords /\ q.pc = "untrace" /\ q.res = a
    BY <1>1, <2>1 DEF ThreadRecords
  <2> HIDE DEF q
  <2>5. HasResult(q) /\ owned' \subseteq Addrs
    BY <1>1, <1>5, <2>1, <2>4 DEF HasResult
  <2>6. Moves(t) /\ thread'[t] = q
    BY <2>3, <2>4, <2>5, BecomesMoves DEF HeapInvariant
  <2> HIDE DEF ptr
  <2>7. [heap[ptr] EXCEPT !.forgotten = FALSE] \in Blocks
    BY <1>1, <1>3
  <2>8. heap' \in [Addrs -> Blocks]
    BY <1>1, <1>3, <1>5, <2>1, <2>7
  <2>9. QED
    BY <1>1, <1>2, <2>4, <2>6, <2>8, QuietStep DEF Resize, HeapInvariant, HeapTypeOK
<1>6. ASSUME heap' = [heap EXCEPT ![ptr] = NoBlock], Goto(t, "untrace"), UNCHANGED owned,
             thread[t].call = "realloc"
      PROVE  HeapInvariant'
  <2>1. Moves(t) /\ thread'[t].pc = "untrace"
    BY <1>6, GotoMoves DEF HeapInvariant
  <2>2. heap' \in [Addrs -> Blocks]
    BY <1>1, <1>3, <1>6
  <2>3. QED
    BY <1>1, <1>2, <2>1, <2>2, QuietStep DEF Resize, HeapInvariant, HeapTypeOK
<1>7. ASSUME heap' = [heap EXCEPT ![ptr].forgotten = TRUE], UNCHANGED owned,
             thread' = [thread EXCEPT ![t].pc = "untrace", ![t].res = ptr]
      PROVE  HeapInvariant'
  <2> DEFINE q == [r EXCEPT !.pc = "untrace", !.res = ptr]
  <2>1. thread' = [thread EXCEPT ![t] = q]
    BY <1>1, <1>7
  <2> HIDE DEF ptr
  <2>2. heap' = [heap EXCEPT ![ptr] = [heap[ptr] EXCEPT !.forgotten = TRUE]]
    BY <1>1, <1>7
  <2>3. [heap[ptr] EXCEPT !.forgotten = TRUE] \in Blocks
    BY <1>1, <1>3
  <2>4. heap' \in [Addrs -> Blocks]
    BY <1>1, <2>2, <2>3
  <2> HIDE DEF r
  <2>5. q \in ThreadRecords /\ q.pc = "untrace" /\ q.res = ptr
    BY <1>1 DEF ThreadRecords
  <2> HIDE DEF q
  <2>6. HasResult(q) /\ owned' \subseteq Addrs
    BY <1>1, <1>7, <2>5 DEF HasResult
  <2>7. Moves(t) /\ thread'[t] = q
    BY <2>1, <2>5, <2>6, BecomesMoves DEF HeapInvariant
  <2>8. QED
    BY <1>1, <1>2, <2>4, <2>5, <2>7, QuietStep DEF Resize, HeapInvariant, HeapTypeOK
<1>8. QED
  BY <1>4, <1>5, <1>6, <1>7 DEF Resize

(* default_free touches no record.                                       *)
LEMMA ReleaseStep ==
  ASSUME HeapInvariant, NEW t \in Threads, Release(t)
  PROVE  HeapInvariant'
<1>1. thread[t].pc = "release"
  BY DEF Release, At
<1>2. Moves(t) /\ thread'[t].pc = "idle"
  BY ReturnMoves DEF Release, HeapInvariant
<1>3. heap' \in [Addrs -> Blocks]
  BY DEF Release, HeapInvariant, HeapTypeOK, NoBlock, Blocks
<1>4. QED
  BY <1>1, <1>2, <1>3, Initialised, QuietStep DEF Release, HeapInvariant, HeapTypeOK

(* Calls of the tracker's own functions are not traced. *)
LEMMA TraceStep ==
  ASSUME HeapInvariant, NEW t \in Threads, Trace(t)
  PROVE  HeapInvariant'
<1>1. thread[t].pc = "trace" /\ setup.is_init_done /\ thread[t].res \in Addrs
  <2>1. thread[t].pc = "trace"
    BY DEF Trace, At
  <2>2. QED
    BY <2>1, Initialised DEF HeapInvariant, Results, HasResult
<1>2. Moves(t) /\ thread'[t].pc # "record"
  <2>1. CASE AfterTrace(t)
    BY <1>1, <2>1, AfterTraceMoves DEF HeapInvariant
  <2>2. CASE Goto(t, "take") /\ UNCHANGED owned
    BY <1>1, <2>2, GotoMoves DEF HeapInvariant
  <2>3. QED
    BY <2>1, <2>2 DEF Trace
<1>3. QED
  BY <1>1, <1>2, QuietStep DEF Trace, HeapInvariant, HeapTypeOK

(* alloc_new: a record goes from the pool or the batch to the thread.      *)
LEMMA TakeStep ==
  ASSUME HeapInvariant, NEW t \in Threads, Take(t)
  PROVE  HeapInvariant'
<1>1. thread[t].pc = "take" /\ setup.is_init_done /\ thread[t].res \in Addrs
  <2>1. thread[t].pc = "take"
    BY DEF Take, At
  <2>2. QED
    BY <2>1, Initialised DEF HeapInvariant, Results, HasResult
<1>2. Moves(t) /\ thread'[t].pc = "record"
  BY <1>1, GotoMoves DEF Take, NextRecord, HeapInvariant
<1>3. Results' /\ Beginnings'
  BY <1>1, <1>2, MovesKeep DEF Take, NextRecord
<1>4. /\ Cardinality(Recording') = Cardinality(Recording) + 1
      /\ Cardinality(Recording) \in Nat
  BY <1>1, <1>2, RecordingMoves, RecordingCount DEF HeapInvariant
<1>5. /\ ALLOCATION_BATCH_SIZE \in Nat \ {0} /\ alloc_pool \in Nat /\ alloc_count \in Nat
      /\ alloc_batch \in [made : Nat, used : 0..ALLOCATION_BATCH_SIZE]
      /\ alloc_count = Len(allocs)
      /\ alloc_count + alloc_pool + Cardinality(Recording) = Made
      /\ UNCHANGED <<allocs, alloc_count>>
  BY HeapHelpAssumption, RecordOnceDef DEF HeapInvariant, HeapTypeOK, Take, NextRecord
<1>6. /\ alloc_pool' \in Nat
      /\ alloc_batch' \in [made : Nat, used : 0..ALLOCATION_BATCH_SIZE]
      /\ alloc_pool + Made' = alloc_pool' + 1 + Made
      /\ Made' \in Nat
  <2> DEFINE n == Cardinality(Recording)
             size == ALLOCATION_BATCH_SIZE
             made == alloc_batch.made
             used == alloc_batch.used
  <2>1. n \in Nat /\ size \in Nat \ {0} /\ made \in Nat /\ used \in 0..size /\ alloc_pool \in Nat
        /\ alloc_batch = [made |-> made, used |-> used]
    BY <1>4, <1>5
  <2>2. Made \in Nat
    <3>1. CASE made = 0
      BY <3>1 DEF Made
    <3>2. CASE made # 0
      <4>1. made - 1 \in Nat
        BY <2>1, <3>2
      <4>2. (made - 1) * size \in Nat
        BY <2>1, <4>1
      <4>3. QED
        BY <2>1, <3>2, <4>2 DEF Made
    <3>3. QED
      BY <3>1, <3>2
  <2>3. CASE alloc_pool > 0
    <3>1. alloc_pool' = alloc_pool - 1 /\ alloc_batch' = alloc_batch
      BY <2>3 DEF Take, NextRecord
    <3>2. Made' = Made
      BY <3>1 DEF Made
    <3> HIDE DEF n, size, made, used
    <3>3. QED
      BY <1>5, <2>1, <2>2, <2>3, <3>1, <3>2 DEF n
  <2>4. CASE ~(alloc_pool > 0)
    <3>1. alloc_pool' = alloc_pool /\ alloc_pool = 0
      BY <2>1, <2>4 DEF Take, NextRecord
    <3>2. CASE made = 0 \/ used = size
      <4>1. alloc_batch' = [made |-> made + 1, used |-> 1]
        BY <2>4, <3>2 DEF Take, NextRecord
      <4>2. Made' = made * size + 1
        BY <2>1, <4>1 DEF Made
      <4>3. Made = made * size
        <5>1. CASE made = 0
          BY <2>1, <5>1 DEF Made
        <5>2. CASE made # 0
          <6>1. Made = (made - 1) * size + size
            BY <3>2, <5>2 DEF Made
          <6> HIDE DEF made, size, used, n
          <6>2. (made - 1) * size + size = made * size
            BY <2>1
          <6>3. QED
            BY <6>1, <6>2
        <5>3. QED
          BY <5>1, <5>2
      <4> HIDE DEF made, size, used, n
      <4>4. made + 1 \in Nat /\ 1 \in 0..size /\ made * size \in Nat
        BY <2>1
      <4>5. alloc_batch' \in [made : Nat, used : 0..ALLOCATION_BATCH_SIZE]
        BY <4>1, <4>4 DEF size
      <4>6. QED
        BY <2>1, <3>1, <4>2, <4>3, <4>4, <4>5 DEF n
    <3>3. CASE ~(made = 0 \/ used = size)
      <4>1. alloc_batch' = [alloc_batch EXCEPT !.used = @ + 1]
        BY <2>4, <3>3 DEF Take, NextRecord
      <4>2. alloc_batch'.made = made /\ alloc_batch'.used = used + 1
        BY <1>5, <4>1
      <4>3. Made' = (made - 1) * size + (used + 1) /\ Made = (made - 1) * size + used
        BY <3>3, <4>2 DEF Made
      <4>4. used + 1 \in 0..size
        BY <2>1, <3>3
      <4>5. alloc_batch' \in [made : Nat, used : 0..ALLOCATION_BATCH_SIZE]
        BY <1>5, <4>1, <4>4
      <4> HIDE DEF made, size, used, n
      <4>6. (made - 1) * size \in Nat
        <5>1. made - 1 \in Nat
          BY <2>1, <3>3
        <5>2. QED
          BY <2>1, <5>1
      <4> DEFINE full == (made - 1) * size
      <4> HIDE DEF full
      <4>7. Made' = full + (used + 1) /\ Made = full + used /\ full \in Nat
        BY <4>3, <4>6 DEF full
      <4>8. QED
        BY <2>1, <3>1, <4>5, <4>7 DEF n
    <3>4. QED
      BY <3>2, <3>3
  <2>5. QED
    BY <2>3, <2>4
<1>7. HeapTypeOK'
  BY <1>2, <1>5, <1>6 DEF Take, NextRecord, HeapInvariant, HeapTypeOK, Moves
<1>8. RecordOnce'
  <2>1. alloc_count' = Len(allocs')
    BY <1>5
  <2>2. Made \in Nat
    BY <1>4, <1>5
  <2>3. alloc_count' + alloc_pool' + Cardinality(Recording') = Made'
    <3>1. /\ Cardinality(Recording') = Cardinality(Recording) + 1
          /\ alloc_count + alloc_pool + Cardinality(Recording) = Made
          /\ alloc_count' = alloc_count
          /\ alloc_pool + Made' = alloc_pool' + 1 + Made
      BY <1>4, <1>5, <1>6
    <3>2. /\ Cardinality(Recording) \in Nat /\ alloc_count \in Nat /\ alloc_pool \in Nat
          /\ alloc_pool' \in Nat /\ Made \in Nat /\ Made' \in Nat
      BY <1>4, <1>5, <1>6, <2>2
    <3> DEFINE n == Cardinality(Recording)
               n1 == Cardinality(Recording')
               m == Made
               m1 == Made'
               count == alloc_count
               count1 == alloc_count'
               pool == alloc_pool
               pool1 == alloc_pool'
    <3>3. /\ n1 = n + 1 /\ count + pool + n = m /\ count1 = count
          /\ pool + m1 = pool1 + 1 + m
          /\ n \in Nat /\ m \in Nat /\ m1 \in Nat /\ count \in Nat
          /\ pool \in Nat /\ pool1 \in Nat
      BY <3>1, <3>2
    <3>4. count1 + pool1 + n1 = m1
      <4> HIDE DEF n, n1, m, m1, count, count1, pool, pool1
      <4>1. QED
        BY <3>3
    <3>5. QED
      BY <3>4
  <2>4. QED
    BY <2>1, <2>3 DEF RecordOnce, Recording, Made
<1>9. QED
  BY <1>3, <1>7, <1>8 DEF HeapInvariant

(* The record in the hands of the thread is linked. *)
LEMMA RecordStep ==
  ASSUME HeapInvariant, NEW t \in Threads, Record(t)
  PROVE  HeapInvariant'
<1> DEFINE Entries == [mem : Addrs, internal : BOOLEAN]
           entry == [mem |-> thread[t].res, internal |-> trace_is_internal(thread[t].call)]
<1>1. thread[t].pc = "record" /\ setup.is_init_done /\ thread[t].res \in Addrs
  <2>1. thread[t].pc = "record"
    BY DEF Record, At
  <2>2. QED
    BY <2>1, Initialised DEF HeapInvariant, Results, HasResult
<1>2. Moves(t) /\ thread'[t].pc # "record"
  BY <1>1, AfterTraceMoves DEF Record, HeapInvariant
<1>3. Results' /\ Beginnings'
  BY <1>1, <1>2, MovesKeep DEF Record
<1>4. /\ Cardinality(Recording') = Cardinality(Recording) - 1
      /\ Cardinality(Recording) \in Nat
  BY <1>1, <1>2, RecordingMoves, RecordingCount DEF HeapInvariant
<1>5. entry \in Entries
  <2>1. trace_is_internal(thread[t].call) \in BOOLEAN
    BY DEF trace_is_internal
  <2>2. QED
    BY <1>1, <2>1
<1>6. allocs' \in Seq(Entries) /\ Len(allocs') = Len(allocs) + 1 /\ Len(allocs) \in Nat
  <2>1. allocs' = <<entry>> \o allocs /\ allocs \in Seq(Entries)
    BY DEF Record, HeapInvariant, HeapTypeOK
  <2> HIDE DEF entry, Entries
  <2>2. QED
    BY <1>5, <2>1
<1>7. alloc_count' = alloc_count + 1 /\ alloc_count = Len(allocs) /\ alloc_pool \in Nat
  BY DEF Record, HeapInvariant, HeapTypeOK, RecordOnce
<1>8. HeapTypeOK'
  BY <1>2, <1>6, <1>7 DEF Record, HeapInvariant, HeapTypeOK, Moves
<1>9. RecordOnce'
  <2>1. alloc_count + alloc_pool + Cardinality(Recording) = Made /\ Made' = Made
    BY RecordOnceDef DEF HeapInvariant, Record, Made
  <2>2. /\ alloc_count' = Len(allocs')
        /\ alloc_count' + alloc_pool + Cardinality(Recording') = Made
    BY <1>4, <1>6, <1>7, <2>1
  <2>3. alloc_pool' = alloc_pool
    BY DEF Record
  <2>4. QED
    BY <2>1, <2>2, <2>3 DEF RecordOnce, Recording, Made
<1>10. QED
  BY <1>3, <1>8, <1>9 DEF HeapInvariant

(* Nested and late calls leave the list alone. *)
LEMMA UntraceStep ==
  ASSUME HeapInvariant, NEW t \in Threads, Untrace(t)
  PROVE  HeapInvariant'
<1>1. /\ thread[t].pc = "untrace" \/ (thread[t].pc = "enter" /\ thread[t].call \in {"free", "freeaddrinfo"})
      /\ setup.is_init_done
  <2>1. thread[t].pc = "untrace" \/ (thread[t].pc = "enter" /\ thread[t].call \in {"free", "freeaddrinfo"})
    BY DEF Untrace, BeforeUntrace, At
  <2>2. QED
    BY <2>1, Initialised
<1>2. Moves(t) /\ thread'[t].pc # "record"
  <2>1. CASE AfterUntrace(t)
    BY <1>1, <2>1, AfterUntraceMoves DEF HeapInvariant
  <2>2. CASE Goto(t, "unlink") /\ UNCHANGED owned
    <3>1. thread[t].call = "getline" => thread[t].res \in Addrs
      BY <1>1 DEF HeapInvariant, Results, HasResult
    <3>2. QED
      BY <2>2, <3>1, GotoMoves DEF HeapInvariant
  <2>3. QED
    BY <2>1, <2>2 DEF Untrace
<1>3. QED
  BY <1>1, <1>2, QuietStep DEF Untrace, HeapInvariant, HeapTypeOK

(* alloc_free: a record goes from the list to the pool.                    *)
LEMMA UnlinkStep ==
  ASSUME HeapInvariant, NEW t \in Threads, Unlink(t)
  PROVE  HeapInvariant'
<1>1. thread[t].pc = "unlink" /\ setup.is_init_done
  <2>1. thread[t].pc = "unlink"
    BY DEF Unlink, At
  <2>2. QED
    BY <2>1, Initialised
<1>2. Moves(t) /\ thread'[t].pc # "record"
  BY <1>1, AfterUntraceMoves DEF Unlink, HeapInvariant
<1>3. Results' /\ Beginnings'
  BY <1>1, <1>2, MovesKeep DEF Unlink
<1>4. Recording' = Recording
  <2>1. Recording' = Recording \ {t}
    BY <1>2, RecordingMoves DEF HeapInvariant
  <2>2. QED
    BY <1>1, <2>1 DEF Recording
<1>5. /\ allocs' \in Seq([mem : Addrs, internal : BOOLEAN])
      /\ Len(allocs') = Len(allocs) - 1 /\ Len(allocs) \in Nat \ {0}
  <2>1. PICK i \in DOMAIN allocs : allocs' = RemoveAt(allocs, i)
    BY DEF Unlink, Places
  <2>2. allocs \in Seq([mem : Addrs, internal : BOOLEAN])
    BY DEF HeapInvariant, HeapTypeOK
  <2>3. QED
    BY <2>1, <2>2, RemoveOne
<1>6. /\ alloc_count' = alloc_count - 1 /\ alloc_count = Len(allocs)
      /\ alloc_pool' = alloc_pool + 1 /\ alloc_pool \in Nat
  BY DEF Unlink, HeapInvariant, HeapTypeOK, RecordOnce
<1>7. HeapTypeOK'
  BY <1>2, <1>5, <1>6 DEF Unlink, HeapInvariant, HeapTypeOK, Moves
<1>8. RecordOnce'
  <2>1. alloc_count + alloc_pool + Cardinality(Recording) = Made /\ Made' = Made
    BY RecordOnceDef DEF HeapInvariant, Unlink, Made
  <2>2. Cardinality(Recording) \in Nat
    BY <1>1, RecordingCount
  <2>3. /\ alloc_count' = Len(allocs')
        /\ alloc_count' + alloc_pool' + Cardinality(Recording) = Made
    BY <1>5, <1>6, <2>1, <2>2
  <2>4. QED
    BY <1>4, <2>1, <2>3 DEF RecordOnce, Recording, Made
<1>9. QED
  BY <1>3, <1>7, <1>8 DEF HeapInvariant

(* heaph_atexit changes no record. *)
LEMMA ExitStep ==
  ASSUME HeapInvariant, ExitStart \/ ExitLock \/ ExitReport
  PROVE  HeapInvariant'
<1>1. main_thread \in Threads
  BY HeapHelpAssumption
<1>2. CASE ExitStart
  <2>1. Moves(main_thread) /\ thread'[main_thread].pc \in {"ended", "report"}
    BY <1>1, <1>2, GotoMoves DEF ExitStart, HeapInvariant
  <2>2. thread[main_thread].pc = "idle" /\ setup.is_init_done
    BY <1>2 DEF ExitStart, At
  <2>3. QED
    BY <1>1, <1>2, <2>1, <2>2, QuietStep DEF ExitStart, HeapInvariant, HeapTypeOK
<1>3. CASE ExitLock
  <2>1. Moves(main_thread) /\ thread'[main_thread].pc \in {"ended", "printing"}
    BY <1>1, <1>3, GotoMoves DEF ExitLock, HeapInvariant
  <2>2. thread[main_thread].pc = "report" /\ setup.is_init_done
    BY <1>1, <1>3, Initialised DEF ExitLock, At
  <2>3. report' \in {NULL} \cup [leaks : Nat, suppressed : Nat]
    BY <1>3 DEF ExitLock
  <2>4. QED
    BY <1>1, <1>3, <2>1, <2>2, <2>3, QuietStep DEF ExitLock, HeapInvariant, HeapTypeOK
<1>4. CASE ExitReport
  <2> DEFINE leaking == {i \in DOMAIN allocs : ~allocs[i].internal}
  <2>1. Moves(main_thread) /\ thread'[main_thread].pc = "ended"
    BY <1>1, <1>4, GotoMoves DEF ExitReport, HeapInvariant
  <2>2. thread[main_thread].pc = "printing" /\ setup.is_init_done
    BY <1>1, <1>4, Initialised DEF ExitReport, At
  <2>3. Cardinality(leaking) \in Nat /\ Cardinality(leaking) <= Len(allocs) /\ Len(allocs) \in Nat
    <3>1. DOMAIN allocs = 1..Len(allocs) /\ Len(allocs) \in Nat
      BY DEF HeapInvariant, HeapTypeOK
    <3>2. IsFiniteSet(1..Len(allocs)) /\ Cardinality(1..Len(allocs)) = Len(allocs)
      <4> DEFINE n == Len(allocs)
      <4>1. n \in Nat
        BY <3>1
      <4> HIDE DEF n
      <4>2. IsFiniteSet(1..n) /\ Cardinality(1..n) = IF 1 > n THEN 0 ELSE n - 1 + 1
        BY <4>1, FS_Interval
      <4>3. (IF 1 > n THEN 0 ELSE n - 1 + 1) = n
        BY <4>1
      <4>4. QED
        BY <4>2, <4>3 DEF n
    <3>3. leaking \subseteq 1..Len(allocs)
      BY <3>1
    <3> HIDE DEF leaking
    <3>4. IsFiniteSet(leaking) /\ Cardinality(leaking) <= Len(allocs)
      BY <3>2, <3>3, FS_Subset
    <3>5. QED
      BY <3>1, <3>4, FS_CardinalityType
  <2>4. report' = [leaks |-> Cardinality(leaking), suppressed |-> alloc_count - Cardinality(leaking)]
        /\ alloc_count = Len(allocs)
    BY <1>4 DEF ExitReport, HeapInvariant, RecordOnce
  <2> HIDE DEF leaking
  <2>5. report' \in {NULL} \cup [leaks : Nat, suppressed : Nat]
    BY <2>3, <2>4
  <2>6. QED
    BY <1>1, <1>4, <2>1, <2>2, <2>5, QuietStep DEF ExitReport, HeapInvariant, HeapTypeOK
<1>5. QED
  BY <1>2, <1>3, <1>4

(* Every step preserves the invariant. *)
LEMMA NextInvariant == HeapInvariant /\ [Next]_vars => HeapInvariant'
<1> SUFFICES ASSUME HeapInvariant, [Next]_vars PROVE HeapInvariant'
  OBVIOUS
<1>1. ASSUME NEW t \in Threads, Step(t) PROVE HeapInvariant'
  <2>1. CASE StrdupAtExit(t) \/ UnlinkNothing(t)
    BY <2>1, NothingStep DEF StrdupAtExit, UnlinkNothing, Abort
  <2>2. QED
    BY <1>1, <2>1, InitStartStep, InitAllocatesStep, InitEndStep, AllocateStep,
       ResizeStep, ReleaseStep, TraceStep, TakeStep, RecordStep, UntraceStep,
       UnlinkStep, ExitStep DEF Step
<1>2. CASE Ended \/ UNCHANGED vars
  BY <1>2, NothingStep DEF Ended, vars
<1>3. QED
  BY <1>1, <1>2, CallStep, ExitStep DEF Next

(* The invariant holds in every reachable state.                         *)
LEMMA Safety == Spec => []HeapInvariant
BY InitInvariant, NextInvariant, PTL DEF Spec

-----------------------------------------------------------------------------
(* The states have the shape that the code gives them: batches are never   *)
(* overrun and no counter of the tracker gets below 0.                     *)
THEOREM HeapTypeCorrect == Spec => []HeapTypeOK
<1>1. HeapInvariant => HeapTypeOK
  BY DEF HeapInvariant
<1>2. QED
  BY <1>1, Safety, PTL

(* No record is lost or given to two threads, by alloc_new and alloc_free  *)
(* that hold the lock only for a part of their work each.                  *)
THEOREM EachRecordOnce == Spec => []RecordOnce
<1>1. HeapInvariant => RecordOnce
  BY DEF HeapInvariant
<1>2. QED
  BY <1>1, Safety, PTL

(* Nobody gets past heaph_touch before heaph_init is over, and only one    *)
(* thread is ever in it, if threads are made by calls that allocate.       *)
THEOREM InitComesFirst == Spec => []InitFirst
<1>1. HeapInvariant => InitFirst
  BY DEF HeapInvariant, Beginnings, InitFirst, Busy
<1>2. QED
  BY <1>1, Safety, PTL

=============================================================================
