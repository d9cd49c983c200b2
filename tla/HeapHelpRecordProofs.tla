------------------------- MODULE HeapHelpRecordProofs -------------------------
(***************************************************************************)
(* Proofs about HeapHelp: BlocksRecorded, AbortsExplained and ReportExact, *)
(* for every finite set of threads and all addresses.                      *)
(*                                                                         *)
(* They rest on the ownership of addresses: a block in use is in the hands *)
(* of the program, or of one call, or it is one that pthread_create left   *)
(* to the C library.  An address therefore changes hands in one step, and  *)
(* the number of its records follows.                                      *)
(***************************************************************************)
EXTENDS HeapHelpProofs

(* What a thread has in local variables, by the place where it is.         *)
Shape(r) ==
  /\ r.ptr \notin Addrs => ~r.forgotten
  /\ r.pc \in {"none", "idle", "report", "printing", "ended"} =>
       r.ptr = NULL /\ r.res = NULL
  /\ r.pc \in {"touch", "dlsym", "enter"} =>
       /\ r.res = NULL /\ r.depth = 1
       /\ r.call \in {"free", "freeaddrinfo"} => r.ptr \in Addrs
       /\ r.call \notin {"free", "freeaddrinfo", "realloc", "getline"} => r.ptr = NULL
  /\ r.pc \in {"trace", "take", "record"} =>
       /\ r.res \in Addrs /\ r.depth \in 1..2
       /\ \/ r.ptr = NULL /\ r.call \in {"malloc", "pthread_create"}
          \/ r.ptr \in Addrs \ {r.res} /\ r.call \in {"realloc", "getline"}
       /\ r.depth = 2 => r.pc = "trace" /\ r.call \in {"malloc", "getline"}
  /\ r.pc \in {"untrace", "unlink"} =>
       /\ r.ptr \in Addrs /\ r.depth \in 1..2
       /\ r.call \in {"free", "freeaddrinfo", "realloc", "getline"}
       /\ r.call \in {"free", "freeaddrinfo"} => r.res = NULL
       /\ r.call = "getline" => r.res \in Addrs \ {r.ptr}
       /\ r.pc = "untrace" /\ r.call = "freeaddrinfo" => r.depth = 2
       /\ r.pc = "untrace" => r.call # "free"
       /\ r.depth = 2 => r.pc = "untrace" /\ r.call # "realloc"
  /\ r.pc = "release" =>
       r.call \in {"free", "freeaddrinfo"} /\ r.ptr \in Addrs /\ r.res = NULL

Shapes == \A t \in Threads : Shape(thread[t])

(* The addresses in the hands of a call: its result, and its argument as   *)
(* long as the C library has not freed it.                                 *)
Holds(r, a) ==
  \/ r.res = a
  \/ /\ r.ptr = a
     /\ r.pc \in {"touch", "dlsym", "enter"} \/ r.call \in {"free", "freeaddrinfo"}

(* One holder for an address, and what the block tells about the holder.   *)
OwnedAt(a) ==
  /\ a \in owned =>
       heap[a].live /\ ~heap[a].internal /\ \A t \in Threads : ~Holds(thread[t], a)
  /\ heap[a].internal => heap[a].live
  /\ \A t \in Threads : Holds(thread[t], a) =>
       /\ heap[a].live
       /\ \A u \in Threads : Holds(thread[u], a) => u = t
       /\ heap[a].internal <=> thread[t].call = "pthread_create"
       /\ heap[a].forgotten <=>
            thread[t].ptr = a /\ (thread[t].res = a \/ thread[t].forgotten)

Ownership == \A a \in Addrs : OwnedAt(a)

-----------------------------------------------------------------------------
(* What a step does to the threads, as far as the addresses go.            *)

OthersStay(t) ==
  \A u \in Threads \ {t} :
    thread'[u] = thread[u] \/ (thread[u].pc = "none" /\ thread'[u] = Idle)

(* Thread t goes on to another place with what it has. *)
Placed(t, pc, depth) ==
  /\ OthersStay(t)
  /\ thread'[t].pc = pc /\ thread'[t].depth = depth
  /\ thread'[t].call = thread[t].call
  /\ thread'[t].ptr = thread[t].ptr
  /\ thread'[t].res = thread[t].res
  /\ thread'[t].forgotten = thread[t].forgotten
  /\ UNCHANGED owned

(* Its call is over and leaves block res to the program. *)
Returned(t, res) ==
  /\ OthersStay(t)
  /\ thread'[t] = Idle
  /\ owned' = IF thread[t].call = "pthread_create" THEN owned ELSE owned \cup ({res} \ {NULL})

(* Outside of a call a thread holds nothing.                             *)
LEMMA IdleShape ==
  Shape(Idle) /\ \A a \in Addrs : ~Holds(Idle, a) /\ Idle.res # a /\ Idle.ptr # a
<1>1. NULL \notin Addrs
  BY HeapHelpAssumption
<1>2. QED
  BY <1>1 DEF Idle, Shape, Holds

(* Another thread has the addresses that it had.                         *)
LEMMA OthersHold ==
  ASSUME Shapes, NEW t \in Threads, OthersStay(t), NEW u \in Threads \ {t}, NEW a \in Addrs
  PROVE  /\ Holds(thread'[u], a) <=> Holds(thread[u], a)
         /\ Holds(thread[u], a) => thread'[u] = thread[u]
         /\ thread'[u].res = a <=> thread[u].res = a
         /\ thread'[u].ptr = a <=> thread[u].ptr = a
         /\ thread'[u].ptr = a => thread'[u] = thread[u]
         /\ Shape(thread'[u])
<1>1. CASE thread'[u] = thread[u]
  BY <1>1 DEF Shapes
<1>2. CASE thread[u].pc = "none" /\ thread'[u] = Idle
  <2>1. thread[u].ptr = NULL /\ thread[u].res = NULL /\ NULL # a
    BY <1>2, HeapHelpAssumption DEF Shapes, Shape
  <2>2. ~Holds(thread[u], a)
    BY <2>1 DEF Holds
  <2>3. QED
    BY <1>2, <2>1, <2>2, IdleShape
<1>3. QED
  BY <1>1, <1>2 DEF OthersStay

(* Return in these words. *)
LEMMA ReturnReturned ==
  ASSUME HeapTypeOK, NEW t \in Threads, NEW res, Return(t, res)
  PROVE  Returned(t, res)
BY DEF HeapTypeOK, Return, Returned, OthersStay

(* Setting the place of a thread in these words. *)
LEMMA PlaceSet ==
  ASSUME HeapTypeOK, NEW t \in Threads, NEW pc, NEW depth,
         \/ thread' = [thread EXCEPT ![t].pc = pc, ![t].depth = depth]
         \/ thread' = [thread EXCEPT ![t].depth = depth, ![t].pc = pc],
         UNCHANGED owned
  PROVE  Placed(t, pc, depth)
<1>1. thread \in [Threads -> ThreadRecords]
  BY DEF HeapTypeOK
<1>2. OthersStay(t)
  BY <1>1 DEF OthersStay
<1> DEFINE r == thread[t]
<1>3. thread'[t] = [r EXCEPT !.pc = pc, !.depth = depth]
        \/ thread'[t] = [r EXCEPT !.depth = depth, !.pc = pc]
  BY <1>1
<1>4. r \in ThreadRecords
  BY <1>1
<1> HIDE DEF r
<1>5. /\ thread'[t].pc = pc /\ thread'[t].depth = depth
      /\ thread'[t].call = r.call /\ thread'[t].ptr = r.ptr
      /\ thread'[t].res = r.res /\ thread'[t].forgotten = r.forgotten
  BY <1>3, <1>4 DEF ThreadRecords
<1>6. QED
  BY <1>2, <1>5 DEF Placed, r

(* Goto in these words.                                                   *)
LEMMA GotoPlaced ==
  ASSUME HeapTypeOK, NEW t \in Threads, NEW pc, Goto(t, pc), UNCHANGED owned
  PROVE  Placed(t, pc, thread[t].depth)
<1>1. thread \in [Threads -> ThreadRecords]
  BY DEF HeapTypeOK
<1>2. OthersStay(t)
  BY <1>1 DEF OthersStay, Goto
<1> DEFINE r == thread[t]
<1>3. thread'[t] = [r EXCEPT !.pc = pc]
  BY <1>1 DEF Goto
<1>4. r \in ThreadRecords
  BY <1>1
<1> HIDE DEF r
<1>5. /\ thread'[t].pc = pc /\ thread'[t].depth = r.depth
      /\ thread'[t].call = r.call /\ thread'[t].ptr = r.ptr
      /\ thread'[t].res = r.res /\ thread'[t].forgotten = r.forgotten
  BY <1>3, <1>4 DEF ThreadRecords
<1>6. QED
  BY <1>2, <1>5 DEF Placed, r

(* The shapes depend on thread t alone. *)
LEMMA ShapesKept ==
  ASSUME Shapes, NEW t \in Threads, OthersStay(t), Shape(thread'[t])
  PROVE  Shapes'
<1>1. ASSUME NEW u \in Threads PROVE Shape(thread'[u])
  BY IdleShape DEF OthersStay, Shapes
<1>2. QED
  BY <1>1 DEF Shapes

(* Addresses stay where they are while a call goes on.                   *)
LEMMA PlacedOwnership ==
  ASSUME Shapes, Ownership, NEW t \in Threads, NEW pc, NEW depth, Placed(t, pc, depth),
         UNCHANGED heap,
         \/ thread[t].call \in {"free", "freeaddrinfo"}
         \/ pc \in {"touch", "dlsym", "enter"} <=> thread[t].pc \in {"touch", "dlsym", "enter"}
  PROVE  Ownership'
<1> SUFFICES ASSUME NEW a \in Addrs PROVE OwnedAt(a)'
  BY DEF Ownership
<1>1. OwnedAt(a)
  BY DEF Ownership
<1>2. Holds(thread'[t], a) <=> Holds(thread[t], a)
  BY DEF Placed, Holds
<1>3. \A u \in Threads : Holds(thread'[u], a) <=> Holds(thread[u], a)
  BY <1>2, OthersHold DEF Placed
<1>4. \A u \in Threads : Holds(thread[u], a) =>
        /\ thread'[u].call = thread[u].call /\ thread'[u].ptr = thread[u].ptr
        /\ thread'[u].res = thread[u].res /\ thread'[u].forgotten = thread[u].forgotten
  BY OthersHold DEF Placed
<1>5. QED
  BY <1>1, <1>3, <1>4 DEF OwnedAt, Placed

(* The end of a call passes its block on to the program.                  *)
LEMMA ReturnedOwnership ==
  ASSUME Shapes, Ownership, NEW t \in Threads, NEW res, Returned(t, res), UNCHANGED heap,
         res \in Addrs => Holds(thread[t], res)
  PROVE  Ownership'
<1> SUFFICES ASSUME NEW a \in Addrs PROVE OwnedAt(a)'
  BY DEF Ownership
<1>1. OwnedAt(a)
  BY DEF Ownership
<1>2. ~Holds(thread'[t], a)
  BY IdleShape DEF Returned
<1>3. \A u \in Threads \ {t} : /\ Holds(thread'[u], a) <=> Holds(thread[u], a)
                               /\ Holds(thread[u], a) => thread'[u] = thread[u]
  BY OthersHold DEF Returned
<1>4. a \in owned' => a \in owned \/ (a = res /\ thread[t].call # "pthread_create")
  BY DEF Returned
<1>5. a \in owned' =>
        heap[a].live /\ ~heap[a].internal /\ \A u \in Threads \ {t} : ~Holds(thread[u], a)
  BY <1>1, <1>4 DEF OwnedAt
<1>6. QED
  BY <1>1, <1>2, <1>3, <1>5 DEF OwnedAt
-----------------------------------------------------------------------------
(* The ends of the functions.                                              *)

(* AfterTrace leads out of the call, or out of the nested one.            *)
LEMMA AfterTraceForm ==
  ASSUME HeapTypeOK, Shapes, NEW t \in Threads, AfterTrace(t),
         thread[t].pc \in {"trace", "record"}
  PROVE  \/ thread[t].depth = 1 /\ Returned(t, thread[t].res)
         \/ /\ thread[t].depth = 2
            /\ Placed(t, IF thread[t].ptr = NULL THEN "trace" ELSE "untrace", 1)
<1>1. thread[t].depth \in 1..2
  BY DEF Shapes, Shape
<1>2. CASE thread[t].depth = 1
  BY <1>2, ReturnReturned DEF AfterTrace
<1>3. CASE thread[t].depth = 2
  <2> DEFINE pc == IF thread[t].ptr = NULL THEN "trace" ELSE "untrace"
  <2>1. thread' = [thread EXCEPT ![t].depth = 1, ![t].pc = pc] /\ UNCHANGED owned
    BY <1>3 DEF AfterTrace
  <2> HIDE DEF pc
  <2>2. Placed(t, pc, 1)
    BY <2>1, PlaceSet
  <2>3. QED
    BY <1>3, <2>2 DEF pc
<1>4. QED
  BY <1>1, <1>2, <1>3

(* AfterUntrace leads back to the program if realloc has no new block,     *)
(* into the free that freeaddrinfo calls, to the tracing of the new block, *)
(* or to default_free.                                                     *)
LEMMA AfterUntraceForm ==
  ASSUME HeapTypeOK, Shapes, NEW t \in Threads, AfterUntrace(t),
         BeforeUntrace(t) \/ At(t, "unlink")
  PROVE  \/ /\ thread[t].call = "realloc" /\ thread[t].res \in {NULL, thread[t].ptr}
            /\ Returned(t, thread[t].res)
         \/ thread[t].call = "freeaddrinfo" /\ thread[t].depth = 1 /\ Placed(t, "untrace", 2)
         \/ /\ thread[t].call \in {"realloc", "getline"}
            /\ thread[t].res \in Addrs \ {thread[t].ptr}
            /\ Placed(t, "trace", thread[t].depth)
         \/ /\ thread[t].call \in {"free", "freeaddrinfo"}
            /\ thread[t].call = "freeaddrinfo" => thread[t].depth = 2
            /\ Placed(t, "release", thread[t].depth)
<1> DEFINE call == thread[t].call
           depth == thread[t].depth
<1>1. /\ thread[t].pc \in {"untrace", "unlink"} \/ call \in {"free", "freeaddrinfo"}
      /\ call \in {"free", "freeaddrinfo", "realloc", "getline"} /\ depth \in 1..2
      /\ call = "getline" => thread[t].res \in Addrs \ {thread[t].ptr}
      /\ thread[t].res \in Addrs \cup {NULL}
  BY DEF Shapes, Shape, BeforeUntrace, At, HeapTypeOK, ThreadRecords
<1>2. CASE call = "realloc" /\ thread[t].res \in {NULL, thread[t].ptr}
  BY <1>2, ReturnReturned DEF AfterUntrace
<1>3. CASE ~(call = "realloc" /\ thread[t].res \in {NULL, thread[t].ptr})
  <2> DEFINE next == CASE call = "freeaddrinfo" /\ depth = 1 -> "untrace"
                       [] call \in {"realloc", "getline"} -> "trace"
                       [] OTHER -> "release"
             deep == IF next = "untrace" THEN 2 ELSE depth
  <2>1. thread' = [thread EXCEPT ![t].pc = next, ![t].depth = deep] /\ UNCHANGED owned
    BY <1>3 DEF AfterUntrace
  <2>2. Placed(t, next, deep)
    <3> HIDE DEF next, deep
    <3>1. QED
      BY <2>1, PlaceSet
  <2>3. CASE call = "freeaddrinfo" /\ depth = 1
    BY <2>2, <2>3
  <2>4. CASE call \in {"realloc", "getline"}
    BY <1>1, <1>3, <2>2, <2>4
  <2>5. CASE call = "free" \/ (call = "freeaddrinfo" /\ depth = 2)
    BY <2>2, <2>5
  <2>6. QED
    BY <1>1, <2>3, <2>4, <2>5
<1>4. QED
  BY <1>2, <1>3

(* The ends of the functions leave each address in one hand.              *)
LEMMA AfterTraceOwns ==
  ASSUME HeapTypeOK, Shapes, Ownership, NEW t \in Threads, AfterTrace(t),
         thread[t].pc \in {"trace", "record"}, UNCHANGED heap
  PROVE  Shapes' /\ Ownership'
<1>1. CASE Returned(t, thread[t].res)
  <2>1. Ownership'
    BY <1>1, ReturnedOwnership DEF Holds
  <2>2. Shapes'
    BY <1>1, IdleShape, ShapesKept DEF Returned
  <2>3. QED
    BY <2>1, <2>2
<1>2. CASE thread[t].depth = 2 /\ Placed(t, IF thread[t].ptr = NULL THEN "trace" ELSE "untrace", 1)
  <2> DEFINE pc == IF thread[t].ptr = NULL THEN "trace" ELSE "untrace"
  <2>1. /\ pc \in {"trace", "untrace"} /\ Shape(thread[t]) /\ thread[t].pc = "trace"
    BY <1>2 DEF Shapes, Shape
  <2>2. Ownership'
    <3> HIDE DEF pc
    <3>1. QED
      BY <1>2, <2>1, PlacedOwnership DEF pc
  <2>3. Shape(thread'[t])
    <3>1. CASE thread[t].ptr = NULL
      <4>1. /\ thread[t].call = "malloc" /\ ~thread[t].forgotten /\ NULL \notin Addrs
            /\ thread[t].res \in Addrs
        BY <1>2, <2>1, <3>1, HeapHelpAssumption DEF Shape
      <4>2. thread'[t].pc = "trace" /\ thread'[t].depth = 1
        BY <1>2, <3>1 DEF Placed
      <4>3. QED
        BY <1>2, <3>1, <4>1, <4>2 DEF Placed, Shape
    <3>2. CASE thread[t].ptr # NULL
      <4>1. /\ thread[t].ptr \in Addrs \ {thread[t].res} /\ thread[t].call = "getline"
            /\ thread[t].res \in Addrs
        BY <1>2, <2>1, <3>2 DEF Shape
      <4>2. thread'[t].pc = "untrace" /\ thread'[t].depth = 1
        BY <1>2, <3>2 DEF Placed
      <4>3. QED
        BY <1>2, <4>1, <4>2 DEF Placed, Shape
    <3>3. QED
      BY <3>1, <3>2
  <2>4. QED
    BY <1>2, <2>2, <2>3, ShapesKept DEF Placed
<1>3. QED
  BY <1>1, <1>2, AfterTraceForm

(* The same for alloc_free. *)
LEMMA AfterUntraceOwns ==
  ASSUME HeapTypeOK, Shapes, Ownership, NEW t \in Threads, AfterUntrace(t),
         BeforeUntrace(t) \/ At(t, "unlink"), UNCHANGED heap
  PROVE  Shapes' /\ Ownership'
<1>1. /\ thread[t].pc \in {"untrace", "unlink"} \/ thread[t].call \in {"free", "freeaddrinfo"}
      /\ Shape(thread[t])
  BY DEF BeforeUntrace, At, Shapes
<1>2. CASE Returned(t, thread[t].res)
  <2>1. Ownership'
    BY <1>2, ReturnedOwnership DEF Holds
  <2>2. Shapes'
    BY <1>2, IdleShape, ShapesKept DEF Returned
  <2>3. QED
    BY <2>1, <2>2
<1>3. CASE /\ thread[t].call = "freeaddrinfo" /\ thread[t].depth = 1
           /\ Placed(t, "untrace", 2)
  <2>1. Ownership'
    BY <1>3, PlacedOwnership
  <2>2. Shape(thread'[t])
    BY <1>1, <1>3 DEF Placed, Shape, BeforeUntrace, At
  <2>3. QED
    BY <1>3, <2>1, <2>2, ShapesKept DEF Placed
<1>4. CASE /\ thread[t].call \in {"realloc", "getline"}
           /\ thread[t].res \in Addrs \ {thread[t].ptr}
           /\ Placed(t, "trace", thread[t].depth)
  <2>1. thread[t].pc \in {"untrace", "unlink"}
    BY <1>1, <1>4
  <2>2. Ownership'
    BY <1>4, <2>1, PlacedOwnership
  <2>3. Shape(thread'[t])
    BY <1>1, <1>4, <2>1 DEF Placed, Shape
  <2>4. QED
    BY <1>4, <2>2, <2>3, ShapesKept DEF Placed
<1>5. CASE /\ thread[t].call \in {"free", "freeaddrinfo"}
           /\ Placed(t, "release", thread[t].depth)
  <2>1. Ownership'
    BY <1>5, PlacedOwnership
  <2>2. Shape(thread'[t])
    BY <1>1, <1>5 DEF Placed, Shape, BeforeUntrace, At
  <2>3. QED
    BY <1>5, <2>1, <2>2, ShapesKept DEF Placed
<1>6. QED
  BY <1>2, <1>3, <1>4, <1>5, AfterUntraceForm

-----------------------------------------------------------------------------
(* The actions and the ownership of addresses.                             *)

(* The program gives up the block that it passes on. *)
LEMMA CallForm ==
  ASSUME HeapTypeOK, NEW t \in Threads, NEW call \in Calls, NEW ptr, Call(t, call, ptr)
  PROVE  /\ OthersStay(t)
         /\ thread'[t].pc \in {"touch", "enter"} /\ thread'[t].call = call
         /\ thread'[t].ptr = ptr /\ thread'[t].res = NULL /\ thread'[t].depth = 1
         /\ thread'[t].forgotten <=> ptr \in owned /\ heap[ptr].forgotten
         /\ thread[t].pc = "idle"
         /\ owned' = owned \ {ptr} /\ UNCHANGED heap
<1> DEFINE pc == IF setup.is_init_done THEN "enter" ELSE "touch"
           forgotten == ptr \in owned /\ heap[ptr].forgotten
           r == [Idle EXCEPT !.pc = pc, !.call = call, !.ptr = ptr, !.depth = 1,
                             !.forgotten = forgotten]
<1>1. /\ thread' = [thread EXCEPT ![t] = r] /\ thread \in [Threads -> ThreadRecords]
      /\ owned' = owned \ {ptr} /\ UNCHANGED heap /\ thread[t].pc = "idle"
  BY DEF Call, At, HeapTypeOK
<1>2. pc \in {"touch", "enter"}
  OBVIOUS
<1> HIDE DEF pc, forgotten
<1>3. /\ r.pc = pc /\ r.call = call /\ r.ptr = ptr /\ r.res = NULL /\ r.depth = 1
      /\ r.forgotten = forgotten
  BY DEF Idle
<1> HIDE DEF r
<1>4. thread'[t] = r /\ OthersStay(t)
  BY <1>1 DEF OthersStay
<1>5. QED
  BY <1>1, <1>2, <1>3, <1>4 DEF forgotten

(* heaph_touch gets the block from the program. *)
LEMMA CallOwns ==
  ASSUME HeapTypeOK, Shapes, Ownership, NEW t \in Threads, NEW call \in Calls,
         NEW ptr \in owned \cup {NULL} \cup 0..(STATIC_SIZE - 1), Call(t, call, ptr)
  PROVE  Shapes' /\ Ownership'
<1>1. /\ OthersStay(t)
      /\ thread'[t].pc \in {"touch", "enter"} /\ thread'[t].call = call
      /\ thread'[t].ptr = ptr /\ thread'[t].res = NULL /\ thread'[t].depth = 1
      /\ thread'[t].forgotten <=> ptr \in owned /\ heap[ptr].forgotten
      /\ thread[t].pc = "idle"
      /\ owned' = owned \ {ptr} /\ UNCHANGED heap
  BY CallForm
<1>2. /\ call \in {"free", "freeaddrinfo"} => ptr \in owned
      /\ call \notin {"free", "freeaddrinfo", "realloc", "getline"} => ptr = NULL
      /\ call \in {"malloc", "strdup", "getaddrinfo", "getline", "realloc",
                   "free", "freeaddrinfo", "pthread_create"}
  BY HeapHelpAssumption DEF Call
<1>3. owned \subseteq Addrs /\ NULL \notin Addrs /\ Addrs \cap Nat = {}
  BY HeapHelpAssumption DEF HeapTypeOK
<1>4. ptr \in Addrs => ptr \in owned
  <2>1. \A n \in 0..(STATIC_SIZE - 1) : n \in Nat
    OBVIOUS
  <2>2. QED
    BY <1>3, <2>1
<1>5. Shapes'
  <2>1. Shape(thread'[t])
    BY <1>1, <1>2, <1>3, <1>4 DEF Shape
  <2>2. QED
    BY <1>1, <2>1, ShapesKept
<1>6. Ownership'
  <2> SUFFICES ASSUME NEW a \in Addrs PROVE OwnedAt(a)'
    BY DEF Ownership
  <2>1. OwnedAt(a)
    BY DEF Ownership
  <2>2. \A u \in Threads \ {t} : /\ Holds(thread'[u], a) <=> Holds(thread[u], a)
                                 /\ Holds(thread[u], a) => thread'[u] = thread[u]
    BY <1>1, OthersHold
  <2>3. Holds(thread'[t], a) <=> ptr = a
    BY <1>1, <1>3 DEF Holds
  <2>4. CASE ptr = a
    <3>1. a \in owned /\ a \notin owned' /\ call # "pthread_create"
      BY <1>1, <1>2, <1>3, <1>4, <2>4
    <3>2. heap[a].live /\ ~heap[a].internal /\ \A u \in Threads : ~Holds(thread[u], a)
      BY <2>1, <3>1 DEF OwnedAt
    <3>3. thread'[t].res # a
      BY <1>1, <1>3
    <3>4. QED
      BY <1>1, <2>2, <2>4, <3>1, <3>2, <3>3 DEF OwnedAt
  <2>5. CASE ptr # a
    BY <1>1, <2>1, <2>2, <2>3, <2>5 DEF OwnedAt
  <2>6. QED
    BY <2>4, <2>5
<1>7. QED
  BY <1>5, <1>6

(* heaph_init moves main_thread along. *)
LEMMA InitOwns ==
  ASSUME HeapTypeOK, Shapes, Ownership, NEW t \in Threads,
         InitStart(t) \/ InitAllocates(t) \/ InitEnd(t)
  PROVE  Shapes' /\ Ownership'
<1>1. CASE InitAllocates(t)
  BY <1>1 DEF InitAllocates, Shapes, Ownership, OwnedAt
<1>2. CASE InitStart(t) \/ InitEnd(t)
  <2>1. PICK pc \in {"dlsym", "enter"} : Goto(t, pc)
    BY <1>2 DEF InitStart, InitEnd
  <2>2. /\ thread[t].pc \in {"touch", "dlsym"} /\ UNCHANGED <<heap, owned>>
        /\ Shape(thread[t])
    BY <1>2 DEF InitStart, InitEnd, At, Shapes
  <2>3. Placed(t, pc, thread[t].depth)
    BY <2>1, <2>2, GotoPlaced
  <2>4. Shape(thread'[t])
    BY <2>2, <2>3 DEF Placed, Shape
  <2>5. Ownership'
    BY <2>2, <2>3, PlacedOwnership
  <2>6. QED
    BY <2>3, <2>4, <2>5, ShapesKept DEF Placed
<1>3. QED
  BY <1>1, <1>2
(* A new block for thread t. *)
Allocated(t, a) ==
  /\ OthersStay(t)
  /\ thread'[t].pc = "trace" /\ thread'[t].ptr = NULL /\ thread'[t].res = a
  /\ thread'[t].call = IF thread[t].call = "pthread_create" THEN "pthread_create" ELSE "malloc"
  /\ thread'[t].depth = IF thread[t].call \in {"strdup", "getaddrinfo", "getline"} THEN 2 ELSE 1
  /\ thread'[t].forgotten = thread[t].forgotten
  /\ heap'[a].live /\ ~heap'[a].forgotten
  /\ heap'[a].internal <=> thread[t].call = "pthread_create"
  /\ \A b \in Addrs \ {a} : heap'[b] = heap[b]
  /\ UNCHANGED owned

(* Allocate in these words.                                               *)
LEMMA AllocateForm ==
  ASSUME HeapTypeOK, NEW t \in Threads, Allocate(t)
  PROVE  /\ thread[t].pc = "enter"
         /\ thread[t].call \notin {"free", "freeaddrinfo"}
         /\ thread[t].ptr \notin Addrs \/ thread[t].call \notin {"realloc", "getline"}
         /\ \/ Returned(t, NULL) /\ UNCHANGED heap
            \/ \E a \in Free : Allocated(t, a)
<1>1. /\ thread \in [Threads -> ThreadRecords] /\ heap \in [Addrs -> Blocks]
      /\ thread[t].pc = "enter"
      /\ thread[t].call \notin {"free", "freeaddrinfo"}
  BY DEF HeapTypeOK, Allocate, WantsBlock, At
<1>2. thread[t].ptr \notin Addrs \/ thread[t].call \notin {"realloc", "getline"}
  <2>1. \A n \in 0..(STATIC_SIZE - 1) : n \in Nat
    OBVIOUS
  <2>2. NULL \notin Addrs /\ \A n \in 0..(STATIC_SIZE - 1) : n \notin Addrs
    BY <2>1, HeapHelpAssumption
  <2>3. QED
    BY <2>2 DEF Allocate, WantsBlock, alloc_is_static
<1>3. ASSUME NEW a \in Free,
             heap' = [heap EXCEPT ![a] =
               [NoBlock EXCEPT !.live = TRUE, !.internal = trace_is_internal(thread[t].call),
                               !.info = thread[t].call = "getaddrinfo"]],
             thread' = [thread EXCEPT ![t].pc = "trace", ![t].ptr = NULL, ![t].res = a,
               ![t].call = IF thread[t].call = "pthread_create" THEN thread[t].call ELSE "malloc",
               ![t].depth = IF thread[t].call \in {"strdup", "getaddrinfo", "getline"} THEN 2 ELSE 1],
             UNCHANGED owned
      PROVE  Allocated(t, a)
  <2> DEFINE call == IF thread[t].call = "pthread_create" THEN thread[t].call ELSE "malloc"
             depth == IF thread[t].call \in {"strdup", "getaddrinfo", "getline"} THEN 2 ELSE 1
             r == thread[t]
             q == [r EXCEPT !.pc = "trace", !.ptr = NULL, !.res = a, !.call = call, !.depth = depth]
             internal == trace_is_internal(thread[t].call)
             info == thread[t].call = "getaddrinfo"
             block == [NoBlock EXCEPT !.live = TRUE, !.internal = internal, !.info = info]
  <2>1. thread' = [thread EXCEPT ![t].pc = "trace", ![t].ptr = NULL, ![t].res = a,
                                 ![t].call = call, ![t].depth = depth]
        /\ heap' = [heap EXCEPT ![a] = block]
    BY <1>3
  <2>2. r \in ThreadRecords
    BY <1>1
  <2>3. internal <=> thread[t].call = "pthread_create"
    BY DEF trace_is_internal
  <2> HIDE DEF call, depth, internal, info
  <2>4. thread' = [thread EXCEPT ![t] = q]
    BY <1>1, <2>1
  <2>5. thread'[t] = q /\ OthersStay(t)
    BY <1>1, <2>4 DEF OthersStay
  <2> HIDE DEF r
  <2>6. /\ q.pc = "trace" /\ q.ptr = NULL /\ q.res = a /\ q.call = call /\ q.depth = depth
        /\ q.forgotten = r.forgotten
    BY <2>2 DEF ThreadRecords
  <2>7. block.live /\ ~block.forgotten /\ (block.internal <=> internal)
    BY DEF NoBlock
  <2> HIDE DEF q, block
  <2>8. a \in Addrs /\ heap'[a] = block /\ \A b \in Addrs \ {a} : heap'[b] = heap[b]
    BY <1>1, <2>1 DEF Free
  <2>9. QED
    BY <1>3, <2>3, <2>5, <2>6, <2>7, <2>8 DEF Allocated, call, depth, r
<1>4. Return(t, NULL) => Returned(t, NULL)
  BY ReturnReturned
<1>5. QED
  BY <1>1, <1>2, <1>3, <1>4 DEF Allocate

(* A free address comes into the hands of thread t.                       *)
LEMMA AllocateOwns ==
  ASSUME HeapTypeOK, Shapes, Ownership, NEW t \in Threads, Allocate(t)
  PROVE  Shapes' /\ Ownership'
<1>1. /\ thread[t].pc = "enter" /\ Shape(thread[t])
      /\ thread[t].ptr \notin Addrs
  BY AllocateForm, HeapHelpAssumption DEF Shapes, Shape
<1>2. CASE Returned(t, NULL) /\ UNCHANGED heap
  <2>1. Ownership'
    BY <1>2, ReturnedOwnership, HeapHelpAssumption
  <2>2. QED
    BY <1>2, <2>1, IdleShape, ShapesKept DEF Returned
<1>3. ASSUME NEW a \in Free, Allocated(t, a) PROVE Shapes' /\ Ownership'
  <2>1. a \in Addrs /\ ~heap[a].live /\ NULL \notin Addrs
    BY HeapHelpAssumption DEF Free
  <2>2. Shapes'
    <3>1. Shape(thread'[t])
      BY <1>1, <1>3, <2>1 DEF Allocated, Shape
    <3>2. QED
      BY <1>3, <3>1, ShapesKept DEF Allocated
  <2>3. ASSUME NEW b \in Addrs PROVE OwnedAt(b)'
    <3>1. OwnedAt(b)
      BY DEF Ownership
    <3>2. \A u \in Threads \ {t} : /\ Holds(thread'[u], b) <=> Holds(thread[u], b)
                                   /\ Holds(thread[u], b) => thread'[u] = thread[u]
      BY <1>3, OthersHold DEF Allocated
    <3>3. Holds(thread'[t], b) <=> a = b
      BY <1>3, <2>1 DEF Holds, Allocated
    <3>4. CASE a = b
      <4>1. b \notin owned /\ \A u \in Threads : ~Holds(thread[u], b)
        BY <2>1, <3>1, <3>4 DEF OwnedAt
      <4>2. thread'[t].ptr # b /\ (thread'[t].call = "pthread_create" <=> heap'[b].internal)
        BY <1>3, <2>1, <3>4 DEF Allocated
      <4>3. heap'[b].live /\ ~heap'[b].forgotten /\ b \notin owned'
        BY <1>3, <3>4, <4>1 DEF Allocated
      <4>4. QED
        BY <3>2, <3>3, <3>4, <4>1, <4>2, <4>3 DEF OwnedAt
    <3>5. CASE a # b
      <4>1. heap'[b] = heap[b] /\ owned' = owned
        BY <1>3, <3>5 DEF Allocated
      <4>2. ~Holds(thread'[t], b) /\ \A u \in Threads : Holds(thread'[u], b) => Holds(thread[u], b)
        BY <3>2, <3>3, <3>5
      <4>3. \A u \in Threads : Holds(thread'[u], b) => u # t /\ thread'[u] = thread[u]
        BY <3>2, <4>2
      <4>4. QED
        BY <3>1, <4>1, <4>2, <4>3 DEF OwnedAt
    <3>6. QED
      BY <3>4, <3>5
  <2>4. QED
    BY <2>2, <2>3 DEF Ownership
<1>4. QED
  BY <1>2, <1>3, AllocateForm

(* default_realloc has done its part for thread t, which has res now.     *)
Resized(t, res) ==
  /\ OthersStay(t)
  /\ thread'[t].pc = "untrace" /\ thread'[t].res = res
  /\ thread'[t].depth = IF thread[t].call = "getline" THEN 2 ELSE 1
  /\ thread'[t].call = thread[t].call
  /\ thread'[t].ptr = thread[t].ptr
  /\ thread'[t].forgotten = thread[t].forgotten
  /\ UNCHANGED owned

(* The four outcomes of Resize.                                           *)
LEMMA ResizeForm ==
  ASSUME HeapTypeOK, Shapes, NEW t \in Threads, Resize(t)
  PROVE  /\ thread[t].pc = "enter" /\ thread[t].call \in {"realloc", "getline"}
         /\ thread[t].ptr \in Addrs
         /\ \/ Returned(t, thread[t].ptr) /\ UNCHANGED heap
            \/ \E a \in Free :
                 /\ Resized(t, a)
                 /\ heap' = [heap EXCEPT ![thread[t].ptr] = NoBlock,
                                         ![a] = [heap[thread[t].ptr] EXCEPT !.forgotten = FALSE]]
            \/ /\ Resized(t, NULL) /\ thread[t].call = "realloc"
               /\ heap' = [heap EXCEPT ![thread[t].ptr] = NoBlock]
            \/ /\ Resized(t, thread[t].ptr) /\ thread[t].call = "realloc"
               /\ heap' = [heap EXCEPT ![thread[t].ptr].forgotten = TRUE]
<1> DEFINE r == thread[t]
           ptr == thread[t].ptr
<1>1. /\ thread[t].pc = "enter" /\ r \in ThreadRecords /\ ptr \in Addrs
      /\ thread[t].call \in {"realloc", "getline"}
      /\ thread \in [Threads -> ThreadRecords]
      /\ thread[t].res = NULL /\ thread[t].depth = 1
  BY DEF Resize, At, HeapTypeOK, Shapes, Shape
<1>2. ASSUME NEW a,
             thread' = [thread EXCEPT ![t].pc = "untrace", ![t].res = a,
               ![t].depth = IF thread[t].call = "getline" THEN 2 ELSE 1],
             UNCHANGED owned
      PROVE  Resized(t, a)
  <2> DEFINE depth == IF thread[t].call = "getline" THEN 2 ELSE 1
             q == [r EXCEPT !.pc = "untrace", !.res = a, !.depth = depth]
  <2>1. thread' = [thread EXCEPT ![t].pc = "untrace", ![t].res = a, ![t].depth = depth]
    BY <1>2
  <2> HIDE DEF depth
  <2>2. thread'[t] = q /\ OthersStay(t)
    BY <1>1, <2>1 DEF OthersStay
  <2> HIDE DEF r
  <2>3. /\ q.pc = "untrace" /\ q.res = a /\ q.depth = depth
        /\ q.call = r.call /\ q.ptr = r.ptr /\ q.forgotten = r.forgotten
    BY <1>1 DEF ThreadRecords
  <2> HIDE DEF q
  <2>4. QED
    BY <1>2, <2>2, <2>3 DEF Resized, r, depth
<1>3. ASSUME thread' = [thread EXCEPT ![t].pc = "untrace", ![t].res = ptr],
             UNCHANGED owned, thread[t].call = "realloc"
      PROVE  Resized(t, ptr)
  <2> DEFINE q == [r EXCEPT !.pc = "untrace", !.res = ptr]
  <2>1. thread'[t] = q /\ OthersStay(t)
    BY <1>1, <1>3 DEF OthersStay
  <2> HIDE DEF r, ptr
  <2>2. /\ q.pc = "untrace" /\ q.res = ptr /\ q.depth = r.depth
        /\ q.call = r.call /\ q.ptr = r.ptr /\ q.forgotten = r.forgotten
    BY <1>1 DEF ThreadRecords
  <2> HIDE DEF q
  <2>3. QED
    BY <1>1, <1>3, <2>1, <2>2 DEF Resized, r, ptr
<1>4. ASSUME Goto(t, "untrace"), UNCHANGED owned, thread[t].call = "realloc"
      PROVE  Resized(t, NULL)
  <2>1. Placed(t, "untrace", 1)
    BY <1>1, <1>4, GotoPlaced
  <2>2. QED
    BY <1>1, <1>4, <2>1 DEF Placed, Resized
<1>5. Return(t, ptr) => Returned(t, ptr)
  BY ReturnReturned
<1>6. QED
  BY <1>1, <1>2, <1>3, <1>4, <1>5 DEF Resize
(* The block stays with thread t, or moves to a free address, or is free. *)
LEMMA ResizeOwns ==
  ASSUME HeapTypeOK, Shapes, Ownership, NEW t \in Threads, Resize(t)
  PROVE  Shapes' /\ Ownership'
<1> DEFINE ptr == thread[t].ptr
<1>1. /\ thread[t].pc = "enter" /\ thread[t].call \in {"realloc", "getline"} /\ ptr \in Addrs
      /\ Shape(thread[t]) /\ heap \in [Addrs -> Blocks] /\ NULL \notin Addrs
      /\ thread[t].res = NULL /\ thread[t].depth = 1
  BY ResizeForm, HeapHelpAssumption DEF Shapes, Shape, HeapTypeOK
<1>2. Holds(thread[t], ptr) /\ \A a \in Addrs : Holds(thread[t], a) => a = ptr
  BY <1>1 DEF Holds
<1>3. /\ heap[ptr].live /\ ptr \notin owned /\ ~heap[ptr].internal
      /\ \A u \in Threads \ {t} : ~Holds(thread[u], ptr)
  BY <1>1, <1>2 DEF Ownership, OwnedAt
<1>4. CASE Returned(t, ptr) /\ UNCHANGED heap
  <2>1. Ownership'
    BY <1>2, <1>4, ReturnedOwnership
  <2>2. QED
    BY <1>4, <2>1, IdleShape, ShapesKept DEF Returned
<1>5. ASSUME NEW res \in Addrs \cup {NULL}, Resized(t, res),
             thread[t].call = "getline" => res \in Addrs \ {ptr},
             res # ptr => heap'[ptr] = NoBlock,
             res = ptr => heap'[ptr].live /\ ~heap'[ptr].internal /\ heap'[ptr].forgotten,
             res \in Addrs \ {ptr} =>
               ~heap[res].live /\ heap'[res].live /\ ~heap'[res].internal /\ ~heap'[res].forgotten,
             \A b \in Addrs \ {ptr, res} : heap'[b] = heap[b]
      PROVE  Shapes' /\ Ownership'
  <2>1. Shapes'
    <3>1. Shape(thread'[t])
      BY <1>1, <1>5 DEF Resized, Shape
    <3>2. QED
      BY <1>5, <3>1, ShapesKept DEF Resized
  <2>2. ASSUME NEW b \in Addrs PROVE OwnedAt(b)'
    <3>1. OwnedAt(b)
      BY DEF Ownership
    <3>2. \A u \in Threads \ {t} : /\ Holds(thread'[u], b) <=> Holds(thread[u], b)
                                   /\ Holds(thread[u], b) => thread'[u] = thread[u]
      BY <1>5, OthersHold DEF Resized
    <3>3. Holds(thread'[t], b) <=> res = b
      BY <1>1, <1>5 DEF Holds, Resized
    <3>4. /\ owned' = owned /\ thread'[t].call # "pthread_create"
          /\ thread'[t].res = res /\ thread'[t].ptr = ptr
      BY <1>1, <1>5 DEF Resized
    <3>5. CASE b = ptr /\ res # ptr
      <4>1. heap'[b] = NoBlock /\ \A u \in Threads : ~Holds(thread'[u], b)
        BY <1>3, <1>5, <3>2, <3>3, <3>5
      <4>2. QED
        BY <1>3, <3>4, <3>5, <4>1 DEF OwnedAt, NoBlock
    <3>6. CASE b = res
      <4>1. b \notin owned /\ \A u \in Threads \ {t} : ~Holds(thread[u], b)
        BY <1>3, <1>5, <3>1, <3>6 DEF OwnedAt
      <4>2. heap'[b].live /\ ~heap'[b].internal /\ (heap'[b].forgotten <=> res = ptr)
        BY <1>5, <3>6
      <4>3. QED
        BY <3>2, <3>3, <3>4, <3>6, <4>1, <4>2 DEF OwnedAt
    <3>7. CASE b # ptr /\ b # res
      <4>1. heap'[b] = heap[b]
        BY <1>5, <3>7
      <4>2. \A u \in Threads : Holds(thread'[u], b) =>
              u # t /\ Holds(thread[u], b) /\ thread'[u] = thread[u]
        BY <3>2, <3>3, <3>7
      <4>3. QED
        BY <3>1, <3>4, <4>1, <4>2 DEF OwnedAt
    <3>8. QED
      BY <3>5, <3>6, <3>7
  <2>3. QED
    BY <2>1, <2>2 DEF Ownership
<1>6. ASSUME NEW a \in Free, Resized(t, a),
             heap' = [heap EXCEPT ![ptr] = NoBlock, ![a] = [heap[ptr] EXCEPT !.forgotten = FALSE]]
      PROVE  Shapes' /\ Ownership'
  <2> DEFINE block == [heap[ptr] EXCEPT !.forgotten = FALSE]
  <2>1. a \in Addrs /\ a # ptr /\ ~heap[a].live
    BY <1>3 DEF Free
  <2>2. block.live /\ ~block.internal /\ ~block.forgotten
    BY <1>1, <1>3 DEF Blocks
  <2>3. heap' = [heap EXCEPT ![ptr] = NoBlock, ![a] = block]
    BY <1>6
  <2> HIDE DEF block, ptr
  <2>4. heap'[ptr] = NoBlock /\ heap'[a] = block /\ \A b \in Addrs \ {ptr, a} : heap'[b] = heap[b]
    BY <1>1, <2>1, <2>3
  <2>5. QED
    BY <1>5, <1>6, <2>1, <2>2, <2>4
<1>7. CASE /\ Resized(t, NULL) /\ thread[t].call = "realloc"
           /\ heap' = [heap EXCEPT ![ptr] = NoBlock]
  <2> HIDE DEF ptr
  <2>1. heap'[ptr] = NoBlock /\ \A b \in Addrs \ {ptr} : heap'[b] = heap[b]
    BY <1>1, <1>7
  <2>2. QED
    BY <1>1, <1>5, <1>7, <2>1
<1>8. CASE /\ Resized(t, ptr) /\ thread[t].call = "realloc"
           /\ heap' = [heap EXCEPT ![ptr].forgotten = TRUE]
  <2> DEFINE block == [heap[ptr] EXCEPT !.forgotten = TRUE]
  <2>1. block.live /\ ~block.internal /\ block.forgotten
    BY <1>1, <1>3 DEF Blocks
  <2>2. heap' = [heap EXCEPT ![ptr] = block]
    BY <1>1, <1>8
  <2> HIDE DEF block, ptr
  <2>3. heap'[ptr] = block /\ \A b \in Addrs \ {ptr} : heap'[b] = heap[b]
    BY <1>1, <2>2
  <2>4. QED
    BY <1>1, <1>5, <1>8, <2>1, <2>3
<1>9. QED
  BY <1>4, <1>6, <1>7, <1>8, ResizeForm

(* What default_free gets is a block, and nobody else has it.             *)
LEMMA ReleaseForm ==
  ASSUME HeapTypeOK, Shapes, Ownership, NEW t \in Threads, Release(t)
  PROVE  /\ thread[t].pc = "release" /\ thread[t].ptr \in Addrs
         /\ Holds(thread[t], thread[t].ptr)
         /\ heap' = [heap EXCEPT ![thread[t].ptr] = NoBlock]
         /\ Returned(t, NULL) /\ owned' = owned /\ aborted' = NULL
<1>1. /\ thread[t].pc = "release" /\ thread[t].ptr \in Addrs
      /\ thread[t].call \in {"free", "freeaddrinfo"}
  BY DEF Release, At, Shapes, Shape
<1>2. Holds(thread[t], thread[t].ptr)
  BY <1>1 DEF Holds
<1>3. heap[thread[t].ptr].live
  BY <1>1, <1>2 DEF Ownership, OwnedAt
<1>4. Returned(t, NULL)
  BY ReturnReturned DEF Release
<1>5. QED
  BY <1>1, <1>2, <1>3, <1>4 DEF Release, Returned

(* Its address is free. *)
LEMMA ReleaseOwns ==
  ASSUME HeapTypeOK, Shapes, Ownership, NEW t \in Threads, Release(t)
  PROVE  Shapes' /\ Ownership'
<1> DEFINE ptr == thread[t].ptr
<1>1. /\ ptr \in Addrs /\ Holds(thread[t], ptr) /\ heap' = [heap EXCEPT ![ptr] = NoBlock]
      /\ Returned(t, NULL) /\ owned' = owned /\ heap \in [Addrs -> Blocks]
  BY ReleaseForm DEF HeapTypeOK
<1>2. Shapes'
  BY <1>1, IdleShape, ShapesKept DEF Returned
<1>3. ptr \notin owned /\ \A u \in Threads \ {t} : ~Holds(thread[u], ptr)
  BY <1>1 DEF Ownership, OwnedAt
<1> HIDE DEF ptr
<1>4. ASSUME NEW b \in Addrs PROVE OwnedAt(b)'
  <2>1. OwnedAt(b)
    BY DEF Ownership
  <2>2. \A u \in Threads \ {t} : /\ Holds(thread'[u], b) <=> Holds(thread[u], b)
                                 /\ Holds(thread[u], b) => thread'[u] = thread[u]
    BY <1>1, OthersHold DEF Returned
  <2>3. ~Holds(thread'[t], b)
    BY <1>1, IdleShape DEF Returned
  <2>4. CASE b = ptr
    <3>1. heap'[b] = NoBlock
      BY <1>1, <2>4
    <3>2. b \notin owned' /\ \A u \in Threads : ~Holds(thread'[u], b)
      BY <1>1, <1>3, <2>2, <2>3, <2>4
    <3>3. QED
      BY <3>1, <3>2 DEF OwnedAt, NoBlock
  <2>5. CASE b # ptr
    <3>1. heap'[b] = heap[b]
      BY <1>1, <2>5
    <3>2. \A u \in Threads : Holds(thread'[u], b) =>
            u # t /\ Holds(thread[u], b) /\ thread'[u] = thread[u]
      BY <2>2, <2>3
    <3>3. QED
      BY <1>1, <2>1, <3>1, <3>2 DEF OwnedAt
  <2>6. QED
    BY <2>4, <2>5
<1>5. QED
  BY <1>2, <1>4 DEF Ownership

(* What goes on between default_malloc and the list moves no address.      *)
LEMMA TraceOwns ==
  ASSUME HeapTypeOK, Shapes, Ownership, NEW t \in Threads,
         Trace(t) \/ Take(t) \/ Record(t) \/ Untrace(t) \/ Unlink(t)
  PROVE  Shapes' /\ Ownership'
<1>1. UNCHANGED heap /\ Shape(thread[t])
  BY DEF Trace, Take, NextRecord, Record, Untrace, Unlink, Shapes
<1>2. CASE AfterTrace(t) /\ thread[t].pc \in {"trace", "record"}
  BY <1>1, <1>2, AfterTraceOwns
<1>3. CASE AfterUntrace(t) /\ (BeforeUntrace(t) \/ At(t, "unlink"))
  BY <1>1, <1>3, AfterUntraceOwns
<1>4. ASSUME NEW pc \in {"take", "record"}, Goto(t, pc), UNCHANGED owned,
             thread[t].pc \in {"trace", "take"}, thread[t].depth = 1
      PROVE  Shapes' /\ Ownership'
  <2>1. Placed(t, pc, 1)
    BY <1>4, GotoPlaced
  <2>2. Ownership'
    BY <1>1, <1>4, <2>1, PlacedOwnership
  <2>3. Shape(thread'[t])
    BY <1>1, <1>4, <2>1 DEF Placed, Shape
  <2>4. QED
    BY <2>1, <2>2, <2>3, ShapesKept DEF Placed
<1>5. CASE Goto(t, "unlink") /\ UNCHANGED owned /\ BeforeUntrace(t) /\ ~(thread[t].depth > 1)
  <2>1. Placed(t, "unlink", thread[t].depth)
    BY <1>5, GotoPlaced
  <2>2. /\ thread[t].pc = "untrace" \/ (thread[t].pc = "enter" /\ thread[t].call \in {"free", "freeaddrinfo"})
        /\ thread[t].depth = 1
    BY <1>1, <1>5 DEF BeforeUntrace, At, Shape
  <2>3. Ownership'
    BY <1>1, <2>1, <2>2, PlacedOwnership
  <2>4. Shape(thread'[t])
    BY <1>1, <2>1, <2>2 DEF Placed, Shape
  <2>5. QED
    BY <2>1, <2>3, <2>4, ShapesKept DEF Placed
<1>6. CASE Trace(t)
  <2>1. thread[t].pc = "trace" /\ thread[t].depth \in 1..2
    BY <1>1, <1>6 DEF Trace, At, Shape
  <2>2. QED
    BY <1>2, <1>4, <1>6, <2>1 DEF Trace
<1>7. CASE Take(t)
  <2>1. thread[t].pc = "take" /\ thread[t].depth = 1
    BY <1>1, <1>7 DEF Take, At, Shape
  <2>2. QED
    BY <1>4, <1>7, <2>1 DEF Take, NextRecord
<1>8. CASE Record(t)
  BY <1>2, <1>8 DEF Record, At
<1>9. CASE Untrace(t)
  BY <1>3, <1>5, <1>9 DEF Untrace
<1>10. CASE Unlink(t)
  BY <1>3, <1>10 DEF Unlink
<1>11. QED
  BY <1>6, <1>7, <1>8, <1>9, <1>10

(* heaph_atexit has no block. *)
LEMMA ExitOwns ==
  ASSUME HeapTypeOK, Shapes, Ownership, ExitStart \/ ExitLock \/ ExitReport
  PROVE  Shapes' /\ Ownership'
<1>1. main_thread \in Threads
  BY HeapHelpAssumption
<1>2. PICK pc \in {"report", "printing", "ended"} : Goto(main_thread, pc)
  BY DEF ExitStart, ExitLock, ExitReport
<1>3. /\ thread[main_thread].pc \in {"idle", "report", "printing"}
      /\ UNCHANGED <<heap, owned>> /\ Shape(thread[main_thread])
  BY <1>1 DEF ExitStart, ExitLock, ExitReport, At, Shapes
<1>4. Placed(main_thread, pc, thread[main_thread].depth)
  BY <1>1, <1>2, <1>3, GotoPlaced
<1>5. Ownership'
  BY <1>1, <1>3, <1>4, PlacedOwnership
<1>6. Shape(thread'[main_thread])
  BY <1>3, <1>4 DEF Placed, Shape
<1>7. QED
  BY <1>1, <1>4, <1>5, <1>6, ShapesKept DEF Placed
-----------------------------------------------------------------------------
(* Counting records in the list.                                           *)

(* The places of a list with an element of a set. *)
Where(s, S) == {i \in DOMAIN s : s[i] \in S}

(* These places are finitely many.                                        *)
LEMMA WhereFinite ==
  ASSUME NEW E, NEW s \in Seq(E), NEW S
  PROVE  /\ IsFiniteSet(Where(s, S)) /\ Cardinality(Where(s, S)) \in Nat
         /\ Cardinality(Where(s, S)) <= Len(s) /\ Len(s) \in Nat
         /\ IsFiniteSet(DOMAIN s) /\ Cardinality(DOMAIN s) = Len(s)
<1> DEFINE n == Len(s)
<1>1. DOMAIN s = 1..n /\ n \in Nat
  OBVIOUS
<1> HIDE DEF n
<1>2. IsFiniteSet(1..n) /\ Cardinality(1..n) = IF 1 > n THEN 0 ELSE n - 1 + 1
  BY <1>1, FS_Interval
<1>3. (IF 1 > n THEN 0 ELSE n - 1 + 1) = n
  BY <1>1
<1>4. IsFiniteSet(Where(s, S)) /\ Cardinality(Where(s, S)) <= n
  <2>1. Where(s, S) \in SUBSET (1..n)
    BY <1>1 DEF Where
  <2>2. IsFiniteSet(1..n) /\ Cardinality(1..n) = n
    BY <1>2, <1>3
  <2>3. QED
    BY <2>1, <2>2, FS_Subset
<1>5. QED
  BY <1>1, <1>2, <1>3, <1>4, FS_CardinalityType DEF n

(* A record put in front of the list (heap_help.c:201-208). *)
LEMMA CountInFront ==
  ASSUME NEW E, NEW s \in Seq(E), NEW e \in E, NEW S
  PROVE  Cardinality(Where(<<e>> \o s, S)) =
           Cardinality(Where(s, S)) + (IF e \in S THEN 1 ELSE 0)
<1> DEFINE n == Len(s)
           old == Where(s, S)
           new == Where(<<e>> \o s, S)
           moved == {i \in 2..(n + 1) : (<<e>> \o s)[i] \in S}
           f == [i \in old |-> i + 1]
<1>1. /\ DOMAIN s = 1..n /\ n \in Nat
      /\ DOMAIN (<<e>> \o s) = 1..(n + 1) /\ (<<e>> \o s)[1] = e
      /\ \A i \in 1..n : (<<e>> \o s)[i + 1] = s[i]
      /\ \A i \in 2..(n + 1) : i - 1 \in 1..n /\ (<<e>> \o s)[i] = s[i - 1]
  OBVIOUS
<1>2. f \in Bijection(old, moved)
  <2>1. f \in [old -> moved]
    BY <1>1 DEF Where
  <2>2. \A i, j \in old : f[i] = f[j] => i = j
    BY <1>1 DEF Where
  <2>3. \A k \in moved : \E i \in old : f[i] = k
    <3> TAKE k \in moved
    <3>1. k - 1 \in old /\ f[k - 1] = k
      BY <1>1 DEF Where
    <3>2. QED
      BY <3>1
  <2>4. QED
    BY <2>1, <2>2, <2>3 DEF Bijection, Injection, Surjection, IsInjective
<1>3. IsFiniteSet(moved) /\ Cardinality(moved) = Cardinality(old)
  <2>1. IsFiniteSet(old)
    BY WhereFinite
  <2>2. ExistsBijection(old, moved)
    BY <1>2 DEF ExistsBijection
  <2>3. QED
    BY <2>1, <2>2, FS_Bijection
<1>4. new = IF e \in S THEN moved \cup {1} ELSE moved
  BY <1>1 DEF Where
<1>5. 1 \notin moved /\ Cardinality(old) \in Nat
  BY WhereFinite
<1>6. Cardinality(moved \cup {1}) = Cardinality(moved) + 1
  <2> HIDE DEF moved
  <2>1. QED
    BY <1>3, <1>5, FS_AddElement
<1>7. QED
  <2> HIDE DEF new, old, moved
  <2>1. Cardinality(new) = Cardinality(old) + (IF e \in S THEN 1 ELSE 0)
    BY <1>3, <1>4, <1>5, <1>6
  <2>2. QED
    BY <2>1 DEF new, old

(* A record taken out of the list. *)
LEMMA CountWithout ==
  ASSUME NEW E, NEW s \in Seq(E), NEW i \in DOMAIN s, NEW S
  PROVE  Cardinality(Where(RemoveAt(s, i), S)) =
           Cardinality(Where(s, S)) - (IF s[i] \in S THEN 1 ELSE 0)
<1> DEFINE n == Len(s)
           r == RemoveAt(s, i)
           old == Where(s, S)
           new == Where(r, S)
           f == [j \in old \ {i} |-> IF j < i THEN j ELSE j - 1]
<1>1. /\ DOMAIN s = 1..n /\ n \in Nat /\ i \in 1..n /\ DOMAIN r = 1..(n - 1)
      /\ \A k \in 1..(n - 1) : r[k] = IF k < i THEN s[k] ELSE s[k + 1]
  <2>1. /\ r \in Seq(E) /\ Len(r) = n - 1
        /\ \A k \in 1..(n - 1) : r[k] = IF k < i THEN s[k] ELSE s[k + 1]
    BY RemoveAtPlace
  <2>2. DOMAIN s = 1..n /\ n \in Nat /\ i \in 1..n
    OBVIOUS
  <2> HIDE DEF r, n
  <2>3. QED
    BY <2>1, <2>2
<1> HIDE DEF r, n
<1>2. f \in Bijection(old \ {i}, new)
  <2>1. f \in [old \ {i} -> new]
    <3>1. ASSUME NEW j \in old \ {i} PROVE (IF j < i THEN j ELSE j - 1) \in new
      <4>1. j \in 1..n /\ j # i /\ s[j] \in S
        BY <1>1, <3>1 DEF Where
      <4>2. CASE j < i
        BY <1>1, <4>1, <4>2 DEF Where
      <4>3. CASE ~(j < i)
        <5>1. j - 1 \in 1..(n - 1) /\ ~(j - 1 < i) /\ (j - 1) + 1 = j
          BY <1>1, <4>1, <4>3
        <5>2. QED
          BY <1>1, <4>1, <4>3, <5>1 DEF Where
      <4>4. QED
        BY <4>2, <4>3
    <3>2. QED
      BY <3>1
  <2>2. \A j, k \in old \ {i} : f[j] = f[k] => j = k
    BY <1>1 DEF Where
  <2>3. \A k \in new : \E j \in old \ {i} : f[j] = k
    <3> TAKE k \in new
    <3>1. k \in 1..(n - 1) /\ r[k] \in S
      BY <1>1 DEF Where
    <3>2. CASE k < i
      <4>1. k \in old \ {i} /\ f[k] = k
        BY <1>1, <3>1, <3>2 DEF Where
      <4>2. QED
        BY <4>1
    <3>3. CASE ~(k < i)
      <4>1. k + 1 \in old \ {i}
        BY <1>1, <3>1, <3>3 DEF Where
      <4>2. f[k + 1] = k
        BY <1>1, <3>1, <3>3, <4>1
      <4>3. QED
        BY <4>1, <4>2
    <3>4. QED
      BY <3>2, <3>3
  <2>4. QED
    BY <2>1, <2>2, <2>3 DEF Bijection, Injection, Surjection, IsInjective
<1>3. IsFiniteSet(old) /\ Cardinality(old) \in Nat
  BY WhereFinite
<1>4. /\ IsFiniteSet(old \ {i})
      /\ Cardinality(old \ {i}) = IF i \in old THEN Cardinality(old) - 1 ELSE Cardinality(old)
  <2> HIDE DEF old
  <2>1. QED
    BY <1>3, FS_RemoveElement
<1>5. Cardinality(new) = Cardinality(old \ {i})
  <2>1. ExistsBijection(old \ {i}, new)
    BY <1>2 DEF ExistsBijection
  <2> HIDE DEF old, new, f
  <2>2. QED
    BY <1>4, <2>1, FS_Bijection
<1>6. i \in old <=> s[i] \in S
  BY DEF Where
<1>7. QED
  <2> HIDE DEF old, new
  <2>1. Cardinality(new) = Cardinality(old) - (IF s[i] \in S THEN 1 ELSE 0)
    BY <1>3, <1>4, <1>5, <1>6
  <2>2. QED
    BY <2>1 DEF old, new, r
-----------------------------------------------------------------------------
(* The balance of an address: the records that it should have.             *)

(* Whether the record of its argument is still to be taken away by a call. *)
Pending(r, a) ==
  /\ r.ptr = a /\ ~r.forgotten
  /\ \/ r.pc = "unlink"
     \/ r.pc = "untrace" /\ (r.depth = 2 => r.call = "getline")
     \/ r.pc = "trace" /\ r.depth = 2
     \/ r.pc \in {"touch", "dlsym", "enter"}

InHands(a) == a \in owned /\ ~heap[a].forgotten

(* A block that pthread_create has left behind. *)
LeftBehind(a) == heap[a].internal /\ \A t \in Threads : thread[t].res # a

Balance(a) ==
  Cardinality(ToUnlink(a)) + (IF InHands(a) \/ LeftBehind(a) THEN 1 ELSE 0)

(* ToUnlink in these words, and what thread t does to it.                 *)
LEMMA ToUnlinkCount ==
  ASSUME Shapes, NEW t \in Threads, OthersStay(t), NEW a \in Addrs
  PROVE  /\ Cardinality(ToUnlink(a)) \in Nat
         /\ t \in ToUnlink(a) <=> Pending(thread[t], a)
         /\ t \in ToUnlink(a) => Cardinality(ToUnlink(a)) >= 1
         /\ Cardinality(ToUnlink(a)') =
              Cardinality(ToUnlink(a)) + (IF Pending(thread'[t], a) THEN 1 ELSE 0)
                                       - (IF Pending(thread[t], a) THEN 1 ELSE 0)
<1> DEFINE old == ToUnlink(a)
           new == ToUnlink(a)'
<1>1. old = {u \in Threads : Pending(thread[u], a)} /\ new = {u \in Threads : Pending(thread'[u], a)}
  BY DEF ToUnlink, Pending
<1>2. \A u \in Threads \ {t} : Pending(thread'[u], a) <=> Pending(thread[u], a)
  BY OthersHold DEF Pending
<1> HIDE DEF old, new
<1>3. new = IF Pending(thread'[t], a) THEN old \cup {t} ELSE old \ {t}
  BY <1>1, <1>2
<1>4. t \in old <=> Pending(thread[t], a)
  BY <1>1
<1>5. IsFiniteSet(old) /\ Cardinality(old) \in Nat
  <2>1. old \in SUBSET Threads
    BY <1>1
  <2>2. IsFiniteSet(old)
    BY <2>1, HeapHelpAssumption, FS_Subset
  <2>3. QED
    BY <2>2, FS_CardinalityType
<1>6. /\ Cardinality(old \cup {t}) = IF t \in old THEN Cardinality(old) ELSE Cardinality(old) + 1
      /\ IsFiniteSet(old \ {t}) /\ Cardinality(old \ {t}) =
           IF t \in old THEN Cardinality(old) - 1 ELSE Cardinality(old)
  BY <1>5, FS_AddElement, FS_RemoveElement
<1>7. t \in old => Cardinality(old) >= 1
  <2>1. Cardinality(old \ {t}) \in Nat
    BY <1>6, FS_CardinalityType
  <2>2. QED
    BY <1>5, <1>6, <2>1
<1>8. Cardinality(new) = Cardinality(old) + (IF Pending(thread'[t], a) THEN 1 ELSE 0)
                                          - (IF Pending(thread[t], a) THEN 1 ELSE 0)
  BY <1>3, <1>4, <1>5, <1>6
<1>9. QED
  BY <1>4, <1>5, <1>7, <1>8 DEF old, new

(* A block in the hands of the program was not left behind.               *)
LEMMA HandsOrBehind ==
  ASSUME Ownership, NEW a \in Addrs, a \in owned
  PROVE  ~LeftBehind(a)
BY DEF Ownership, OwnedAt, LeftBehind

(* Blocks that are left behind stay so while thread t keeps its result.   *)
LEMMA LeftBehindKept ==
  ASSUME Shapes, NEW t \in Threads, OthersStay(t), NEW a \in Addrs,
         heap'[a].internal <=> heap[a].internal,
         heap[a].internal => (thread'[t].res = a <=> thread[t].res = a)
  PROVE  LeftBehind(a)' <=> LeftBehind(a)
<1>1. \A u \in Threads \ {t} : thread'[u].res = a <=> thread[u].res = a
  BY OthersHold
<1>2. QED
  BY <1>1 DEF LeftBehind

(* The cases in which the balance stays: nothing happens, or what the      *)
(* program has in its hands becomes the argument of a call, or the other   *)
(* way round.                                                              *)
LEMMA BalanceKept ==
  ASSUME Shapes, NEW t \in Threads, OthersStay(t), NEW a \in Addrs,
         LeftBehind(a)' <=> LeftBehind(a),
         InHands(a) => ~LeftBehind(a), InHands(a)' => ~LeftBehind(a),
         \/ /\ Pending(thread'[t], a) <=> Pending(thread[t], a)
            /\ InHands(a)' <=> InHands(a)
         \/ /\ Pending(thread'[t], a) /\ ~Pending(thread[t], a)
            /\ ~InHands(a)' /\ InHands(a)
         \/ /\ ~Pending(thread'[t], a) /\ Pending(thread[t], a)
            /\ InHands(a)' /\ ~InHands(a)
  PROVE  Balance(a)' = Balance(a)
<1> DEFINE n == Cardinality(ToUnlink(a))
           m == Cardinality(ToUnlink(a)')
<1>1. n \in Nat /\ m = n + (IF Pending(thread'[t], a) THEN 1 ELSE 0)
                         - (IF Pending(thread[t], a) THEN 1 ELSE 0)
  BY ToUnlinkCount
<1>2. /\ Balance(a) = n + (IF InHands(a) \/ LeftBehind(a) THEN 1 ELSE 0)
      /\ Balance(a)' = m + (IF InHands(a)' \/ LeftBehind(a)' THEN 1 ELSE 0)
  BY DEF Balance
<1> HIDE DEF n, m
<1>3. QED
  BY <1>1, <1>2

(* What does not change: the balance of all addresses, and which blocks    *)
(* are left behind.                                                        *)
Steady == \A a \in Addrs : Balance(a)' = Balance(a) /\ (LeftBehind(a)' <=> LeftBehind(a))

(* A call goes on without a record being due or no longer due.            *)
LEMMA PlacedSteady ==
  ASSUME Shapes, Ownership, NEW t \in Threads, NEW pc, NEW depth, Placed(t, pc, depth),
         UNCHANGED heap,
         \A a \in Addrs : Pending(thread'[t], a) <=> Pending(thread[t], a)
  PROVE  Steady
<1> SUFFICES ASSUME NEW a \in Addrs
             PROVE  Balance(a)' = Balance(a) /\ (LeftBehind(a)' <=> LeftBehind(a))
  BY DEF Steady
<1>1. OthersStay(t) /\ thread'[t].res = thread[t].res /\ owned' = owned
  BY DEF Placed
<1>2. LeftBehind(a)' <=> LeftBehind(a)
  BY <1>1, LeftBehindKept
<1>3. InHands(a)' <=> InHands(a)
  BY <1>1 DEF InHands
<1>4. InHands(a) => ~LeftBehind(a)
  BY HandsOrBehind DEF InHands
<1>5. QED
  BY <1>1, <1>2, <1>3, <1>4, BalanceKept

(* A call comes to its end without a block for the program.               *)
LEMMA ReturnedSteady ==
  ASSUME Shapes, Ownership, NEW t \in Threads, Returned(t, NULL), thread[t].res = NULL,
         \A a \in Addrs : ~Pending(thread[t], a),
         \A a \in Addrs : heap'[a] = heap[a] \/
           (a \notin owned /\ ~heap[a].internal /\ ~heap'[a].internal)
  PROVE  Steady
<1> SUFFICES ASSUME NEW a \in Addrs
             PROVE  Balance(a)' = Balance(a) /\ (LeftBehind(a)' <=> LeftBehind(a))
  BY DEF Steady
<1>1. OthersStay(t) /\ thread'[t] = Idle /\ owned' = owned /\ NULL \notin Addrs
  BY HeapHelpAssumption DEF Returned
<1>2. LeftBehind(a)' <=> LeftBehind(a)
  BY <1>1, IdleShape, LeftBehindKept
<1>3. InHands(a)' <=> InHands(a)
  BY <1>1 DEF InHands
<1>4. InHands(a) => ~LeftBehind(a)
  BY HandsOrBehind DEF InHands
<1>5. ~Pending(thread'[t], a)
  BY <1>1, IdleShape DEF Pending
<1>6. QED
  BY <1>1, <1>2, <1>3, <1>4, <1>5, BalanceKept
-----------------------------------------------------------------------------
(* Steps that keep the balance.                                            *)

(* The record of a block goes with it into the call. *)
LEMMA CallSteady ==
  ASSUME HeapTypeOK, Shapes, Ownership, NEW t \in Threads, NEW call \in Calls,
         NEW ptr \in owned \cup {NULL} \cup 0..(STATIC_SIZE - 1), Call(t, call, ptr)
  PROVE  Steady
<1> SUFFICES ASSUME NEW a \in Addrs
             PROVE  Balance(a)' = Balance(a) /\ (LeftBehind(a)' <=> LeftBehind(a))
  BY DEF Steady
<1>1. /\ OthersStay(t)
      /\ thread'[t].pc \in {"touch", "enter"}
      /\ thread'[t].ptr = ptr /\ thread'[t].res = NULL
      /\ thread'[t].forgotten <=> ptr \in owned /\ heap[ptr].forgotten
      /\ thread[t].pc = "idle"
      /\ owned' = owned \ {ptr} /\ UNCHANGED heap
  BY CallForm
<1>2. /\ thread[t].ptr = NULL /\ thread[t].res = NULL /\ NULL \notin Addrs
      /\ ptr \in Addrs => ptr \in owned
  <2>1. \A n \in 0..(STATIC_SIZE - 1) : n \in Nat
    OBVIOUS
  <2>2. QED
    BY <1>1, <2>1, HeapHelpAssumption DEF Shapes, Shape
<1>3. LeftBehind(a)' <=> LeftBehind(a)
  BY <1>1, <1>2, LeftBehindKept
<1>4. ~Pending(thread[t], a)
  BY <1>2 DEF Pending
<1>5. Pending(thread'[t], a) <=> ptr = a /\ InHands(a)
  BY <1>1, <1>2 DEF Pending, InHands
<1>6. InHands(a)' <=> InHands(a) /\ ptr # a
  BY <1>1 DEF InHands
<1>7. InHands(a) => ~LeftBehind(a)
  BY HandsOrBehind DEF InHands
<1>8. QED
  BY <1>1, <1>3, <1>4, <1>5, <1>6, <1>7, BalanceKept

(* Initialisation leaves the records alone.                               *)
LEMMA InitSteady ==
  ASSUME HeapTypeOK, Shapes, Ownership, NEW t \in Threads,
         InitStart(t) \/ InitAllocates(t) \/ InitEnd(t)
  PROVE  Steady /\ OthersStay(t) /\ thread'[t].pc \in {"dlsym", "enter"}
<1>1. CASE InitAllocates(t)
  <2>1. UNCHANGED <<heap, owned, thread>> /\ thread[t].pc = "dlsym"
    BY <1>1 DEF InitAllocates, At
  <2>2. OthersStay(t)
    BY <2>1 DEF OthersStay
  <2>3. Placed(t, thread[t].pc, thread[t].depth)
    BY <2>1, <2>2 DEF Placed
  <2>4. QED
    BY <2>1, <2>2, <2>3, PlacedSteady
<1>2. CASE InitStart(t) \/ InitEnd(t)
  <2>1. PICK pc \in {"dlsym", "enter"} : Goto(t, pc)
    BY <1>2 DEF InitStart, InitEnd
  <2>2. /\ thread[t].pc \in {"touch", "dlsym"} /\ UNCHANGED <<heap, owned>>
    BY <1>2 DEF InitStart, InitEnd, At
  <2>3. Placed(t, pc, thread[t].depth)
    BY <2>1, <2>2, GotoPlaced
  <2>4. \A a \in Addrs : Pending(thread'[t], a) <=> Pending(thread[t], a)
    BY <2>1, <2>2, <2>3 DEF Placed, Pending
  <2>5. QED
    BY <2>2, <2>3, <2>4, PlacedSteady DEF Placed
<1>3. QED
  BY <1>1, <1>2

(* A new block has no record yet. *)
LEMMA AllocateSteady ==
  ASSUME HeapTypeOK, Shapes, Ownership, NEW t \in Threads, Allocate(t)
  PROVE  Steady /\ OthersStay(t) /\ thread'[t].pc \in {"idle", "trace"}
<1>1. /\ thread[t].pc = "enter" /\ Shape(thread[t]) /\ NULL \notin Addrs
      /\ thread[t].ptr \notin Addrs /\ thread[t].res = NULL
  BY AllocateForm, HeapHelpAssumption DEF Shapes, Shape
<1>2. \A a \in Addrs : ~Pending(thread[t], a)
  BY <1>1 DEF Pending
<1>3. CASE Returned(t, NULL) /\ UNCHANGED heap
  BY <1>1, <1>2, <1>3, ReturnedSteady, IdleType DEF Returned
<1>4. ASSUME NEW b \in Free, Allocated(t, b)
      PROVE  Steady /\ OthersStay(t) /\ thread'[t].pc = "trace"
  <2>1. ASSUME NEW a \in Addrs
        PROVE  Balance(a)' = Balance(a) /\ (LeftBehind(a)' <=> LeftBehind(a))
    <3>1. /\ OthersStay(t) /\ owned' = owned /\ thread'[t].ptr = NULL /\ thread'[t].res = b
          /\ b \in Addrs /\ ~heap[b].live
      BY <1>4 DEF Allocated, Free
    <3>2. ~Pending(thread'[t], a)
      BY <1>1, <3>1 DEF Pending
    <3>3. CASE a = b
      <4>1. a \notin owned /\ ~heap[a].internal
        BY <3>1, <3>3 DEF Ownership, OwnedAt
      <4>2. ~InHands(a) /\ ~InHands(a)' /\ ~LeftBehind(a) /\ ~LeftBehind(a)'
        BY <3>1, <3>3, <4>1 DEF InHands, LeftBehind
      <4>3. QED
        BY <1>2, <3>1, <3>2, <4>2, BalanceKept
    <3>4. CASE a # b
      <4>1. heap'[a] = heap[a]
        BY <1>4, <3>4 DEF Allocated
      <4>2. LeftBehind(a)' <=> LeftBehind(a)
        BY <1>1, <3>1, <3>4, <4>1, LeftBehindKept
      <4>3. InHands(a)' <=> InHands(a)
        BY <3>1, <4>1 DEF InHands
      <4>4. InHands(a) => ~LeftBehind(a)
        BY HandsOrBehind DEF InHands
      <4>5. QED
        BY <1>2, <3>1, <3>2, <4>2, <4>3, <4>4, BalanceKept
    <3>5. QED
      BY <3>3, <3>4
  <2>2. QED
    BY <1>4, <2>1 DEF Steady, Allocated
<1>5. QED
  BY <1>3, <1>4, AllocateForm, IdleType DEF Returned

(* The record of a block that default_realloc has freed or moved is still  *)
(* to be taken away; that of a block that stays goes back with it.        *)
LEMMA ResizeSteady ==
  ASSUME HeapTypeOK, Shapes, Ownership, NEW t \in Threads, Resize(t)
  PROVE  Steady /\ OthersStay(t) /\ thread'[t].pc \in {"idle", "untrace"}
<1> DEFINE ptr == thread[t].ptr
<1>1. /\ thread[t].pc = "enter" /\ thread[t].call \in {"realloc", "getline"} /\ ptr \in Addrs
      /\ Shape(thread[t]) /\ heap \in [Addrs -> Blocks] /\ NULL \notin Addrs
      /\ thread[t].res = NULL
  BY ResizeForm, HeapHelpAssumption DEF Shapes, Shape, HeapTypeOK
<1>2. Holds(thread[t], ptr)
  BY <1>1 DEF Holds
<1>3. /\ ptr \notin owned /\ ~heap[ptr].internal
      /\ heap[ptr].forgotten <=> thread[t].forgotten
  BY <1>1, <1>2 DEF Ownership, OwnedAt
<1>4. \A a \in Addrs : Pending(thread[t], a) <=> a = ptr /\ ~thread[t].forgotten
  BY <1>1 DEF Pending
<1>5. CASE Returned(t, ptr) /\ UNCHANGED heap
  <2>1. /\ OthersStay(t) /\ thread'[t] = Idle /\ owned' = owned \cup {ptr}
        /\ thread'[t].pc = "idle"
    BY <1>1, <1>5, IdleType DEF Returned
  <2>2. ASSUME NEW a \in Addrs
        PROVE  Balance(a)' = Balance(a) /\ (LeftBehind(a)' <=> LeftBehind(a))
    <3>1. LeftBehind(a)' <=> LeftBehind(a)
      BY <1>1, <1>5, <2>1, IdleShape, LeftBehindKept
    <3>2. InHands(a)' <=> InHands(a) \/ (a = ptr /\ ~thread[t].forgotten)
      BY <1>3, <1>5, <2>1 DEF InHands
    <3>3. ~Pending(thread'[t], a)
      BY <2>1, IdleShape DEF Pending
    <3>4. a = ptr => ~InHands(a) /\ ~LeftBehind(a)
      BY <1>3 DEF InHands, LeftBehind
    <3>5. InHands(a) => ~LeftBehind(a)
      BY HandsOrBehind DEF InHands
    <3>6. QED
      BY <1>4, <2>1, <3>1, <3>2, <3>3, <3>4, <3>5, BalanceKept
  <2>3. QED
    BY <2>1, <2>2 DEF Steady
<1>6. ASSUME NEW res \in Addrs \cup {NULL}, Resized(t, res),
             res \in Addrs \ {ptr} => ~heap[res].live /\ ~heap'[res].internal,
             ~heap'[ptr].internal,
             \A b \in Addrs \ {ptr, res} : heap'[b] = heap[b]
      PROVE  Steady /\ OthersStay(t) /\ thread'[t].pc = "untrace"
  <2>1. /\ OthersStay(t) /\ owned' = owned /\ thread'[t].pc = "untrace" /\ thread'[t].ptr = ptr
        /\ thread'[t].forgotten = thread[t].forgotten /\ thread'[t].res = res
        /\ thread'[t].depth = 2 => thread'[t].call = "getline"
    BY <1>1, <1>6 DEF Resized
  <2>2. ASSUME NEW a \in Addrs
        PROVE  Balance(a)' = Balance(a) /\ (LeftBehind(a)' <=> LeftBehind(a))
    <3>1. Pending(thread'[t], a) <=> Pending(thread[t], a)
      BY <1>4, <2>1 DEF Pending
    <3>2. CASE a \in {ptr, res}
      <4>1. a \notin owned /\ ~heap[a].internal /\ ~heap'[a].internal
        BY <1>3, <1>6, <3>2 DEF Ownership, OwnedAt
      <4>2. ~InHands(a) /\ ~InHands(a)' /\ ~LeftBehind(a) /\ ~LeftBehind(a)'
        BY <2>1, <4>1 DEF InHands, LeftBehind
      <4>3. QED
        BY <2>1, <3>1, <4>2, BalanceKept
    <3>3. CASE a \notin {ptr, res}
      <4>1. heap'[a] = heap[a]
        BY <1>6, <3>3
      <4>2. LeftBehind(a)' <=> LeftBehind(a)
        BY <1>1, <2>1, <3>3, <4>1, LeftBehindKept
      <4>3. InHands(a)' <=> InHands(a)
        BY <2>1, <4>1 DEF InHands
      <4>4. InHands(a) => ~LeftBehind(a)
        BY HandsOrBehind DEF InHands
      <4>5. QED
        BY <2>1, <3>1, <4>2, <4>3, <4>4, BalanceKept
    <3>4. QED
      BY <3>2, <3>3
  <2>3. QED
    BY <2>1, <2>2 DEF Steady
<1>7. ASSUME NEW a \in Free, Resized(t, a),
             heap' = [heap EXCEPT ![ptr] = NoBlock, ![a] = [heap[ptr] EXCEPT !.forgotten = FALSE]]
      PROVE  Steady /\ OthersStay(t) /\ thread'[t].pc = "untrace"
  <2> DEFINE block == [heap[ptr] EXCEPT !.forgotten = FALSE]
  <2>1. a \in Addrs /\ a # ptr /\ ~heap[a].live
    BY <1>1, <1>2 DEF Free, Ownership, OwnedAt
  <2>2. ~block.internal
    BY <1>1, <1>3 DEF Blocks
  <2>3. heap' = [heap EXCEPT ![ptr] = NoBlock, ![a] = block]
    BY <1>7
  <2> HIDE DEF block, ptr
  <2>4. heap'[ptr] = NoBlock /\ heap'[a] = block /\ \A b \in Addrs \ {ptr, a} : heap'[b] = heap[b]
    BY <1>1, <2>1, <2>3
  <2>5. ~heap'[ptr].internal
    BY <2>4 DEF NoBlock
  <2>6. QED
    BY <1>6, <1>7, <2>1, <2>2, <2>4, <2>5
<1>8. CASE Resized(t, NULL) /\ heap' = [heap EXCEPT ![ptr] = NoBlock]
  <2> HIDE DEF ptr
  <2>1. heap'[ptr] = NoBlock /\ \A b \in Addrs \ {ptr} : heap'[b] = heap[b]
    BY <1>1, <1>8
  <2>2. ~heap'[ptr].internal
    BY <2>1 DEF NoBlock
  <2>3. QED
    BY <1>1, <1>6, <1>8, <2>1, <2>2
<1>9. CASE Resized(t, ptr) /\ heap' = [heap EXCEPT ![ptr].forgotten = TRUE]
  <2> DEFINE block == [heap[ptr] EXCEPT !.forgotten = TRUE]
  <2>1. ~block.internal
    BY <1>1, <1>3 DEF Blocks
  <2>2. heap' = [heap EXCEPT ![ptr] = block]
    BY <1>1, <1>9
  <2> HIDE DEF block, ptr
  <2>3. heap'[ptr] = block /\ \A b \in Addrs \ {ptr} : heap'[b] = heap[b]
    BY <1>1, <2>2
  <2>4. QED
    BY <1>1, <1>6, <1>9, <2>1, <2>3
<1>10. QED
  BY <1>5, <1>7, <1>8, <1>9, ResizeForm

(* The record of a block is gone when default_free gets it.               *)
LEMMA ReleaseSteady ==
  ASSUME HeapTypeOK, Shapes, Ownership, NEW t \in Threads, Release(t)
  PROVE  Steady /\ OthersStay(t) /\ thread'[t].pc = "idle"
<1> DEFINE ptr == thread[t].ptr
<1>1. /\ thread[t].pc = "release" /\ ptr \in Addrs /\ Holds(thread[t], ptr)
      /\ heap' = [heap EXCEPT ![ptr] = NoBlock]
      /\ Returned(t, NULL) /\ heap \in [Addrs -> Blocks]
      /\ thread[t].call # "pthread_create"
  BY ReleaseForm DEF HeapTypeOK, Shapes, Shape
<1>2. thread[t].res = NULL /\ ptr \notin owned /\ ~heap[ptr].internal
  BY <1>1 DEF Shapes, Shape, Ownership, OwnedAt
<1>3. \A a \in Addrs : ~Pending(thread[t], a)
  BY <1>1 DEF Pending
<1>4. \A a \in Addrs : heap'[a] = heap[a] \/
           (a \notin owned /\ ~heap[a].internal /\ ~heap'[a].internal)
  <2> SUFFICES ASSUME NEW a \in Addrs
               PROVE  heap'[a] = heap[a] \/
                        (a \notin owned /\ ~heap[a].internal /\ ~heap'[a].internal)
    OBVIOUS
  <2> HIDE DEF ptr
  <2>1. a = ptr => heap'[a] = NoBlock
    BY <1>1
  <2>2. QED
    BY <1>1, <1>2, <2>1 DEF NoBlock
<1>5. QED
  BY <1>1, <1>2, <1>3, <1>4, ReturnedSteady, IdleType DEF Returned
(* alloc_trace_new keeps the balance until it has linked a record.        *)
LEMMA TraceSteady ==
  ASSUME HeapTypeOK, Shapes, Ownership, NEW t \in Threads, Trace(t) \/ Take(t)
  PROVE  /\ ~is_exit_done => Steady
         /\ OthersStay(t)
         /\ is_exit_done => thread'[t].pc \notin {"take", "unlink"}
                              /\ (thread'[t].pc = "record" => thread[t].pc = "take")
<1>1. /\ UNCHANGED heap /\ Shape(thread[t]) /\ thread[t].pc \in {"trace", "take"}
      /\ NULL \notin Addrs /\ thread[t].depth \in 1..2
      /\ thread[t].depth = 2 => thread[t].pc = "trace" /\ thread[t].call \in {"malloc", "getline"}
      /\ thread[t].ptr \in Addrs \cup {NULL}
  BY HeapHelpAssumption DEF Trace, Take, NextRecord, At, Shapes, Shape
<1>2. CASE AfterTrace(t) /\ thread[t].pc = "trace" /\ (thread[t].depth > 1 \/ is_exit_done)
  <2>1. CASE thread[t].depth = 1 /\ Returned(t, thread[t].res)
    BY <1>2, <2>1, IdleType DEF Returned
  <2>2. CASE /\ thread[t].depth = 2
             /\ Placed(t, IF thread[t].ptr = NULL THEN "trace" ELSE "untrace", 1)
    <3> DEFINE pc == IF thread[t].ptr = NULL THEN "trace" ELSE "untrace"
    <3>1. \A a \in Addrs : Pending(thread'[t], a) <=> Pending(thread[t], a)
      <4> SUFFICES ASSUME NEW a \in Addrs PROVE Pending(thread'[t], a) <=> Pending(thread[t], a)
        OBVIOUS
      <4>1. CASE thread[t].ptr = NULL
        BY <1>1, <2>2, <4>1 DEF Placed, Pending
      <4>2. CASE thread[t].ptr # NULL
        <5>1. thread'[t].pc = "untrace" /\ thread'[t].depth = 1
          BY <2>2, <4>2 DEF Placed
        <5>2. QED
          BY <1>2, <2>2, <5>1 DEF Placed, Pending
      <4>3. QED
        BY <4>1, <4>2
    <3>2. pc \in {"trace", "untrace"}
      OBVIOUS
    <3> HIDE DEF pc
    <3>3. Placed(t, pc, 1)
      BY <2>2 DEF pc
    <3>4. Steady
      BY <1>1, <3>1, <3>3, PlacedSteady
    <3>5. thread'[t].pc = pc /\ OthersStay(t)
      BY <3>3 DEF Placed
    <3>6. QED
      BY <3>2, <3>4, <3>5
  <2>3. QED
    BY <1>2, <2>1, <2>2, AfterTraceForm
<1>3. ASSUME NEW pc \in {"take", "record"}, Goto(t, pc), UNCHANGED owned, thread[t].depth = 1,
             is_exit_done => pc = "record" /\ thread[t].pc = "take"
      PROVE  /\ Steady /\ OthersStay(t)
             /\ is_exit_done => thread'[t].pc = "record" /\ thread[t].pc = "take"
  <2>1. Placed(t, pc, 1)
    BY <1>3, GotoPlaced
  <2>2. \A a \in Addrs : Pending(thread'[t], a) <=> Pending(thread[t], a)
    BY <1>1, <1>3, <2>1 DEF Placed, Pending
  <2>3. Steady
    BY <1>1, <2>1, <2>2, PlacedSteady
  <2>4. QED
    BY <1>3, <2>1, <2>3 DEF Placed
<1>4. CASE Trace(t)
  <2>1. thread[t].pc = "trace"
    BY <1>4 DEF Trace, At
  <2>2. CASE thread[t].depth > 1 \/ is_exit_done
    BY <1>2, <1>4, <2>1, <2>2 DEF Trace
  <2>3. CASE ~(thread[t].depth > 1 \/ is_exit_done)
    <3>1. Goto(t, "take") /\ UNCHANGED owned /\ thread[t].depth = 1
      BY <1>1, <1>4, <2>3 DEF Trace
    <3>2. QED
      BY <1>3, <2>3, <3>1
  <2>4. QED
    BY <2>2, <2>3
<1>5. CASE Take(t)
  <2>1. thread[t].pc = "take" /\ thread[t].depth = 1 /\ Goto(t, "record") /\ UNCHANGED owned
    BY <1>1, <1>5 DEF Take, NextRecord, At
  <2>2. QED
    BY <1>3, <2>1
<1>6. QED
  BY <1>4, <1>5

(* alloc_free keeps the balance until it has unlinked a record.           *)
LEMMA UntraceSteady ==
  ASSUME HeapTypeOK, Shapes, Ownership, NEW t \in Threads, Untrace(t)
  PROVE  /\ ~is_exit_done => Steady
         /\ OthersStay(t)
         /\ thread'[t].pc \notin {"take", "record"}
         /\ is_exit_done => thread'[t].pc # "unlink"
<1>1. /\ UNCHANGED heap /\ Shape(thread[t])
      /\ thread[t].pc = "untrace" \/ (thread[t].pc = "enter" /\ thread[t].call \in {"free", "freeaddrinfo"})
      /\ thread[t].ptr \in Addrs /\ thread[t].depth \in 1..2
      /\ thread[t].depth = 2 => thread[t].pc = "untrace" /\ thread[t].call \in {"freeaddrinfo", "getline"}
  BY DEF Untrace, BeforeUntrace, At, Shapes, Shape
<1>2. CASE AfterUntrace(t) /\ (thread[t].depth > 1 \/ is_exit_done)
  <2>1. CASE Returned(t, thread[t].res) /\ thread[t].call = "realloc"
    BY <1>1, <1>2, <2>1, IdleType DEF Returned
  <2>2. CASE Placed(t, "untrace", 2) /\ thread[t].depth = 1
    BY <1>2, <2>2 DEF Placed
  <2>3. CASE Placed(t, "trace", thread[t].depth) /\ thread[t].call \in {"realloc", "getline"}
    <3>1. CASE thread[t].depth = 2
      <4>1. \A a \in Addrs : Pending(thread'[t], a) <=> Pending(thread[t], a)
        BY <1>1, <2>3, <3>1 DEF Placed, Pending
      <4>2. Steady
        BY <1>1, <2>3, <4>1, PlacedSteady
      <4>3. QED
        BY <2>3, <4>2 DEF Placed
    <3>2. CASE thread[t].depth = 1
      BY <1>2, <2>3, <3>2 DEF Placed
    <3>3. QED
      BY <1>1, <3>1, <3>2
  <2>4. CASE Placed(t, "release", thread[t].depth) /\ thread[t].call \in {"free", "freeaddrinfo"}
    <3>1. CASE thread[t].depth = 2
      <4>1. \A a \in Addrs : Pending(thread'[t], a) <=> Pending(thread[t], a)
        BY <1>1, <2>4, <3>1 DEF Placed, Pending
      <4>2. Steady
        BY <1>1, <2>4, <4>1, PlacedSteady
      <4>3. QED
        BY <2>4, <4>2 DEF Placed
    <3>2. CASE thread[t].depth = 1
      BY <1>2, <2>4, <3>2 DEF Placed
    <3>3. QED
      BY <1>1, <3>1, <3>2
  <2>5. BeforeUntrace(t)
    BY DEF Untrace
  <2>6. QED
    BY <1>2, <2>1, <2>2, <2>3, <2>4, <2>5, AfterUntraceForm
<1>3. CASE Goto(t, "unlink") /\ UNCHANGED owned /\ ~(thread[t].depth > 1 \/ is_exit_done)
  <2>1. Placed(t, "unlink", 1) /\ thread[t].depth = 1
    BY <1>1, <1>3, GotoPlaced
  <2>2. \A a \in Addrs : Pending(thread'[t], a) <=> Pending(thread[t], a)
    BY <1>1, <2>1 DEF Placed, Pending
  <2>3. Steady
    BY <1>1, <2>1, <2>2, PlacedSteady
  <2>4. QED
    BY <1>3, <2>1, <2>3 DEF Placed
<1>4. QED
  BY <1>2, <1>3 DEF Untrace

-----------------------------------------------------------------------------
(* The invariant about the records.                                        *)

(* The threads at the end of alloc_free, which looks for the record.       *)
Unlinking(a) ==
  {t \in Threads : thread[t].pc = "unlink" /\ thread[t].ptr = a /\ ~thread[t].forgotten}

InternalOf(a) == {[mem |-> a, internal |-> TRUE]}

(* The kinds of the records of each address are right until two kinds meet *)
(* at one of them.                                                         *)
KindsRecorded ==
  ~is_exit_done /\ aborted = NULL /\ ~history.stolen /\ ~history.reused =>
    \A a \in Addrs :
      Cardinality(Where(allocs, InternalOf(a))) = IF LeftBehind(a) THEN 1 ELSE 0

(* Whoever began with alloc_free before exit finds a record.              *)
RecordsLeft ==
  is_exit_done /\ aborted = NULL /\ ~history.stolen =>
    \A a \in Addrs : Cardinality(Unlinking(a)) <= Cardinality(Places(a))

Leaks == {i \in DOMAIN allocs : ~allocs[i].internal}

(* From an exit without a call under way on the list stays as it is, and   *)
(* tells what was in use.                                                  *)
ListAtExit ==
  history.at_exit # NULL =>
    /\ is_exit_done
    /\ \A t \in Threads : thread[t].pc \notin {"take", "record", "unlink"}
    /\ ~history.stolen =>
         LET used == history.at_exit IN
         /\ used = [leaks |-> used.leaks, suppressed |-> used.suppressed]
         /\ used.leaks \in Nat /\ used.suppressed \in Nat
         /\ Len(allocs) = used.leaks + used.suppressed
         /\ ~history.reused => Cardinality(Leaks) = used.leaks

HistoryTyped ==
  /\ history = [reused |-> history.reused, stolen |-> history.stolen,
                at_exit |-> history.at_exit]
  /\ history.reused \in BOOLEAN /\ history.stolen \in BOOLEAN

(* The report is the last thing that main_thread does. *)
ReportLast == report # NULL => thread[main_thread].pc = "ended"

Books ==
  /\ HistoryTyped
  /\ BlocksRecorded
  /\ KindsRecorded
  /\ RecordsLeft
  /\ ListAtExit
  /\ ReportLast
  /\ ReportExact
  /\ AbortsExplained

(* BlocksRecorded in terms of the balance.                                *)
LEMMA BlocksRecordedDef ==
  BlocksRecorded <=>
    (~is_exit_done /\ aborted = NULL /\ ~history.stolen =>
       \A a \in Addrs : Cardinality(Places(a)) = Balance(a))
BY DEF BlocksRecorded, Balance, InHands, LeftBehind

OfAddress(a) == [mem : {a}, internal : BOOLEAN]

Entries == [mem : Addrs, internal : BOOLEAN]

(* The records of an address are those that are equal to one of two.      *)
LEMMA OfAddressWhere ==
  ASSUME NEW s \in Seq(Entries), NEW a
  PROVE  {i \in DOMAIN s : s[i].mem = a} = Where(s, OfAddress(a))
<1>1. \A i \in DOMAIN s : s[i] \in Entries
  OBVIOUS
<1>2. \A i \in DOMAIN s : s[i] \in OfAddress(a) <=> s[i].mem = a
  BY <1>1 DEF OfAddress, Entries
<1>3. QED
  BY <1>2 DEF Where

(* The places of an address are finitely many. *)
LEMMA PlacesWhere ==
  ASSUME HeapTypeOK, NEW a \in Addrs
  PROVE  /\ Places(a) = Where(allocs, OfAddress(a))
         /\ IsFiniteSet(Places(a)) /\ Cardinality(Places(a)) \in Nat
         /\ allocs \in Seq(Entries)
<1>1. allocs \in Seq(Entries)
  BY DEF HeapTypeOK, Entries
<1>2. Places(a) = Where(allocs, OfAddress(a))
  BY <1>1, OfAddressWhere DEF Places
<1>3. QED
  BY <1>1, <1>2, WhereFinite

(* main_thread does nothing after its end. *)
LEMMA ReportLastKept ==
  ASSUME ReportLast, NEW t \in Threads, OthersStay(t), thread[t].pc # "ended", UNCHANGED report
  PROVE  ReportLast'
<1>1. main_thread \in Threads
  BY HeapHelpAssumption
<1>2. QED
  BY <1>1 DEF ReportLast, OthersStay

(* A step that leaves the list alone. *)
LEMMA QuietParts ==
  ASSUME HeapTypeOK, Shapes, Books, NEW t \in Threads, OthersStay(t),
         UNCHANGED <<allocs, is_exit_done, history>>,
         aborted = NULL, aborted' = NULL,
         ~is_exit_done => Steady,
         is_exit_done => thread'[t].pc \notin {"take", "unlink"}
                           /\ (thread'[t].pc = "record" => thread[t].pc = "take")
  PROVE  /\ BlocksRecorded' /\ KindsRecorded' /\ RecordsLeft' /\ ListAtExit' /\ AbortsExplained'
         /\ HistoryTyped'
<1>1. BlocksRecorded'
  <2>1. Steady => \A a \in Addrs : Balance(a)' = Balance(a) /\ Places(a)' = Places(a)
    BY DEF Steady, Places
  <2>2. ~is_exit_done /\ ~history.stolen => \A a \in Addrs : Cardinality(Places(a))' = Balance(a)'
    BY <2>1, BlocksRecordedDef DEF Books
  <2>3. QED
    BY <2>2 DEF BlocksRecorded, Balance, InHands, LeftBehind
<1>2. KindsRecorded'
  BY DEF Books, KindsRecorded, Steady
<1>3. ListAtExit'
  <2>1. \A u \in Threads : thread'[u].pc \in {"take", "record", "unlink"} =>
          ~is_exit_done \/ thread[u].pc \in {"take", "record", "unlink"}
    BY IdleType DEF OthersStay
  <2>2. Leaks' = Leaks
    BY DEF Leaks
  <2>3. QED
    BY <2>1, <2>2 DEF Books, ListAtExit
<1>4. RecordsLeft'
  <2> SUFFICES ASSUME is_exit_done, ~history.stolen, NEW a \in Addrs
               PROVE  Cardinality(Unlinking(a)') <= Cardinality(Places(a)')
    BY DEF RecordsLeft
  <2>1. Unlinking(a)' \subseteq Unlinking(a)
    BY IdleType DEF Unlinking, OthersStay
  <2>2. IsFiniteSet(Unlinking(a)) /\ Cardinality(Unlinking(a)) \in Nat
    <3>1. Unlinking(a) \in SUBSET Threads
      BY DEF Unlinking
    <3>2. QED
      BY <3>1, HeapHelpAssumption, FS_Subset, FS_CardinalityType
  <2>3. IsFiniteSet(Unlinking(a)') /\ Cardinality(Unlinking(a)') <= Cardinality(Unlinking(a))
    BY <2>1, <2>2, FS_Subset
  <2>4. Cardinality(Unlinking(a)') \in Nat
    BY <2>3, FS_CardinalityType
  <2>5. Places(a)' = Places(a)
    BY DEF Places
  <2>6. Cardinality(Unlinking(a)) <= Cardinality(Places(a))
    BY DEF Books, RecordsLeft
  <2>7. Cardinality(Places(a)) \in Nat
    BY PlacesWhere
  <2>8. QED
    BY <2>2, <2>3, <2>4, <2>5, <2>6, <2>7
<1>5. AbortsExplained'
  BY AbortAssumption DEF AbortsExplained
<1>6. QED
  BY <1>1, <1>2, <1>3, <1>4, <1>5 DEF Books, HistoryTyped

(* It does not touch the report, either. *)
LEMMA QuietBooks ==
  ASSUME HeapTypeOK, Shapes, Books, NEW t \in Threads, OthersStay(t),
         UNCHANGED <<allocs, is_exit_done, history, report>>,
         aborted = NULL, aborted' = NULL, thread[t].pc # "ended",
         ~is_exit_done => Steady,
         is_exit_done => thread'[t].pc \notin {"take", "unlink"}
                           /\ (thread'[t].pc = "record" => thread[t].pc = "take")
  PROVE  Books'
<1>1. /\ BlocksRecorded' /\ KindsRecorded' /\ RecordsLeft' /\ ListAtExit' /\ AbortsExplained'
      /\ HistoryTyped'
  BY QuietParts
<1>2. ReportLast' /\ ReportExact'
  BY ReportLastKept DEF Books, ReportExact
<1>3. QED
  BY <1>1, <1>2 DEF Books
-----------------------------------------------------------------------------
(* The steps that change the list, and the end.                            *)

(* Fewer threads are on their way to a record.                            *)
LEMMA UnlinkingCount ==
  ASSUME NEW t \in Threads, OthersStay(t), thread'[t].pc # "unlink", NEW a
  PROVE  /\ Unlinking(a)' = Unlinking(a) \ {t}
         /\ IsFiniteSet(Unlinking(a)) /\ Cardinality(Unlinking(a)) \in Nat
         /\ Cardinality(Unlinking(a)') =
              Cardinality(Unlinking(a)) - (IF t \in Unlinking(a) THEN 1 ELSE 0)
         /\ t \in Unlinking(a) => Cardinality(Unlinking(a)) >= 1
<1>1. Unlinking(a)' = Unlinking(a) \ {t}
  BY IdleType DEF OthersStay, Unlinking
<1>2. IsFiniteSet(Unlinking(a))
  <2>1. Unlinking(a) \in SUBSET Threads
    BY DEF Unlinking
  <2>2. QED
    BY <2>1, HeapHelpAssumption, FS_Subset
<1>3. Cardinality(Unlinking(a)) \in Nat
  BY <1>2, FS_CardinalityType
<1>4. /\ IsFiniteSet(Unlinking(a) \ {t})
      /\ Cardinality(Unlinking(a) \ {t}) =
           IF t \in Unlinking(a) THEN Cardinality(Unlinking(a)) - 1 ELSE Cardinality(Unlinking(a))
  BY <1>2, FS_RemoveElement
<1>5. Cardinality(Unlinking(a) \ {t}) \in Nat
  BY <1>4, FS_CardinalityType
<1>6. QED
  BY <1>1, <1>2, <1>3, <1>4, <1>5

(* The record is linked at the moment in which the block becomes one of    *)
(* the program, or is left behind.                                         *)
LEMMA RecordBooks ==
  ASSUME HeapTypeOK, Shapes, Ownership, Books, NEW t \in Threads, Record(t)
  PROVE  Books'
<1> DEFINE res == thread[t].res
           internal == trace_is_internal(thread[t].call)
           entry == [mem |-> res, internal |-> internal]
<1>1. /\ thread[t].pc = "record" /\ res \in Addrs /\ thread[t].depth = 1
      /\ thread[t].ptr # res
      /\ aborted = NULL /\ aborted' = NULL
      /\ AfterTrace(t)
      /\ UNCHANGED <<heap, is_exit_done, history, report>>
      /\ NULL \notin Addrs
  <2>1. thread[t].pc = "record" /\ aborted = NULL /\ Shape(thread[t]) /\ NULL \notin Addrs
    BY HeapHelpAssumption DEF Record, At, Shapes
  <2>2. /\ aborted' = NULL /\ AfterTrace(t)
        /\ UNCHANGED <<heap, is_exit_done, history, report>>
    BY <2>1 DEF Record
  <2>3. res \in Addrs /\ thread[t].depth = 1 /\ thread[t].ptr # res
    BY <2>1 DEF Shape
  <2>4. QED
    BY <2>1, <2>2, <2>3
<1>2. Returned(t, res)
  BY <1>1, AfterTraceForm
<1>3. /\ OthersStay(t) /\ thread'[t] = Idle /\ thread'[t].pc = "idle"
      /\ owned' = IF thread[t].call = "pthread_create" THEN owned ELSE owned \cup {res}
  BY <1>1, <1>2, IdleType DEF Returned
<1>4. internal <=> thread[t].call = "pthread_create"
  BY DEF trace_is_internal
<1>5. /\ entry \in Entries /\ allocs \in Seq(Entries) /\ allocs' = <<entry>> \o allocs
      /\ \A a : entry \in OfAddress(a) <=> a = res
      /\ \A a : entry \in InternalOf(a) <=> a = res /\ internal
  <2>1. entry.mem = res /\ entry.internal = internal /\ internal \in BOOLEAN
    BY DEF trace_is_internal
  <2>2. entry \in Entries /\ allocs \in Seq(Entries) /\ allocs' = <<entry>> \o allocs
    BY <1>1, <2>1 DEF Record, HeapTypeOK, Entries
  <2>3. \A a : entry \in OfAddress(a) <=> a = res
    BY <2>1 DEF OfAddress
  <2>4. \A a : entry \in InternalOf(a) <=> a = res /\ internal
    BY <2>1 DEF InternalOf
  <2>5. QED
    BY <2>2, <2>3, <2>4
<1> HIDE DEF entry
<1>6. \A S : Cardinality(Where(allocs', S)) =
               Cardinality(Where(allocs, S)) + (IF entry \in S THEN 1 ELSE 0)
  BY <1>5, CountInFront
<1>7. ASSUME NEW a \in Addrs
      PROVE  /\ Cardinality(Places(a)') = Cardinality(Places(a)) + (IF a = res THEN 1 ELSE 0)
             /\ Cardinality(Places(a)) \in Nat
  <2>1. allocs' \in Seq(Entries)
    BY <1>5
  <2>2. Places(a)' = Where(allocs', OfAddress(a))
    BY <2>1, OfAddressWhere DEF Places
  <2>3. Places(a) = Where(allocs, OfAddress(a)) /\ Cardinality(Places(a)) \in Nat
    BY PlacesWhere
  <2>4. QED
    BY <1>5, <1>6, <2>2, <2>3
<1>8. ASSUME NEW a \in Addrs
      PROVE  /\ LeftBehind(a)' <=> LeftBehind(a) \/ (a = res /\ internal)
             /\ Balance(a)' = Balance(a) + (IF a = res THEN 1 ELSE 0)
             /\ a = res => ~LeftBehind(a)
  <2>1. LeftBehind(a)' <=> LeftBehind(a) \/ (a = res /\ internal)
    <3>1. CASE a = res
      <4>1. Holds(thread[t], a)
        BY <3>1 DEF Holds
      <4>2. heap[a].internal <=> internal
        BY <1>4, <4>1 DEF Ownership, OwnedAt
      <4>3. \A u \in Threads : thread'[u].res # a
        <5>1. \A u \in Threads \ {t} : ~Holds(thread[u], a)
          BY <4>1 DEF Ownership, OwnedAt
        <5>2. \A u \in Threads \ {t} : thread[u].res # a
          BY <5>1 DEF Holds
        <5>3. \A u \in Threads \ {t} : thread'[u].res = a <=> thread[u].res = a
          BY <1>3, OthersHold
        <5>4. QED
          BY <1>3, <5>2, <5>3, IdleShape
      <4>4. ~LeftBehind(a)
        BY <3>1 DEF LeftBehind
      <4>5. QED
        BY <1>1, <3>1, <4>2, <4>3, <4>4 DEF LeftBehind
    <3>2. CASE a # res
      BY <1>1, <1>3, <3>2, IdleShape, LeftBehindKept
    <3>3. QED
      BY <3>1, <3>2
  <2>2. InHands(a)' <=> InHands(a) \/ (a = res /\ ~internal)
    <3>1. CASE a = res
      <4>1. Holds(thread[t], a)
        BY <3>1 DEF Holds
      <4>2. ~heap[a].forgotten
        BY <1>1, <3>1, <4>1 DEF Ownership, OwnedAt
      <4>3. QED
        BY <1>1, <1>3, <1>4, <3>1, <4>2 DEF InHands
    <3>2. CASE a # res
      BY <1>1, <1>3, <3>2 DEF InHands
    <3>3. QED
      BY <3>1, <3>2
  <2>3. a = res => ~InHands(a) /\ ~LeftBehind(a)
    BY DEF InHands, LeftBehind, Ownership, OwnedAt, Holds
  <2>4. ~Pending(thread[t], a) /\ ~Pending(thread'[t], a)
    BY <1>1, <1>3, IdleShape DEF Pending
  <2>5. /\ Cardinality(ToUnlink(a)) \in Nat
        /\ Cardinality(ToUnlink(a)') = Cardinality(ToUnlink(a))
    BY <1>3, <2>4, ToUnlinkCount
  <2> DEFINE n == Cardinality(ToUnlink(a))
             m == Cardinality(ToUnlink(a)')
  <2>6. /\ Balance(a) = n + (IF InHands(a) \/ LeftBehind(a) THEN 1 ELSE 0)
        /\ Balance(a)' = m + (IF InHands(a)' \/ LeftBehind(a)' THEN 1 ELSE 0)
        /\ n \in Nat /\ m = n
    BY <2>5 DEF Balance
  <2> HIDE DEF n, m
  <2>7. InHands(a)' \/ LeftBehind(a)' <=> InHands(a) \/ LeftBehind(a) \/ a = res
    BY <2>1, <2>2
  <2>8. Balance(a)' = Balance(a) + (IF a = res THEN 1 ELSE 0)
    <3> DEFINE b1 == InHands(a) \/ LeftBehind(a)
               b2 == InHands(a)' \/ LeftBehind(a)'
    <3>1. /\ b2 <=> b1 \/ a = res
          /\ a = res => ~b1
          /\ Balance(a) = n + (IF b1 THEN 1 ELSE 0)
          /\ Balance(a)' = m + (IF b2 THEN 1 ELSE 0)
      BY <2>3, <2>6, <2>7
    <3> HIDE DEF b1, b2
    <3>2. QED
      BY <2>6, <3>1
  <2>9. QED
    BY <2>1, <2>3, <2>8
<1>9. BlocksRecorded'
  <2>1. ~is_exit_done /\ ~history.stolen =>
          \A a \in Addrs : Cardinality(Places(a)') = Balance(a)'
    BY <1>1, <1>7, <1>8, BlocksRecordedDef DEF Books
  <2>2. QED
    BY <1>1, <2>1 DEF BlocksRecorded, Balance, InHands, LeftBehind
<1>10. KindsRecorded'
  <2> SUFFICES ASSUME ~is_exit_done, ~history.stolen, ~history.reused, NEW a \in Addrs
               PROVE  Cardinality(Where(allocs', InternalOf(a))) = IF LeftBehind(a)' THEN 1 ELSE 0
    BY <1>1 DEF KindsRecorded
  <2>1. Cardinality(Where(allocs, InternalOf(a))) = IF LeftBehind(a) THEN 1 ELSE 0
    BY <1>1 DEF Books, KindsRecorded
  <2>2. Cardinality(Where(allocs', InternalOf(a))) =
          Cardinality(Where(allocs, InternalOf(a))) + (IF a = res /\ internal THEN 1 ELSE 0)
    BY <1>5, <1>6
  <2>3. QED
    BY <1>8, <2>1, <2>2
<1>11. RecordsLeft'
  <2> SUFFICES ASSUME is_exit_done, ~history.stolen, NEW a \in Addrs
               PROVE  Cardinality(Unlinking(a)') <= Cardinality(Places(a)')
    BY <1>1 DEF RecordsLeft
  <2>1. Cardinality(Unlinking(a)) <= Cardinality(Places(a))
    BY <1>1 DEF Books, RecordsLeft
  <2>2. /\ Cardinality(Unlinking(a)) \in Nat
        /\ Cardinality(Unlinking(a)') =
             Cardinality(Unlinking(a)) - (IF t \in Unlinking(a) THEN 1 ELSE 0)
    BY <1>3, UnlinkingCount
  <2>3. QED
    BY <1>7, <2>1, <2>2
<1>12. history'.at_exit = NULL
  BY <1>1 DEF Books, ListAtExit
<1>13. AbortsExplained'
  BY <1>1, AbortAssumption DEF AbortsExplained
<1>14. HistoryTyped' /\ ReportLast'
  BY <1>1, <1>3, ReportLastKept DEF Books, HistoryTyped
<1>15. ListAtExit' /\ ReportExact'
  BY <1>12 DEF ListAtExit, ReportExact
<1>16. QED
  BY <1>9, <1>10, <1>11, <1>13, <1>14, <1>15 DEF Books
(* What the end of alloc_free does to the balance of an address.          *)
LEMMA UnlinkBalance ==
  ASSUME HeapTypeOK, Shapes, Ownership, NEW t \in Threads, Unlink(t), ~thread[t].forgotten,
         NEW a \in Addrs
  PROVE  /\ LeftBehind(a)' <=> LeftBehind(a)
         /\ Balance(a)' = Balance(a) - (IF a = thread[t].ptr THEN 1 ELSE 0)
         /\ a = thread[t].ptr => Balance(a) >= 1 + (IF LeftBehind(a) THEN 1 ELSE 0)
<1> DEFINE ptr == thread[t].ptr
           res == thread[t].res
<1>1. /\ thread[t].pc = "unlink" /\ thread[t].depth = 1 /\ ptr \in Addrs
      /\ UNCHANGED heap /\ AfterUntrace(t) /\ NULL \notin Addrs /\ At(t, "unlink")
  <2>1. /\ thread[t].pc = "unlink" /\ Shape(thread[t]) /\ NULL \notin Addrs
        /\ UNCHANGED heap /\ AfterUntrace(t) /\ At(t, "unlink")
    BY HeapHelpAssumption DEF Unlink, At, Shapes
  <2>2. QED
    BY <2>1 DEF Shape
<1>2. Pending(thread[t], a) <=> a = ptr
  BY <1>1 DEF Pending
<1>3. /\ OthersStay(t) /\ ~Pending(thread'[t], a)
      /\ LeftBehind(a)' <=> LeftBehind(a)
      /\ InHands(a)' <=> InHands(a)
  <2>1. CASE thread[t].call = "realloc" /\ res \in {NULL, ptr} /\ Returned(t, res)
    <3>1. a = res => heap[a].forgotten /\ ~heap[a].internal
      BY <1>1, <2>1 DEF Ownership, OwnedAt, Holds
    <3>2. OthersStay(t) /\ thread'[t] = Idle /\ owned' = owned \cup ({res} \ {NULL})
      BY <2>1 DEF Returned
    <3>3. LeftBehind(a)' <=> LeftBehind(a)
      BY <1>1, <3>1, <3>2, IdleShape, LeftBehindKept
    <3>4. InHands(a)' <=> InHands(a)
      BY <1>1, <3>1, <3>2 DEF InHands
    <3>5. QED
      BY <3>2, <3>3, <3>4, IdleShape DEF Pending
  <2>2. ASSUME NEW pc, NEW depth, Placed(t, pc, depth), pc # "unlink",
               pc = "untrace" => depth = 2 /\ thread[t].call = "freeaddrinfo",
               pc = "trace" => depth = 1, pc \notin {"touch", "dlsym", "enter"}
        PROVE  /\ OthersStay(t) /\ ~Pending(thread'[t], a)
               /\ LeftBehind(a)' <=> LeftBehind(a)
               /\ InHands(a)' <=> InHands(a)
    <3>1. /\ OthersStay(t) /\ thread'[t].pc = pc /\ thread'[t].depth = depth
          /\ thread'[t].call = thread[t].call /\ thread'[t].res = res /\ owned' = owned
      BY <2>2 DEF Placed
    <3>2. LeftBehind(a)' <=> LeftBehind(a)
      BY <1>1, <3>1, LeftBehindKept
    <3>3. QED
      BY <1>1, <2>2, <3>1, <3>2 DEF Pending, InHands
  <2>3. QED
    BY <1>1, <2>1, <2>2, AfterUntraceForm
<1>4. /\ Cardinality(ToUnlink(a)) \in Nat
      /\ Cardinality(ToUnlink(a)') = Cardinality(ToUnlink(a)) - (IF a = ptr THEN 1 ELSE 0)
      /\ a = ptr => Cardinality(ToUnlink(a)) >= 1
  BY <1>2, <1>3, ToUnlinkCount
<1> DEFINE n == Cardinality(ToUnlink(a))
           m == Cardinality(ToUnlink(a)')
<1>5. /\ Balance(a) = n + (IF InHands(a) \/ LeftBehind(a) THEN 1 ELSE 0)
      /\ Balance(a)' = m + (IF InHands(a)' \/ LeftBehind(a)' THEN 1 ELSE 0)
  BY DEF Balance
<1>6. n \in Nat /\ m = n - (IF a = ptr THEN 1 ELSE 0) /\ (a = ptr => n >= 1)
  BY <1>4
<1> HIDE DEF n, m
<1>7. QED
  BY <1>3, <1>5, <1>6

(* The record goes, and with it the duty of thread t to remove it.        *)
LEMMA UnlinkBooks ==
  ASSUME HeapTypeOK, HeapTypeOK', Shapes, Ownership, Books, NEW t \in Threads, Unlink(t)
  PROVE  Books'
<1> DEFINE ptr == thread[t].ptr
<1>1. /\ thread[t].pc = "unlink" /\ ptr \in Addrs /\ At(t, "unlink")
      /\ aborted = NULL /\ aborted' = NULL
      /\ AfterUntrace(t)
      /\ UNCHANGED <<heap, is_exit_done, report>>
      /\ NULL \notin Addrs
  <2>1. thread[t].pc = "unlink" /\ aborted = NULL /\ Shape(thread[t]) /\ NULL \notin Addrs
    BY HeapHelpAssumption DEF Unlink, At, Shapes
  <2>2. /\ aborted' = NULL /\ AfterUntrace(t) /\ At(t, "unlink")
        /\ UNCHANGED <<heap, is_exit_done, report>>
    BY <2>1 DEF Unlink
  <2>3. ptr \in Addrs
    BY <2>1 DEF Shape
  <2>4. QED
    BY <2>1, <2>2, <2>3
<1>2. PICK first \in Places(ptr) : allocs' = RemoveAt(allocs, first)
  BY DEF Unlink
<1>3. /\ history'.stolen <=> history.stolen \/ thread[t].forgotten
      /\ history'.reused <=> history.reused \/ \E i, j \in Places(ptr) : allocs[i] # allocs[j]
      /\ HistoryTyped' /\ history'.at_exit = history.at_exit
      /\ history'.stolen \in BOOLEAN /\ history'.reused \in BOOLEAN
  <2>1. /\ history = [reused |-> history.reused, stolen |-> history.stolen,
                      at_exit |-> history.at_exit]
        /\ history.reused \in BOOLEAN /\ history.stolen \in BOOLEAN
        /\ thread[t].forgotten \in BOOLEAN
    BY DEF Books, HistoryTyped, HeapTypeOK, ThreadRecords
  <2> DEFINE mixed == \E i, j \in Places(ptr) : allocs[i] # allocs[j]
  <2>2. history' = [history EXCEPT !.reused = @ \/ mixed, !.stolen = @ \/ thread[t].forgotten]
    BY DEF Unlink
  <2>3. mixed \in BOOLEAN
    OBVIOUS
  <2> HIDE DEF mixed
  <2>4. history' = [reused |-> history.reused \/ mixed,
                    stolen |-> history.stolen \/ thread[t].forgotten,
                    at_exit |-> history.at_exit]
    BY <2>1, <2>2
  <2>5. /\ history'.reused = (history.reused \/ mixed)
        /\ history'.stolen = (history.stolen \/ thread[t].forgotten)
        /\ history'.at_exit = history.at_exit
        /\ history' = [reused |-> history'.reused, stolen |-> history'.stolen,
                       at_exit |-> history'.at_exit]
    BY <2>4
  <2>6. QED
    BY <2>1, <2>3, <2>5 DEF HistoryTyped, mixed
<1>4. /\ allocs \in Seq(Entries) /\ first \in DOMAIN allocs /\ allocs[first] \in Entries
      /\ allocs[first].mem = ptr
      /\ \A a : allocs[first] \in OfAddress(a) <=> a = ptr
      /\ \A a : allocs[first] \in InternalOf(a) <=> a = ptr /\ allocs[first].internal
  <2>1. allocs \in Seq(Entries) /\ first \in DOMAIN allocs /\ allocs[first].mem = ptr
    BY PlacesWhere, <1>1 DEF Places
  <2>2. allocs[first] \in Entries
    BY <2>1
  <2>3. QED
    BY <2>1, <2>2 DEF Entries, OfAddress, InternalOf
<1>5. \A S : Cardinality(Where(allocs', S)) =
               Cardinality(Where(allocs, S)) - (IF allocs[first] \in S THEN 1 ELSE 0)
  BY <1>2, <1>4, CountWithout
<1>6. allocs' \in Seq(Entries)
  BY DEF HeapTypeOK, Entries
<1>7. ASSUME NEW a \in Addrs
      PROVE  /\ Cardinality(Places(a)') = Cardinality(Places(a)) - (IF a = ptr THEN 1 ELSE 0)
             /\ Cardinality(Places(a)) \in Nat
  <2>1. Places(a)' = Where(allocs', OfAddress(a))
    BY <1>6, OfAddressWhere DEF Places
  <2>2. Places(a) = Where(allocs, OfAddress(a)) /\ Cardinality(Places(a)) \in Nat
    BY PlacesWhere
  <2>3. QED
    BY <1>4, <1>5, <2>1, <2>2
<1>8. BlocksRecorded'
  <2>1. ~is_exit_done /\ ~history'.stolen =>
          \A a \in Addrs : Cardinality(Places(a)') = Balance(a)'
    BY <1>1, <1>3, <1>7, UnlinkBalance, BlocksRecordedDef DEF Books
  <2>2. QED
    BY <1>1, <2>1 DEF BlocksRecorded, Balance, InHands, LeftBehind
<1>9. KindsRecorded'
  <2> SUFFICES ASSUME ~is_exit_done, ~history'.stolen, ~history'.reused, NEW a \in Addrs
               PROVE  Cardinality(Where(allocs', InternalOf(a))) = IF LeftBehind(a)' THEN 1 ELSE 0
    BY <1>1 DEF KindsRecorded
  <2>1. /\ Cardinality(Where(allocs, InternalOf(a))) = IF LeftBehind(a) THEN 1 ELSE 0
        /\ Cardinality(Places(a)) = Balance(a)
    BY <1>1, <1>3, BlocksRecordedDef DEF Books, KindsRecorded
  <2>2. LeftBehind(a)' <=> LeftBehind(a)
    BY <1>3, UnlinkBalance
  <2>3. ~(a = ptr /\ allocs[first].internal)
    <3> SUFFICES ASSUME a = ptr, allocs[first].internal PROVE FALSE
      OBVIOUS
    <3>1. \A i \in Places(a) : allocs[i] = allocs[first]
      BY <1>2, <1>3
    <3>2. Places(a) = Where(allocs, InternalOf(a))
      BY <1>4, <3>1 DEF Places, Where, InternalOf
    <3>3. Balance(a) >= 1 + (IF LeftBehind(a) THEN 1 ELSE 0)
      BY <1>3, UnlinkBalance
    <3>4. QED
      BY <2>1, <3>2, <3>3
  <2>4. Cardinality(Where(allocs', InternalOf(a))) = Cardinality(Where(allocs, InternalOf(a)))
    BY <1>4, <1>5, <2>1, <2>3
  <2>5. QED
    BY <2>1, <2>2, <2>4
<1>10. OthersStay(t) /\ thread'[t].pc # "unlink"
  BY <1>1, AfterUntraceForm, IdleType DEF Placed, Returned
<1>11. RecordsLeft'
  <2> SUFFICES ASSUME is_exit_done, ~history'.stolen, NEW a \in Addrs
               PROVE  Cardinality(Unlinking(a)') <= Cardinality(Places(a)')
    BY <1>1 DEF RecordsLeft
  <2>1. Cardinality(Unlinking(a)) <= Cardinality(Places(a))
    BY <1>1, <1>3 DEF Books, RecordsLeft
  <2>2. /\ Cardinality(Unlinking(a)) \in Nat
        /\ Cardinality(Unlinking(a)') =
             Cardinality(Unlinking(a)) - (IF t \in Unlinking(a) THEN 1 ELSE 0)
    BY <1>10, UnlinkingCount
  <2>3. t \in Unlinking(a) <=> a = ptr
    BY <1>1, <1>3 DEF Unlinking
  <2>4. QED
    BY <1>7, <2>1, <2>2, <2>3
<1>12. history'.at_exit = NULL
  BY <1>1, <1>3 DEF Books, ListAtExit
<1>13. AbortsExplained'
  BY <1>1, AbortAssumption DEF AbortsExplained
<1>14. ReportLast'
  BY <1>1, <1>10, ReportLastKept DEF Books
<1>15. ListAtExit' /\ ReportExact'
  BY <1>12 DEF ListAtExit, ReportExact
<1>16. QED
  BY <1>3, <1>8, <1>9, <1>11, <1>13, <1>14, <1>15 DEF Books
(* A failed assertion ends everything: the one of strdup is allowed, and   *)
(* alloc_free finds nothing only for a block that was forgotten.           *)
LEMMA AbortBooks ==
  ASSUME HeapTypeOK, Shapes, Books, NEW t \in Threads, StrdupAtExit(t) \/ UnlinkNothing(t)
  PROVE  Books'
<1>1. /\ aborted = NULL /\ aborted' \in {"strdup at exit", "freeing bad memory"}
      /\ UNCHANGED <<allocs, is_exit_done, history, report, thread, heap, owned>>
  BY DEF StrdupAtExit, UnlinkNothing, Abort, At, records
<1>2. aborted' # NULL
  BY <1>1, AbortAssumption
<1>3. ASSUME UnlinkNothing(t), ~history.stolen
      PROVE  thread[t].pc = "unlink" /\ thread[t].forgotten
  <2> DEFINE ptr == thread[t].ptr
  <2>1. thread[t].pc = "unlink" /\ Places(ptr) = {} /\ Shape(thread[t])
    BY <1>3 DEF UnlinkNothing, At, Shapes
  <2>2. ptr \in Addrs
    BY <2>1 DEF Shape
  <2>3. Cardinality(Places(ptr)) = 0
    BY <2>1, FS_EmptySet
  <2>4. SUFFICES ASSUME ~thread[t].forgotten PROVE FALSE
    BY <2>1
  <2>5. CASE is_exit_done
    <3>1. Cardinality(Unlinking(ptr)) <= Cardinality(Places(ptr))
      BY <1>1, <1>3, <2>2, <2>5 DEF Books, RecordsLeft
    <3>2. IsFiniteSet(Unlinking(ptr))
      <4>1. Unlinking(ptr) \in SUBSET Threads
        BY DEF Unlinking
      <4>2. QED
        BY <4>1, HeapHelpAssumption, FS_Subset
    <3>3. Cardinality(Unlinking(ptr)) \in Nat
      BY <3>2, FS_CardinalityType
    <3>4. Unlinking(ptr) = {}
      BY <2>3, <3>1, <3>2, <3>3, FS_EmptySet
    <3>5. t \in Unlinking(ptr)
      BY <2>1, <2>4 DEF Unlinking
    <3>6. QED
      BY <3>4, <3>5
  <2>6. CASE ~is_exit_done
    <3>1. Cardinality(Places(ptr)) = Balance(ptr)
      BY <1>1, <1>3, <2>2, <2>6, BlocksRecordedDef DEF Books
    <3>2. Pending(thread[t], ptr)
      BY <2>1, <2>4 DEF Pending
    <3>3. OthersStay(t)
      BY <1>1 DEF OthersStay
    <3>4. Cardinality(ToUnlink(ptr)) \in Nat /\ Cardinality(ToUnlink(ptr)) >= 1
      BY <2>2, <3>2, <3>3, ToUnlinkCount
    <3>5. Balance(ptr) >= 1
      BY <3>4 DEF Balance
    <3>6. QED
      BY <2>3, <3>1, <3>5
  <2>7. QED
    BY <2>5, <2>6
<1>4. aborted' = "freeing bad memory" => UnlinkNothing(t)
  BY DEF StrdupAtExit, UnlinkNothing, Abort
<1>5. AbortsExplained'
  BY <1>1, <1>3, <1>4 DEF AbortsExplained
<1>6. BlocksRecorded' /\ KindsRecorded' /\ RecordsLeft'
  BY <1>2 DEF BlocksRecorded, KindsRecorded, RecordsLeft
<1>7. HistoryTyped' /\ ReportLast' /\ ReportExact'
  BY <1>1 DEF Books, HistoryTyped, ReportLast, ReportExact
<1>8. ListAtExit'
  BY <1>1 DEF Books, ListAtExit, Leaks
<1>9. QED
  BY <1>5, <1>6, <1>7, <1>8 DEF Books

(* While no call is under way the list has one record for each block in    *)
(* use, and tells the blocks of the C library apart unless kinds were      *)
(* mixed up.                                                               *)
LEMMA ListComplete ==
  ASSUME HeapTypeOK, Shapes, Ownership, Books, aborted = NULL, ~is_exit_done, ~history.stolen,
         \A t \in Threads : thread[t].pc \in {"idle", "none"}
  PROVE  /\ InUse.leaks \in Nat /\ InUse.suppressed \in Nat
         /\ Len(allocs) = InUse.leaks + InUse.suppressed
         /\ ~history.reused => Cardinality(Leaks) = InUse.leaks
<1> DEFINE A == {a \in owned : ~heap[a].forgotten}
           B == {a \in Addrs : heap[a].internal}
           f == [i \in DOMAIN allocs |-> allocs[i].mem]
<1>1. allocs \in Seq(Entries) /\ owned \subseteq Addrs /\ NULL \notin Addrs
  BY HeapHelpAssumption DEF HeapTypeOK, Entries
<1>2. \A i \in DOMAIN allocs : allocs[i] \in Entries /\ allocs[i].mem \in Addrs
  <2>1. \A i \in DOMAIN allocs : allocs[i] \in Entries
    BY <1>1
  <2>2. \A e \in Entries : e.mem \in Addrs
    BY DEF Entries
  <2>3. QED
    BY <2>1, <2>2
<1>3. \A t \in Threads : thread[t].ptr = NULL /\ thread[t].res = NULL
  BY DEF Shapes, Shape
<1>4. ASSUME NEW a \in Addrs
      PROVE  /\ LeftBehind(a) <=> a \in B
             /\ InHands(a) <=> a \in A
             /\ a \in A => a \notin B
             /\ Cardinality(Places(a)) = IF a \in A \cup B THEN 1 ELSE 0
             /\ IsFiniteSet(Places(a))
  <2>1. (LeftBehind(a) <=> a \in B) /\ (InHands(a) <=> a \in A)
    BY <1>1, <1>3 DEF LeftBehind, InHands
  <2>2. a \in A => a \notin B
    BY DEF Ownership, OwnedAt
  <2>3. ToUnlink(a) = {}
    BY <1>1, <1>3 DEF ToUnlink
  <2>4. Cardinality(ToUnlink(a)) = 0
    BY <2>3, FS_EmptySet
  <2>5. Balance(a) = IF a \in A \cup B THEN 1 ELSE 0
    BY <2>1, <2>4 DEF Balance
  <2>6. Cardinality(Places(a)) = Balance(a)
    BY BlocksRecordedDef DEF Books
  <2>7. QED
    BY <2>1, <2>2, <2>5, <2>6, PlacesWhere
<1> HIDE DEF A, B
<1>5. ASSUME NEW a \in Addrs
      PROVE  /\ a \in A \cup B => \E i \in DOMAIN allocs : allocs[i].mem = a /\ Places(a) = {i}
             /\ a \notin A \cup B => Places(a) = {}
  <2>1. CASE a \in A \cup B
    <3>1. PICK i : Places(a) = {i}
      BY <1>4, <2>1, FS_Singleton
    <3>2. i \in DOMAIN allocs /\ allocs[i].mem = a
      BY <3>1 DEF Places
    <3>3. QED
      BY <2>1, <3>1, <3>2
  <2>2. CASE a \notin A \cup B
    BY <1>4, <2>2, FS_EmptySet
  <2>3. QED
    BY <2>1, <2>2
<1>6. ASSUME NEW i \in DOMAIN allocs
      PROVE  allocs[i].mem \in A \cup B /\ Places(allocs[i].mem) = {i}
  <2>1. i \in Places(allocs[i].mem) /\ allocs[i].mem \in Addrs
    BY <1>2 DEF Places
  <2>2. QED
    BY <1>5, <2>1
<1>7. A \subseteq Addrs /\ B \subseteq Addrs /\ A \cap B = {}
  BY <1>1, <1>4 DEF A, B
<1>8. f \in Bijection(DOMAIN allocs, A \cup B)
  <2>1. f \in [DOMAIN allocs -> A \cup B]
    BY <1>6
  <2>2. \A i, j \in DOMAIN allocs : f[i] = f[j] => i = j
    BY <1>6
  <2>3. \A a \in A \cup B : \E i \in DOMAIN allocs : f[i] = a
    BY <1>5, <1>7
  <2>4. QED
    BY <2>1, <2>2, <2>3 DEF Bijection, Injection, Surjection, IsInjective
<1>9. IsFiniteSet(DOMAIN allocs) /\ Cardinality(DOMAIN allocs) = Len(allocs)
  BY <1>1, WhereFinite
<1>10. IsFiniteSet(A \cup B) /\ Cardinality(A \cup B) = Len(allocs)
  <2>1. ExistsBijection(DOMAIN allocs, A \cup B)
    BY <1>8 DEF ExistsBijection
  <2>2. QED
    BY <1>9, <2>1, FS_Bijection
<1>11. /\ IsFiniteSet(A) /\ Cardinality(A) \in Nat
       /\ IsFiniteSet(B) /\ Cardinality(B) \in Nat
       /\ Cardinality(A \cup B) = Cardinality(A) + Cardinality(B)
  <2>1. IsFiniteSet(A) /\ IsFiniteSet(B)
    BY <1>10, FS_Subset
  <2>2. Cardinality(A \cap B) = 0 /\ Cardinality(A) \in Nat /\ Cardinality(B) \in Nat
    BY <1>7, <2>1, FS_EmptySet, FS_CardinalityType
  <2>3. Cardinality(A \cup B) = Cardinality(A) + Cardinality(B) - Cardinality(A \cap B)
    BY <2>1, FS_Union
  <2>4. QED
    BY <2>1, <2>2, <2>3
<1>12. InUse.leaks = Cardinality(A) /\ InUse.suppressed = Cardinality(B)
  BY DEF InUse, A, B
<1>13. ASSUME ~history.reused PROVE Cardinality(Leaks) = Cardinality(A)
  <2> DEFINE g == [i \in Leaks |-> allocs[i].mem]
  <2>1. ASSUME NEW i \in DOMAIN allocs PROVE i \in Leaks <=> allocs[i].mem \in A
    <3> DEFINE a == allocs[i].mem
    <3>1. a \in Addrs /\ a \in A \cup B /\ Places(a) = {i} /\ allocs[i] \in Entries
      BY <1>2, <1>6
    <3>2. Cardinality(Where(allocs, InternalOf(a))) = IF LeftBehind(a) THEN 1 ELSE 0
      BY <1>13, <3>1 DEF Books, KindsRecorded
    <3>3. IsFiniteSet(Where(allocs, InternalOf(a)))
      BY <1>1, WhereFinite
    <3>4. Where(allocs, InternalOf(a)) = {j \in Places(a) : allocs[j].internal}
      <4>1. \A j \in DOMAIN allocs :
              allocs[j] \in InternalOf(a) <=> allocs[j].mem = a /\ allocs[j].internal
        BY <1>2 DEF InternalOf, Entries
      <4>2. QED
        BY <4>1 DEF Where, Places
    <3>5. Where(allocs, InternalOf(a)) = IF allocs[i].internal THEN {i} ELSE {}
      BY <3>1, <3>4
    <3>6. Cardinality({i}) = 1 /\ Cardinality({}) = 0
      BY FS_Singleton, FS_EmptySet
    <3>7. allocs[i].internal <=> LeftBehind(a)
      BY <3>2, <3>5, <3>6
    <3>8. QED
      BY <1>4, <3>1, <3>7 DEF Leaks
  <2>2. g \in Bijection(Leaks, A)
    <3>1. Leaks \subseteq DOMAIN allocs
      BY DEF Leaks
    <3>2. g \in [Leaks -> A]
      BY <2>1, <3>1
    <3>3. \A i, j \in Leaks : g[i] = g[j] => i = j
      BY <1>6, <3>1
    <3>4. \A a \in A : \E i \in Leaks : g[i] = a
      BY <1>5, <1>7, <2>1
    <3>5. QED
      BY <3>2, <3>3, <3>4 DEF Bijection, Injection, Surjection, IsInjective
  <2>3. ExistsBijection(Leaks, A)
    BY <2>2 DEF ExistsBijection
  <2>4. IsFiniteSet(Leaks)
    <3>1. Leaks \in SUBSET DOMAIN allocs
      BY DEF Leaks
    <3>2. QED
      BY <1>9, <3>1, FS_Subset
  <2>5. QED
    BY <2>3, <2>4, FS_Bijection
<1>14. QED
  BY <1>10, <1>11, <1>12, <1>13

(* heaph_atexit begins: who is in alloc_free still finds a record, and if  *)
(* nobody is, the list is what was in use.                                 *)
LEMMA ExitStartBooks ==
  ASSUME HeapTypeOK, Shapes, Ownership, Books, ExitStart
  PROVE  Books'
<1> DEFINE pc == IF setup.report_mode = "quiet" THEN "ended" ELSE "report"
           quiet == \A t \in Threads : thread[t].pc \in {"idle", "none"}
           used == IF quiet THEN InUse ELSE NULL
<1>1. /\ main_thread \in Threads /\ thread[main_thread].pc = "idle"
      /\ aborted = NULL /\ aborted' = NULL /\ ~is_exit_done /\ is_exit_done'
      /\ Goto(main_thread, pc) /\ pc \in {"ended", "report"}
      /\ UNCHANGED <<allocs, heap, owned, report>>
      /\ history' = [history EXCEPT !.at_exit = used]
  <2>1. pc \in {"ended", "report"} /\ main_thread \in Threads
    BY HeapHelpAssumption
  <2> HIDE DEF pc
  <2>2. /\ thread[main_thread].pc = "idle" /\ aborted = NULL /\ ~is_exit_done
    BY DEF ExitStart, At
  <2>3. aborted' = NULL
    BY <2>2 DEF ExitStart
  <2>4. QED
    BY <2>1, <2>2, <2>3 DEF ExitStart, records, pc
<1>2. report = NULL /\ report' = NULL
  BY <1>1 DEF Books, ReportLast
<1>3. /\ HistoryTyped' /\ history'.at_exit = used
      /\ history'.stolen = history.stolen /\ history'.reused = history.reused
  <2> HIDE DEF used
  <2>1. /\ history = [reused |-> history.reused, stolen |-> history.stolen,
                      at_exit |-> history.at_exit]
        /\ history.reused \in BOOLEAN /\ history.stolen \in BOOLEAN
    BY DEF Books, HistoryTyped
  <2>2. history' = [reused |-> history.reused, stolen |-> history.stolen, at_exit |-> used]
    BY <1>1, <2>1
  <2>3. history'.reused = history.reused /\ history'.stolen = history.stolen /\ history'.at_exit = used
    BY <2>2
  <2>4. QED
    BY <2>1, <2>2, <2>3 DEF HistoryTyped
<1>4. /\ thread'[main_thread].pc \in {"ended", "report"}
      /\ \A t \in Threads \ {main_thread} : thread'[t] = thread[t]
  BY <1>1 DEF Goto, HeapTypeOK, ThreadRecords
<1>5. BlocksRecorded' /\ KindsRecorded'
  BY <1>1 DEF BlocksRecorded, KindsRecorded
<1>6. RecordsLeft'
  <2> SUFFICES ASSUME ~history.stolen, NEW a \in Addrs
               PROVE  Cardinality(Unlinking(a)') <= Cardinality(Places(a)')
    BY <1>3 DEF RecordsLeft
  <2>1. Unlinking(a)' \subseteq ToUnlink(a)
    BY <1>4 DEF Unlinking, ToUnlink
  <2>2. IsFiniteSet(ToUnlink(a))
    <3>1. ToUnlink(a) \in SUBSET Threads
      BY DEF ToUnlink
    <3>2. QED
      BY <3>1, HeapHelpAssumption, FS_Subset
  <2>3. /\ IsFiniteSet(Unlinking(a)') /\ Cardinality(Unlinking(a)') <= Cardinality(ToUnlink(a))
    BY <2>1, <2>2, FS_Subset
  <2>4. Cardinality(Unlinking(a)') \in Nat /\ Cardinality(ToUnlink(a)) \in Nat
    BY <2>2, <2>3, FS_CardinalityType
  <2>5. Cardinality(Places(a)) = Balance(a)
    BY <1>1, BlocksRecordedDef DEF Books
  <2>6. Cardinality(ToUnlink(a)) <= Balance(a) /\ Balance(a) \in Nat
    BY <2>4 DEF Balance
  <2>7. Places(a)' = Places(a)
    BY <1>1 DEF Places
  <2>8. QED
    BY <2>3, <2>4, <2>5, <2>6, <2>7
<1>7. ListAtExit'
  <2> SUFFICES ASSUME used # NULL
               PROVE  /\ \A t \in Threads : thread'[t].pc \notin {"take", "record", "unlink"}
                      /\ ~history.stolen =>
                           /\ used = [leaks |-> used.leaks, suppressed |-> used.suppressed]
                           /\ used.leaks \in Nat /\ used.suppressed \in Nat
                           /\ Len(allocs) = used.leaks + used.suppressed
                           /\ ~history.reused => Cardinality(Leaks) = used.leaks
    <3>1. Leaks' = Leaks
      BY <1>1 DEF Leaks
    <3> HIDE DEF used
    <3>2. QED
      BY <1>1, <1>3, <3>1 DEF ListAtExit
  <2>1. quiet /\ used = InUse
    OBVIOUS
  <2>2. \A t \in Threads : thread'[t].pc \notin {"take", "record", "unlink"}
    BY <1>4, <2>1
  <2>3. InUse = [leaks |-> InUse.leaks, suppressed |-> InUse.suppressed]
    BY DEF InUse
  <2>4. QED
    BY <1>1, <2>1, <2>2, <2>3, ListComplete
<1>8. ReportLast' /\ ReportExact'
  BY <1>2 DEF ReportLast, ReportExact
<1>9. AbortsExplained'
  BY <1>1, AbortAssumption DEF AbortsExplained
<1>10. QED
  BY <1>3, <1>5, <1>6, <1>7, <1>8, <1>9 DEF Books

(* The report is about the list, which it is printed from under the lock. *)
LEMMA ExitBooks ==
  ASSUME HeapInvariant, Shapes, Ownership, Books, ExitLock \/ ExitReport
  PROVE  Books'
<1> DEFINE leaks == Cardinality(Leaks)
<1>1. PICK pc \in {"printing", "ended"} :
        /\ Goto(main_thread, pc)
        /\ pc = "printing" => report' = NULL
        /\ pc = "ended" =>
             report' = [leaks |-> leaks, suppressed |-> alloc_count - leaks]
  <2>1. CASE ExitReport
    <3>1. Goto(main_thread, "ended") /\ report' = [leaks |-> leaks, suppressed |-> alloc_count - leaks]
      BY <2>1 DEF ExitReport, Leaks
    <3>2. QED
      BY <3>1
  <2>2. CASE ExitLock /\ alloc_count # 0
    <3>1. Goto(main_thread, "printing") /\ report' = NULL
      BY <2>2 DEF ExitLock
    <3>2. QED
      BY <3>1
  <2>3. CASE ExitLock /\ alloc_count = 0
    <3>1. Goto(main_thread, "ended") /\ report' = [leaks |-> 0, suppressed |-> 0]
      BY <2>3 DEF ExitLock
    <3>2. Len(allocs) = 0
      BY <2>3 DEF HeapInvariant, RecordOnce
    <3>3. Leaks = {}
      BY <3>2 DEF Leaks, HeapInvariant, HeapTypeOK
    <3>4. leaks = 0
      BY <3>3, FS_EmptySet
    <3>5. report' = [leaks |-> leaks, suppressed |-> alloc_count - leaks]
      BY <2>3, <3>1, <3>4
    <3>6. QED
      BY <3>1, <3>5
  <2>4. QED
    BY <2>1, <2>2, <2>3
<1>2. /\ main_thread \in Threads /\ thread[main_thread].pc \in {"report", "printing"}
      /\ aborted = NULL /\ aborted' = NULL /\ HeapTypeOK
      /\ UNCHANGED <<allocs, is_exit_done, heap, owned, history>>
  <2>1. main_thread \in Threads /\ HeapTypeOK
    BY HeapHelpAssumption DEF HeapInvariant
  <2>2. thread[main_thread].pc \in {"report", "printing"} /\ aborted = NULL
    BY DEF ExitLock, ExitReport, At
  <2>3. aborted' = NULL
    BY <2>2 DEF ExitLock, ExitReport
  <2>4. QED
    BY <2>1, <2>2, <2>3 DEF ExitLock, ExitReport, records
<1> DEFINE depth == thread[main_thread].depth
<1>3. Placed(main_thread, pc, depth)
  BY <1>1, <1>2, GotoPlaced
<1>4. /\ OthersStay(main_thread) /\ thread'[main_thread].pc = pc
  BY <1>3 DEF Placed
<1>5. Steady
  <2>1. \A a \in Addrs : Pending(thread'[main_thread], a) <=> Pending(thread[main_thread], a)
    BY <1>2, <1>4 DEF Pending
  <2> HIDE DEF depth
  <2>2. QED
    BY <1>2, <1>3, <2>1, PlacedSteady
<1>6. /\ BlocksRecorded' /\ KindsRecorded' /\ RecordsLeft' /\ ListAtExit' /\ AbortsExplained'
      /\ HistoryTyped'
  <2>1. thread'[main_thread].pc \notin {"take", "record", "unlink"} /\ thread[main_thread].pc # "ended"
    BY <1>2, <1>4
  <2>2. QED
    BY <1>2, <1>4, <1>5, <2>1, QuietParts
<1>7. ReportLast'
  BY <1>1, <1>4 DEF ReportLast
<1>8. ReportExact'
  <2> DEFINE used == history.at_exit
  <2> SUFFICES ASSUME report' # NULL, used # NULL, ~history.stolen
               PROVE  /\ report'.leaks + report'.suppressed = used.leaks + used.suppressed
                      /\ ~history.reused => report' = used
    BY <1>2 DEF ReportExact
  <2>1. report' = [leaks |-> leaks, suppressed |-> alloc_count - leaks]
    BY <1>1
  <2>2. /\ used = [leaks |-> used.leaks, suppressed |-> used.suppressed]
        /\ used.leaks \in Nat /\ used.suppressed \in Nat
        /\ Len(allocs) = used.leaks + used.suppressed
        /\ ~history.reused => leaks = used.leaks
    BY DEF Books, ListAtExit
  <2>3. alloc_count = Len(allocs)
    BY DEF HeapInvariant, RecordOnce
  <2>4. leaks \in Nat
    <3>1. IsFiniteSet(DOMAIN allocs)
      BY <1>2, WhereFinite DEF HeapTypeOK
    <3>2. Leaks \in SUBSET DOMAIN allocs
      BY DEF Leaks
    <3>3. QED
      BY <3>1, <3>2, FS_Subset, FS_CardinalityType
  <2> HIDE DEF leaks, used
  <2>5. report'.leaks = leaks /\ report'.suppressed = alloc_count - leaks
    BY <2>1
  <2>6. report'.leaks + report'.suppressed = used.leaks + used.suppressed
    BY <2>2, <2>3, <2>4, <2>5
  <2>7. ASSUME ~history.reused PROVE report' = used
    <3>1. leaks = used.leaks /\ alloc_count - leaks = used.suppressed
      BY <2>2, <2>3, <2>7
    <3>2. QED
      BY <2>1, <2>2, <3>1
  <2>8. QED
    BY <2>6, <2>7
<1>9. QED
  BY <1>6, <1>7, <1>8 DEF Books

-----------------------------------------------------------------------------
(* The invariant of the records, and the theorems.                         *)

BookInvariant == HeapInvariant /\ Shapes /\ Ownership /\ Books

(* The process starts with no block and no record.                        *)
LEMMA InitBooks == Init => BookInvariant
<1> SUFFICES ASSUME Init PROVE BookInvariant
  OBVIOUS
<1>1. HeapInvariant
  BY InitInvariant
<1>2. \A t \in Threads : /\ thread[t].pc \in {"idle", "none"}
                         /\ thread[t].ptr = NULL /\ thread[t].res = NULL /\ ~thread[t].forgotten
                         /\ thread[t].call = NULL
  BY DEF Init, Idle
<1>3. /\ NULL \notin Addrs /\ allocs = <<>> /\ owned = {} /\ aborted = NULL /\ report = NULL
      /\ history = [reused |-> FALSE, stolen |-> FALSE, at_exit |-> NULL]
      /\ \A a \in Addrs : heap[a] = NoBlock
      /\ is_exit_done = FALSE
  BY HeapHelpAssumption DEF Init
<1>4. Shapes
  BY <1>2, <1>3 DEF Shapes, Shape
<1>5. Ownership
  BY <1>2, <1>3 DEF Ownership, OwnedAt, Holds, NoBlock
<1>6. Cardinality({}) = 0
  BY FS_EmptySet
<1>7. \A a \in Addrs : Places(a) = {} /\ Where(allocs, InternalOf(a)) = {} /\ ToUnlink(a) = {}
  BY <1>2, <1>3 DEF Places, Where, ToUnlink
<1>8. \A a \in Addrs : ~InHands(a) /\ ~LeftBehind(a)
  BY <1>3 DEF InHands, LeftBehind, NoBlock
<1>9. \A a \in Addrs : Cardinality(Places(a)) = Balance(a)
  BY <1>6, <1>7, <1>8 DEF Balance
<1>10. BlocksRecorded
  BY <1>9, BlocksRecordedDef
<1>11. KindsRecorded
  BY <1>6, <1>7, <1>8 DEF KindsRecorded
<1>12. RecordsLeft /\ ListAtExit /\ ReportLast /\ ReportExact /\ HistoryTyped
  BY <1>3 DEF RecordsLeft, ListAtExit, ReportLast, ReportExact, HistoryTyped
<1>13. AbortsExplained
  BY <1>3, AbortAssumption DEF AbortsExplained
<1>14. QED
  BY <1>1, <1>4, <1>5, <1>10, <1>11, <1>12, <1>13 DEF BookInvariant, Books

(* A step of a thread keeps the addresses in one hand and the books right. *)
LEMMA StepBooks ==
  ASSUME BookInvariant, HeapInvariant', NEW t \in Threads, Step(t)
  PROVE  Shapes' /\ Ownership' /\ Books'
<1>1. HeapTypeOK /\ HeapTypeOK' /\ Shapes /\ Ownership /\ Books /\ HeapInvariant
  BY DEF BookInvariant, HeapInvariant
<1>2. CASE InitStart(t) \/ InitAllocates(t) \/ InitEnd(t)
  <2>1. Steady /\ OthersStay(t) /\ thread'[t].pc \in {"dlsym", "enter"}
    BY <1>1, <1>2, InitSteady
  <2>2. Shapes' /\ Ownership'
    BY <1>1, <1>2, InitOwns
  <2>3. /\ aborted = NULL /\ thread[t].pc \in {"touch", "dlsym"}
        /\ UNCHANGED <<allocs, is_exit_done, history, report>>
    BY <1>2 DEF InitStart, InitAllocates, InitEnd, At, records
  <2>4. ~setup.is_init_done
    BY <1>1, <2>3 DEF HeapInvariant, Beginnings
  <2>5. aborted' = NULL
    BY <1>2, <2>3, <2>4 DEF InitStart, InitAllocates, InitEnd
  <2>6. QED
    BY <1>1, <2>1, <2>2, <2>3, <2>5, QuietBooks
<1>3. CASE Allocate(t)
  <2>1. Steady /\ OthersStay(t) /\ thread'[t].pc \in {"idle", "trace"}
    BY <1>1, <1>3, AllocateSteady
  <2>2. /\ aborted = NULL /\ aborted' = NULL /\ thread[t].pc = "enter"
        /\ UNCHANGED <<allocs, is_exit_done, history, report>>
    BY <1>3 DEF Allocate, At, records
  <2>3. QED
    BY <1>1, <1>3, <2>1, <2>2, AllocateOwns, QuietBooks
<1>4. CASE Resize(t)
  <2>1. Steady /\ OthersStay(t) /\ thread'[t].pc \in {"idle", "untrace"}
    BY <1>1, <1>4, ResizeSteady
  <2>2. /\ aborted = NULL /\ aborted' = NULL /\ thread[t].pc = "enter"
        /\ UNCHANGED <<allocs, is_exit_done, history, report>>
    BY <1>4 DEF Resize, At, records
  <2>3. QED
    BY <1>1, <1>4, <2>1, <2>2, ResizeOwns, QuietBooks
<1>5. CASE Release(t)
  <2>1. Steady /\ OthersStay(t) /\ thread'[t].pc = "idle"
    BY <1>1, <1>5, ReleaseSteady
  <2>2. aborted' = NULL /\ thread[t].pc = "release"
    BY <1>1, <1>5, ReleaseForm
  <2>3. /\ aborted = NULL /\ UNCHANGED <<allocs, is_exit_done, history, report>>
    BY <1>5 DEF Release, At, records
  <2>4. QED
    BY <1>1, <1>5, <2>1, <2>2, <2>3, ReleaseOwns, QuietBooks
<1>6. CASE Trace(t) \/ Take(t)
  <2>1. /\ ~is_exit_done => Steady
        /\ OthersStay(t)
        /\ is_exit_done => thread'[t].pc \notin {"take", "unlink"}
                             /\ (thread'[t].pc = "record" => thread[t].pc = "take")
    BY <1>1, <1>6, TraceSteady
  <2>2. /\ aborted = NULL /\ aborted' = NULL /\ thread[t].pc \in {"trace", "take"}
        /\ UNCHANGED <<allocs, is_exit_done, history, report>>
    BY <1>6 DEF Trace, Take, NextRecord, At, records
  <2>3. QED
    BY <1>1, <1>6, <2>1, <2>2, TraceOwns, QuietBooks
<1>7. CASE Untrace(t)
  <2>1. /\ ~is_exit_done => Steady
        /\ OthersStay(t)
        /\ is_exit_done => thread'[t].pc \notin {"take", "unlink", "record"}
    BY <1>1, <1>7, UntraceSteady
  <2>2. /\ aborted = NULL /\ aborted' = NULL /\ thread[t].pc \in {"untrace", "enter"}
        /\ UNCHANGED <<allocs, is_exit_done, history, report>>
    BY <1>7 DEF Untrace, BeforeUntrace, At, records
  <2>3. QED
    BY <1>1, <1>7, <2>1, <2>2, TraceOwns, QuietBooks
<1>8. CASE Record(t)
  BY <1>1, <1>8, TraceOwns, RecordBooks
<1>9. CASE Unlink(t)
  BY <1>1, <1>9, TraceOwns, UnlinkBooks
<1>10. CASE StrdupAtExit(t) \/ UnlinkNothing(t)
  <2>1. UNCHANGED <<thread, heap, owned>>
    BY <1>10 DEF StrdupAtExit, UnlinkNothing, Abort
  <2>2. Shapes' /\ Ownership'
    BY <1>1, <2>1 DEF Shapes, Shape, Ownership, OwnedAt, Holds
  <2>3. QED
    BY <1>1, <1>10, <2>2, AbortBooks
<1>11. CASE ExitLock \/ ExitReport
  BY <1>1, <1>11, ExitOwns, ExitBooks
<1>12. QED
  BY <1>2, <1>3, <1>4, <1>5, <1>6, <1>7, <1>8, <1>9, <1>10, <1>11 DEF Step

(* Every step preserves the invariant. *)
LEMMA NextBooks == BookInvariant /\ [Next]_vars => BookInvariant'
<1> SUFFICES ASSUME BookInvariant, [Next]_vars PROVE BookInvariant'
  OBVIOUS
<1>1. HeapTypeOK /\ Shapes /\ Ownership /\ Books /\ HeapInvariant
  BY DEF BookInvariant, HeapInvariant
<1>2. HeapInvariant'
  BY <1>1, NextInvariant
<1>3. ASSUME NEW t \in Threads, Step(t) PROVE Shapes' /\ Ownership' /\ Books'
  BY <1>2, <1>3, StepBooks
<1>4. ASSUME NEW t \in Threads, NEW call \in Calls,
             NEW ptr \in owned \cup {NULL} \cup 0..(STATIC_SIZE - 1), Call(t, call, ptr)
      PROVE  Shapes' /\ Ownership' /\ Books'
  <2>1. Steady
    BY <1>1, <1>4, CallSteady
  <2>2. OthersStay(t) /\ thread'[t].pc \in {"touch", "enter"}
    BY <1>1, <1>4, CallForm
  <2>3. /\ aborted = NULL /\ aborted' = NULL /\ thread[t].pc = "idle"
        /\ UNCHANGED <<allocs, is_exit_done, history, report>>
    BY <1>4 DEF Call, At, records
  <2>4. QED
    BY <1>1, <1>4, <2>1, <2>2, <2>3, CallOwns, QuietBooks
<1>5. ASSUME ExitStart PROVE Shapes' /\ Ownership' /\ Books'
  BY <1>1, <1>5, ExitOwns, ExitStartBooks
<1>6. ASSUME Ended \/ UNCHANGED vars PROVE Shapes' /\ Ownership' /\ Books'
  <2>1. UNCHANGED vars
    BY <1>6 DEF Ended
  <2>2. Shapes' /\ Ownership'
    BY <1>1, <2>1 DEF vars, Shapes, Shape, Ownership, OwnedAt, Holds
  <2>3. /\ BlocksRecorded' /\ KindsRecorded' /\ RecordsLeft' /\ ListAtExit'
        /\ ReportLast' /\ ReportExact' /\ AbortsExplained' /\ HistoryTyped'
    BY <1>1, <2>1 DEF vars, records, Books, BlocksRecorded, KindsRecorded, RecordsLeft, ListAtExit,
       ReportLast, ReportExact, AbortsExplained, HistoryTyped, Places, ToUnlink, Unlinking,
       Where, LeftBehind, Leaks
  <2>4. QED
    BY <2>2, <2>3 DEF Books
<1>7. Shapes' /\ Ownership' /\ Books'
  BY <1>3, <1>4, <1>5, <1>6 DEF Next
<1>8. QED
  BY <1>2, <1>7 DEF BookInvariant

(* It holds in every reachable state. *)
LEMMA BooksSafety == Spec => []BookInvariant
BY InitBooks, NextBooks, PTL DEF Spec

-----------------------------------------------------------------------------
(* As long as the process is not aborted, does not exit, and no call for a *)
(* block that realloc failed to resize has taken the record of another:    *)
(* each block in use has one record, but for the blocks that realloc       *)
(* failed to resize (heap_help.c:552), and each address has one more for   *)
(* every call that is still to remove one, whatever number of threads      *)
(* allocate, resize and free, and in whatever order their steps fall.      *)
THEOREM BlocksAlwaysRecorded == Spec => []BlocksRecorded
<1>1. BookInvariant => BlocksRecorded
  BY DEF BookInvariant, Books
<1>2. QED
  BY <1>1, BooksSafety, PTL

(* A program that uses the heap correctly is aborted in two cases only:    *)
(* strdup is called when heaph_atexit has begun (heap_help.c:507), by      *)
(* another thread than the one that exits, in a race with it, or the       *)
(* record of a block is missing after realloc failed to resize a block     *)
(* (234, 552).                                                             *)
THEOREM AbortsAlwaysExplained == Spec => []AbortsExplained
<1>1. BookInvariant => AbortsExplained
  BY DEF BookInvariant, Books
<1>2. QED
  BY <1>1, BooksSafety, PTL

(* If no call is under way when heaph_atexit starts, and no call for a     *)
(* block that realloc failed to resize has taken the record of another, it *)
(* counts exactly what is in use then but the blocks that realloc failed   *)
(* to resize, even while other threads go on as it counts; it tells leaks  *)
(* from the blocks of the C library if no reused address had records of    *)
(* both kinds.                                                             *)
THEOREM ReportsExact == Spec => []ReportExact
<1>1. BookInvariant => ReportExact
  BY DEF BookInvariant, Books
<1>2. QED
  BY <1>1, BooksSafety, PTL

(* An address that is in use is in one hand: that of the program, of one   *)
(* call, or of the C library's thread; the shapes of the calls support it. *)
THEOREM OneOwner == Spec => []Ownership
<1>1. BookInvariant => Ownership
  BY DEF BookInvariant
<1>2. QED
  BY <1>1, BooksSafety, PTL

-----------------------------------------------------------------------------
(* Programs that call neither realloc nor strdup: none of the exceptions.  *)

PlainCalls == Calls \cap {"realloc", "strdup"} = {}

PlainThread(self) ==
  /\ ~self.forgotten
  /\ self.pc \in {"touch", "dlsym", "enter"} => self.call \notin {"realloc", "strdup"}

(* No record is dropped for a block that stays, and nobody is in strdup.   *)
NothingForgotten ==
  /\ \A a \in Addrs : ~heap[a].forgotten
  /\ \A t \in Threads : PlainThread(thread[t])
  /\ ~history.stolen
  /\ aborted # "strdup at exit"

(* A call that ends.                                                       *)
LEMMA ReturnPlain ==
  ASSUME HeapTypeOK, NothingForgotten, NEW t \in Threads, NEW res, Return(t, res)
  PROVE  \A u \in Threads : PlainThread(thread'[u])
<1>1. thread \in [Threads -> ThreadRecords]
  BY DEF HeapTypeOK
<1>2. PlainThread(Idle)
  BY DEF PlainThread, Idle
<1>3. \A u \in Threads : thread'[u] \in {Idle, thread[u]}
  BY <1>1 DEF Return
<1>4. QED
  BY <1>2, <1>3 DEF NothingForgotten

(* A thread that goes on.                                                  *)
LEMMA LaterPlain ==
  ASSUME HeapTypeOK, NothingForgotten, NEW t \in Threads,
         \A u \in Threads \ {t} : thread'[u] = thread[u],
         thread'[t].forgotten = thread[t].forgotten,
         thread'[t].pc \notin {"touch", "dlsym", "enter"}
  PROVE  \A u \in Threads : PlainThread(thread'[u])
BY DEF NothingForgotten, PlainThread

(* What follows alloc_trace_new.                                           *)
LEMMA AfterTracePlain ==
  ASSUME HeapTypeOK, NothingForgotten, NEW t \in Threads, AfterTrace(t)
  PROVE  \A u \in Threads : PlainThread(thread'[u])
<1>1. thread \in [Threads -> ThreadRecords]
  BY DEF HeapTypeOK
<1>2. CASE thread[t].depth = 1
  BY <1>2, ReturnPlain DEF AfterTrace
<1>3. CASE thread[t].depth # 1
  <2>1. /\ \A u \in Threads \ {t} : thread'[u] = thread[u]
        /\ thread'[t].forgotten = thread[t].forgotten
        /\ thread'[t].pc \in {"trace", "untrace"}
    BY <1>1, <1>3 DEF AfterTrace, ThreadRecords
  <2>2. QED
    BY <2>1, LaterPlain
<1>4. QED
  BY <1>2, <1>3

(* What follows alloc_free.                                                *)
LEMMA AfterUntracePlain ==
  ASSUME HeapTypeOK, NothingForgotten, NEW t \in Threads, AfterUntrace(t)
  PROVE  \A u \in Threads : PlainThread(thread'[u])
<1>1. thread \in [Threads -> ThreadRecords]
  BY DEF HeapTypeOK
<1>2. CASE thread[t].call = "realloc" /\ thread[t].res \in {NULL, thread[t].ptr}
  BY <1>2, ReturnPlain DEF AfterUntrace
<1>3. CASE ~(thread[t].call = "realloc" /\ thread[t].res \in {NULL, thread[t].ptr})
  <2>1. /\ \A u \in Threads \ {t} : thread'[u] = thread[u]
        /\ thread'[t].forgotten = thread[t].forgotten
        /\ thread'[t].pc \in {"trace", "untrace", "release"}
    BY <1>1, <1>3 DEF AfterUntrace, ThreadRecords
  <2>2. QED
    BY <2>1, LaterPlain
<1>4. QED
  BY <1>2, <1>3

(* Every step of a call.                                                   *)
LEMMA StepPlain ==
  ASSUME BookInvariant, NothingForgotten, NEW t \in Threads, Step(t)
  PROVE  NothingForgotten'
<1>1. HeapTypeOK /\ thread \in [Threads -> ThreadRecords] /\ heap \in [Addrs -> Blocks]
  BY DEF BookInvariant, HeapInvariant, HeapTypeOK
<1>2. CASE InitStart(t) \/ InitAllocates(t) \/ InitEnd(t)
  <2>1. \A u \in Threads : PlainThread(thread'[u])
    <3>1. /\ \A u \in Threads \ {t} : thread'[u] = thread[u]
          /\ thread[t].pc \in {"touch", "dlsym"}
          /\ thread'[t].call = thread[t].call /\ thread'[t].forgotten = thread[t].forgotten
      <4>1. thread[t].pc \in {"touch", "dlsym"}
        BY <1>2 DEF InitStart, InitAllocates, InitEnd, At
      <4>2. \/ UNCHANGED thread
            \/ \E pc \in {"dlsym", "enter"} : Goto(t, pc)
        BY <1>2 DEF InitStart, InitAllocates, InitEnd
      <4>3. QED
        BY <1>1, <4>1, <4>2 DEF Goto, ThreadRecords
    <3>2. QED
      BY <3>1 DEF NothingForgotten, PlainThread
  <2>2. UNCHANGED <<heap, history>> /\ aborted' # "strdup at exit"
    BY <1>2, AbortAssumption DEF InitStart, InitAllocates, InitEnd, NothingForgotten
  <2>3. QED
    BY <2>1, <2>2 DEF NothingForgotten
<1>3. CASE Allocate(t)
  <2>1. UNCHANGED <<history, aborted>>
    BY <1>3 DEF Allocate
  <2>2. CASE Return(t, NULL) /\ UNCHANGED heap
    BY <1>1, <2>1, <2>2, ReturnPlain DEF NothingForgotten
  <2>3. CASE ~(Return(t, NULL) /\ UNCHANGED heap)
    <3>1. PICK a \in Free :
            /\ heap' = [heap EXCEPT ![a] =
                 [NoBlock EXCEPT !.live = TRUE, !.internal = trace_is_internal(thread[t].call),
                                 !.info = thread[t].call = "getaddrinfo"]]
            /\ thread' = [thread EXCEPT ![t].pc = "trace", ![t].ptr = NULL, ![t].res = a,
                 ![t].call = IF thread[t].call = "pthread_create" THEN thread[t].call ELSE "malloc",
                 ![t].depth = IF thread[t].call \in {"strdup", "getaddrinfo", "getline"} THEN 2 ELSE 1]
      BY <1>3, <2>3 DEF Allocate
    <3>2. \A b \in Addrs : ~heap'[b].forgotten
      BY <1>1, <3>1 DEF NothingForgotten, NoBlock
    <3>3. /\ \A u \in Threads \ {t} : thread'[u] = thread[u]
          /\ thread'[t].forgotten = thread[t].forgotten
          /\ thread'[t].pc = "trace"
      BY <1>1, <3>1 DEF ThreadRecords
    <3>4. QED
      BY <1>1, <2>1, <3>2, <3>3, LaterPlain DEF NothingForgotten
  <2>4. QED
    BY <2>2, <2>3
<1>4. CASE Resize(t)
  <2>1. /\ UNCHANGED <<history, aborted>>
        /\ thread[t].call = "getline"
    BY <1>4 DEF Resize, At, NothingForgotten, PlainThread
  <2>2. CASE Return(t, thread[t].ptr) /\ UNCHANGED heap
    BY <1>1, <2>1, <2>2, ReturnPlain DEF NothingForgotten
  <2>3. CASE ~(Return(t, thread[t].ptr) /\ UNCHANGED heap)
    <3>1. PICK a \in Free :
            /\ heap' = [heap EXCEPT ![thread[t].ptr] = NoBlock,
                                    ![a] = [heap[thread[t].ptr] EXCEPT !.forgotten = FALSE]]
            /\ thread' = [thread EXCEPT ![t].pc = "untrace", ![t].res = a,
                 ![t].depth = IF thread[t].call = "getline" THEN 2 ELSE 1]
      BY <1>4, <2>1, <2>3 DEF Resize
    <3>2. heap[thread[t].ptr] \in Blocks
      BY <1>1, <1>4 DEF Resize
    <3>3. \A b \in Addrs : ~heap'[b].forgotten
      BY <1>1, <3>1, <3>2 DEF NothingForgotten, NoBlock, Blocks
    <3>4. /\ \A u \in Threads \ {t} : thread'[u] = thread[u]
          /\ thread'[t].forgotten = thread[t].forgotten
          /\ thread'[t].pc = "untrace"
      BY <1>1, <3>1 DEF ThreadRecords
    <3>5. QED
      BY <1>1, <2>1, <3>3, <3>4, LaterPlain DEF NothingForgotten
  <2>4. QED
    BY <2>2, <2>3
<1>5. CASE Release(t)
  <2>1. \A b \in Addrs : ~heap'[b].forgotten
    BY <1>1, <1>5 DEF Release, NothingForgotten, NoBlock
  <2>2. \A u \in Threads : PlainThread(thread'[u])
    BY <1>1, <1>5, ReturnPlain DEF Release
  <2>3. UNCHANGED history /\ aborted' # "strdup at exit"
    BY <1>5, AbortAssumption DEF Release
  <2>4. QED
    BY <2>1, <2>2, <2>3 DEF NothingForgotten
<1>6. CASE Trace(t) \/ Take(t) \/ Untrace(t)
  <2>1. UNCHANGED <<heap, history, aborted>>
    BY <1>6 DEF Trace, Take, NextRecord, Untrace
  <2>2. CASE AfterTrace(t)
    BY <1>1, <2>1, <2>2, AfterTracePlain DEF NothingForgotten
  <2>3. CASE AfterUntrace(t)
    BY <1>1, <2>1, <2>3, AfterUntracePlain DEF NothingForgotten
  <2>4. CASE Goto(t, "take") \/ Goto(t, "record") \/ Goto(t, "unlink")
    <3>1. /\ \A u \in Threads \ {t} : thread'[u] = thread[u]
          /\ thread'[t].forgotten = thread[t].forgotten
          /\ thread'[t].pc \in {"take", "record", "unlink"}
      BY <1>1, <2>4 DEF Goto, ThreadRecords
    <3>2. QED
      BY <1>1, <2>1, <3>1, LaterPlain DEF NothingForgotten
  <2>5. QED
    BY <1>6, <2>2, <2>3, <2>4 DEF Trace, Take, NextRecord, Untrace
<1>7. CASE Record(t)
  <2>1. UNCHANGED <<heap, history, aborted>> /\ AfterTrace(t)
    BY <1>7 DEF Record
  <2>2. QED
    BY <1>1, <2>1, AfterTracePlain DEF NothingForgotten
<1>8. CASE Unlink(t)
  <2>1. UNCHANGED <<heap, aborted>> /\ AfterUntrace(t)
    BY <1>8 DEF Unlink
  <2>2. ~history'.stolen
    <3>1. history' = [history EXCEPT
            !.reused = @ \/ \E i, j \in Places(thread[t].ptr) : allocs[i] # allocs[j],
            !.stolen = @ \/ thread[t].forgotten]
      BY <1>8 DEF Unlink
    <3>2. ~history.stolen /\ ~thread[t].forgotten
      BY DEF NothingForgotten, PlainThread
    <3>3. QED
      BY <3>1, <3>2 DEF BookInvariant, Books, HistoryTyped
  <2>3. QED
    BY <1>1, <2>1, <2>2, AfterUntracePlain DEF NothingForgotten
<1>9. CASE UnlinkNothing(t)
  BY <1>9 DEF UnlinkNothing, Abort, NothingForgotten
<1>10. CASE StrdupAtExit(t)
  BY <1>10 DEF StrdupAtExit, At, NothingForgotten, PlainThread
<1>11. CASE t = main_thread /\ (ExitLock \/ ExitReport)
  <2>1. UNCHANGED <<heap, history, aborted>>
    BY <1>11 DEF ExitLock, ExitReport
  <2>2. /\ \A u \in Threads \ {t} : thread'[u] = thread[u]
        /\ thread'[t].forgotten = thread[t].forgotten
        /\ thread'[t].pc \in {"ended", "printing"}
    BY <1>1, <1>11 DEF ExitLock, ExitReport, Goto, ThreadRecords
  <2>3. QED
    BY <1>1, <2>1, <2>2, LaterPlain DEF NothingForgotten
<1>12. QED
  BY <1>2, <1>3, <1>4, <1>5, <1>6, <1>7, <1>8, <1>9, <1>10, <1>11 DEF Step

(* And every other step.                                                   *)
LEMMA NextPlain ==
  ASSUME PlainCalls, BookInvariant, NothingForgotten, [Next]_vars
  PROVE  NothingForgotten'
<1>1. HeapInvariant /\ HeapTypeOK /\ thread \in [Threads -> ThreadRecords] /\ owned \subseteq Addrs
  BY DEF BookInvariant, HeapInvariant, HeapTypeOK
<1>2. ASSUME NEW t \in Threads, Step(t) PROVE NothingForgotten'
  BY <1>1, <1>2, StepPlain
<1>3. ASSUME NEW t \in Threads, NEW call \in Calls,
             NEW ptr \in owned \cup {NULL} \cup 0..(STATIC_SIZE - 1), Call(t, call, ptr)
      PROVE  NothingForgotten'
  <2>1. UNCHANGED <<heap, history, aborted>>
    BY <1>3 DEF Call
  <2>2. ~(ptr \in owned /\ heap[ptr].forgotten)
    BY <1>1 DEF NothingForgotten
  <2>3. call \notin {"realloc", "strdup"}
    BY DEF PlainCalls
  <2>4. thread'[t] = [Idle EXCEPT !.pc = IF setup.is_init_done THEN "enter" ELSE "touch",
                       !.call = call, !.ptr = ptr, !.depth = 1,
                       !.forgotten = ptr \in owned /\ heap[ptr].forgotten]
    BY <1>1, <1>3 DEF Call
  <2>5. PlainThread(thread'[t])
    BY <2>2, <2>3, <2>4 DEF PlainThread, Idle
  <2>6. \A u \in Threads \ {t} : thread'[u] = thread[u]
    BY <1>1, <1>3 DEF Call
  <2>7. QED
    BY <2>1, <2>5, <2>6 DEF NothingForgotten
<1>4. ASSUME ExitStart PROVE NothingForgotten'
  <2>1. UNCHANGED <<heap, aborted>> /\ main_thread \in Threads
    BY <1>4, HeapHelpAssumption DEF ExitStart
  <2>2. history' = [history EXCEPT !.at_exit =
          IF \A t \in Threads : thread[t].pc \in {"idle", "none"} THEN InUse ELSE NULL]
    BY <1>4 DEF ExitStart
  <2>3. history'.stolen = history.stolen
    BY <2>2, <1>1 DEF BookInvariant, Books, HistoryTyped
  <2>4. /\ \A u \in Threads \ {main_thread} : thread'[u] = thread[u]
        /\ thread'[main_thread].forgotten = thread[main_thread].forgotten
        /\ thread'[main_thread].pc \in {"ended", "report"}
    BY <1>1, <1>4, <2>1 DEF ExitStart, Goto, ThreadRecords
  <2>5. \A u \in Threads : PlainThread(thread'[u])
    BY <1>1, <2>1, <2>4, LaterPlain
  <2>6. QED
    BY <2>1, <2>3, <2>5 DEF NothingForgotten
<1>5. ASSUME Ended \/ UNCHANGED vars PROVE NothingForgotten'
  BY <1>5 DEF Ended, vars, NothingForgotten
<1>6. QED
  BY <1>2, <1>3, <1>4, <1>5 DEF Next

(* A process that uses the heap correctly and calls neither realloc nor    *)
(* strdup is never aborted: no assertion of the file fails in any          *)
(* interleaving of the calls of its threads and of exit.                   *)
THEOREM NeverAborted == PlainCalls /\ Spec => [](aborted = NULL)
<1>1. ASSUME Init PROVE NothingForgotten
  <2>1. \A t \in Threads : thread[t] = [Idle EXCEPT !.pc = IF t = main_thread THEN "idle" ELSE "none"]
    BY <1>1 DEF Init
  <2>2. \A t \in Threads : PlainThread(thread[t])
    BY <2>1 DEF PlainThread, Idle
  <2>3. ~history.stolen /\ \A a \in Addrs : ~heap[a].forgotten
    BY <1>1 DEF Init, NoBlock
  <2>4. aborted # "strdup at exit"
    BY <1>1, AbortAssumption DEF Init
  <2>5. QED
    BY <2>2, <2>3, <2>4 DEF NothingForgotten
<1>2. PlainCalls /\ BookInvariant /\ NothingForgotten /\ [Next]_vars => NothingForgotten'
  BY NextPlain
<1>3. BookInvariant /\ NothingForgotten => aborted = NULL
  BY DEF BookInvariant, Books, AbortsExplained, NothingForgotten, PlainThread
<1>4. PlainCalls \in BOOLEAN /\ (PlainCalls => PlainCalls')
  BY DEF PlainCalls
<1>5. PlainCalls /\ Spec /\ []BookInvariant => [](aborted = NULL)
  <2>1. CASE PlainCalls
    <3>1. BookInvariant /\ NothingForgotten /\ [Next]_vars => NothingForgotten'
      BY <1>2, <2>1
    <3>2. QED
      BY <1>1, <1>3, <3>1, PTL DEF Spec
  <2>2. QED
    BY <2>1
<1>6. QED
  BY <1>5, BooksSafety, PTL
=============================================================================
