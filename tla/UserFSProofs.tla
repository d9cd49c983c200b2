---------------------------- MODULE UserFSProofs ----------------------------
(***************************************************************************)
(* The invariants of UserFS, for every size of blocks, limit on files, and *)
(* number of files, names and descriptors.                                 *)
(*                                                                         *)
(* UserFSInvariant is inductive. Its first four parts say who refers to    *)
(* whom: the table of descriptors, the two counters and the list of files. *)
(* FilesGood and OffsetsGood say how far the blocks of a file reach, and   *)
(* that a file that only got bytes at its end holds them; that a call      *)
(* keeps this follows from what UserFSBlockProofs says of the loops over   *)
(* blocks.                                                                 *)
(*                                                                         *)
(* The last part proves the refinement of FileSystem, with the bytes that  *)
(* the calls should give the files, and with those that the blocks hold as *)
(* long as no file is written or extended but at its end.                  *)
(***************************************************************************)
EXTENDS UserFSBlockProofs, FiniteSetTheorems

-----------------------------------------------------------------------------
(* Tables of descriptors.                                                  *)

Tables == Seq(FileDescs \cup {NULL})

(* The places of a table that are taken, and those taken by file f.        *)
OpenIn(table) == {fd \in DOMAIN table : table[fd] # NULL}

Holding(table, f) == {fd \in OpenIn(table) : table[fd].file = f}

(* The descriptors of the properties of UserFS are those of the table.     *)
LEMMA DescriptorsAreHolding ==
  /\ \A f : DescriptorsOf(f) = Holding(file_descriptors, f)
  /\ {fd \in DOMAIN file_descriptors : IsOpen(fd)} = OpenIn(file_descriptors)
  /\ \A fd : IsOpen(fd) <=> fd \in OpenIn(file_descriptors)
  BY DEF DescriptorsOf, Holding, OpenIn, IsOpen

(* There are finitely many descriptors, at most as many as places.         *)
LEMMA TableFinite ==
  ASSUME NEW table \in Tables
  PROVE  /\ IsFiniteSet(OpenIn(table))
         /\ Cardinality(OpenIn(table)) \in Nat
         /\ Cardinality(OpenIn(table)) <= Len(table)
         /\ Cardinality(OpenIn(table)) = Len(table) => OpenIn(table) = 1..Len(table)
         /\ \A f : IsFiniteSet(Holding(table, f)) /\ Cardinality(Holding(table, f)) \in Nat
<1>1. Len(table) \in Nat /\ DOMAIN table = 1..Len(table)
  BY LenProperties DEF Tables
<1>2. IsFiniteSet(1..Len(table)) /\ Cardinality(1..Len(table)) = Len(table)
  <2> DEFINE n == Len(table)
  <2>1. n \in Int /\ n >= 0
    BY <1>1
  <2> HIDE DEF n
  <2>2. /\ IsFiniteSet(1..n) /\ Cardinality(1..n) = IF 1 > n THEN 0 ELSE n - 1 + 1
    BY <2>1, FS_Interval
  <2>3. Cardinality(1..n) = n
    BY <2>1, <2>2
  <2> QED
    BY <2>2, <2>3 DEF n
<1>3. OpenIn(table) \in SUBSET (1..Len(table))
  BY <1>1 DEF OpenIn
<1>4. /\ IsFiniteSet(OpenIn(table))
      /\ Cardinality(OpenIn(table)) <= Len(table)
      /\ Cardinality(OpenIn(table)) = Len(table) => OpenIn(table) = 1..Len(table)
  BY <1>2, <1>3, FS_Subset
<1>5. ASSUME NEW f
      PROVE  IsFiniteSet(Holding(table, f)) /\ Cardinality(Holding(table, f)) \in Nat
  <2>1. Holding(table, f) \in SUBSET OpenIn(table)
    BY DEF Holding
  <2> QED
    BY <1>4, <2>1, FS_Subset, FS_CardinalityType
<1> QED
  BY <1>4, <1>5, FS_CardinalityType

(* A descriptor that goes to a free place is one more, and of its file.    *)
LEMMA PutDescriptor ==
  ASSUME NEW table \in Tables, NEW place \in DOMAIN table, table[place] = NULL,
         NEW desc \in FileDescs
  PROVE  LET after == [table EXCEPT ![place] = desc] IN
         /\ after \in Tables /\ Len(after) = Len(table)
         /\ OpenIn(after) = OpenIn(table) \cup {place}
         /\ Cardinality(OpenIn(after)) = Cardinality(OpenIn(table)) + 1
         /\ \A f : Cardinality(Holding(after, f)) =
                     IF f = desc.file THEN Cardinality(Holding(table, f)) + 1
                     ELSE Cardinality(Holding(table, f))
         /\ \A f : Holding(after, f) = IF f = desc.file THEN Holding(table, f) \cup {place}
                                       ELSE Holding(table, f)
<1> DEFINE after == [table EXCEPT ![place] = desc]
<1>1. desc # NULL
  BY UserFSAssumption
<1>2. /\ after \in Tables /\ Len(after) = Len(table) /\ DOMAIN after = DOMAIN table
      /\ \A i \in DOMAIN table : after[i] = IF i = place THEN desc ELSE table[i]
  <2>1. DOMAIN table = 1..Len(table)
    BY LenProperties DEF Tables
  <2>2. place \in 1..Len(table) /\ desc \in FileDescs \cup {NULL}
    BY <2>1
  <2> QED
    BY <2>1, <2>2, ExceptSeq DEF Tables
<1> HIDE DEF after
<1>3. OpenIn(after) = OpenIn(table) \cup {place} /\ place \notin OpenIn(table)
  BY <1>1, <1>2 DEF OpenIn
<1>4. ASSUME NEW f
      PROVE  /\ Holding(after, f) =
                  IF f = desc.file THEN Holding(table, f) \cup {place} ELSE Holding(table, f)
             /\ place \notin Holding(table, f)
  <2>1. place \notin Holding(table, f)
    BY <1>3 DEF Holding
  <2>2. \A x \in OpenIn(table) : after[x] = table[x]
    BY <1>2, <1>3 DEF OpenIn
  <2>3. after[place] = desc
    BY <1>2
  <2>4. \A x : x \in Holding(after, f) <=> x \in Holding(table, f) \/ (x = place /\ f = desc.file)
    BY <1>3, <2>2, <2>3 DEF Holding
  <2>5. CASE f = desc.file
    BY <2>1, <2>4, <2>5
  <2>6. CASE f # desc.file
    BY <2>1, <2>4, <2>6
  <2> QED
    BY <2>5, <2>6
<1>5. Cardinality(OpenIn(after)) = Cardinality(OpenIn(table)) + 1
  BY <1>3, TableFinite, FS_AddElement
<1>6. ASSUME NEW f
      PROVE  Cardinality(Holding(after, f)) =
               IF f = desc.file THEN Cardinality(Holding(table, f)) + 1
               ELSE Cardinality(Holding(table, f))
  BY <1>4, TableFinite, FS_AddElement
<1> QED
  BY <1>2, <1>3, <1>4, <1>5, <1>6 DEF after

(* A descriptor that is closed is one less, and of its file.               *)
LEMMA DropDescriptor ==
  ASSUME NEW table \in Tables, NEW fd \in OpenIn(table)
  PROVE  LET after == [table EXCEPT ![fd] = NULL] IN
         /\ after \in Tables /\ Len(after) = Len(table)
         /\ Cardinality(OpenIn(after)) = Cardinality(OpenIn(table)) - 1
         /\ Cardinality(OpenIn(table)) > 0
         /\ Cardinality(Holding(table, table[fd].file)) > 0
         /\ \A f : Cardinality(Holding(after, f)) =
                     IF f = table[fd].file THEN Cardinality(Holding(table, f)) - 1
                     ELSE Cardinality(Holding(table, f))
         /\ \A f : Holding(after, f) = Holding(table, f) \ {fd}
<1> DEFINE after == [table EXCEPT ![fd] = NULL]
           g == table[fd].file
<1>1. fd \in DOMAIN table
  BY DEF OpenIn
<1>2. /\ after \in Tables /\ Len(after) = Len(table) /\ DOMAIN after = DOMAIN table
      /\ \A i \in DOMAIN table : after[i] = IF i = fd THEN NULL ELSE table[i]
  <2>1. DOMAIN table = 1..Len(table)
    BY LenProperties DEF Tables
  <2>2. fd \in 1..Len(table) /\ NULL \in FileDescs \cup {NULL}
    BY <1>1, <2>1
  <2> QED
    BY <2>1, <2>2, ExceptSeq DEF Tables
<1> HIDE DEF after
<1>3. OpenIn(after) = OpenIn(table) \ {fd}
  BY <1>1, <1>2 DEF OpenIn
<1>4. ASSUME NEW f
      PROVE  /\ Holding(after, f) = Holding(table, f) \ {fd}
             /\ fd \in Holding(table, f) <=> f = g
  <2>1. fd \in Holding(table, f) <=> f = g
    BY DEF Holding
  <2>2. \A x \in OpenIn(after) : after[x] = table[x]
    BY <1>2, <1>3 DEF OpenIn
  <2>3. Holding(after, f) = Holding(table, f) \ {fd}
    BY <1>3, <2>2 DEF Holding
  <2> QED
    BY <2>1, <2>3
<1>5. Cardinality(OpenIn(after)) = Cardinality(OpenIn(table)) - 1
  BY <1>3, TableFinite, FS_RemoveElement
<1>6. ASSUME NEW f
      PROVE  Cardinality(Holding(after, f)) =
               IF f = g THEN Cardinality(Holding(table, f)) - 1
               ELSE Cardinality(Holding(table, f))
  BY <1>4, TableFinite, FS_RemoveElement
<1>7. Cardinality(OpenIn(table)) > 0 /\ Cardinality(Holding(table, g)) > 0
  <2>1. OpenIn(table) # {} /\ Holding(table, g) # {}
    BY <1>4
  <2>2. /\ IsFiniteSet(OpenIn(table)) /\ Cardinality(OpenIn(table)) \in Nat
        /\ IsFiniteSet(Holding(table, g)) /\ Cardinality(Holding(table, g)) \in Nat
    BY TableFinite
  <2>3. Cardinality(OpenIn(table)) # 0 /\ Cardinality(Holding(table, g)) # 0
    BY <2>1, <2>2, FS_EmptySet
  <2> QED
    BY <2>2, <2>3
<1> QED
  BY <1>2, <1>4, <1>5, <1>6, <1>7 DEF after, g

(* Offsets do not matter for who has which file open.                      *)
SameFiles(table, after) ==
  /\ DOMAIN after = DOMAIN table
  /\ \A fd \in DOMAIN table :
       /\ after[fd] = NULL <=> table[fd] = NULL
       /\ table[fd] # NULL => after[fd].file = table[fd].file

(* Tables that differ in offsets have the same descriptors open.           *)
LEMMA SameFilesHolding ==
  ASSUME NEW table, NEW after, SameFiles(table, after)
  PROVE  /\ OpenIn(after) = OpenIn(table)
         /\ \A f : Holding(after, f) = Holding(table, f)
  BY DEF SameFiles, OpenIn, Holding

-----------------------------------------------------------------------------
(* Looking up names and places.                                            *)

(* Of the numbers 1..n with a property there is a least.                   *)
LEMMA LeastPlace ==
  ASSUME NEW n \in Nat, NEW T \in SUBSET (1..n), T # {}
  PROVE  \E i \in T : \A j \in 1..(i - 1) : j \notin T
<1>1. T \subseteq Nat
  OBVIOUS
<1>2. PICK i \in T : \A j \in T : i <= j
  BY <1>1, LeastNumber
<1>3. ASSUME NEW j \in 1..(i - 1), j \in T  PROVE FALSE
  BY <1>1, <1>2, <1>3
<1> QED
  BY <1>2, <1>3

(* _ufs_find_file gives a file of the list that has the name and is not    *)
(* deleted, if there is one.                                               *)
LEMMA FindProperties ==
  ASSUME TypeOK, NEW filename
  PROVE  /\ Find(filename) # NULL =>
              \E i \in DOMAIN file_list :
                /\ file_list[i] = Find(filename)
                /\ Find(filename) \in Files
                /\ ~files[Find(filename)].is_ghost
                /\ files[Find(filename)].name = filename
         /\ Find(filename) = NULL => \A i \in DOMAIN file_list : ~Matches(i, filename)
<1>1. /\ DOMAIN file_list = 1..Len(file_list) /\ Len(file_list) \in Nat
      /\ \A i \in DOMAIN file_list : file_list[i] \in Files
  <2>1. file_list \in Seq(Files)
    BY DEF TypeOK
  <2> QED
    BY <2>1, LenProperties, ElementOfSeq
<1>2. CASE \A i \in DOMAIN file_list : ~Matches(i, filename)
  BY <1>2 DEF Find
<1>3. CASE \E i \in DOMAIN file_list : Matches(i, filename)
  <2> DEFINE T == {i \in DOMAIN file_list : Matches(i, filename)}
             First(i) == /\ Matches(i, filename)
                         /\ \A j \in 1..(i - 1) : ~Matches(j, filename)
             k == CHOOSE i \in DOMAIN file_list : First(i)
  <2>1. \E i \in DOMAIN file_list : First(i)
    <3>1. T \in SUBSET (1..Len(file_list)) /\ T # {}
      BY <1>1, <1>3
    <3>2. PICK i \in T : \A j \in 1..(i - 1) : j \notin T
      <4> HIDE DEF T
      <4> QED
        BY <1>1, <3>1, LeastPlace
    <3>3. ASSUME NEW j \in 1..(i - 1)  PROVE j \in DOMAIN file_list
      BY <1>1, <3>2
    <3> QED
      BY <3>2, <3>3
  <2> HIDE DEF First
  <2>2. k \in DOMAIN file_list /\ First(k)
    BY <2>1
  <2>3. Find(filename) = file_list[k]
    BY <1>3 DEF Find, First
  <2> HIDE DEF k
  <2>4. file_list[k] \in Files /\ file_list[k] # NULL
    BY <1>1, <2>2, UserFSAssumption
  <2>5. ~files[file_list[k]].is_ghost /\ files[file_list[k]].name = filename
    BY <2>2 DEF First, Matches
  <2> QED
    BY <2>2, <2>3, <2>4, <2>5
<1> QED
  BY <1>2, <1>3

(* The counter is the number of descriptors in the table.                  *)
UsedCount == file_descriptor_used = Cardinality(OpenIn(file_descriptors))

(* The table with room has the descriptors of the table, and one more free *)
(* place at least.                                                         *)
LEMMA TableProperties ==
  ASSUME TypeOK
  PROVE  /\ Table \in Tables
         /\ Len(file_descriptors) <= Len(Table)
         /\ \A i \in 1..Len(file_descriptors) : Table[i] = file_descriptors[i]
         /\ \A i \in DOMAIN Table : i \notin 1..Len(file_descriptors) => Table[i] = NULL
         /\ OpenIn(Table) = OpenIn(file_descriptors)
         /\ \A f : Holding(Table, f) = Holding(file_descriptors, f)
         /\ Len(file_descriptors) = 0 => Len(Table) = INITIAL_CAPACITY
         /\ Len(file_descriptors) > 0 /\ file_descriptor_used >= Len(file_descriptors) =>
              Len(Table) = Len(file_descriptors) + Len(file_descriptors)
         /\ file_descriptor_used < Len(file_descriptors) => Table = file_descriptors
<1> DEFINE cap == Len(file_descriptors)
           T == FileDescs \cup {NULL}
<1>1. /\ file_descriptors \in Seq(T) /\ cap \in Nat /\ file_descriptor_used \in Nat
      /\ INITIAL_CAPACITY \in Nat /\ INITIAL_CAPACITY > 0
      /\ DOMAIN file_descriptors = 1..cap
  BY UserFSAssumption, LenProperties DEF TypeOK
<1>2. ASSUME NEW n \in Nat
      PROVE  /\ [i \in 1..n |-> NULL] \in Seq(T)
             /\ Len([i \in 1..n |-> NULL]) = n
             /\ \A i \in 1..n : [j \in 1..n |-> NULL][i] = NULL
  <2>1. [i \in 1..n |-> NULL] \in [1..n -> T]
    OBVIOUS
  <2>2. [i \in 1..n |-> NULL] \in Seq(T)
    BY <2>1, SeqDef
  <2> QED
    BY <2>2, LenProperties
<1> HIDE DEF T
<1>3. /\ Table \in Seq(T) /\ cap <= Len(Table)
      /\ \A i \in 1..cap : Table[i] = file_descriptors[i]
      /\ \A i \in 1..Len(Table) : i \notin 1..cap => Table[i] = NULL
      /\ cap = 0 => Len(Table) = INITIAL_CAPACITY
      /\ cap > 0 /\ file_descriptor_used >= cap => Len(Table) = cap + cap
      /\ file_descriptor_used < cap => Table = file_descriptors
  <2>1. CASE cap = 0
    <3>1. Table = [i \in 1..INITIAL_CAPACITY |-> NULL]
      BY <2>1 DEF Table
    <3>2. /\ Table \in Seq(T) /\ Len(Table) = INITIAL_CAPACITY
          /\ \A i \in 1..INITIAL_CAPACITY : Table[i] = NULL
      BY <1>1, <1>2, <3>1
    <3> QED
      BY <1>1, <2>1, <3>2
  <2>2. CASE cap > 0 /\ file_descriptor_used < cap
    <3> HIDE DEF cap
    <3>1. ~(cap = 0) /\ ~(file_descriptor_used >= cap)
      BY <1>1, <2>2
    <3>2. Table = file_descriptors
      BY <2>2, <3>1 DEF Table, cap
    <3>3. Len(Table) = cap
      BY <3>2 DEF cap
    <3> QED
      BY <1>1, <3>1, <3>2, <3>3
  <2>3. CASE cap > 0 /\ file_descriptor_used >= cap
    <3> DEFINE free == [i \in 1..cap |-> NULL]
    <3>1. Table = file_descriptors \o free
      BY <1>1, <2>3 DEF Table
    <3>2. free \in Seq(T) /\ Len(free) = cap /\ \A i \in 1..cap : free[i] = NULL
      BY <1>1, <1>2
    <3> HIDE DEF free, cap
    <3>3. /\ Table \in Seq(T) /\ Len(Table) = Len(file_descriptors) + Len(free)
          /\ \A i \in 1..(Len(file_descriptors) + Len(free)) :
               Table[i] = IF i <= Len(file_descriptors) THEN file_descriptors[i]
                          ELSE free[i - Len(file_descriptors)]
      BY <1>1, <3>1, <3>2, ConcatProperties
    <3>4. Len(file_descriptors) = cap
      BY DEF cap
    <3>5. Len(Table) = cap + cap
      BY <3>2, <3>3, <3>4
    <3>6. \A i \in 1..cap : Table[i] = file_descriptors[i]
      BY <1>1, <3>2, <3>3, <3>4
    <3>7. ASSUME NEW i \in 1..(cap + cap), i \notin 1..cap  PROVE Table[i] = NULL
      <4>1. i - cap \in 1..cap /\ ~(i <= cap)
        BY <1>1, <3>7
      <4> QED
        BY <3>2, <3>3, <3>4, <4>1
    <3> QED
      BY <1>1, <2>3, <3>3, <3>5, <3>6, <3>7
  <2> QED
    BY <1>1, <2>1, <2>2, <2>3
<1>4. DOMAIN Table = 1..Len(Table) /\ Len(Table) \in Nat
  BY <1>3, LenProperties
<1> HIDE DEF cap
<1>5. \A i \in 1..cap : i \in DOMAIN Table
  <2>1. cap <= Len(Table)
    BY <1>3
  <2>2. \A i \in 1..cap : i \in 1..Len(Table)
    BY <1>1, <1>4, <2>1
  <2> QED
    BY <1>4, <2>2
<1>6. OpenIn(Table) = OpenIn(file_descriptors)
  BY <1>1, <1>3, <1>4, <1>5 DEF OpenIn
<1>7. ASSUME NEW f  PROVE  Holding(Table, f) = Holding(file_descriptors, f)
  <2>1. \A i \in OpenIn(file_descriptors) : Table[i] = file_descriptors[i]
    BY <1>1, <1>3 DEF OpenIn
  <2> QED
    BY <1>6, <2>1 DEF Holding
<1> QED
  BY <1>3, <1>4, <1>6, <1>7 DEF Tables, T, cap

(* The search of ufs_open finds a free place ("it MUST be", userfs.c:214). *)
LEMMA PlaceProperties ==
  ASSUME TypeOK, UsedCount
  PROVE  Place \in DOMAIN Table /\ Table[Place] = NULL /\ Place # 0
<1> DEFINE cap == Len(file_descriptors)
           used == file_descriptor_used
<1>1. /\ file_descriptors \in Tables /\ Table \in Tables
      /\ cap \in Nat /\ used \in Nat
      /\ DOMAIN file_descriptors = 1..cap
      /\ DOMAIN Table = 1..Len(Table) /\ Len(Table) \in Nat
  <2>1. file_descriptors \in Tables /\ Table \in Tables
    BY TableProperties DEF TypeOK, Tables
  <2> QED
    BY <2>1, LenProperties DEF Tables, TypeOK
<1>2. used = Cardinality(OpenIn(file_descriptors)) /\ used <= cap
  BY <1>1, TableFinite DEF UsedCount
<1>3. CASE cap > 0 /\ used >= cap
  <2>1. Len(Table) = cap + cap
    BY <1>3, TableProperties
  <2>2. Table # file_descriptors /\ file_descriptors # <<>>
    <3>1. Len(Table) # Len(file_descriptors)
      <4> HIDE DEF cap
      <4>1. Len(Table) # cap
        BY <1>1, <1>3, <2>1
      <4> QED
        BY <4>1 DEF cap
    <3>2. Len(<<>>) = 0
      BY EmptySeq
    <3> QED
      BY <1>3, <3>1, <3>2
  <2>3. Place = used + 1
    BY <2>2 DEF Place
  <2>4. Place \in 1..Len(Table) /\ Place \notin 1..cap
    BY <1>1, <1>2, <1>3, <2>1, <2>3
  <2>5. Table[Place] = NULL
    BY <1>1, <2>4, TableProperties
  <2> QED
    BY <1>1, <2>4, <2>5
<1>4. CASE ~(cap > 0 /\ used >= cap)
  <2>1. ~(Table # file_descriptors /\ file_descriptors # <<>>)
    <3>1. CASE cap = 0
      BY <1>1, <3>1, EmptySeq DEF Tables
    <3>2. CASE cap # 0
      <4>1. used < cap
        BY <1>1, <1>4, <3>2
      <4> QED
        BY <4>1, TableProperties
    <3> QED
      BY <3>1, <3>2
  <2> DEFINE T == {i \in DOMAIN Table : Table[i] = NULL}
             First(i) == Table[i] = NULL /\ \A j \in 1..(i - 1) : Table[j] # NULL
             k == CHOOSE i \in DOMAIN Table : First(i)
  <2>2. T # {}
    <3>1. CASE cap = 0
      <4>1. Len(Table) > 0
        BY <3>1, TableProperties, UserFSAssumption
      <4>2. 1 \in DOMAIN Table /\ 1 \notin 1..cap
        BY <1>1, <3>1, <4>1
      <4>3. Table[1] = NULL
        BY <4>2, TableProperties
      <4> QED
        BY <4>2, <4>3
    <3>2. CASE cap # 0
      <4>1. used < cap
        BY <1>1, <1>4, <3>2
      <4>2. Table = file_descriptors
        BY <4>1, TableProperties
      <4>3. OpenIn(file_descriptors) # 1..cap
        <5> SUFFICES ASSUME OpenIn(file_descriptors) = 1..cap  PROVE FALSE
          OBVIOUS
        <5>1. Cardinality(1..cap) = cap
          <6>1. cap \in Int /\ cap >= 0
            BY <1>1
          <6> HIDE DEF cap
          <6>2. Cardinality(1..cap) = IF 1 > cap THEN 0 ELSE cap - 1 + 1
            BY <6>1, FS_Interval
          <6> QED
            BY <6>1, <6>2
        <5> QED
          BY <1>1, <1>2, <4>1, <5>1
      <4>4. OpenIn(file_descriptors) = {i \in DOMAIN Table : Table[i] # NULL}
        BY <4>2 DEF OpenIn
      <4> QED
        BY <1>1, <4>2, <4>3, <4>4
    <3> QED
      BY <3>1, <3>2
  <2>3. \E i \in DOMAIN Table : First(i)
    <3>1. T \in SUBSET (1..Len(Table))
      BY <1>1
    <3>2. PICK i \in T : \A j \in 1..(i - 1) : j \notin T
      <4> HIDE DEF T
      <4> QED
        BY <1>1, <2>2, <3>1, LeastPlace
    <3>3. ASSUME NEW j \in 1..(i - 1)  PROVE j \in DOMAIN Table
      BY <1>1, <3>2
    <3> QED
      BY <3>2, <3>3
  <2>4. Place = IF \E i \in DOMAIN Table : Table[i] = NULL THEN k ELSE 0
    BY <2>1 DEF Place
  <2>5. \E i \in DOMAIN Table : Table[i] = NULL
    BY <2>2
  <2> HIDE DEF First
  <2>6. k \in DOMAIN Table /\ First(k)
    BY <2>3
  <2> HIDE DEF k
  <2>7. Place = k
    BY <2>4, <2>5
  <2>8. Place \in 1..Len(Table)
    BY <1>1, <2>6, <2>7
  <2> QED
    BY <1>1, <2>6, <2>7, <2>8 DEF First
<1> QED
  BY <1>3, <1>4

-----------------------------------------------------------------------------
(* Files and offsets as values.                                            *)

(* The blocks of a file reach as far as its size, and a file that only got *)
(* bytes at its end holds them and is no larger than the limit.            *)
GoodFile(file) ==
  /\ file \in FileRecords
  /\ Len(file.data) = file.size
  /\ file.size <= Len(file.blocks) * BLOCK_SIZE
  /\ ~file.patched => file.size <= MAX_FILE_SIZE /\ Exact(file)

(* The blocks reach as far as the offset, which is not behind the end of a *)
(* file that only got bytes there.                                         *)
GoodOffset(file, offset) ==
  /\ offset <= Len(file.blocks) * BLOCK_SIZE
  /\ ~file.patched => offset <= file.size

(* A file with other blocks, another size, other bytes.                    *)
Filled(file, b, s, d, p) ==
  [file EXCEPT !.blocks = b, !.size = s, !.data = d, !.patched = p]

(* What ufs_write, and the two halves of ufs_resize, leave of a file.      *)
Written(file, offset, buf) ==
  Filled(file, WriteBlocks(file.blocks, offset, buf),
         Larger(file.size, offset + Len(buf)),
         WriteData(file.data, offset, buf),
         file.patched \/ ~AtTheEnd(file, offset))

Shrunk(file, new_size) ==
  LET kept == ShrinkBlocks(file.blocks, file.size, new_size) IN
  Filled(file, kept, IF kept = <<>> THEN 0 ELSE new_size,
         SubSeq(file.data, 1, new_size), file.patched)

Grown(file, new_size) ==
  Filled(file, GrowBlocks(file.blocks, file.size, new_size), new_size,
         file.data \o [i \in 1..(new_size - Len(file.data)) |-> 0],
         file.patched \/ file.size % BLOCK_SIZE # 0)

(* The fields of a file have the types of struct file.                     *)
LEMMA FileFields ==
  ASSUME NEW file \in FileRecords
  PROVE  /\ file.blocks \in Seq(Block) /\ file.data \in Seq(Byte)
         /\ file.size \in Nat /\ file.refs \in Nat
         /\ file.patched \in BOOLEAN /\ file.alive \in BOOLEAN /\ file.is_ghost \in BOOLEAN
         /\ Len(file.blocks) \in Nat /\ Len(file.data) \in Nat
         /\ Len(file.blocks) * BLOCK_SIZE \in Nat
<1>1. /\ file.blocks \in Seq(Block) /\ file.data \in Seq(Byte)
      /\ file.size \in Nat /\ file.refs \in Nat
      /\ file.patched \in BOOLEAN /\ file.alive \in BOOLEAN /\ file.is_ghost \in BOOLEAN
  BY DEF FileRecords
<1>2. Len(file.blocks) \in Nat /\ Len(file.data) \in Nat
  BY <1>1, LenProperties
<1> DEFINE n == Len(file.blocks)
<1>3. n \in Int /\ n \in Nat
  BY <1>2
<1> HIDE DEF n
<1>4. n * BLOCK_SIZE \in Nat
  BY <1>3, Multiples
<1> QED
  BY <1>1, <1>2, <1>4 DEF n

(* A file with other blocks, another size and other bytes is a file.       *)
LEMMA UpdatedFile ==
  ASSUME NEW file \in FileRecords,
         NEW b \in Seq(Block), NEW s \in Nat, NEW d \in Seq(Byte), NEW p \in BOOLEAN
  PROVE  Filled(file, b, s, d, p) \in FileRecords
  BY DEF FileRecords, Filled

(* The fields that change, and those that do not.                          *)
LEMMA UpdatedFields ==
  ASSUME NEW file \in FileRecords, NEW b, NEW s, NEW d, NEW p
  PROVE  /\ Filled(file, b, s, d, p).blocks = b
         /\ Filled(file, b, s, d, p).size = s
         /\ Filled(file, b, s, d, p).data = d
         /\ Filled(file, b, s, d, p).patched = p
         /\ Filled(file, b, s, d, p).alive = file.alive
         /\ Filled(file, b, s, d, p).refs = file.refs
         /\ Filled(file, b, s, d, p).is_ghost = file.is_ghost
         /\ Filled(file, b, s, d, p).name = file.name
  BY DEF FileRecords, Filled

(* What a write changes of a file.                                         *)
LEMMA WrittenFields ==
  ASSUME NEW file \in FileRecords, NEW offset, NEW buf
  PROVE  /\ Written(file, offset, buf).blocks = WriteBlocks(file.blocks, offset, buf)
         /\ Written(file, offset, buf).size = Larger(file.size, offset + Len(buf))
         /\ Written(file, offset, buf).data = WriteData(file.data, offset, buf)
         /\ Written(file, offset, buf).patched = (file.patched \/ ~AtTheEnd(file, offset))
<1>1. Written(file, offset, buf).patched = (file.patched \/ ~AtTheEnd(file, offset))
  BY Zenon DEF Written, Filled, FileRecords
<1> QED
  BY <1>1, UpdatedFields DEF Written

(* What a cut changes of a file.                                           *)
LEMMA ShrunkFields ==
  ASSUME NEW file \in FileRecords, NEW new_size
  PROVE  LET kept == ShrinkBlocks(file.blocks, file.size, new_size) IN
         /\ Shrunk(file, new_size).blocks = kept
         /\ Shrunk(file, new_size).size = IF kept = <<>> THEN 0 ELSE new_size
         /\ Shrunk(file, new_size).data = SubSeq(file.data, 1, new_size)
         /\ Shrunk(file, new_size).patched = file.patched
<1>1. Shrunk(file, new_size).patched = file.patched
  BY Zenon DEF Shrunk, Filled, FileRecords
<1> QED
  BY <1>1 DEF Shrunk, Filled, FileRecords

(* What an extension changes of a file.                                    *)
LEMMA GrownFields ==
  ASSUME NEW file \in FileRecords, NEW new_size
  PROVE  /\ Grown(file, new_size).blocks = GrowBlocks(file.blocks, file.size, new_size)
         /\ Grown(file, new_size).size = new_size
         /\ Grown(file, new_size).data =
              file.data \o [i \in 1..(new_size - Len(file.data)) |-> 0]
         /\ Grown(file, new_size).patched = (file.patched \/ file.size % BLOCK_SIZE # 0)
<1>1. Grown(file, new_size).patched = (file.patched \/ file.size % BLOCK_SIZE # 0)
  BY Zenon DEF Grown, Filled, FileRecords
<1> QED
  BY <1>1 DEF Grown, Filled, FileRecords

(* An empty file is good, and so is any offset 0.                          *)
LEMMA EmptyFileGood ==
  ASSUME NEW file \in FileRecords, file.blocks = <<>>, file.data = <<>>, file.size = 0
  PROVE  GoodFile(file) /\ GoodOffset(file, 0)
<1>1. Len(file.blocks) = 0 /\ Len(file.data) = 0 /\ DOMAIN file.blocks = {}
  BY EmptySeq
<1>2. Len(file.blocks) * BLOCK_SIZE = 0
  BY <1>1, BlockSizeType
<1>3. Exact(file)
  BY <1>1 DEF Exact
<1>4. 0 <= MAX_FILE_SIZE
  BY UserFSAssumption
<1> QED
  BY <1>1, <1>2, <1>3, <1>4 DEF GoodFile, GoodOffset

(* What a write leaves is good, for every offset that was, and the new one.*)
LEMMA WrittenGood ==
  ASSUME NEW file, GoodFile(file), NEW offset \in Nat, GoodOffset(file, offset),
         NEW buf \in Seq(Byte), buf # <<>>, file.size + Len(buf) <= MAX_FILE_SIZE
  PROVE  /\ GoodFile(Written(file, offset, buf))
         /\ GoodOffset(Written(file, offset, buf), offset + Len(buf))
         /\ \A o \in Nat : GoodOffset(file, o) => GoodOffset(Written(file, offset, buf), o)
<1> DEFINE g == Written(file, offset, buf)
           size == file.size
           end == offset + Len(buf)
           new == WriteBlocks(file.blocks, offset, buf)
           old == Len(file.blocks) * BLOCK_SIZE
           room == Len(new) * BLOCK_SIZE
<1>1. /\ file \in FileRecords
      /\ file.blocks \in Seq(Block) /\ file.data \in Seq(Byte)
      /\ size \in Nat /\ old \in Nat
      /\ file.patched \in BOOLEAN
  BY FileFields DEF GoodFile
<1>2. Len(buf) \in Nat /\ Len(buf) > 0
  BY EmptySeq, LenProperties
<1>3. size <= old /\ offset <= old
  BY DEF GoodFile, GoodOffset
<1>4. /\ new \in Seq(Block) /\ Len(new) \in Nat /\ end <= room /\ Len(new) >= Len(file.blocks)
  BY <1>1, <1>3, WriteBlocksProperties, WriteCovers, LenProperties
<1>5. old <= room /\ room \in Nat
  <2> DEFINE a == Len(file.blocks)
             b == Len(new)
  <2>1. a \in Int /\ b \in Int /\ a <= b /\ b \in Nat
    BY <1>1, <1>4, LenProperties
  <2> HIDE DEF a, b
  <2>2. a * BLOCK_SIZE <= b * BLOCK_SIZE /\ b * BLOCK_SIZE \in Nat
    BY <2>1, Products, Multiples
  <2> QED
    BY <2>2 DEF a, b
<1>6. WriteData(file.data, offset, buf) \in Seq(Byte)
  BY <1>1, WriteDataProperties
<1>7. Larger(size, end) \in Nat /\ Larger(size, end) >= size /\ Larger(size, end) >= end
      /\ (Larger(size, end) = size \/ Larger(size, end) = end)
  BY <1>1, <1>2 DEF Larger
<1>8. /\ g \in FileRecords
      /\ g.blocks = new /\ g.size = Larger(size, end)
      /\ g.data = WriteData(file.data, offset, buf)
      /\ g.patched = (file.patched \/ ~AtTheEnd(file, offset))
  <2> DEFINE p == file.patched \/ ~AtTheEnd(file, offset)
             d == WriteData(file.data, offset, buf)
             s == Larger(size, end)
  <2>1. p \in BOOLEAN /\ d \in Seq(Byte) /\ s \in Nat /\ new \in Seq(Block)
    BY <1>1, <1>4, <1>6, <1>7 DEF AtTheEnd
  <2>2. g = Filled(file, new, s, d, p)
    BY DEF Written
  <2> HIDE DEF g, new, size, end, p, d, s
  <2>3. g \in FileRecords
    BY <1>1, <2>1, <2>2, UpdatedFile
  <2> QED
    BY <1>1, <2>3, WrittenFields DEF g, new, size, end
<1> HIDE DEF g, new, size, end, old, room
<1>9. ASSUME ~g.patched
      PROVE  /\ Exact(g) /\ g.size <= MAX_FILE_SIZE
             /\ end <= g.size /\ size <= g.size
  <2>1. ~file.patched /\ AtTheEnd(file, offset)
    BY <1>8, <1>9
  <2>2. Exact(file) /\ offset <= size
    BY <2>1 DEF GoodFile, GoodOffset, size
  <2>3. Exact(g)
    BY <1>1, <1>2, <1>8, <2>1, <2>2, WriteKeepsExact DEF new, size, end
  <2>4. size + Len(buf) <= MAX_FILE_SIZE /\ MAX_FILE_SIZE \in Nat
    BY UserFSAssumption DEF size
  <2>5. end <= MAX_FILE_SIZE /\ size <= MAX_FILE_SIZE
    BY <1>1, <1>2, <2>2, <2>4 DEF end
  <2>6. g.size <= MAX_FILE_SIZE
    BY <1>7, <1>8, <2>5
  <2> QED
    BY <1>7, <1>8, <2>3, <2>6
<1>10. g.size <= room
  <2>1. end \in Nat
    BY <1>2 DEF end
  <2> QED
    BY <1>1, <1>3, <1>4, <1>5, <1>7, <1>8, <2>1
<1>11. Len(g.blocks) * BLOCK_SIZE = room
  BY <1>8 DEF room
<1>12. GoodFile(g)
  <2>1. Len(g.data) = Larger(Len(file.data), offset + Len(buf))
    <3>1. Len(WriteData(file.data, offset, buf)) = Larger(Len(file.data), offset + Len(buf))
      BY <1>1, WriteDataProperties
    <3>2. g.data = WriteData(file.data, offset, buf)
      BY <1>8
    <3> QED
      BY <3>1, <3>2, Zenon
  <2>2. Len(g.data) = g.size
    BY <1>8, <2>1 DEF GoodFile, size, end
  <2> QED
    BY <1>8, <1>9, <1>10, <1>11, <2>2 DEF GoodFile
<1>13. GoodOffset(g, end)
  BY <1>4, <1>9, <1>11 DEF GoodOffset
<1>14. ASSUME NEW o \in Nat, GoodOffset(file, o)  PROVE GoodOffset(g, o)
  <2>1. o <= room
    BY <1>1, <1>5, <1>14 DEF GoodOffset, old
  <2>2. ASSUME ~g.patched  PROVE o <= g.size
    <3>1. o <= size
      BY <1>8, <1>14, <2>2 DEF GoodOffset, size
    <3> QED
      BY <1>1, <1>7, <1>8, <1>9, <2>2, <3>1
  <2> QED
    BY <1>11, <2>1, <2>2 DEF GoodOffset
<1> QED
  BY <1>12, <1>13, <1>14 DEF g, end

(* What a cut leaves is good, for every offset that was and is moved to    *)
(* the new end if it was behind it.                                        *)
LEMMA ShrunkGood ==
  ASSUME NEW file, GoodFile(file), NEW new_size \in Nat, new_size < file.size
  PROVE  /\ GoodFile(Shrunk(file, new_size))
         /\ \A o \in Nat : GoodOffset(file, o) =>
              GoodOffset(Shrunk(file, new_size), Smaller(o, new_size))
<1> DEFINE g == Shrunk(file, new_size)
           kept == ShrinkBlocks(file.blocks, file.size, new_size)
           s == IF kept = <<>> THEN 0 ELSE new_size
           d == SubSeq(file.data, 1, new_size)
           room == Len(kept) * BLOCK_SIZE
<1>1. /\ file \in FileRecords
      /\ file.blocks \in Seq(Block) /\ file.data \in Seq(Byte)
      /\ file.size \in Nat /\ Len(file.data) = file.size
      /\ file.patched \in BOOLEAN /\ file.size <= Len(file.blocks) * BLOCK_SIZE
  BY FileFields DEF GoodFile
<1>2. /\ kept \in Seq(Block) /\ new_size <= room
  BY <1>1, ShrinkBlocksProperties
<1>3. Len(kept) \in Nat /\ room \in Nat
  <2> DEFINE l == Len(kept)
  <2>1. l \in Int /\ l \in Nat
    BY <1>2, LenProperties
  <2> HIDE DEF l
  <2>2. l * BLOCK_SIZE \in Nat
    BY <2>1, Multiples
  <2> QED
    BY <2>1, <2>2 DEF l
<1>4. s = new_size
  <2>1. CASE kept = <<>>
    <3>1. Len(kept) = 0
      BY <2>1, EmptySeq
    <3>2. room = 0
      BY <3>1, BlockSizeType
    <3> HIDE DEF room
    <3>3. new_size = 0
      BY <1>2, <3>2
    <3> QED
      BY <2>1, <3>3
  <2>2. CASE kept # <<>>
    BY <2>2
  <2> QED
    BY <2>1, <2>2
<1>5. d \in Seq(Byte) /\ Len(d) = new_size
  <2>1. \A i \in 1..new_size : file.data[i] \in Byte
    <3>1. \A i \in 1..new_size : i \in 1..Len(file.data)
      BY <1>1
    <3> QED
      BY <1>1, <3>1, ElementOfSeq
  <2>2. /\ d \in Seq(Byte) /\ Len(d) = IF 1 <= new_size THEN new_size - 1 + 1 ELSE 0
    BY <2>1, SubSeqProperties
  <2> QED
    BY <2>2
<1>6. /\ g \in FileRecords
      /\ g.blocks = kept /\ g.size = new_size /\ g.data = d /\ g.patched = file.patched
  <2>1. g = Filled(file, kept, s, d, file.patched)
    BY DEF Shrunk
  <2>2. s \in Nat
    BY <1>4
  <2> HIDE DEF g, kept, s, d
  <2>3. g \in FileRecords
    BY <1>1, <1>2, <1>5, <2>1, <2>2, UpdatedFile
  <2> QED
    BY <1>1, <1>4, <2>3, ShrunkFields DEF g, kept, s, d
<1> HIDE DEF g, kept, d, room
<1>7. ASSUME ~g.patched  PROVE Exact(g) /\ g.size <= MAX_FILE_SIZE
  <2>1. Exact(file) /\ file.size <= MAX_FILE_SIZE
    BY <1>6, <1>7 DEF GoodFile
  <2>2. g.size = s
    BY <1>4, <1>6
  <2>3. Exact(g)
    BY <1>1, <1>6, <2>1, <2>2, ShrinkKeepsExact DEF kept, d, s
  <2>4. new_size <= MAX_FILE_SIZE
    <3> DEFINE size == file.size
    <3>1. size \in Nat /\ size <= MAX_FILE_SIZE /\ MAX_FILE_SIZE \in Nat /\ new_size < size
      BY <1>1, <2>1, UserFSAssumption
    <3> HIDE DEF size
    <3> QED
      BY <3>1
  <2>5. g.size = new_size
    BY <1>6
  <2> QED
    BY <2>3, <2>4, <2>5
<1>8. Len(g.blocks) * BLOCK_SIZE = room
  BY <1>6 DEF room
<1>9. GoodFile(g)
  BY <1>2, <1>5, <1>6, <1>7, <1>8 DEF GoodFile
<1>10. ASSUME NEW o \in Nat  PROVE GoodOffset(g, Smaller(o, new_size))
  <2>1. Smaller(o, new_size) <= new_size /\ Smaller(o, new_size) \in Nat
    BY DEF Smaller
  <2>2. Smaller(o, new_size) <= room
    BY <1>2, <1>3, <2>1
  <2> QED
    BY <1>6, <1>8, <2>1, <2>2 DEF GoodOffset
<1> QED
  BY <1>9, <1>10 DEF g

(* What is extended stays good, and so do the offsets.                     *)
LEMMA GrownGood ==
  ASSUME NEW file, GoodFile(file),
         NEW new_size \in Nat, new_size > file.size, new_size <= MAX_FILE_SIZE
  PROVE  /\ GoodFile(Grown(file, new_size))
         /\ \A o \in Nat : GoodOffset(file, o) => GoodOffset(Grown(file, new_size), o)
<1> DEFINE g == Grown(file, new_size)
           grown == GrowBlocks(file.blocks, file.size, new_size)
           d == file.data \o [i \in 1..(new_size - Len(file.data)) |-> 0]
           p == file.patched \/ file.size % BLOCK_SIZE # 0
           old == Len(file.blocks) * BLOCK_SIZE
           room == Len(grown) * BLOCK_SIZE
<1>1. /\ file \in FileRecords
      /\ file.blocks \in Seq(Block) /\ file.data \in Seq(Byte)
      /\ file.size \in Nat /\ Len(file.data) = file.size
      /\ file.patched \in BOOLEAN /\ file.size <= old /\ old \in Nat
      /\ Len(file.blocks) \in Nat
  BY FileFields DEF GoodFile
<1>2. grown \in Seq(Block) /\ Len(file.blocks) <= Len(grown) /\ new_size <= room
  BY <1>1, GrowBlocksProperties
<1>3. Len(grown) \in Nat /\ room \in Nat /\ old <= room
  <2> DEFINE l == Len(grown)
             k == Len(file.blocks)
  <2>1. l \in Int /\ l \in Nat /\ k \in Int /\ k <= l
    BY <1>1, <1>2, LenProperties
  <2> HIDE DEF l, k
  <2>2. l * BLOCK_SIZE \in Nat /\ k * BLOCK_SIZE <= l * BLOCK_SIZE
    BY <2>1, Multiples, Products
  <2> QED
    BY <2>1, <2>2 DEF l, k
<1>4. d \in Seq(Byte) /\ Len(d) = new_size
  <2> DEFINE n == new_size - Len(file.data)
             zeros == [i \in 1..n |-> 0]
  <2>1. n \in Nat /\ 0 \in Byte
    BY <1>1 DEF Byte
  <2> HIDE DEF n
  <2>2. zeros \in [1..n -> Byte]
    BY <2>1
  <2>3. zeros \in Seq(Byte)
    BY <2>1, <2>2, SeqDef
  <2>4. Len(zeros) = n
    BY <2>1
  <2> HIDE DEF zeros
  <2>5. d = file.data \o zeros
    BY DEF zeros, n
  <2>6. /\ file.data \o zeros \in Seq(Byte)
        /\ Len(file.data \o zeros) = Len(file.data) + Len(zeros)
    BY <1>1, <2>3, ConcatProperties
  <2>7. Len(d) = new_size
    BY <1>1, <2>4, <2>5, <2>6 DEF n
  <2> QED
    BY <2>5, <2>6, <2>7
<1>5. /\ g \in FileRecords
      /\ g.blocks = grown /\ g.size = new_size /\ g.data = d
      /\ g.patched = (file.patched \/ file.size % BLOCK_SIZE # 0)
  <2>1. g = Filled(file, grown, new_size, d, p)
    BY DEF Grown
  <2>2. p \in BOOLEAN
    OBVIOUS
  <2> HIDE DEF g, grown, d, p
  <2>3. g \in FileRecords
    BY <1>1, <1>2, <1>4, <2>1, <2>2, UpdatedFile
  <2> QED
    BY <1>1, <2>3, GrownFields DEF g, grown, d
<1> HIDE DEF g, grown, d, room, old
<1>6. ASSUME ~g.patched  PROVE Exact(g) /\ file.size % BLOCK_SIZE = 0 /\ ~file.patched
  <2>1. ~file.patched /\ file.size % BLOCK_SIZE = 0
    BY <1>5, <1>6
  <2>2. Exact(file)
    BY <2>1 DEF GoodFile
  <2> QED
    BY <1>1, <1>5, <2>1, <2>2, GrowKeepsExact DEF grown, d
<1>7. Len(g.blocks) * BLOCK_SIZE = room
  BY <1>5 DEF room
<1>8. GoodFile(g)
  BY <1>2, <1>4, <1>5, <1>6, <1>7 DEF GoodFile
<1>9. ASSUME NEW o \in Nat, GoodOffset(file, o)  PROVE GoodOffset(g, o)
  <2>1. o <= room
    BY <1>1, <1>3, <1>9 DEF GoodOffset, old
  <2>2. ASSUME ~g.patched  PROVE o <= g.size
    <3>1. o <= file.size
      BY <1>6, <1>9, <2>2 DEF GoodOffset
    <3> QED
      BY <1>1, <1>5, <3>1
  <2> QED
    BY <1>7, <2>1, <2>2 DEF GoodOffset
<1> QED
  BY <1>8, <1>9 DEF g

(* An offset that has moved over what was read is good.                    *)
LEMMA ReadGood ==
  ASSUME NEW file, GoodFile(file), NEW o \in Nat, GoodOffset(file, o), NEW n \in Nat
  PROVE  LET read == ReadBytes(file.blocks, file.size, o, n) IN
         Len(read) \in Nat /\ o + Len(read) \in Nat /\ GoodOffset(file, o + Len(read))
<1> DEFINE read == ReadBytes(file.blocks, file.size, o, n)
           size == file.size
           room == Len(file.blocks) * BLOCK_SIZE
<1>1. /\ file \in FileRecords
      /\ file.blocks \in Seq(Block) /\ file.data \in Seq(Byte)
      /\ size \in Nat /\ Len(file.data) = size /\ room \in Nat
  BY FileFields DEF GoodFile
<1>2. o <= room
  BY DEF GoodOffset
<1>3. Len(read) \in 0..n /\ o + Len(read) <= room
  BY <1>1, <1>2, ReadBytesProperties
<1>4. ASSUME ~file.patched  PROVE o + Len(read) <= size
  <2>1. Exact(file) /\ o <= size
    BY <1>4 DEF GoodFile, GoodOffset
  <2> DEFINE e == Smaller(o + n, Len(file.data))
             a == o + 1
  <2>2. read = SubSeq(file.data, a, e)
    BY <1>1, <2>1, ReadBytesExact
  <2>3. e <= size /\ e \in Nat /\ a \in Nat
    BY <1>1 DEF Smaller
  <2>4. \A i \in a..e : file.data[i] \in Byte
    <3>1. \A i \in a..e : i \in 1..Len(file.data)
      BY <1>1, <2>3
    <3> QED
      BY <1>1, <3>1, ElementOfSeq
  <2> HIDE DEF e, a, read, size
  <2>5. Len(SubSeq(file.data, a, e)) = IF a <= e THEN e - a + 1 ELSE 0
    BY <2>3, <2>4, SubSeqProperties
  <2>6. Len(read) = IF a <= e THEN e - a + 1 ELSE 0
    BY <2>2, <2>5
  <2>7. a = o + 1
    BY DEF a
  <2> QED
    BY <1>1, <2>1, <2>3, <2>6, <2>7
<1> HIDE DEF read, room
<1>5. o + Len(read) \in Nat
  BY <1>3
<1> QED
  BY <1>3, <1>4, <1>5 DEF GoodOffset, read, room

-----------------------------------------------------------------------------
(* The inductive invariant.                                                *)

FilesGood == \A f \in Files : GoodFile(files[f])

OffsetsGood ==
  \A fd \in OpenIn(file_descriptors) :
    GoodOffset(files[file_descriptors[fd].file], file_descriptors[fd].offset)

UserFSInvariant ==
  /\ TypeOK
  /\ UsedCount
  /\ RefsExact
  /\ NoFileLost
  /\ FilesGood
  /\ OffsetsGood

(* The invariant of given files, list, table and counter, in parts.        *)
TypesIn(fs, list, table) ==
  fs \in [Files -> FileRecords] /\ list \in Seq(Files) /\ table \in Tables

RefsIn(fs, table) ==
  \A f \in Files :
    /\ fs[f].refs = Cardinality(Holding(table, f))
    /\ Holding(table, f) # {} => fs[f].alive

ListIn(fs, list) ==
  /\ IsInjective(list)
  /\ Range(list) = {f \in Files : fs[f].alive}
  /\ \A f \in Files : fs[f].is_ghost => fs[f].refs > 0

ContentIn(fs, table) ==
  /\ \A f \in Files : GoodFile(fs[f])
  /\ \A fd \in OpenIn(table) : GoodOffset(fs[table[fd].file], table[fd].offset)

StateOK(fs, list, table, used) ==
  /\ TypesIn(fs, list, table)
  /\ used = Cardinality(OpenIn(table))
  /\ RefsIn(fs, table)
  /\ ListIn(fs, list)
  /\ ContentIn(fs, table)

ErrorCodes == {"NO_ERR", "NO_FILE", "NO_MEM", "NO_PERMISSION", "NOT_IMPLEMENTED"}

(* The invariant is that of the variables, in a state and after a step.    *)
LEMMA InvariantIsStateOK ==
  /\ UserFSInvariant =>
       /\ StateOK(files, file_list, file_descriptors, file_descriptor_used)
       /\ ufs_error_code \in ErrorCodes
  /\ StateOK(files', file_list', file_descriptors', file_descriptor_used')
       /\ ufs_error_code' \in ErrorCodes
     => UserFSInvariant'
  /\ StateOK(files, file_list, file_descriptors, file_descriptor_used)
       /\ ufs_error_code \in ErrorCodes
     => UserFSInvariant
<1>1. UserFSInvariant =>
       /\ StateOK(files, file_list, file_descriptors, file_descriptor_used)
       /\ ufs_error_code \in ErrorCodes
  <2> SUFFICES ASSUME UserFSInvariant
               PROVE  /\ StateOK(files, file_list, file_descriptors, file_descriptor_used)
                      /\ ufs_error_code \in ErrorCodes
    OBVIOUS
  <2>1. TypesIn(files, file_list, file_descriptors)
    BY DEF UserFSInvariant, TypeOK, TypesIn, Tables
  <2>2. file_descriptor_used = Cardinality(OpenIn(file_descriptors))
    BY DEF UserFSInvariant, UsedCount
  <2>3. RefsIn(files, file_descriptors)
    BY DEF UserFSInvariant, RefsExact, RefsIn, DescriptorsOf, Holding, OpenIn, IsOpen
  <2>4. ListIn(files, file_list)
    BY DEF UserFSInvariant, NoFileLost, ListIn
  <2>5. ContentIn(files, file_descriptors)
    BY DEF UserFSInvariant, FilesGood, OffsetsGood, ContentIn
  <2>6. ufs_error_code \in ErrorCodes
    BY DEF UserFSInvariant, TypeOK, ErrorCodes
  <2> QED
    BY <2>1, <2>2, <2>3, <2>4, <2>5, <2>6 DEF StateOK
<1>2. ASSUME StateOK(files, file_list, file_descriptors, file_descriptor_used),
             ufs_error_code \in ErrorCodes
      PROVE  UserFSInvariant
  <2>1. TypeOK
    <3>1. file_descriptors \in Tables /\ file_descriptor_used \in Nat
      BY <1>2, TableFinite DEF StateOK, TypesIn
    <3> QED
      BY <1>2, <3>1 DEF StateOK, TypesIn, TypeOK, Tables, ErrorCodes
  <2>2. UsedCount
    BY <1>2 DEF StateOK, UsedCount
  <2>3. RefsExact
    BY <1>2 DEF StateOK, RefsExact, RefsIn, DescriptorsOf, Holding, OpenIn, IsOpen
  <2>4. NoFileLost
    BY <1>2 DEF StateOK, NoFileLost, ListIn
  <2>5. FilesGood /\ OffsetsGood
    BY <1>2 DEF StateOK, FilesGood, OffsetsGood, ContentIn
  <2> QED
    BY <2>1, <2>2, <2>3, <2>4, <2>5 DEF UserFSInvariant
<1>3. ASSUME StateOK(files', file_list', file_descriptors', file_descriptor_used'),
             ufs_error_code' \in ErrorCodes
      PROVE  UserFSInvariant'
  <2>1. TypeOK'
    <3>1. file_descriptors' \in Tables /\ file_descriptor_used' \in Nat
      BY <1>3, TableFinite DEF StateOK, TypesIn
    <3> QED
      BY <1>3, <3>1 DEF StateOK, TypesIn, TypeOK, Tables, ErrorCodes
  <2>2. UsedCount'
    BY <1>3 DEF StateOK, UsedCount
  <2>3. RefsExact'
    BY <1>3 DEF StateOK, RefsExact, RefsIn, DescriptorsOf, Holding, OpenIn, IsOpen
  <2>4. NoFileLost'
    BY <1>3 DEF StateOK, NoFileLost, ListIn
  <2>5. FilesGood' /\ OffsetsGood'
    BY <1>3 DEF StateOK, FilesGood, OffsetsGood, ContentIn
  <2> QED
    BY <2>1, <2>2, <2>3, <2>4, <2>5 DEF UserFSInvariant
<1> QED
  BY <1>1, <1>2, <1>3

-----------------------------------------------------------------------------
(* What each kind of change does to the invariant.                         *)

(* One file is replaced by another record.                                 *)
ChangedAt(fs, f, g, after) ==
  /\ after \in [Files -> FileRecords]
  /\ after[f] = g
  /\ \A h \in Files : h # f => after[h] = fs[h]

(* An assignment to one file is such a change.                             *)
LEMMA ChangeOne ==
  ASSUME NEW fs \in [Files -> FileRecords], NEW f \in Files, NEW g \in FileRecords
  PROVE  ChangedAt(fs, f, g, [fs EXCEPT ![f] = g])
  BY DEF ChangedAt

(* A descriptor in the table is one of FileDescs, with a file and an       *)
(* offset.                                                                 *)
LEMMA OpenDescriptorType ==
  ASSUME NEW table \in Tables, NEW fd \in OpenIn(table)
  PROVE  /\ fd \in 1..Len(table) /\ table[fd] \in FileDescs
         /\ table[fd].file \in Files /\ table[fd].offset \in Nat
         /\ fd \in Holding(table, table[fd].file)
<1>1. fd \in 1..Len(table) /\ table[fd] # NULL
  BY LenProperties DEF Tables, OpenIn
<1>2. table[fd] \in FileDescs \cup {NULL}
  BY <1>1, ElementOfSeq DEF Tables
<1>3. table[fd] \in FileDescs
  BY <1>1, <1>2
<1>4. table[fd].file \in Files /\ table[fd].offset \in Nat
  BY <1>3 DEF FileDescs
<1> QED
  BY <1>1, <1>3, <1>4 DEF Holding

(* The record of a file changes, but not who refers to it, and perhaps the *)
(* offsets of descriptors: a write, a read, a resize, and a deletion that  *)
(* only marks the file.                                                    *)
LEMMA ReplaceKeeps ==
  ASSUME NEW fs, NEW list, NEW table, NEW used, StateOK(fs, list, table, used),
         NEW f \in Files, NEW g \in FileRecords,
         g.refs = fs[f].refs, g.alive = fs[f].alive,
         g.is_ghost => g.refs > 0,
         GoodFile(g),
         NEW fs2, ChangedAt(fs, f, g, fs2),
         NEW table2 \in Tables, SameFiles(table, table2),
         \A fd \in OpenIn(table2) :
           GoodOffset(fs2[table2[fd].file], table2[fd].offset)
  PROVE  StateOK(fs2, list, table2, used)
<1>1. /\ OpenIn(table2) = OpenIn(table)
      /\ \A h : Holding(table2, h) = Holding(table, h)
  BY SameFilesHolding
<1>2. /\ \A h \in Files : h # f => fs2[h] = fs[h]
      /\ fs2[f] = g /\ fs2 \in [Files -> FileRecords]
  BY DEF ChangedAt
<1>3. TypesIn(fs2, list, table2)
  BY <1>2 DEF TypesIn, StateOK
<1>4. used = Cardinality(OpenIn(table2))
  BY <1>1 DEF StateOK
<1>5. RefsIn(fs2, table2)
  <2> SUFFICES ASSUME NEW h \in Files
               PROVE  /\ fs2[h].refs = Cardinality(Holding(table2, h))
                      /\ Holding(table2, h) # {} => fs2[h].alive
    BY DEF RefsIn
  <2>1. /\ fs[h].refs = Cardinality(Holding(table, h))
        /\ Holding(table, h) # {} => fs[h].alive
    BY DEF StateOK, RefsIn
  <2>2. fs2[h].refs = fs[h].refs
    BY <1>2, Zenon
  <2>3. fs2[h].alive = fs[h].alive
    BY <1>2, Zenon
  <2> QED
    BY <1>1, <2>1, <2>2, <2>3, Zenon
<1>6. ListIn(fs2, list)
  <2>1. \A h \in Files : fs2[h].alive = fs[h].alive
    BY <1>2, Zenon
  <2>2. \A h \in Files : fs2[h].is_ghost => fs2[h].refs > 0
    <3> SUFFICES ASSUME NEW h \in Files, fs2[h].is_ghost  PROVE fs2[h].refs > 0
      OBVIOUS
    <3>1. CASE h = f
      BY <1>2, <3>1
    <3>2. CASE h # f
      BY <1>2, <3>2 DEF StateOK, ListIn
    <3> QED
      BY <3>1, <3>2
  <2>3. {h \in Files : fs2[h].alive} = {h \in Files : fs[h].alive}
    BY <2>1, Zenon
  <2> QED
    BY <2>2, <2>3 DEF StateOK, ListIn
<1>7. ContentIn(fs2, table2)
  BY <1>2 DEF StateOK, ContentIn
<1> QED
  BY <1>3, <1>4, <1>5, <1>6, <1>7 DEF StateOK

(* A descriptor is put into the table for a file that is on the list or    *)
(* comes first on it: the second half of ufs_open.                         *)
LEMMA OpenKeeps ==
  ASSUME NEW fs, NEW list, NEW table, NEW used, StateOK(fs, list, table, used),
         NEW f \in Files, NEW g \in FileRecords, NEW refs, refs = fs[f].refs,
         g.alive, g.refs = refs + 1,
         GoodFile(g),
         Holding(table, f) # {} => g.blocks = fs[f].blocks /\ g.size = fs[f].size
                                     /\ g.patched = fs[f].patched,
         NEW fs2, ChangedAt(fs, f, g, fs2),
         NEW list2 \in Seq(Files), IsInjective(list2), Range(list2) = Range(list) \cup {f},
         NEW desc \in FileDescs, desc.file = f, desc.offset = 0,
         NEW place \in DOMAIN table, table[place] = NULL
  PROVE  StateOK(fs2, list2, [table EXCEPT ![place] = desc], used + 1)
<1> DEFINE table2 == [table EXCEPT ![place] = desc]
<1>1. /\ table \in Tables /\ fs \in [Files -> FileRecords]
      /\ used = Cardinality(OpenIn(table))
  BY DEF StateOK, TypesIn
<1>2. /\ table2 \in Tables /\ OpenIn(table2) = OpenIn(table) \cup {place}
      /\ Cardinality(OpenIn(table2)) = used + 1
      /\ \A h : Cardinality(Holding(table2, h)) =
                  IF h = f THEN Cardinality(Holding(table, h)) + 1
                  ELSE Cardinality(Holding(table, h))
      /\ \A h : Holding(table2, h) = IF h = f THEN Holding(table, h) \cup {place}
                                     ELSE Holding(table, h)
  <2>1. /\ table2 \in Tables /\ Len(table2) = Len(table)
        /\ OpenIn(table2) = OpenIn(table) \cup {place}
        /\ Cardinality(OpenIn(table2)) = Cardinality(OpenIn(table)) + 1
        /\ \A h : Cardinality(Holding(table2, h)) =
                    IF h = desc.file THEN Cardinality(Holding(table, h)) + 1
                    ELSE Cardinality(Holding(table, h))
        /\ \A h : Holding(table2, h) = IF h = desc.file THEN Holding(table, h) \cup {place}
                                       ELSE Holding(table, h)
    <3>1. table \in Tables
      BY <1>1
    <3> QED
      BY <3>1, PutDescriptor, Zenon
  <2> HIDE DEF table2
  <2> QED
    BY <1>1, <2>1
<1>3. /\ table2[place] = desc
      /\ \A fd \in OpenIn(table) : fd # place /\ table2[fd] = table[fd]
  <2>1. table2 = [table EXCEPT ![place] = desc]
    OBVIOUS
  <2>2. \A fd \in OpenIn(table) : fd \in DOMAIN table /\ fd # place
    BY DEF OpenIn
  <2>3. table \in [1..Len(table) -> FileDescs \cup {NULL}] /\ DOMAIN table = 1..Len(table)
    BY <1>1, LenProperties DEF Tables
  <2> QED
    BY <2>1, <2>2, <2>3
<1> HIDE DEF table2
<1>4. /\ \A h \in Files : h # f => fs2[h] = fs[h]
      /\ fs2[f] = g /\ fs2 \in [Files -> FileRecords]
  BY DEF ChangedAt
<1>5. TypesIn(fs2, list2, table2)
  BY <1>2, <1>4 DEF TypesIn
<1>6. RefsIn(fs2, table2)
  <2> SUFFICES ASSUME NEW h \in Files
               PROVE  /\ fs2[h].refs = Cardinality(Holding(table2, h))
                      /\ Holding(table2, h) # {} => fs2[h].alive
    BY DEF RefsIn
  <2>1. /\ fs[h].refs = Cardinality(Holding(table, h))
        /\ Holding(table, h) # {} => fs[h].alive
    BY DEF StateOK, RefsIn
  <2>2. CASE h = f
    <3>1. Cardinality(Holding(table2, h)) = refs + 1
      BY <1>2, <2>1, <2>2
    <3>2. fs2[h] = g
      BY <1>4, <2>2
    <3> QED
      BY <3>1, <3>2
  <2>3. CASE h # f
    <3>1. fs2[h] = fs[h] /\ Holding(table2, h) = Holding(table, h)
      BY <1>2, <1>4, <2>3
    <3> QED
      BY <2>1, <3>1
  <2> QED
    BY <2>2, <2>3
<1>7. ListIn(fs2, list2)
  <2>1. {h \in Files : fs2[h].alive} = {h \in Files : fs[h].alive} \cup {f}
    <3>1. \A h \in Files : h # f => fs2[h].alive = fs[h].alive
      BY <1>4, Zenon
    <3>2. fs2[f].alive
      BY <1>4
    <3> QED
      BY <3>1, <3>2, Zenon
  <2>2. Range(list2) = {h \in Files : fs2[h].alive}
    BY <2>1 DEF StateOK, ListIn
  <2>3. \A h \in Files : fs2[h].is_ghost => fs2[h].refs > 0
    <3> SUFFICES ASSUME NEW h \in Files, fs2[h].is_ghost  PROVE fs2[h].refs > 0
      OBVIOUS
    <3>1. CASE h = f
      <4>1. refs \in Nat
        BY <1>1, FileFields
      <4>2. refs + 1 > 0
        BY <4>1
      <4> QED
        BY <1>4, <3>1, <4>2
    <3>2. CASE h # f
      BY <1>4, <3>2 DEF StateOK, ListIn
    <3> QED
      BY <3>1, <3>2
  <2> QED
    BY <2>2, <2>3 DEF ListIn
<1>8. ContentIn(fs2, table2)
  <2>1. \A h \in Files : GoodFile(fs2[h])
    BY <1>4 DEF StateOK, ContentIn
  <2>2. ASSUME NEW fd \in OpenIn(table2)
        PROVE  GoodOffset(fs2[table2[fd].file], table2[fd].offset)
    <3>1. CASE fd = place
      <4>1. g.size \in Nat /\ Len(g.blocks) * BLOCK_SIZE \in Nat
        BY FileFields
      <4>2. GoodOffset(g, 0)
        BY <4>1 DEF GoodOffset
      <4> QED
        BY <1>3, <1>4, <3>1, <4>2
    <3>2. CASE fd # place
      <4>1. fd \in OpenIn(table) /\ table2[fd] = table[fd]
        BY <1>2, <1>3, <3>2
      <4>2. GoodOffset(fs[table[fd].file], table[fd].offset)
        BY <4>1 DEF StateOK, ContentIn
      <4>3. table[fd].file \in Files
        BY <1>1, <4>1, OpenDescriptorType
      <4>4. CASE table[fd].file = f
        <5>1. Holding(table, f) # {}
          BY <4>1, <4>4 DEF Holding
        <5>2. g.blocks = fs[f].blocks /\ g.size = fs[f].size
          BY <5>1
        <5>3. g.patched = fs[f].patched
          BY <5>1
        <5>4. GoodOffset(fs[f], table[fd].offset)
          BY <4>2, <4>4
        <5>5. GoodOffset(g, table[fd].offset)
          BY <5>2, <5>3, <5>4, Zenon DEF GoodOffset
        <5> QED
          BY <1>4, <4>1, <4>4, <5>5
      <4>5. CASE table[fd].file # f
        BY <1>4, <4>1, <4>2, <4>3, <4>5
      <4> QED
        BY <4>4, <4>5
    <3> QED
      BY <3>1, <3>2
  <2> QED
    BY <2>1, <2>2 DEF ContentIn
<1> QED
  BY <1>2, <1>5, <1>6, <1>7, <1>8 DEF StateOK, ListIn, table2

(* A descriptor is taken out of the table and its file stays.              *)
LEMMA CloseKeeps ==
  ASSUME NEW fs, NEW list, NEW table, NEW used, StateOK(fs, list, table, used),
         NEW fd \in OpenIn(table), NEW f, f = table[fd].file,
         ~(fs[f].refs <= 1 /\ fs[f].is_ghost),
         NEW g \in FileRecords, NEW refs, refs = fs[f].refs,
         g.refs = refs - 1, g.alive = fs[f].alive, g.is_ghost = fs[f].is_ghost,
         GoodFile(g),
         g.blocks = fs[f].blocks, g.size = fs[f].size, g.patched = fs[f].patched,
         NEW fs2, ChangedAt(fs, f, g, fs2)
  PROVE  StateOK(fs2, list, [table EXCEPT ![fd] = NULL], used - 1)
<1> DEFINE table2 == [table EXCEPT ![fd] = NULL]
<1>1. /\ table \in Tables /\ fs \in [Files -> FileRecords] /\ list \in Seq(Files)
      /\ used = Cardinality(OpenIn(table)) /\ f \in Files
  BY OpenDescriptorType DEF StateOK, TypesIn
<1>2. /\ table2 \in Tables
      /\ Cardinality(OpenIn(table2)) = used - 1
      /\ \A h : Cardinality(Holding(table2, h)) =
                  IF h = f THEN Cardinality(Holding(table, h)) - 1
                  ELSE Cardinality(Holding(table, h))
      /\ \A h : Holding(table2, h) = Holding(table, h) \ {fd}
  BY <1>1, DropDescriptor
<1>3. \A x \in OpenIn(table2) : x \in OpenIn(table) /\ table2[x] = table[x]
  <2>1. table \in [1..Len(table) -> FileDescs \cup {NULL}] /\ DOMAIN table = 1..Len(table)
    BY <1>1, LenProperties DEF Tables
  <2>2. fd \in 1..Len(table)
    BY <2>1 DEF OpenIn
  <2>3. /\ DOMAIN table2 = DOMAIN table /\ table2[fd] = NULL
        /\ \A x \in DOMAIN table : x # fd => table2[x] = table[x]
    BY <2>1, <2>2
  <2> HIDE DEF table2
  <2> QED
    BY <2>3 DEF OpenIn
<1> HIDE DEF table2
<1>4. /\ \A h \in Files : h # f => fs2[h] = fs[h]
      /\ fs2[f] = g /\ fs2 \in [Files -> FileRecords]
  BY DEF ChangedAt
<1>5. TypesIn(fs2, list, table2)
  BY <1>1, <1>2, <1>4 DEF TypesIn
<1>6. RefsIn(fs2, table2)
  <2> SUFFICES ASSUME NEW h \in Files
               PROVE  /\ fs2[h].refs = Cardinality(Holding(table2, h))
                      /\ Holding(table2, h) # {} => fs2[h].alive
    BY DEF RefsIn
  <2>1. /\ fs[h].refs = Cardinality(Holding(table, h))
        /\ Holding(table, h) # {} => fs[h].alive
    BY DEF StateOK, RefsIn
  <2>2. fs2[h].alive = fs[h].alive
    BY <1>4, Zenon
  <2>3. Holding(table2, h) # {} => fs2[h].alive
    BY <1>2, <2>1, <2>2
  <2>4. CASE h = f
    <3>1. Cardinality(Holding(table2, h)) = refs - 1
      BY <1>2, <2>1, <2>4
    <3>2. fs2[h] = g
      BY <1>4, <2>4
    <3> QED
      BY <2>3, <3>1, <3>2
  <2>5. CASE h # f
    <3>1. fs2[h].refs = Cardinality(Holding(table2, h))
      BY <1>2, <1>4, <2>1, <2>5
    <3> QED
      BY <2>3, <3>1
  <2> QED
    BY <2>4, <2>5
<1>7. ListIn(fs2, list)
  <2>1. {h \in Files : fs2[h].alive} = {h \in Files : fs[h].alive}
    <3>1. \A h \in Files : fs2[h].alive = fs[h].alive
      BY <1>4, Zenon
    <3> QED
      BY <3>1, Zenon
  <2>2. \A h \in Files : fs2[h].is_ghost => fs2[h].refs > 0
    <3> SUFFICES ASSUME NEW h \in Files, fs2[h].is_ghost  PROVE fs2[h].refs > 0
      OBVIOUS
    <3>1. CASE h = f
      <4>1. fs[f].is_ghost
        BY <1>4, <3>1
      <4>2. refs \in Nat /\ ~(refs <= 1)
        BY <1>1, <4>1, FileFields
      <4>3. refs - 1 > 0
        BY <4>2
      <4> QED
        BY <1>4, <3>1, <4>3
    <3>2. CASE h # f
      BY <1>4, <3>2 DEF StateOK, ListIn
    <3> QED
      BY <3>1, <3>2
  <2> QED
    BY <2>1, <2>2 DEF StateOK, ListIn
<1>8. ContentIn(fs2, table2)
  <2>1. \A h \in Files : GoodFile(fs2[h])
    BY <1>4 DEF StateOK, ContentIn
  <2>2. ASSUME NEW x \in OpenIn(table2)
        PROVE  GoodOffset(fs2[table2[x].file], table2[x].offset)
    <3>1. x \in OpenIn(table) /\ table2[x] = table[x]
      BY <1>3
    <3>2. GoodOffset(fs[table[x].file], table[x].offset)
      BY <3>1 DEF StateOK, ContentIn
    <3>3. table[x].file \in Files
      BY <1>1, <3>1, OpenDescriptorType
    <3>4. CASE table[x].file = f
      <4>1. GoodOffset(g, table[x].offset)
        BY <3>2, <3>4, Zenon DEF GoodOffset
      <4> QED
        BY <1>4, <3>1, <3>4, <4>1
    <3>5. CASE table[x].file # f
      BY <1>4, <3>1, <3>2, <3>3, <3>5
    <3> QED
      BY <3>4, <3>5
  <2> QED
    BY <2>1, <2>2 DEF ContentIn
<1> QED
  BY <1>2, <1>5, <1>6, <1>7, <1>8 DEF StateOK, table2

(* What _ufs_free_file leaves, and calloc gives to ufs_open.               *)
LEMMA FreeFileGood ==
  /\ FreeFile \in FileRecords /\ GoodFile(FreeFile)
  /\ FreeFile.refs = 0 /\ ~FreeFile.alive /\ ~FreeFile.is_ghost
  /\ FreeFile.blocks = <<>> /\ FreeFile.data = <<>> /\ FreeFile.size = 0
<1>1. /\ FreeFile.refs = 0 /\ ~FreeFile.alive /\ ~FreeFile.is_ghost
      /\ FreeFile.blocks = <<>> /\ FreeFile.data = <<>> /\ FreeFile.size = 0
  BY DEF FreeFile
<1>2. FreeFile \in FileRecords
  <2>1. <<>> \in Seq(Block) /\ <<>> \in Seq(Byte)
    BY EmptySeq
  <2> QED
    BY <2>1 DEF FreeFile, FileRecords
<1>3. GoodFile(FreeFile)
  BY <1>1, <1>2, EmptyFileGood
<1> QED
  BY <1>1, <1>2, <1>3

(* A file that no descriptor is left on is unlinked and freed, by ufs_close*)
(* or ufs_delete.                                                          *)
LEMMA FreeKeeps ==
  ASSUME NEW fs, NEW list, NEW table, NEW used, StateOK(fs, list, table, used),
         NEW f \in Files,
         NEW fs2, ChangedAt(fs, f, FreeFile, fs2),
         NEW list2 \in Seq(Files), IsInjective(list2), Range(list2) = Range(list) \ {f},
         NEW table2 \in Tables,
         \A x \in OpenIn(table2) : x \in OpenIn(table) /\ table2[x] = table[x],
         Cardinality(Holding(table2, f)) = 0,
         \A h \in Files : h # f => Holding(table2, h) = Holding(table, h),
         NEW used2, used2 = Cardinality(OpenIn(table2))
  PROVE  StateOK(fs2, list2, table2, used2)
<1>1. /\ table \in Tables /\ fs \in [Files -> FileRecords] /\ list \in Seq(Files)
  BY DEF StateOK, TypesIn
<1>2. /\ \A h \in Files : h # f => fs2[h] = fs[h]
      /\ fs2[f] = FreeFile /\ fs2 \in [Files -> FileRecords]
  BY DEF ChangedAt
<1>3. Holding(table2, f) = {}
  BY TableFinite, FS_EmptySet
<1>4. TypesIn(fs2, list2, table2)
  BY <1>2 DEF TypesIn
<1>5. RefsIn(fs2, table2)
  <2> SUFFICES ASSUME NEW h \in Files
               PROVE  /\ fs2[h].refs = Cardinality(Holding(table2, h))
                      /\ Holding(table2, h) # {} => fs2[h].alive
    BY DEF RefsIn
  <2>1. CASE h = f
    BY <1>2, <1>3, <2>1, FreeFileGood
  <2>2. CASE h # f
    <3>1. /\ fs[h].refs = Cardinality(Holding(table, h))
          /\ Holding(table, h) # {} => fs[h].alive
      BY DEF StateOK, RefsIn
    <3>2. fs2[h] = fs[h] /\ Holding(table2, h) = Holding(table, h)
      BY <1>2, <2>2
    <3> QED
      BY <3>1, <3>2
  <2> QED
    BY <2>1, <2>2
<1>6. ListIn(fs2, list2)
  <2>1. {h \in Files : fs2[h].alive} = {h \in Files : fs[h].alive} \ {f}
    <3>1. \A h \in Files : h # f => fs2[h].alive = fs[h].alive
      BY <1>2, Zenon
    <3>2. ~fs2[f].alive
      BY <1>2, FreeFileGood
    <3> QED
      BY <3>1, <3>2, Zenon
  <2>2. Range(list2) = {h \in Files : fs2[h].alive}
    BY <2>1 DEF StateOK, ListIn
  <2>3. \A h \in Files : fs2[h].is_ghost => fs2[h].refs > 0
    <3> SUFFICES ASSUME NEW h \in Files, fs2[h].is_ghost  PROVE fs2[h].refs > 0
      OBVIOUS
    <3>1. h # f
      BY <1>2, FreeFileGood
    <3> QED
      BY <1>2, <3>1 DEF StateOK, ListIn
  <2> QED
    BY <2>2, <2>3 DEF ListIn
<1>7. ContentIn(fs2, table2)
  <2>1. \A h \in Files : GoodFile(fs2[h])
    BY <1>2, FreeFileGood DEF StateOK, ContentIn
  <2>2. ASSUME NEW x \in OpenIn(table2)
        PROVE  GoodOffset(fs2[table2[x].file], table2[x].offset)
    <3>1. x \in OpenIn(table) /\ table2[x] = table[x]
      OBVIOUS
    <3>2. GoodOffset(fs[table[x].file], table[x].offset)
      BY <3>1 DEF StateOK, ContentIn
    <3>3. table[x].file \in Files
      BY <1>1, <3>1, OpenDescriptorType
    <3>4. table[x].file # f
      BY <1>3, <3>1 DEF Holding
    <3> QED
      BY <1>2, <3>1, <3>2, <3>3, <3>4
  <2> QED
    BY <2>1, <2>2 DEF ContentIn
<1> QED
  BY <1>4, <1>5, <1>6, <1>7 DEF StateOK

(* _ufs_unlink_file takes a file off the list, and no other.               *)
LEMMA UnlinkProperties ==
  ASSUME file_list \in Seq(Files), IsInjective(file_list), NEW f \in Range(file_list)
  PROVE  /\ Unlink(f) \in Seq(Files) /\ IsInjective(Unlink(f))
         /\ Range(Unlink(f)) = Range(file_list) \ {f}
<1> DEFINE i == CHOOSE i \in DOMAIN file_list : file_list[i] = f
<1>1. \E k \in DOMAIN file_list : file_list[k] = f
  BY DEF Range
<1>2. i \in DOMAIN file_list /\ file_list[i] = f
  BY <1>1
<1>3. Unlink(f) = RemoveAt(file_list, i)
  BY DEF Unlink
<1> HIDE DEF i
<1>4. /\ RemoveAt(file_list, i) \in Seq(Files)
      /\ Range(RemoveAt(file_list, i)) = Range(file_list) \ {file_list[i]}
      /\ IsInjective(RemoveAt(file_list, i))
  BY <1>2, RemoveFromList
<1> QED
  BY <1>2, <1>3, <1>4

-----------------------------------------------------------------------------
(* The steps.                                                              *)

Counted == StateOK(files, file_list, file_descriptors, file_descriptor_used)

(* The invariant without the error code, after a step.                     *)
CountedNext == StateOK(files', file_list', file_descriptors', file_descriptor_used')

(* A call that fails sets the error code and leaves the rest alone.        *)
LEMMA FailKeeps ==
  ASSUME Counted, NEW error \in ErrorCodes, Fail(error)
  PROVE  CountedNext /\ ufs_error_code' \in ErrorCodes
  BY DEF Counted, CountedNext, Fail, descriptors

(* The table that ufs_open may have enlarged is as good as the old one.    *)
LEMMA OpenTable ==
  ASSUME Counted, TypeOK
  PROVE  StateOK(files, file_list, Table, file_descriptor_used)
<1>1. /\ Table \in Tables /\ OpenIn(Table) = OpenIn(file_descriptors)
      /\ \A f : Holding(Table, f) = Holding(file_descriptors, f)
      /\ \A i \in 1..Len(file_descriptors) : Table[i] = file_descriptors[i]
  BY TableProperties
<1>2. /\ TypesIn(files, file_list, file_descriptors)
      /\ file_descriptor_used = Cardinality(OpenIn(file_descriptors))
      /\ RefsIn(files, file_descriptors) /\ ListIn(files, file_list)
      /\ ContentIn(files, file_descriptors)
  BY DEF Counted, StateOK
<1>3. \A fd \in OpenIn(file_descriptors) : Table[fd] = file_descriptors[fd]
  BY <1>1, <1>2, OpenDescriptorType DEF TypesIn
<1>4. TypesIn(files, file_list, Table)
  BY <1>1, <1>2 DEF TypesIn
<1>5. RefsIn(files, Table)
  BY <1>1, <1>2 DEF RefsIn
<1>6. ContentIn(files, Table)
  BY <1>1, <1>2, <1>3 DEF ContentIn
<1> QED
  BY <1>1, <1>2, <1>4, <1>5, <1>6 DEF StateOK

(* What is good of a file depends on what it holds.                        *)
LEMMA SameContent ==
  ASSUME NEW file, GoodFile(file), NEW g \in FileRecords,
         g.blocks = file.blocks, g.size = file.size, g.data = file.data,
         g.patched = file.patched
  PROVE  GoodFile(g)
<1>1. Len(g.data) = g.size /\ g.size <= Len(g.blocks) * BLOCK_SIZE
  BY DEF GoodFile
<1>2. ASSUME ~g.patched  PROVE g.size <= MAX_FILE_SIZE /\ Exact(g)
  <2>1. file.size <= MAX_FILE_SIZE /\ Exact(file)
    BY <1>2, Zenon DEF GoodFile
  <2>2. Exact(g)
    BY <2>1, Zenon DEF Exact
  <2> QED
    BY <2>1, <2>2, Zenon
<1> QED
  BY <1>1, <1>2, Zenon DEF GoodFile

(* A file with another count of references, or marked as deleted.          *)
LEMMA OtherRefs ==
  ASSUME NEW file \in FileRecords, NEW n \in Nat
  PROVE  LET g == [file EXCEPT !.refs = n] IN
         /\ g \in FileRecords /\ g.refs = n
         /\ g.alive = file.alive /\ g.is_ghost = file.is_ghost
         /\ g.blocks = file.blocks /\ g.size = file.size /\ g.data = file.data
         /\ g.patched = file.patched
         /\ GoodFile(file) => GoodFile(g)
<1> DEFINE g == [file EXCEPT !.refs = n]
<1>1. g \in FileRecords
  BY DEF FileRecords
<1>2. g.refs = n /\ g.blocks = file.blocks /\ g.size = file.size /\ g.data = file.data
  BY DEF FileRecords
<1>3. g.alive = file.alive /\ g.is_ghost = file.is_ghost /\ g.patched = file.patched
  BY Zenon DEF FileRecords
<1> HIDE DEF g
<1>4. GoodFile(file) => GoodFile(g)
  BY <1>1, <1>2, <1>3, SameContent, Zenon
<1> QED
  BY <1>1, <1>2, <1>3, <1>4, Zenon DEF g

(* Marking a file as deleted leaves what it holds alone.                   *)
LEMMA MarkedGhost ==
  ASSUME NEW file \in FileRecords
  PROVE  LET g == [file EXCEPT !.is_ghost = TRUE] IN
         /\ g \in FileRecords /\ g.refs = file.refs
         /\ g.alive = file.alive
         /\ g.blocks = file.blocks /\ g.size = file.size /\ g.data = file.data
         /\ g.patched = file.patched
         /\ GoodFile(file) => GoodFile(g)
<1> DEFINE g == [file EXCEPT !.is_ghost = TRUE]
<1>1. g \in FileRecords
  BY DEF FileRecords
<1>2. g.refs = file.refs /\ g.blocks = file.blocks /\ g.size = file.size /\ g.data = file.data
  BY DEF FileRecords
<1>3. g.alive = file.alive /\ g.patched = file.patched
  BY Zenon DEF FileRecords
<1> HIDE DEF g
<1>4. GoodFile(file) => GoodFile(g)
  BY <1>1, <1>2, <1>3, SameContent, Zenon
<1> QED
  BY <1>1, <1>2, <1>3, <1>4, Zenon DEF g

(* A new file.                                                             *)
LEMMA NewFileGood ==
  ASSUME NEW filename \in Names
  PROVE  LET g == [FreeFile EXCEPT !.alive = TRUE, !.name = filename] IN
         /\ g \in FileRecords /\ g.alive /\ g.refs = 0 /\ GoodFile(g)
<1> DEFINE g == [FreeFile EXCEPT !.alive = TRUE, !.name = filename]
<1>1. g \in FileRecords
  BY FreeFileGood DEF FileRecords
<1>2. g.alive /\ g.refs = 0 /\ g.blocks = <<>> /\ g.data = <<>> /\ g.size = 0
  BY DEF FreeFile
<1> HIDE DEF g
<1>3. GoodFile(g)
  BY <1>1, <1>2, EmptyFileGood
<1> QED
  BY <1>1, <1>2, <1>3 DEF g

(* ufs_open, once the file is known.                                       *)
LEMMA OpenStep ==
  ASSUME Counted, TypeOK, UsedCount,
         NEW f \in Files, NEW list \in Seq(Files), IsInjective(list),
         Range(list) = Range(file_list) \cup {f},
         NEW record \in FileRecords, record.alive, record.refs = files[f].refs,
         GoodFile(record),
         Holding(file_descriptors, f) # {} => record = files[f],
         NEW flags \in Flags, OpenDescriptor(f, list, record, flags)
  PROVE  CountedNext /\ ufs_error_code' \in ErrorCodes
<1> DEFINE g == [record EXCEPT !.refs = @ + 1]
           desc == [file |-> f, open_flags |-> AccessFlags(flags), offset |-> 0]
           refs == files[f].refs
<1>1. /\ Place # 0 /\ Place \in DOMAIN Table /\ Table[Place] = NULL
  BY PlaceProperties
<1>2. /\ files' = [files EXCEPT ![f] = g]
      /\ file_descriptors' = [Table EXCEPT ![Place] = desc]
      /\ file_descriptor_used' = file_descriptor_used + 1
      /\ file_list' = list /\ ufs_error_code' = ufs_error_code
  BY <1>1 DEF OpenDescriptor
<1>3. /\ files \in [Files -> FileRecords] /\ StateOK(files, file_list, Table, file_descriptor_used)
  BY OpenTable DEF TypeOK
<1>4. refs \in Nat /\ record.refs = refs
  BY <1>3, FileFields
<1>5. /\ g \in FileRecords /\ g.refs = refs + 1 /\ g.alive /\ GoodFile(g)
      /\ g.blocks = record.blocks /\ g.size = record.size
      /\ g.patched = record.patched
  <2> DEFINE n == refs + 1
  <2>1. n \in Nat /\ g = [record EXCEPT !.refs = n]
    BY <1>4
  <2> HIDE DEF n, g
  <2>2. LET h == [record EXCEPT !.refs = n] IN
         /\ h \in FileRecords /\ h.refs = n
         /\ h.alive = record.alive /\ h.is_ghost = record.is_ghost
         /\ h.blocks = record.blocks /\ h.size = record.size /\ h.data = record.data
         /\ h.patched = record.patched
         /\ GoodFile(record) => GoodFile(h)
    BY <2>1, OtherRefs, Zenon
  <2>3. /\ g \in FileRecords /\ g.refs = n /\ g.alive = record.alive /\ GoodFile(g)
        /\ g.blocks = record.blocks /\ g.size = record.size
        /\ g.patched = record.patched
    BY <2>1, <2>2, Zenon
  <2>4. g.alive
    BY <2>3, Zenon
  <2> QED
    BY <2>3, <2>4, Zenon DEF n
<1>6. desc \in FileDescs /\ desc.file = f /\ desc.offset = 0
  <2>1. flags \in SUBSET AllFlags
    BY UserFSAssumption
  <2>2. AccessFlags(flags) \in SUBSET AllFlags
    BY <2>1 DEF AccessFlags, AllFlags
  <2> QED
    BY <2>2 DEF FileDescs
<1>7. ChangedAt(files, f, g, files')
  BY <1>2, <1>3, <1>5, ChangeOne
<1>8. Holding(Table, f) # {} => g.blocks = files[f].blocks /\ g.size = files[f].size
                                  /\ g.patched = files[f].patched
  <2>1. Holding(Table, f) = Holding(file_descriptors, f)
    BY TableProperties
  <2> QED
    BY <1>5, <2>1, Zenon
<1> HIDE DEF g, desc, refs
<1>9. refs = files[f].refs
  BY DEF refs
<1>10. StateOK(files', list, [Table EXCEPT ![Place] = desc], file_descriptor_used + 1)
  BY <1>1, <1>3, <1>5, <1>6, <1>7, <1>8, <1>9, OpenKeeps
<1>11. ufs_error_code' \in ErrorCodes
  BY <1>2 DEF TypeOK, ErrorCodes
<1> QED
  BY <1>2, <1>10, <1>11 DEF CountedNext

(* An open descriptor, its file and its offset.                            *)
LEMMA OpenFacts ==
  ASSUME Counted, NEW fd, IsOpen(fd)
  PROVE  /\ fd \in OpenIn(file_descriptors)
         /\ file_descriptors \in Tables /\ files \in [Files -> FileRecords]
         /\ file_descriptors[fd].file \in Files
         /\ file_descriptors[fd].offset \in Nat
         /\ files[file_descriptors[fd].file] \in FileRecords
         /\ files[file_descriptors[fd].file].alive
         /\ GoodFile(files[file_descriptors[fd].file])
         /\ GoodOffset(files[file_descriptors[fd].file], file_descriptors[fd].offset)
<1>1. fd \in OpenIn(file_descriptors)
  BY DEF IsOpen, OpenIn
<1>2. /\ TypesIn(files, file_list, file_descriptors)
      /\ RefsIn(files, file_descriptors)
      /\ ContentIn(files, file_descriptors)
  BY DEF Counted, StateOK
<1>3. file_descriptors \in Tables /\ files \in [Files -> FileRecords]
  BY <1>2 DEF TypesIn
<1>4. /\ file_descriptors[fd].file \in Files
      /\ file_descriptors[fd].offset \in Nat
      /\ fd \in Holding(file_descriptors, file_descriptors[fd].file)
  BY <1>1, <1>3, OpenDescriptorType
<1>5. files[file_descriptors[fd].file].alive
  BY <1>2, <1>4 DEF RefsIn
<1>6. /\ GoodFile(files[file_descriptors[fd].file])
      /\ GoodOffset(files[file_descriptors[fd].file], file_descriptors[fd].offset)
  BY <1>1, <1>2, <1>4 DEF ContentIn
<1> QED
  BY <1>1, <1>3, <1>4, <1>5, <1>6

(* What changes a file keeps its references and marks.                     *)
LEMMA KeptMarks ==
  ASSUME Counted, NEW f \in Files, NEW b, NEW s, NEW d, NEW p
  PROVE  LET g == Filled(files[f], b, s, d, p) IN
         /\ g.refs = files[f].refs /\ g.alive = files[f].alive
         /\ g.is_ghost => g.refs > 0
<1> DEFINE file == files[f]
<1>1. file \in FileRecords
  BY DEF Counted, StateOK, TypesIn
<1>2. file.is_ghost => file.refs > 0
  BY DEF Counted, StateOK, ListIn
<1> HIDE DEF file
<1>3. Filled(file, b, s, d, p).refs = file.refs
  BY <1>1, UpdatedFields
<1>4. Filled(file, b, s, d, p).alive = file.alive
  BY <1>1, Zenon DEF Filled, FileRecords
<1>5. Filled(file, b, s, d, p).is_ghost = file.is_ghost
  BY <1>1, Zenon DEF Filled, FileRecords
<1> QED
  BY <1>2, <1>3, <1>4, <1>5, Zenon DEF file

(* A descriptor moves.                                                     *)
LEMMA MoveOffset ==
  ASSUME NEW table \in Tables, NEW fd \in OpenIn(table), NEW o \in Nat
  PROVE  LET after == [table EXCEPT ![fd].offset = o] IN
         /\ after \in Tables /\ SameFiles(table, after)
         /\ after[fd].offset = o /\ after[fd].file = table[fd].file
         /\ \A x \in OpenIn(table) : x # fd => after[x] = table[x]
<1> DEFINE desc == [table[fd] EXCEPT !.offset = o]
           after == [table EXCEPT ![fd] = desc]
<1>1. fd \in 1..Len(table) /\ table[fd] \in FileDescs
  BY OpenDescriptorType
<1>2. desc \in FileDescs /\ desc.offset = o /\ desc.file = table[fd].file
  BY <1>1 DEF FileDescs
<1> HIDE DEF desc
<1>3. desc # NULL
  BY <1>2, UserFSAssumption
<1>4. /\ after \in Tables /\ DOMAIN after = DOMAIN table
      /\ \A i \in DOMAIN table : after[i] = IF i = fd THEN desc ELSE table[i]
  <2>1. DOMAIN table = 1..Len(table)
    BY LenProperties DEF Tables
  <2>2. desc \in FileDescs \cup {NULL}
    BY <1>2
  <2> QED
    BY <1>1, <2>1, <2>2, ExceptSeq DEF Tables
<1>5. [table EXCEPT ![fd].offset = o] = after
  BY DEF desc
<1> HIDE DEF after
<1>6. fd \in DOMAIN table /\ table[fd] # NULL
  BY DEF OpenIn
<1>7. SameFiles(table, after)
  BY <1>2, <1>3, <1>4, <1>6 DEF SameFiles
<1>8. \A x \in OpenIn(table) : x # fd => after[x] = table[x]
  BY <1>4 DEF OpenIn
<1>9. after[fd] = desc
  BY <1>4, <1>6
<1> QED
  BY <1>2, <1>4, <1>5, <1>7, <1>8, <1>9

(* ufs_write, when there is room for the bytes.                            *)
LEMMA WriteStep ==
  ASSUME Counted, ufs_error_code \in ErrorCodes, NEW fd, NEW buf \in Buffers,
         ufs_write(fd, buf), IsOpen(fd), MayWrite(fd), buf # <<>>, ~TooBig(fd, buf)
  PROVE  CountedNext /\ ufs_error_code' \in ErrorCodes
<1> DEFINE table == file_descriptors
           f == table[fd].file
           offset == table[fd].offset
           file == files[f]
           end == offset + Len(buf)
           g == Written(file, offset, buf)
           after == [table EXCEPT ![fd].offset = end]
<1>1. /\ fd \in OpenIn(table) /\ table \in Tables /\ files \in [Files -> FileRecords]
      /\ f \in Files /\ offset \in Nat /\ file \in FileRecords
      /\ GoodFile(file) /\ GoodOffset(file, offset)
  BY OpenFacts
<1>2. buf \in Seq(Byte) /\ Len(buf) \in Nat
  <2>1. buf \in Seq(1..255)
    BY UserFSAssumption
  <2>2. buf \in [1..Len(buf) -> 1..255] /\ Len(buf) \in Nat
    BY <2>1, LenProperties
  <2>3. buf \in [1..Len(buf) -> Byte]
    BY <2>2 DEF Byte
  <2> QED
    BY <2>2, <2>3, SeqDef
<1>3. file.size + Len(buf) <= MAX_FILE_SIZE
  <2>1. ~(file.size + Len(buf) > MAX_FILE_SIZE)
    BY DEF TooBig
  <2>2. file.size \in Nat /\ MAX_FILE_SIZE \in Nat
    BY <1>1, FileFields, UserFSAssumption
  <2> QED
    BY <1>2, <2>1, <2>2
<1>4. /\ files' = [files EXCEPT ![f] = g]
      /\ file_descriptors' = after
      /\ file_list' = file_list /\ file_descriptor_used' = file_descriptor_used
      /\ ufs_error_code' = ufs_error_code
  BY DEF ufs_write, Written, Filled
<1>5. /\ GoodFile(g) /\ GoodOffset(g, end)
      /\ \A o \in Nat : GoodOffset(file, o) => GoodOffset(g, o)
  BY <1>1, <1>2, <1>3, WrittenGood
<1>6. g \in FileRecords
  BY <1>5 DEF GoodFile
<1>7. g.refs = file.refs /\ g.alive = file.alive /\ (g.is_ghost => g.refs > 0)
  <2> DEFINE b == WriteBlocks(file.blocks, offset, buf)
             s == Larger(file.size, offset + Len(buf))
             d == WriteData(file.data, offset, buf)
             p == file.patched \/ ~AtTheEnd(file, offset)
  <2>1. g = Filled(files[f], b, s, d, p)
    BY DEF Written
  <2> HIDE DEF b, s, d, p, g, f
  <2>2. /\ Filled(files[f], b, s, d, p).refs = files[f].refs
        /\ Filled(files[f], b, s, d, p).alive = files[f].alive
        /\ Filled(files[f], b, s, d, p).is_ghost => Filled(files[f], b, s, d, p).refs > 0
    BY <1>1, KeptMarks, Zenon
  <2> QED
    BY <2>1, <2>2, Zenon
<1>8. end \in Nat
  BY <1>1, <1>2
<1> HIDE DEF g, end
<1>9. /\ after \in Tables /\ SameFiles(table, after)
      /\ after[fd].offset = end /\ after[fd].file = f
      /\ \A x \in OpenIn(table) : x # fd => after[x] = table[x]
  BY <1>1, <1>8, MoveOffset
<1> HIDE DEF after
<1>10. ChangedAt(files, f, g, files')
  BY <1>1, <1>4, <1>6, ChangeOne
<1>11. ASSUME NEW x \in OpenIn(after)
       PROVE  GoodOffset(files'[after[x].file], after[x].offset)
  <2>1. x \in OpenIn(table)
    BY <1>9, SameFilesHolding
  <2>2. /\ files'[f] = g
        /\ \A h \in Files : h # f => files'[h] = files[h]
    BY <1>10 DEF ChangedAt
  <2>3. CASE x = fd
    BY <1>5, <1>9, <2>2, <2>3
  <2>4. CASE x # fd
    <3>1. after[x] = table[x]
      BY <1>9, <2>1, <2>4
    <3>2. table[x].file \in Files /\ table[x].offset \in Nat
          /\ GoodOffset(files[table[x].file], table[x].offset)
      BY <1>1, <2>1, OpenDescriptorType DEF Counted, StateOK, ContentIn
    <3>3. CASE table[x].file = f
      BY <1>5, <2>2, <3>1, <3>2, <3>3
    <3>4. CASE table[x].file # f
      BY <2>2, <3>1, <3>2, <3>4
    <3> QED
      BY <3>3, <3>4
  <2> QED
    BY <2>3, <2>4
<1>12. StateOK(files', file_list, after, file_descriptor_used)
  BY <1>1, <1>5, <1>6, <1>7, <1>9, <1>10, <1>11, ReplaceKeeps DEF Counted
<1> QED
  BY <1>4, <1>12 DEF CountedNext

(* Where a table with other offsets leaves every descriptor good, if those *)
(* of the changed file are.                                                *)
LEMMA OffsetsStayGood ==
  ASSUME NEW fs, NEW table \in Tables, ContentIn(fs, table),
         NEW f \in Files, NEW g, NEW fs2, ChangedAt(fs, f, g, fs2),
         NEW after, SameFiles(table, after),
         \A x \in OpenIn(table) : table[x].file # f => after[x] = table[x],
         \A x \in OpenIn(table) : table[x].file = f => GoodOffset(g, after[x].offset)
  PROVE  \A x \in OpenIn(after) : GoodOffset(fs2[after[x].file], after[x].offset)
<1> SUFFICES ASSUME NEW x \in OpenIn(after)
             PROVE  GoodOffset(fs2[after[x].file], after[x].offset)
  OBVIOUS
<1>1. x \in OpenIn(table)
  BY SameFilesHolding
<1>2. after[x].file = table[x].file
  BY <1>1 DEF SameFiles, OpenIn
<1>3. /\ fs2[f] = g
      /\ \A h \in Files : h # f => fs2[h] = fs[h]
  BY DEF ChangedAt
<1>4. CASE table[x].file = f
  BY <1>1, <1>2, <1>3, <1>4
<1>5. CASE table[x].file # f
  <2>1. table[x].file \in Files
    BY <1>1, OpenDescriptorType
  <2>2. GoodOffset(fs[table[x].file], table[x].offset)
    BY <1>1 DEF ContentIn
  <2> QED
    BY <1>1, <1>2, <1>3, <1>5, <2>1, <2>2
<1> QED
  BY <1>4, <1>5

(* ufs_read, with the right to read.                                       *)
LEMMA ReadStep ==
  ASSUME Counted, ufs_error_code \in ErrorCodes, NEW fd, NEW n \in ReadSizes,
         ufs_read(fd, n), IsOpen(fd), MayRead(fd)
  PROVE  CountedNext /\ ufs_error_code' \in ErrorCodes
<1> DEFINE table == file_descriptors
           f == table[fd].file
           offset == table[fd].offset
           file == files[f]
           read == ReadBytes(file.blocks, file.size, offset, n)
           end == offset + Len(read)
           after == [table EXCEPT ![fd].offset = end]
<1>1. /\ fd \in OpenIn(table) /\ table \in Tables /\ files \in [Files -> FileRecords]
      /\ f \in Files /\ offset \in Nat /\ file \in FileRecords
      /\ GoodFile(file) /\ GoodOffset(file, offset)
  BY OpenFacts
<1>2. n \in Nat
  BY UserFSAssumption
<1>3. /\ files' = files
      /\ file_descriptors' = after
      /\ file_list' = file_list /\ file_descriptor_used' = file_descriptor_used
      /\ ufs_error_code' = ufs_error_code
  BY DEF ufs_read
<1>4. end \in Nat /\ GoodOffset(file, end)
  BY <1>1, <1>2, ReadGood
<1> HIDE DEF end
<1>5. /\ after \in Tables /\ SameFiles(table, after)
      /\ after[fd].offset = end
      /\ \A x \in OpenIn(table) : x # fd => after[x] = table[x]
  BY <1>1, <1>4, MoveOffset
<1> HIDE DEF after
<1>6. ChangedAt(files, f, file, files)
  BY <1>1 DEF ChangedAt
<1>7. /\ ContentIn(files, table)
      /\ file.is_ghost => file.refs > 0
  BY <1>1 DEF Counted, StateOK, ListIn
<1>8. ASSUME NEW x \in OpenIn(table), table[x].file = f
      PROVE  GoodOffset(file, after[x].offset)
  <2>1. CASE x = fd
    BY <1>4, <1>5, <2>1
  <2>2. CASE x # fd
    BY <1>5, <1>7, <1>8, <2>2 DEF ContentIn
  <2> QED
    BY <2>1, <2>2
<1>9. \A x \in OpenIn(after) : GoodOffset(files[after[x].file], after[x].offset)
  <2>1. \A x \in OpenIn(table) : table[x].file # f => after[x] = table[x]
    BY <1>5
  <2> HIDE DEF f, file, table
  <2> QED
    BY <1>1, <1>5, <1>6, <1>7, <1>8, <2>1, OffsetsStayGood
<1>10. StateOK(files, file_list, after, file_descriptor_used)
  BY <1>1, <1>5, <1>6, <1>7, <1>9, ReplaceKeeps DEF Counted
<1> QED
  BY <1>3, <1>10 DEF CountedNext

(* A file is cut, with the offsets of its descriptors.                     *)
LEMMA ShrinkStep ==
  ASSUME Counted, ufs_error_code \in ErrorCodes, NEW f \in Files, NEW new_size \in Nat,
         ShrinkFile(f, new_size)
  PROVE  CountedNext /\ ufs_error_code' \in ErrorCodes
<1> DEFINE table == file_descriptors
           file == files[f]
           g == Shrunk(file, new_size)
           after == ClipOffsets(f, new_size)
<1>1. /\ table \in Tables /\ files \in [Files -> FileRecords]
      /\ file \in FileRecords /\ GoodFile(file) /\ ContentIn(files, table)
  BY DEF Counted, StateOK, TypesIn, ContentIn
<1>2. /\ new_size < file.size
      /\ files' = [files EXCEPT ![f] = g]
      /\ file_descriptors' = after
      /\ file_list' = file_list /\ file_descriptor_used' = file_descriptor_used
      /\ ufs_error_code' = ufs_error_code
  BY <1>1 DEF ShrinkFile, Shrunk, Filled, FileRecords
<1>3. /\ GoodFile(g)
      /\ \A o \in Nat : GoodOffset(file, o) => GoodOffset(g, Smaller(o, new_size))
  BY <1>1, <1>2, ShrunkGood
<1>4. g \in FileRecords
  BY <1>3 DEF GoodFile
<1>5. g.refs = file.refs /\ g.alive = file.alive /\ (g.is_ghost => g.refs > 0)
  <2> DEFINE b == ShrinkBlocks(file.blocks, file.size, new_size)
             s == IF b = <<>> THEN 0 ELSE new_size
             d == SubSeq(file.data, 1, new_size)
             p == file.patched
  <2>1. g = Filled(files[f], b, s, d, p)
    BY DEF Shrunk
  <2> HIDE DEF b, s, d, p, g
  <2>2. /\ Filled(files[f], b, s, d, p).refs = files[f].refs
        /\ Filled(files[f], b, s, d, p).alive = files[f].alive
        /\ Filled(files[f], b, s, d, p).is_ghost => Filled(files[f], b, s, d, p).refs > 0
    BY KeptMarks, Zenon
  <2> QED
    BY <2>1, <2>2, Zenon
<1>6. /\ after \in Tables /\ SameFiles(table, after)
      /\ \A x \in OpenIn(table) : table[x].file # f => after[x] = table[x]
      /\ \A x \in OpenIn(table) : table[x].file = f =>
           after[x].offset = Smaller(table[x].offset, new_size)
  <2>1. DOMAIN table = 1..Len(table) /\ Len(table) \in Nat
    BY <1>1, LenProperties DEF Tables
  <2>2. DOMAIN after = DOMAIN table
    BY DEF ClipOffsets
  <2>3. ASSUME NEW x \in DOMAIN table, table[x] # NULL
        PROVE  /\ after[x] \in FileDescs /\ after[x].file = table[x].file
               /\ table[x].file # f => after[x] = table[x]
               /\ table[x].file = f => after[x].offset = Smaller(table[x].offset, new_size)
    <3>1. table[x] \in FileDescs
      BY <1>1, <2>3, OpenDescriptorType DEF OpenIn
    <3>2. CASE table[x].file = f
      <4>1. after[x] = [table[x] EXCEPT !.offset = Smaller(@, new_size)]
        BY <2>3, <3>2 DEF ClipOffsets
      <4>2. Smaller(table[x].offset, new_size) \in Nat
        BY <3>1 DEF FileDescs, Smaller
      <4> QED
        BY <3>1, <3>2, <4>1, <4>2 DEF FileDescs
    <3>3. CASE table[x].file # f
      BY <2>3, <3>1, <3>3 DEF ClipOffsets
    <3> QED
      BY <3>2, <3>3
  <2>4. ASSUME NEW x \in DOMAIN table, table[x] = NULL
        PROVE  after[x] = NULL
    BY <2>4 DEF ClipOffsets
  <2> HIDE DEF after
  <2>5. after \in Tables
    <3>1. after \in [1..Len(table) -> FileDescs \cup {NULL}]
      <4>1. \A x \in DOMAIN table : after[x] \in FileDescs \cup {NULL}
        BY <2>3, <2>4
      <4>2. after = [x \in DOMAIN after |-> after[x]]
        BY DEF after, ClipOffsets
      <4> QED
        BY <2>1, <2>2, <4>1, <4>2
    <3> QED
      BY <2>1, <3>1, SeqDef DEF Tables
  <2>6. SameFiles(table, after)
    BY <2>2, <2>3, <2>4, UserFSAssumption DEF SameFiles
  <2> QED
    BY <2>3, <2>5, <2>6 DEF OpenIn
<1> HIDE DEF g, after
<1>7. ChangedAt(files, f, g, files')
  BY <1>1, <1>2, <1>4, ChangeOne
<1>8. \A x \in OpenIn(table) : table[x].file = f => GoodOffset(g, after[x].offset)
  BY <1>1, <1>3, <1>6, OpenDescriptorType DEF ContentIn
<1>9. \A x \in OpenIn(after) : GoodOffset(files'[after[x].file], after[x].offset)
  BY <1>1, <1>6, <1>7, <1>8, OffsetsStayGood
<1>10. StateOK(files', file_list, after, file_descriptor_used)
  BY <1>1, <1>3, <1>4, <1>5, <1>6, <1>7, <1>9, ReplaceKeeps DEF Counted
<1> QED
  BY <1>2, <1>10 DEF CountedNext

(* A file is extended.                                                     *)
LEMMA GrowStep ==
  ASSUME Counted, ufs_error_code \in ErrorCodes, NEW f \in Files, NEW new_size \in Nat,
         GrowFile(f, new_size)
  PROVE  CountedNext /\ ufs_error_code' \in ErrorCodes
<1> DEFINE table == file_descriptors
           file == files[f]
           g == Grown(file, new_size)
<1>1. /\ table \in Tables /\ files \in [Files -> FileRecords]
      /\ file \in FileRecords /\ GoodFile(file) /\ ContentIn(files, table)
  BY DEF Counted, StateOK, TypesIn, ContentIn
<1>2. /\ new_size > file.size /\ new_size <= MAX_FILE_SIZE
      /\ files' = [files EXCEPT ![f] = g]
      /\ file_descriptors' = table
      /\ file_list' = file_list /\ file_descriptor_used' = file_descriptor_used
      /\ ufs_error_code' = ufs_error_code
  BY <1>1 DEF GrowFile, Grown, Filled, FileRecords, descriptors
<1>3. /\ GoodFile(g)
      /\ \A o \in Nat : GoodOffset(file, o) => GoodOffset(g, o)
  BY <1>1, <1>2, GrownGood
<1>4. g \in FileRecords
  BY <1>3 DEF GoodFile
<1>5. g.refs = file.refs /\ g.alive = file.alive /\ (g.is_ghost => g.refs > 0)
  <2> DEFINE b == GrowBlocks(file.blocks, file.size, new_size)
             s == new_size
             d == file.data \o [i \in 1..(new_size - Len(file.data)) |-> 0]
             p == file.patched \/ file.size % BLOCK_SIZE # 0
  <2>1. g = Filled(files[f], b, s, d, p)
    BY DEF Grown
  <2> HIDE DEF b, s, d, p, g
  <2>2. /\ Filled(files[f], b, s, d, p).refs = files[f].refs
        /\ Filled(files[f], b, s, d, p).alive = files[f].alive
        /\ Filled(files[f], b, s, d, p).is_ghost => Filled(files[f], b, s, d, p).refs > 0
    BY KeptMarks, Zenon
  <2> QED
    BY <2>1, <2>2, Zenon
<1> HIDE DEF g
<1>6. ChangedAt(files, f, g, files')
  BY <1>1, <1>2, <1>4, ChangeOne
<1>7. SameFiles(table, table)
  BY DEF SameFiles
<1>8. \A x \in OpenIn(table) : table[x].file = f => GoodOffset(g, table[x].offset)
  BY <1>1, <1>3, OpenDescriptorType DEF ContentIn
<1>9. \A x \in OpenIn(table) : GoodOffset(files'[table[x].file], table[x].offset)
  BY <1>1, <1>6, <1>7, <1>8, OffsetsStayGood
<1>10. StateOK(files', file_list, table, file_descriptor_used)
  BY <1>1, <1>3, <1>4, <1>5, <1>6, <1>7, <1>9, ReplaceKeeps DEF Counted
<1> QED
  BY <1>2, <1>10 DEF CountedNext

(* ufs_close of an open descriptor.                                        *)
LEMMA CloseStep ==
  ASSUME Counted, ufs_error_code \in ErrorCodes, NEW fd, ufs_close(fd), IsOpen(fd)
  PROVE  CountedNext /\ ufs_error_code' \in ErrorCodes
<1> DEFINE table == file_descriptors
           f == table[fd].file
           file == files[f]
           after == [table EXCEPT ![fd] = NULL]
<1>1. /\ fd \in OpenIn(table) /\ table \in Tables /\ files \in [Files -> FileRecords]
      /\ f \in Files /\ file \in FileRecords /\ GoodFile(file) /\ file.alive
  BY OpenFacts
<1>2. /\ IF file.refs <= 1 /\ file.is_ghost
         THEN files' = [files EXCEPT ![f] = FreeFile] /\ file_list' = Unlink(f)
         ELSE files' = [files EXCEPT ![f].refs = @ - 1] /\ file_list' = file_list
      /\ file_descriptors' = after
      /\ file_descriptor_used' = file_descriptor_used - 1
      /\ ufs_error_code' = ufs_error_code
  BY DEF ufs_close, Fail
<1>3. /\ after \in Tables
      /\ Cardinality(OpenIn(after)) = Cardinality(OpenIn(table)) - 1
      /\ Cardinality(Holding(table, f)) > 0
      /\ \A h : Cardinality(Holding(after, h)) =
                  IF h = f THEN Cardinality(Holding(table, h)) - 1
                  ELSE Cardinality(Holding(table, h))
      /\ \A h : Holding(after, h) = Holding(table, h) \ {fd}
  BY <1>1, DropDescriptor
<1>4. /\ file_descriptor_used = Cardinality(OpenIn(table))
      /\ file.refs = Cardinality(Holding(table, f))
      /\ TypesIn(files, file_list, table) /\ ListIn(files, file_list)
  BY <1>1 DEF Counted, StateOK, RefsIn
<1>5. file.refs \in Nat
  BY <1>1, FileFields
<1> DEFINE refs == file.refs
<1>6. CASE refs <= 1 /\ file.is_ghost
  <2>1. files' = [files EXCEPT ![f] = FreeFile] /\ file_list' = Unlink(f)
    BY <1>2, <1>6
  <2>2. ChangedAt(files, f, FreeFile, files')
    BY <1>1, <2>1, FreeFileGood, ChangeOne
  <2>3. /\ Unlink(f) \in Seq(Files) /\ IsInjective(Unlink(f))
        /\ Range(Unlink(f)) = Range(file_list) \ {f}
    <3>1. file_list \in Seq(Files) /\ IsInjective(file_list)
      BY <1>4 DEF TypesIn, ListIn
    <3>2. f \in Range(file_list)
      BY <1>1, <1>4 DEF ListIn
    <3> QED
      BY <3>1, <3>2, UnlinkProperties
  <2>4. Cardinality(Holding(after, f)) = 0
    <3> DEFINE c == Cardinality(Holding(table, f))
    <3>1. refs = c /\ c > 0 /\ refs <= 1 /\ refs \in Nat
      BY <1>3, <1>4, <1>5, <1>6
    <3>2. Cardinality(Holding(after, f)) = c - 1
      BY <1>3, Zenon
    <3> HIDE DEF c, refs
    <3> QED
      BY <3>1, <3>2
  <2>5. \A x \in OpenIn(after) : x \in OpenIn(table) /\ after[x] = table[x]
    <3>1. table \in [1..Len(table) -> FileDescs \cup {NULL}] /\ DOMAIN table = 1..Len(table)
      BY <1>1, LenProperties DEF Tables
    <3>2. fd \in 1..Len(table)
      BY <1>1, <3>1 DEF OpenIn
    <3>3. /\ DOMAIN after = DOMAIN table /\ after[fd] = NULL
          /\ \A x \in DOMAIN table : x # fd => after[x] = table[x]
      BY <3>1, <3>2
    <3> HIDE DEF after
    <3> QED
      BY <3>3 DEF OpenIn
  <2>6. ASSUME NEW h \in Files, h # f  PROVE Holding(after, h) = Holding(table, h)
    <3>1. fd \notin Holding(table, h)
      BY <2>6 DEF Holding
    <3> QED
      BY <1>3, <3>1
  <2>7. file_descriptor_used' = Cardinality(OpenIn(after))
    BY <1>2, <1>3, <1>4
  <2> HIDE DEF after
  <2>8. StateOK(files', file_list', after, file_descriptor_used')
    BY <1>1, <1>3, <2>1, <2>2, <2>3, <2>4, <2>5, <2>6, <2>7, FreeKeeps DEF Counted
  <2> QED
    BY <1>2, <2>8 DEF CountedNext
<1>7. CASE ~(refs <= 1 /\ file.is_ghost)
  <2> DEFINE n == refs - 1
             g == [file EXCEPT !.refs = n]
  <2>1. n \in Nat
    BY <1>3, <1>4, <1>5
  <2>2. files' = [files EXCEPT ![f] = g] /\ file_list' = file_list
    BY <1>2, <1>7
  <2> HIDE DEF n
  <2>3. LET h == [file EXCEPT !.refs = n] IN
         /\ h \in FileRecords /\ h.refs = n
         /\ h.alive = file.alive /\ h.is_ghost = file.is_ghost
         /\ h.blocks = file.blocks /\ h.size = file.size /\ h.data = file.data
         /\ h.patched = file.patched
         /\ GoodFile(file) => GoodFile(h)
    BY <1>1, <2>1, OtherRefs, Zenon
  <2>4. /\ g \in FileRecords /\ g.refs = refs - 1 /\ g.alive = file.alive
        /\ g.is_ghost = file.is_ghost
        /\ g.blocks = file.blocks /\ g.size = file.size /\ g.patched = file.patched
        /\ GoodFile(g)
    BY <1>1, <2>3, Zenon DEF n
  <2> HIDE DEF g
  <2>5. ChangedAt(files, f, g, files')
    BY <1>1, <2>2, <2>4, ChangeOne
  <2>6. refs = files[f].refs
    OBVIOUS
  <2>7. ~(files[f].refs <= 1 /\ files[f].is_ghost)
    BY <1>7
  <2> HIDE DEF refs, file, f
  <2>8. f = table[fd].file
    BY DEF f
  <2>9. /\ g.alive = files[f].alive /\ g.is_ghost = files[f].is_ghost
        /\ g.blocks = files[f].blocks /\ g.size = files[f].size
        /\ g.patched = files[f].patched
    BY <2>4, Zenon DEF file
  <2>10. StateOK(files', file_list, after, file_descriptor_used - 1)
    BY <1>1, <2>4, <2>5, <2>6, <2>7, <2>8, <2>9, CloseKeeps DEF Counted
  <2> QED
    BY <1>2, <2>2, <2>10 DEF CountedNext
<1> QED
  BY <1>6, <1>7

(* A file that is found by its name is on the list.                        *)
LEMMA FoundFile ==
  ASSUME Counted, TypeOK, NEW filename, Find(filename) # NULL
  PROVE  LET f == Find(filename) IN
         /\ f \in Files /\ f \in Range(file_list)
         /\ files[f] \in FileRecords /\ files[f].alive
         /\ ~files[f].is_ghost /\ GoodFile(files[f])
<1> DEFINE f == Find(filename)
<1>1. /\ f \in Files /\ ~files[f].is_ghost
      /\ \E i \in DOMAIN file_list : file_list[i] = f
  BY FindProperties
<1>2. f \in Range(file_list)
  BY <1>1 DEF Range
<1> HIDE DEF f
<1>3. files[f] \in FileRecords /\ files[f].alive /\ GoodFile(files[f])
  BY <1>1, <1>2 DEF Counted, StateOK, TypesIn, ListIn, ContentIn
<1> QED
  BY <1>1, <1>2, <1>3 DEF f

(* ufs_delete of a file that is found.                                     *)
LEMMA DeleteStep ==
  ASSUME Counted, TypeOK, ufs_error_code \in ErrorCodes, NEW filename,
         ufs_delete(filename), Find(filename) # NULL
  PROVE  CountedNext /\ ufs_error_code' \in ErrorCodes
<1> DEFINE table == file_descriptors
           f == Find(filename)
           file == files[f]
           g == [file EXCEPT !.is_ghost = TRUE]
<1>1. /\ f \in Files /\ f \in Range(file_list)
      /\ file \in FileRecords /\ file.alive /\ ~file.is_ghost /\ GoodFile(file)
  BY FoundFile
<1>2. /\ IF file.refs <= 0
         THEN files' = [files EXCEPT ![f] = FreeFile] /\ file_list' = Unlink(f)
         ELSE files' = [files EXCEPT ![f].is_ghost = TRUE] /\ file_list' = file_list
      /\ file_descriptors' = table
      /\ file_descriptor_used' = file_descriptor_used
      /\ ufs_error_code' = ufs_error_code
  BY DEF ufs_delete, Fail, descriptors
<1>3. /\ table \in Tables /\ files \in [Files -> FileRecords]
      /\ file_descriptor_used = Cardinality(OpenIn(table))
      /\ TypesIn(files, file_list, table) /\ ListIn(files, file_list)
      /\ RefsIn(files, table) /\ ContentIn(files, table)
  BY DEF Counted, StateOK, TypesIn
<1>4. file.refs \in Nat /\ file.refs = Cardinality(Holding(table, f))
  BY <1>1, <1>3, FileFields DEF RefsIn
<1>5. CASE file.refs <= 0
  <2>1. files' = [files EXCEPT ![f] = FreeFile] /\ file_list' = Unlink(f)
    BY <1>2, <1>5
  <2>2. ChangedAt(files, f, FreeFile, files')
    BY <1>1, <1>3, <2>1, FreeFileGood, ChangeOne
  <2>3. /\ Unlink(f) \in Seq(Files) /\ IsInjective(Unlink(f))
        /\ Range(Unlink(f)) = Range(file_list) \ {f}
    <3>1. file_list \in Seq(Files) /\ IsInjective(file_list)
      BY <1>3 DEF TypesIn, ListIn
    <3> QED
      BY <1>1, <3>1, UnlinkProperties
  <2>4. Cardinality(Holding(table, f)) = 0
    <3> DEFINE c == Cardinality(Holding(table, f))
               refs == file.refs
    <3>1. refs = c /\ refs <= 0 /\ refs \in Nat
      BY <1>4, <1>5
    <3> HIDE DEF c, refs
    <3>2. c = 0
      BY <3>1
    <3> QED
      BY <3>2 DEF c
  <2> HIDE DEF f
  <2>5. StateOK(files', file_list', table, file_descriptor_used')
    BY <1>1, <1>2, <1>3, <2>1, <2>2, <2>3, <2>4, FreeKeeps DEF Counted
  <2> QED
    BY <1>2, <2>5 DEF CountedNext
<1>6. CASE ~(file.refs <= 0)
  <2>1. files' = [files EXCEPT ![f] = g] /\ file_list' = file_list
    BY <1>2, <1>6
  <2> HIDE DEF f
  <2>2. file.refs > 0
    <3> DEFINE refs == file.refs
    <3>1. refs \in Nat /\ ~(refs <= 0)
      BY <1>4, <1>6
    <3> HIDE DEF refs
    <3>2. refs > 0
      BY <3>1
    <3> QED
      BY <3>2 DEF refs
  <2>3. LET h == [file EXCEPT !.is_ghost = TRUE] IN
         /\ h \in FileRecords /\ h.refs = file.refs
         /\ h.alive = file.alive
         /\ h.blocks = file.blocks /\ h.size = file.size /\ h.data = file.data
         /\ h.patched = file.patched
         /\ GoodFile(file) => GoodFile(h)
    BY <1>1, MarkedGhost, Zenon
  <2>4. /\ g \in FileRecords /\ g.refs = file.refs /\ g.alive = file.alive
        /\ g.blocks = file.blocks /\ g.size = file.size /\ g.patched = file.patched
        /\ GoodFile(g)
    BY <1>1, <2>3, Zenon
  <2> HIDE DEF g
  <2>5. ChangedAt(files, f, g, files')
    BY <1>1, <1>3, <2>1, <2>4, ChangeOne
  <2>6. SameFiles(table, table)
    BY DEF SameFiles
  <2>7. ASSUME NEW x \in OpenIn(table), table[x].file = f
        PROVE  GoodOffset(g, table[x].offset)
    <3>1. GoodOffset(file, table[x].offset)
      BY <1>3, <2>7 DEF ContentIn
    <3> QED
      BY <2>4, <3>1, Zenon DEF GoodOffset
  <2>8. \A x \in OpenIn(table) : GoodOffset(files'[table[x].file], table[x].offset)
    BY <1>1, <1>3, <2>5, <2>6, <2>7, OffsetsStayGood
  <2>9. g.is_ghost => g.refs > 0
    BY <2>2, <2>4
  <2>10. StateOK(files', file_list, table, file_descriptor_used)
    BY <1>1, <1>3, <2>4, <2>5, <2>6, <2>8, <2>9, ReplaceKeeps DEF Counted
  <2> QED
    BY <1>2, <2>1, <2>10 DEF CountedNext
<1> QED
  BY <1>5, <1>6

(* ufs_open, of a file that is found and of a new one.                     *)
LEMMA OpenCall ==
  ASSUME Counted, TypeOK, UsedCount, ufs_error_code \in ErrorCodes,
         NEW filename \in Names, NEW flags \in Flags, ufs_open(filename, flags)
  PROVE  CountedNext /\ ufs_error_code' \in ErrorCodes
<1>1. CASE /\ Find(filename) # NULL
           /\ OpenDescriptor(Find(filename), file_list, files[Find(filename)], flags)
  <2> DEFINE f == Find(filename)
  <2>1. /\ f \in Files /\ f \in Range(file_list)
        /\ files[f] \in FileRecords /\ files[f].alive /\ GoodFile(files[f])
    BY <1>1, FoundFile
  <2>2. file_list \in Seq(Files) /\ IsInjective(file_list)
    BY DEF Counted, StateOK, TypesIn, ListIn
  <2>3. Range(file_list) = Range(file_list) \cup {f}
    BY <2>1
  <2>4. OpenDescriptor(f, file_list, files[f], flags)
    BY <1>1
  <2> HIDE DEF f
  <2> QED
    BY <2>1, <2>2, <2>3, <2>4, OpenStep
<1>2. CASE Find(filename) = NULL /\ "CREATE" \notin flags /\ Fail("NO_FILE")
  BY <1>2, FailKeeps DEF ErrorCodes
<1>3. CASE /\ Find(filename) = NULL /\ "CREATE" \in flags
           /\ \E f \in Files :
                /\ ~files[f].alive
                /\ OpenDescriptor(f, <<f>> \o file_list,
                     [FreeFile EXCEPT !.alive = TRUE, !.name = filename], flags)
  <2>1. PICK f \in Files :
          /\ ~files[f].alive
          /\ OpenDescriptor(f, <<f>> \o file_list,
               [FreeFile EXCEPT !.alive = TRUE, !.name = filename], flags)
    BY <1>3
  <2> DEFINE g == [FreeFile EXCEPT !.alive = TRUE, !.name = filename]
             list == <<f>> \o file_list
  <2>2. g \in FileRecords /\ g.alive /\ g.refs = 0 /\ GoodFile(g)
    BY NewFileGood
  <2>3. /\ file_list \in Seq(Files) /\ IsInjective(file_list)
        /\ f \notin Range(file_list)
        /\ files[f].refs = Cardinality(Holding(file_descriptors, f))
        /\ Holding(file_descriptors, f) = {}
    BY <2>1 DEF Counted, StateOK, TypesIn, ListIn, RefsIn
  <2>4. files[f].refs = 0
    BY <2>3, FS_EmptySet
  <2>5. /\ list \in Seq(Files) /\ IsInjective(list)
        /\ Range(list) = Range(file_list) \cup {f}
    BY <2>3, PutFirst
  <2>6. OpenDescriptor(f, list, g, flags)
    BY <2>1
  <2> HIDE DEF g, list
  <2>7. g.refs = files[f].refs
    BY <2>2, <2>4
  <2> QED
    BY <2>2, <2>3, <2>5, <2>6, <2>7, OpenStep
<1> QED
  BY <1>1, <1>2, <1>3 DEF ufs_open

(* ufs_write, with or without success.                                     *)
LEMMA WriteCall ==
  ASSUME Counted, ufs_error_code \in ErrorCodes, NEW fd, NEW buf \in Buffers,
         ufs_write(fd, buf)
  PROVE  CountedNext /\ ufs_error_code' \in ErrorCodes
<1>1. CASE IsOpen(fd) /\ MayWrite(fd) /\ buf # <<>> /\ ~TooBig(fd, buf)
  BY <1>1, WriteStep
<1>2. CASE ~(IsOpen(fd) /\ MayWrite(fd) /\ buf # <<>> /\ ~TooBig(fd, buf))
  <2>1. \E error \in ErrorCodes : Fail(error)
    BY <1>2 DEF ufs_write, ErrorCodes
  <2> QED
    BY <2>1, FailKeeps
<1> QED
  BY <1>1, <1>2

(* ufs_read, with or without success.                                      *)
LEMMA ReadCall ==
  ASSUME Counted, ufs_error_code \in ErrorCodes, NEW fd, NEW n \in ReadSizes,
         ufs_read(fd, n)
  PROVE  CountedNext /\ ufs_error_code' \in ErrorCodes
<1>1. CASE IsOpen(fd) /\ MayRead(fd)
  BY <1>1, ReadStep
<1>2. CASE ~(IsOpen(fd) /\ MayRead(fd))
  <2>1. \E error \in ErrorCodes : Fail(error)
    BY <1>2 DEF ufs_read, ErrorCodes
  <2> QED
    BY <2>1, FailKeeps
<1> QED
  BY <1>1, <1>2

(* ufs_close, with or without success.                                     *)
LEMMA CloseCall ==
  ASSUME Counted, ufs_error_code \in ErrorCodes, NEW fd, ufs_close(fd)
  PROVE  CountedNext /\ ufs_error_code' \in ErrorCodes
<1>1. CASE IsOpen(fd)
  BY <1>1, CloseStep
<1>2. CASE ~IsOpen(fd)
  <2>1. Fail("NO_FILE")
    BY <1>2 DEF ufs_close
  <2> QED
    BY <2>1, FailKeeps DEF ErrorCodes
<1> QED
  BY <1>1, <1>2

(* ufs_delete, with or without success.                                    *)
LEMMA DeleteCall ==
  ASSUME Counted, TypeOK, ufs_error_code \in ErrorCodes, NEW filename,
         ufs_delete(filename)
  PROVE  CountedNext /\ ufs_error_code' \in ErrorCodes
<1>1. CASE Find(filename) # NULL
  BY <1>1, DeleteStep
<1>2. CASE Find(filename) = NULL
  <2>1. Fail("NO_FILE")
    BY <1>2 DEF ufs_delete
  <2> QED
    BY <2>1, FailKeeps DEF ErrorCodes
<1> QED
  BY <1>1, <1>2

(* ufs_resize: a cut, an extension, nothing, or an error.                  *)
LEMMA ResizeCall ==
  ASSUME Counted, ufs_error_code \in ErrorCodes, NEW fd, NEW new_size \in NewSizes,
         ufs_resize(fd, new_size)
  PROVE  CountedNext /\ ufs_error_code' \in ErrorCodes
<1> DEFINE f == file_descriptors[fd].file
<1>1. new_size \in Nat
  BY UserFSAssumption
<1>2. CASE \E error \in ErrorCodes : Fail(error)
  BY <1>2, FailKeeps
<1>3. CASE IsOpen(fd) /\ ShrinkFile(f, new_size)
  <2>1. f \in Files
    BY <1>3, OpenFacts
  <2> HIDE DEF f
  <2> QED
    BY <1>1, <1>3, <2>1, ShrinkStep
<1>4. CASE IsOpen(fd) /\ GrowFile(f, new_size)
  <2>1. f \in Files
    BY <1>4, OpenFacts
  <2> HIDE DEF f
  <2> QED
    BY <1>1, <1>4, <2>1, GrowStep
<1>5. \/ Fail("NO_FILE") \/ Fail("NO_MEM")
      \/ IsOpen(fd) /\ ShrinkFile(f, new_size)
      \/ IsOpen(fd) /\ GrowFile(f, new_size)
  BY DEF ufs_resize
<1>6. "NO_FILE" \in ErrorCodes /\ "NO_MEM" \in ErrorCodes
  BY DEF ErrorCodes
<1> QED
  BY <1>2, <1>3, <1>4, <1>5, <1>6

(* Nothing open, no file, and any error: the beginning, and what           *)
(* ufs_destroy leaves.                                                     *)
LEMMA EmptyStateOK ==
  StateOK([f \in Files |-> FreeFile], <<>>, <<>>, 0)
<1> DEFINE fs == [f \in Files |-> FreeFile]
<1>1. \A f \in Files : fs[f] = FreeFile
  OBVIOUS
<1>2. /\ <<>> \in Tables /\ <<>> \in Seq(Files) /\ Len(<<>>) = 0
      /\ DOMAIN <<>> = {}
  BY EmptySeq DEF Tables
<1>3. OpenIn(<<>>) = {} /\ \A f : Holding(<<>>, f) = {}
  BY <1>2 DEF OpenIn, Holding
<1>4. TypesIn(fs, <<>>, <<>>)
  BY <1>2, FreeFileGood DEF TypesIn
<1> HIDE DEF fs
<1>5. RefsIn(fs, <<>>)
  BY <1>1, <1>3, FreeFileGood, FS_EmptySet DEF RefsIn
<1>6. ListIn(fs, <<>>)
  <2>1. IsInjective(<<>>)
    BY <1>2 DEF IsInjective
  <2>2. Range(<<>>) = {}
    BY <1>2 DEF Range
  <2> QED
    BY <1>1, <2>1, <2>2, FreeFileGood DEF ListIn
<1>7. ContentIn(fs, <<>>)
  BY <1>1, <1>3, FreeFileGood DEF ContentIn
<1> QED
  BY <1>3, <1>4, <1>5, <1>6, <1>7, FS_EmptySet DEF StateOK, fs

(* Before the first call there is no file and no table.                    *)
LEMMA InvariantInit ==
  Init => UserFSInvariant
<1> SUFFICES ASSUME Init  PROVE UserFSInvariant
  OBVIOUS
<1>1. StateOK(files, file_list, file_descriptors, file_descriptor_used)
  BY EmptyStateOK DEF Init
<1>2. ufs_error_code \in ErrorCodes
  BY DEF Init, ErrorCodes
<1> QED
  BY <1>1, <1>2, InvariantIsStateOK

(* Every call keeps the invariant.                                         *)
LEMMA InvariantNext ==
  UserFSInvariant /\ [Next]_vars => UserFSInvariant'
<1> SUFFICES ASSUME UserFSInvariant, [Next]_vars  PROVE UserFSInvariant'
  OBVIOUS
<1>1. Counted /\ ufs_error_code \in ErrorCodes
  BY InvariantIsStateOK DEF Counted
<1>2. TypeOK /\ UsedCount
  BY DEF UserFSInvariant
<1>3. CountedNext /\ ufs_error_code' \in ErrorCodes
  <2>1. CASE \E filename \in Names, flags \in Flags : ufs_open(filename, flags)
    BY <1>1, <1>2, <2>1, OpenCall
  <2>2. CASE \E filename \in Names : ufs_delete(filename)
    BY <1>1, <1>2, <2>2, DeleteCall
  <2>3. CASE \E fd \in 0..(MAX_CAPACITY + 1), buf \in Buffers : ufs_write(fd, buf)
    BY <1>1, <2>3, WriteCall
  <2>4. CASE \E fd \in 0..(MAX_CAPACITY + 1), n \in ReadSizes : ufs_read(fd, n)
    BY <1>1, <2>4, ReadCall
  <2>5. CASE \E fd \in 0..(MAX_CAPACITY + 1) : ufs_close(fd)
    BY <1>1, <2>5, CloseCall
  <2>6. CASE \E fd \in 0..(MAX_CAPACITY + 1), new_size \in NewSizes :
               ufs_resize(fd, new_size)
    BY <1>1, <2>6, ResizeCall
  <2>7. CASE ufs_destroy
    BY <1>1, <2>7, EmptyStateOK DEF ufs_destroy, CountedNext
  <2>8. CASE UNCHANGED vars
    BY <1>1, <2>8 DEF vars, Counted, CountedNext
  <2> QED
    BY <2>1, <2>2, <2>3, <2>4, <2>5, <2>6, <2>7, <2>8 DEF Next
<1> QED
  BY <1>3, InvariantIsStateOK DEF CountedNext

-----------------------------------------------------------------------------
(* What the invariant says.                                                *)

(* userfs.c keeps the invariant, whatever calls are made.                  *)
THEOREM UserFSInvariantHolds == Spec => []UserFSInvariant
  BY InvariantInit, InvariantNext, PTL DEF Spec

(* Files, descriptors and counters keep the types of their declarations.   *)
THEOREM FilesTyped == Spec => []TypeOK
<1>1. UserFSInvariant => TypeOK
  BY DEF UserFSInvariant
<1> QED
  BY <1>1, UserFSInvariantHolds, PTL

(* refs of a file is the number of its open descriptors, and no descriptor *)
(* is left on a file that _ufs_free_file has freed.                        *)
THEOREM ReferencesCounted == Spec => []RefsExact
<1>1. UserFSInvariant => RefsExact
  BY DEF UserFSInvariant
<1> QED
  BY <1>1, UserFSInvariantHolds, PTL

(* file_descriptor_used is exact, and the search of ufs_open for a free    *)
(* place succeeds.                                                         *)
THEOREM PlaceAlwaysFound == Spec => []UsedExact
<1>1. UserFSInvariant => UsedExact
  BY DescriptorsAreHolding, PlaceProperties DEF UserFSInvariant, UsedExact, UsedCount
<1> QED
  BY <1>1, UserFSInvariantHolds, PTL

(* file_list holds the allocated files, each once, and a deleted one only  *)
(* while it is open.                                                       *)
THEOREM FilesListed == Spec => []NoFileLost
<1>1. UserFSInvariant => NoFileLost
  BY DEF UserFSInvariant
<1> QED
  BY <1>1, UserFSInvariantHolds, PTL

(* The walks along the blocks of a file do not run off the list.           *)
THEOREM WalksStayInside == Spec => []BlocksCover
<1>1. UserFSInvariant => BlocksCover
  BY DescriptorsAreHolding
     DEF UserFSInvariant, BlocksCover, FilesGood, OffsetsGood, GoodFile, GoodOffset
<1> QED
  BY <1>1, UserFSInvariantHolds, PTL

(* A file that only got bytes at its end stays within MAX_FILE_SIZE,       *)
(* although ufs_write tests the limit on the size and not on the offset.   *)
THEOREM SizeBounded == Spec => []SizeBound
<1>1. UserFSInvariant => SizeBound
  BY DEF UserFSInvariant, SizeBound, FilesGood, GoodFile
<1> QED
  BY <1>1, UserFSInvariantHolds, PTL

(* From such a file ufs_read returns what was written, from any open       *)
(* descriptor and in pieces of any size.                                   *)
THEOREM WrittenIsRead == Spec => []AppendedReadBack
<1>1. UserFSInvariant => AppendedReadBack
  <2> SUFFICES ASSUME UserFSInvariant,
                      NEW fd \in DOMAIN file_descriptors, IsOpen(fd),
                      ~files[file_descriptors[fd].file].patched,
                      NEW n \in ReadSizes
               PROVE  ReadBytes(files[file_descriptors[fd].file].blocks,
                                files[file_descriptors[fd].file].size,
                                file_descriptors[fd].offset, n)
                        = SubSeq(files[file_descriptors[fd].file].data,
                                 file_descriptors[fd].offset + 1,
                                 Smaller(file_descriptors[fd].offset + n,
                                         Len(files[file_descriptors[fd].file].data)))
    BY DEF AppendedReadBack, ReadsBack
  <2> DEFINE file == files[file_descriptors[fd].file]
             offset == file_descriptors[fd].offset
  <2>1. Counted
    BY InvariantIsStateOK DEF Counted
  <2>2. file \in FileRecords /\ GoodFile(file) /\ offset \in Nat
    BY <2>1, OpenFacts
  <2>3. Exact(file)
    BY <2>2 DEF GoodFile
  <2>4. n \in Nat
    BY UserFSAssumption
  <2> HIDE DEF file, offset
  <2>5. ReadBytes(file.blocks, file.size, offset, n) =
          SubSeq(file.data, offset + 1, Smaller(offset + n, Len(file.data)))
    BY <2>2, <2>3, <2>4, ReadBytesExact
  <2> QED
    BY <2>5 DEF file, offset
<1> QED
  BY <1>1, UserFSInvariantHolds, PTL

-----------------------------------------------------------------------------
(* The file system that userfs.h describes.                                *)

(* The bytes that the files should have.                                   *)
BytesMeant == [f \in Files |-> files[f].data]

(* The file system with those bytes, whatever the blocks hold of them.     *)
Intended == INSTANCE FileSystem WITH
  Descriptors <- 1..MAX_CAPACITY,
  named <- NamedFiles, opened <- OpenedFiles, content <- BytesMeant,
  error <- ufs_error_code

(* What a caller knows of an open descriptor.                              *)
RightsIn(flags) == {r \in {"READ_ONLY", "WRITE_ONLY"} : {r, "READ_WRITE"} \cap flags # {}}

DescriptorSeen(d) == [file |-> d.file, rights |-> RightsIn(d.open_flags), offset |-> d.offset]

(* A resize through any descriptor, as in ResizedByAny.                    *)
ResizedByAnyone ==
  \E fd \in 1..MAX_CAPACITY, new_size \in NewSizes : Intended!ResizeFile(fd, new_size)

(* A read moves along a patched file by as many bytes as it finds.         *)
PatchedRead ==
  \E fd \in DOMAIN OpenedFiles, m \in Nat :
    /\ files[OpenedFiles[fd].file].patched
    /\ "READ_ONLY" \in OpenedFiles[fd].rights
    /\ OpenedFiles' = [OpenedFiles EXCEPT ![fd].offset = @ + m]
    /\ UNCHANGED <<NamedFiles, BytesMeant, ufs_error_code>>

(* _ufs_find_file can return the file.                                     *)
CanBeFound(f) == files[f].alive /\ ~files[f].is_ghost

(* Only allocated files have names or bytes, and of two files with the     *)
(* same name at least one is deleted: _ufs_find_file never has a choice.   *)
NamesUnique ==
  /\ \A f \in Files :
       IF files[f].alive THEN files[f].name \in Names ELSE files[f] = FreeFile
  /\ \A f, g \in Files :
       CanBeFound(f) /\ CanBeFound(g) /\ files[f].name = files[g].name => f = g

(* The bound of the model on places in the table.                          *)
PlacesFit == OpenIn(file_descriptors) \subseteq 1..MAX_CAPACITY

CallersInvariant == NamesUnique /\ PlacesFit

(* What a caller knows, read off the state.                                *)
LEMMA CallersView ==
  /\ DOMAIN NamedFiles = Names
  /\ \A n \in Names : \A f :
       f \in NamedFiles[n] <=>
         f \in Files /\ files[f].alive /\ ~files[f].is_ghost /\ files[f].name = n
  /\ DOMAIN OpenedFiles = OpenIn(file_descriptors)
  /\ \A fd \in OpenIn(file_descriptors) : OpenedFiles[fd].file = file_descriptors[fd].file
  /\ DOMAIN BytesMeant = Files
  /\ \A f \in Files : BytesMeant[f] = files[f].data
  BY DEF NamedFiles, OpenedFiles, BytesMeant, OpenIn

(* The same after a step.                                                  *)
LEMMA CallersViewNext ==
  /\ DOMAIN NamedFiles' = Names
  /\ \A n \in Names : \A f :
       f \in NamedFiles'[n] <=>
         f \in Files /\ files'[f].alive /\ ~files'[f].is_ghost /\ files'[f].name = n
  /\ DOMAIN OpenedFiles' = OpenIn(file_descriptors')
  /\ \A fd \in OpenIn(file_descriptors') : OpenedFiles'[fd].file = file_descriptors'[fd].file
  /\ DOMAIN BytesMeant' = Files
  /\ \A f \in Files : BytesMeant'[f] = files'[f].data
  BY DEF NamedFiles, OpenedFiles, BytesMeant, OpenIn

(* The descriptors as callers know them, before and after a step.          *)
LEMMA OpenedSeen ==
  /\ OpenedFiles = [fd \in OpenIn(file_descriptors) |-> DescriptorSeen(file_descriptors[fd])]
  /\ OpenedFiles' = [fd \in OpenIn(file_descriptors') |-> DescriptorSeen(file_descriptors'[fd])]
  BY DEF OpenedFiles, OpenIn, DescriptorSeen, RightsIn

(* The rights of a descriptor are those that ufs_read and ufs_write ask    *)
(* for.                                                                    *)
LEMMA RightsSeen ==
  ASSUME NEW fd \in OpenIn(file_descriptors)
  PROVE  /\ fd \in DOMAIN OpenedFiles
         /\ OpenedFiles[fd].file = file_descriptors[fd].file
         /\ OpenedFiles[fd].offset = file_descriptors[fd].offset
         /\ "READ_ONLY" \in OpenedFiles[fd].rights <=> MayRead(fd)
         /\ "WRITE_ONLY" \in OpenedFiles[fd].rights <=> MayWrite(fd)
<1>1. fd \in DOMAIN OpenedFiles /\ OpenedFiles[fd] = DescriptorSeen(file_descriptors[fd])
  BY OpenedSeen
<1>2. \A r \in {"READ_ONLY", "WRITE_ONLY"} :
        r \in OpenedFiles[fd].rights
          <=> {r, "READ_WRITE"} \cap file_descriptors[fd].open_flags # {}
  BY <1>1 DEF DescriptorSeen, RightsIn
<1> QED
  BY <1>1, <1>2 DEF DescriptorSeen, MayRead, MayWrite

(* The errors that calls report are justified.                             *)
LEMMA ErrorsJustified ==
  /\ Intended!Justified("NO_FILE")
  /\ \A fd \in OpenIn(file_descriptors) :
       /\ Intended!Justified("NO_MEM")
       /\ ~MayRead(fd) \/ ~MayWrite(fd) => Intended!Justified("NO_PERMISSION")
<1>1. ASSUME NEW fd \in OpenIn(file_descriptors), ~MayRead(fd) \/ ~MayWrite(fd)
      PROVE  Intended!Justified("NO_PERMISSION")
  BY <1>1, RightsSeen DEF Intended!Justified
<1> QED
  BY <1>1, RightsSeen DEF Intended!Justified

(* Somebody can still reach a file exactly as long as it is allocated.     *)
LEMMA ReachedWhileAlive ==
  UserFSInvariant /\ NamesUnique =>
    \A f \in Files : Intended!InUse(f) <=> files[f].alive
<1> SUFFICES ASSUME UserFSInvariant, NamesUnique, NEW f \in Files
             PROVE  Intended!InUse(f) <=> files[f].alive
  OBVIOUS
<1>1. /\ files[f].refs = Cardinality(Holding(file_descriptors, f))
      /\ Holding(file_descriptors, f) # {} => files[f].alive
      /\ files[f].is_ghost => files[f].refs > 0
  BY DescriptorsAreHolding DEF UserFSInvariant, RefsExact, NoFileLost
<1>2. files[f].alive => files[f].name \in Names
  BY DEF NamesUnique
<1>3. ASSUME files[f].is_ghost  PROVE Holding(file_descriptors, f) # {}
  <2>1. Cardinality(Holding(file_descriptors, f)) > 0
    BY <1>1, <1>3
  <2> QED
    BY <2>1, FS_EmptySet
<1>4. (\E fd \in DOMAIN OpenedFiles : OpenedFiles[fd].file = f)
        <=> Holding(file_descriptors, f) # {}
  BY CallersView DEF Holding
<1>5. (\E n \in Names : f \in NamedFiles[n])
        <=> files[f].alive /\ ~files[f].is_ghost /\ files[f].name \in Names
  BY CallersView
<1> QED
  BY <1>1, <1>2, <1>3, <1>4, <1>5 DEF Intended!InUse

(* The same after a step.                                                  *)
LEMMA ReachedNext ==
  (UserFSInvariant /\ NamesUnique =>
    \A f \in Files : Intended!InUse(f) <=> files[f].alive)'
  BY ReachedWhileAlive, PTL

(* What is left of the bytes when files have been freed.                   *)
LEMMA FreedBytes ==
  ASSUME UserFSInvariant', NamesUnique',
         \A f \in Files : files'[f].data = IF files'[f].alive THEN files[f].data ELSE <<>>
  PROVE  Intended!ContentKept
<1>1. \A f \in Files : (Intended!InUse(f))' <=> files'[f].alive
  BY ReachedNext
<1>2. BytesMeant' = [f \in Files |->
         IF (Intended!InUse(f))' THEN BytesMeant[f] ELSE <<>>]
  BY <1>1, CallersView DEF BytesMeant
<1> QED
  BY <1>2 DEF Intended!ContentKept

(* Without an access flag, or with READ_WRITE, a descriptor may read and   *)
(* write.                                                                  *)
LEMMA RightsOfFlags ==
  ASSUME NEW flags \in Flags
  PROVE  {r \in {"READ_ONLY", "WRITE_ONLY"} : {r, "READ_WRITE"} \cap AccessFlags(flags) # {}}
           = Intended!Rights(flags)
<1>1. flags \in SUBSET {"CREATE", "READ_ONLY", "WRITE_ONLY", "READ_WRITE"}
  BY UserFSAssumption DEF AllFlags
<1>2. CASE flags \cap {"READ_ONLY", "WRITE_ONLY"} = {}
  <2>1. "READ_WRITE" \in AccessFlags(flags)
    BY <1>2 DEF AccessFlags
  <2>2. flags \ {"CREATE"} = {} \/ "READ_WRITE" \in flags
    BY <1>1, <1>2
  <2> QED
    BY <2>1, <2>2 DEF Intended!Rights
<1>3. CASE flags \cap {"READ_ONLY", "WRITE_ONLY"} # {}
  <2>1. AccessFlags(flags) = flags
    BY <1>3 DEF AccessFlags
  <2>2. flags \ {"CREATE"} # {}
    BY <1>3
  <2>3. \A r \in {"READ_ONLY", "WRITE_ONLY"} :
          {r, "READ_WRITE"} \cap flags # {}
            <=> r \in flags \ {"CREATE"} \/ "READ_WRITE" \in flags \ {"CREATE"}
    OBVIOUS
  <2> QED
    BY <2>1, <2>2, <2>3 DEF Intended!Rights
<1> QED
  BY <1>2, <1>3

(* What decides of a file whether and under which name it is found.        *)
SameMarks(f) ==
  /\ files'[f].alive = files[f].alive
  /\ files'[f].is_ghost = files[f].is_ghost
  /\ files'[f].name = files[f].name

(* Calls that leave the marks of the files alone keep their names.         *)
LEMMA NamesStay ==
  ASSUME \A f \in Files : SameMarks(f)
  PROVE  NamedFiles' = NamedFiles
<1>1. \A n \in Names :
        {f \in Files : files'[f].alive /\ ~files'[f].is_ghost /\ files'[f].name = n} =
        {f \in Files : files[f].alive /\ ~files[f].is_ghost /\ files[f].name = n}
  BY DEF SameMarks
<1> QED
  BY <1>1 DEF NamedFiles

(* The same names, and nothing done to files that are free, keep them      *)
(* unique.                                                                 *)
LEMMA UniqueStays ==
  ASSUME NamesUnique, \A f \in Files : SameMarks(f),
         \A f \in Files : ~files[f].alive => files'[f] = files[f]
  PROVE  NamesUnique'
<1>1. \A f \in Files : CanBeFound(f)' <=> CanBeFound(f)
  BY DEF SameMarks, CanBeFound
<1>2. \A f, g \in Files :
        CanBeFound(f)' /\ CanBeFound(g)' /\ files'[f].name = files'[g].name => f = g
  <2>1. \A f, g \in Files :
          CanBeFound(f) /\ CanBeFound(g) /\ files[f].name = files[g].name => f = g
    BY DEF NamesUnique
  <2> QED
    BY <1>1, <2>1 DEF SameMarks
<1>3. \A f \in Files :
        IF files'[f].alive THEN files'[f].name \in Names ELSE files'[f] = FreeFile
  BY DEF NamesUnique, SameMarks
<1> QED
  BY <1>2, <1>3 DEF NamesUnique

(* What the table has of files and rights.                                 *)
SameRights(table, after) ==
  /\ OpenIn(after) = OpenIn(table)
  /\ \A fd \in OpenIn(table) : /\ after[fd].file = table[fd].file
                               /\ after[fd].open_flags = table[fd].open_flags

(* What callers know of the descriptors stays.                             *)
LEMMA OpenedStay ==
  ASSUME SameRights(file_descriptors, file_descriptors'),
         \A fd \in OpenIn(file_descriptors) :
           file_descriptors'[fd].offset = file_descriptors[fd].offset
  PROVE  OpenedFiles' = OpenedFiles
  BY OpenedSeen DEF SameRights, DescriptorSeen

(* A step of the file system, or one of the two exceptions.                *)
ServedStep == Intended!FSNext \/ ResizedByAnyone \/ PatchedRead

(* What a call must do: keep names unique, and be such a step or nothing   *)
(* that a caller can tell.                                                 *)
Served == CallersInvariant' /\ (ServedStep \/ UNCHANGED Intended!fsVars)

(* A call after which names, descriptors and bytes are what they were.     *)
LEMMA NothingButError ==
  ASSUME CallersInvariant, files' = files, file_descriptors' = file_descriptors
  PROVE  /\ CallersInvariant'
         /\ NamedFiles' = NamedFiles /\ OpenedFiles' = OpenedFiles /\ BytesMeant' = BytesMeant
<1>1. CallersInvariant'
  BY UniqueStays DEF CallersInvariant, PlacesFit, SameMarks
<1>2. NamedFiles' = NamedFiles
  BY NamesStay DEF SameMarks
<1>3. OpenedFiles' = OpenedFiles
  BY OpenedStay DEF SameRights
<1>4. BytesMeant' = BytesMeant
  BY DEF BytesMeant
<1> QED
  BY <1>1, <1>2, <1>3, <1>4

(* A call that fails, with a reason.                                       *)
LEMMA FailServed ==
  ASSUME CallersInvariant, NEW code, Fail(code), Intended!Justified(code)
  PROVE  Served
<1>1. files' = files /\ file_descriptors' = file_descriptors /\ ufs_error_code' = code
  BY DEF Fail, descriptors
<1>2. Intended!Fail
  BY <1>1, NothingButError DEF Intended!Fail
<1> QED
  BY <1>1, <1>2, NothingButError DEF Served, ServedStep, Intended!FSNext

(* A descriptor that moves keeps its file and its rights.                  *)
LEMMA MoveKeepsRights ==
  ASSUME NEW table \in Tables, NEW fd \in OpenIn(table), NEW o \in Nat
  PROVE  SameRights(table, [table EXCEPT ![fd].offset = o])
<1> DEFINE after == [table EXCEPT ![fd].offset = o]
<1>1. /\ SameFiles(table, after)
      /\ \A x \in OpenIn(table) : x # fd => after[x] = table[x]
  BY MoveOffset
<1>2. fd \in DOMAIN table /\ table[fd] \in FileDescs
  BY OpenDescriptorType DEF OpenIn
<1>3. after[fd] = [table[fd] EXCEPT !.offset = o]
  BY <1>2
<1>4. after[fd].open_flags = table[fd].open_flags
  BY <1>2, <1>3 DEF FileDescs
<1> HIDE DEF after
<1>5. OpenIn(after) = OpenIn(table)
  BY <1>1, SameFilesHolding
<1>6. \A x \in OpenIn(table) : after[x].file = table[x].file
  BY <1>1 DEF SameFiles, OpenIn
<1>7. \A x \in OpenIn(table) : after[x].open_flags = table[x].open_flags
  BY <1>1, <1>4
<1> QED
  BY <1>5, <1>6, <1>7 DEF SameRights, after

(* What callers know of a descriptor that moves.                           *)
LEMMA MovedDescriptor ==
  ASSUME NEW fd \in OpenIn(file_descriptors), file_descriptors \in Tables, NEW o \in Nat,
         file_descriptors' = [file_descriptors EXCEPT ![fd].offset = o]
  PROVE  OpenedFiles' = [OpenedFiles EXCEPT ![fd].offset = o]
<1>1. SameRights(file_descriptors, file_descriptors')
  BY MoveKeepsRights
<1>2. fd \in DOMAIN file_descriptors /\ file_descriptors[fd] \in FileDescs
  BY OpenDescriptorType DEF OpenIn
<1>3. DescriptorSeen(file_descriptors'[fd])
        = [DescriptorSeen(file_descriptors[fd]) EXCEPT !.offset = o]
  <2> DEFINE d == file_descriptors[fd]
  <2>1. file_descriptors'[fd] = [d EXCEPT !.offset = o]
    BY <1>2
  <2>2. d \in FileDescs
    BY <1>2
  <2> HIDE DEF d
  <2>3. DescriptorSeen([d EXCEPT !.offset = o]) = [DescriptorSeen(d) EXCEPT !.offset = o]
    <3> DEFINE e == [d EXCEPT !.offset = o]
    <3>1. e.file = d.file /\ e.open_flags = d.open_flags /\ e.offset = o
      BY <2>2 DEF FileDescs
    <3> HIDE DEF e
    <3>2. DescriptorSeen(e) = [DescriptorSeen(d) EXCEPT !.offset = o]
      BY <3>1 DEF DescriptorSeen
    <3> QED
      BY <3>2 DEF e
  <2> QED
    BY <2>1, <2>3 DEF d
<1>4. \A x \in OpenIn(file_descriptors) :
        x # fd => DescriptorSeen(file_descriptors'[x]) = DescriptorSeen(file_descriptors[x])
  BY <1>2
<1> QED
  BY <1>1, <1>3, <1>4, OpenedSeen DEF SameRights

(* ufs_read moves the descriptor and nothing that its callers share.       *)
LEMMA ReadServed ==
  ASSUME Counted, CallersInvariant, NEW fd, NEW n \in ReadSizes, ufs_read(fd, n)
  PROVE  Served
<1>1. CASE ~(IsOpen(fd) /\ MayRead(fd))
  <2>1. CASE ~IsOpen(fd)
    BY <2>1, FailServed, ErrorsJustified DEF ufs_read
  <2>2. CASE IsOpen(fd) /\ ~MayRead(fd)
    <3>1. fd \in OpenIn(file_descriptors)
      BY <2>2, OpenFacts
    <3>2. Fail("NO_PERMISSION")
      BY <2>2 DEF ufs_read
    <3> QED
      BY <2>2, <3>1, <3>2, FailServed, ErrorsJustified
  <2> QED
    BY <1>1, <2>1, <2>2
<1>2. CASE IsOpen(fd) /\ MayRead(fd)
  <2> DEFINE table == file_descriptors
             f == table[fd].file
             file == files[f]
             offset == table[fd].offset
             m == Len(ReadBytes(file.blocks, file.size, offset, n))
  <2>1. /\ fd \in OpenIn(table) /\ table \in Tables
        /\ GoodFile(file) /\ offset \in Nat /\ GoodOffset(file, offset)
        /\ f \in Files /\ file \in FileRecords
    BY <1>2, OpenFacts
  <2>2. n \in Nat
    BY UserFSAssumption
  <2>3. m \in Nat /\ offset + m \in Nat
    <3> HIDE DEF file, offset
    <3> QED
      BY <2>1, <2>2, ReadGood
  <2>4. /\ files' = files /\ ufs_error_code' = ufs_error_code
        /\ file_descriptors' = [table EXCEPT ![fd].offset = offset + m]
    BY <1>2 DEF ufs_read, Fail
  <2>5. ~file.patched => m = Intended!Readable(file.data, offset, n)
    <3> DEFINE d == file.data
               cut == SubSeq(d, offset + 1, Smaller(offset + n, Len(d)))
    <3>1. SUFFICES ASSUME ~file.patched  PROVE m = Intended!Readable(d, offset, n)
      OBVIOUS
    <3>2. Exact(file) /\ d \in Seq(Byte) /\ Len(d) \in Nat
      BY <2>1, <3>1, FileFields DEF GoodFile
    <3>3. m = Len(cut)
      <4> HIDE DEF file, offset
      <4> QED
        BY <2>1, <2>2, <3>2, ReadBytesExact
    <3> HIDE DEF d, m, offset
    <3>4. CASE offset >= Len(d)
      <4>1. Smaller(offset + n, Len(d)) = Len(d)
        BY <2>1, <2>2, <3>2, <3>4 DEF Smaller
      <4>2. Len(cut) = 0
        BY <2>1, <3>2, <3>4, <4>1, SubSeqProperties
      <4> QED
        BY <3>3, <3>4, <4>2 DEF Intended!Readable
    <3>5. CASE offset < Len(d)
      <4> DEFINE to == Smaller(offset + n, Len(d))
      <4>1. /\ to \in Nat /\ to >= offset /\ to <= Len(d)
            /\ to - offset = IF n < Len(d) - offset THEN n ELSE Len(d) - offset
        BY <2>1, <2>2, <3>2, <3>5 DEF Smaller
      <4> HIDE DEF to
      <4>2. DOMAIN d = 1..Len(d)
        BY <3>2, LenProperties
      <4>3. Len(cut) = to - offset
        <5>1. \A i \in (offset + 1)..to : d[i] \in Byte
          BY <2>1, <3>2, <4>1, <4>2, ElementOfSeq
        <5> QED
          BY <2>1, <4>1, <5>1, SubSeqProperties DEF to
      <4> HIDE DEF cut
      <4>4. m = to - offset
        BY <3>3, <4>3
      <4> QED
        BY <2>1, <3>2, <3>5, <4>1, <4>4 DEF Intended!Readable
    <3> QED
      BY <2>1, <3>2, <3>4, <3>5
  <2>6. OpenedFiles' = [OpenedFiles EXCEPT ![fd].offset = offset + m]
    <3> HIDE DEF m, offset
    <3> QED
      BY <2>1, <2>3, <2>4, MovedDescriptor
  <2>7. /\ CallersInvariant' /\ NamedFiles' = NamedFiles /\ BytesMeant' = BytesMeant
        /\ fd \in 1..MAX_CAPACITY
    <3>1. SameRights(table, file_descriptors')
      <4> HIDE DEF m, offset
      <4> QED
        BY <2>1, <2>3, <2>4, MoveKeepsRights
    <3> QED
      BY <2>1, <2>4, <3>1, UniqueStays, NamesStay
         DEF CallersInvariant, PlacesFit, SameRights, SameMarks, BytesMeant
  <2>8. /\ fd \in DOMAIN OpenedFiles /\ OpenedFiles[fd].file = f
        /\ OpenedFiles[fd].offset = offset /\ "READ_ONLY" \in OpenedFiles[fd].rights
        /\ BytesMeant[f] = file.data
    BY <1>2, <2>1, RightsSeen, CallersView
  <2> HIDE DEF m, offset, f, table
  <2>9. CASE ~file.patched
    <3>1. Intended!Read(fd, n)
      BY <2>4, <2>5, <2>6, <2>7, <2>8, <2>9 DEF Intended!Read
    <3> QED
      BY <2>7, <3>1 DEF Served, ServedStep, Intended!FSNext
  <2>10. CASE file.patched
    <3>1. PatchedRead
      BY <2>3, <2>4, <2>6, <2>7, <2>8, <2>10 DEF PatchedRead
    <3> QED
      BY <2>7, <3>1 DEF Served, ServedStep
  <2> QED
    BY <2>9, <2>10
<1> QED
  BY <1>1, <1>2

(* A call that changes one file through an open descriptor of it, and not  *)
(* who has which file open.                                                *)
LEMMA OneFileChanges ==
  ASSUME Counted, CallersInvariant, NEW fd, IsOpen(fd), NEW g,
         files' = [files EXCEPT ![file_descriptors[fd].file] = g],
         SameMarks(file_descriptors[fd].file),
         SameRights(file_descriptors, file_descriptors')
  PROVE  LET f == file_descriptors[fd].file IN
         /\ CallersInvariant'
         /\ fd \in 1..MAX_CAPACITY /\ fd \in DOMAIN OpenedFiles
         /\ f \in Files /\ OpenedFiles[fd].file = f
         /\ NamedFiles' = NamedFiles
         /\ BytesMeant[f] = files[f].data
         /\ BytesMeant' = [BytesMeant EXCEPT ![f] = g.data]
<1> DEFINE f == file_descriptors[fd].file
<1>1. /\ fd \in OpenIn(file_descriptors) /\ f \in Files /\ files \in [Files -> FileRecords]
      /\ files[f].alive
  BY OpenFacts
<1>2. files'[f] = g /\ \A h \in Files : h # f => files'[h] = files[h]
  BY <1>1
<1>3. SameMarks(f)
  OBVIOUS
<1>4. fd \in DOMAIN OpenedFiles /\ OpenedFiles[fd].file = f
  BY <1>1, CallersView
<1> HIDE DEF f
<1>5. \A h \in Files : SameMarks(h)
  BY <1>2, <1>3 DEF SameMarks
<1>6. \A h \in Files : ~files[h].alive => files'[h] = files[h]
  BY <1>1, <1>2
<1>7. CallersInvariant' /\ fd \in 1..MAX_CAPACITY
  BY <1>1, <1>5, <1>6, UniqueStays DEF CallersInvariant, PlacesFit, SameRights
<1>8. NamedFiles' = NamedFiles
  BY <1>5, NamesStay
<1>9. BytesMeant[f] = files[f].data /\ BytesMeant' = [BytesMeant EXCEPT ![f] = g.data]
  BY <1>1, <1>2 DEF BytesMeant
<1> QED
  BY <1>1, <1>4, <1>7, <1>8, <1>9 DEF f

(* ufs_write puts the bytes where the descriptor stands, and nothing else. *)
LEMMA WriteServed ==
  ASSUME Counted, CallersInvariant, NEW fd, NEW buf \in Buffers, ufs_write(fd, buf)
  PROVE  Served
<1>1. CASE ~(IsOpen(fd) /\ MayWrite(fd) /\ buf # <<>> /\ ~TooBig(fd, buf))
  <2>1. CASE ~IsOpen(fd)
    BY <2>1, FailServed, ErrorsJustified DEF ufs_write
  <2>2. CASE IsOpen(fd)
    <3>1. fd \in OpenIn(file_descriptors)
      BY <2>2, OpenFacts
    <3>2. \/ ~MayWrite(fd) /\ Fail("NO_PERMISSION")
          \/ Fail("NO_MEM")
      BY <1>1, <2>2 DEF ufs_write
    <3> QED
      BY <3>1, <3>2, FailServed, ErrorsJustified
  <2> QED
    BY <2>1, <2>2
<1>2. CASE IsOpen(fd) /\ MayWrite(fd) /\ buf # <<>> /\ ~TooBig(fd, buf)
  <2> DEFINE table == file_descriptors
             f == table[fd].file
             offset == table[fd].offset
             file == files[f]
             end == offset + Len(buf)
             g == Written(file, offset, buf)
             after == [table EXCEPT ![fd].offset = end]
  <2>1. /\ fd \in OpenIn(table) /\ table \in Tables /\ files \in [Files -> FileRecords]
        /\ f \in Files /\ offset \in Nat /\ file \in FileRecords
    BY <1>2, OpenFacts
  <2>2. buf \in Seq(Byte) /\ Len(buf) \in Nat
    <3>1. buf \in Seq(1..255)
      BY UserFSAssumption
    <3>2. buf \in [1..Len(buf) -> 1..255] /\ Len(buf) \in Nat
      BY <3>1, LenProperties
    <3>3. buf \in [1..Len(buf) -> Byte]
      BY <3>2 DEF Byte
    <3> QED
      BY <3>2, <3>3, SeqDef
  <2>3. files' = [files EXCEPT ![f] = g] /\ file_descriptors' = after
    BY <1>2 DEF ufs_write, Written, Filled, Fail
  <2>4. end \in Nat
    BY <2>1, <2>2
  <2>5. /\ g.data = WriteData(file.data, offset, buf)
        /\ g.alive = file.alive /\ g.is_ghost = file.is_ghost /\ g.name = file.name
    BY <2>1, WrittenFields, UpdatedFields DEF Written
  <2>6. SameRights(table, after)
    <3> HIDE DEF end
    <3> QED
      BY <2>1, <2>4, MoveKeepsRights
  <2> HIDE DEF g, after
  <2>7. SameMarks(f)
    BY <2>1, <2>3, <2>5 DEF SameMarks
  <2>8. WriteData(file.data, offset, buf) = Intended!Overwritten(file.data, offset, buf)
    <3> DEFINE d == file.data
    <3>1. Len(d) \in Nat /\ end \in Nat
      BY <2>1, <2>4, FileFields
    <3> HIDE DEF d, offset
    <3>2. Larger(Len(d), offset + Len(buf)) =
            IF offset + Len(buf) > Len(d) THEN offset + Len(buf) ELSE Len(d)
      BY <3>1 DEF Larger
    <3>3. WriteData(d, offset, buf) = Intended!Overwritten(d, offset, buf)
      BY <3>2 DEF WriteData, Intended!Overwritten
    <3> QED
      BY <3>3 DEF d
  <2>9. /\ CallersInvariant' /\ fd \in 1..MAX_CAPACITY /\ fd \in DOMAIN OpenedFiles
        /\ OpenedFiles[fd].file = f /\ NamedFiles' = NamedFiles
        /\ BytesMeant[f] = file.data /\ BytesMeant' = [BytesMeant EXCEPT ![f] = g.data]
    BY <1>2, <2>3, <2>6, <2>7, OneFileChanges
  <2>10. OpenedFiles[fd].offset = offset /\ "WRITE_ONLY" \in OpenedFiles[fd].rights
    BY <1>2, <2>1, RightsSeen
  <2>11. OpenedFiles' = [OpenedFiles EXCEPT ![fd].offset = end]
    <3> HIDE DEF end
    <3> QED
      BY <2>1, <2>3, <2>4, MovedDescriptor DEF after
  <2>12. ufs_error_code' = ufs_error_code
    BY <1>2 DEF ufs_write, Fail
  <2> HIDE DEF f, offset, file, table
  <2>13. Intended!Write(fd, buf)
    <3>1. BytesMeant' = [BytesMeant EXCEPT ![OpenedFiles[fd].file] =
                           Intended!Overwritten(@, OpenedFiles[fd].offset, buf)]
      BY <2>5, <2>8, <2>9, <2>10
    <3>2. OpenedFiles' = [OpenedFiles EXCEPT ![fd].offset = @ + Len(buf)]
      BY <2>9, <2>10, <2>11
    <3> QED
      BY <2>9, <2>10, <2>12, <3>1, <3>2 DEF Intended!Write
  <2> QED
    BY <2>9, <2>13 DEF Served, ServedStep, Intended!FSNext
<1> QED
  BY <1>1, <1>2

(* The halves of ufs_resize leave the marks of a file alone.               *)
LEMMA MarksKept ==
  ASSUME NEW file \in FileRecords, NEW new_size
  PROVE  /\ Shrunk(file, new_size).alive = file.alive
         /\ Shrunk(file, new_size).is_ghost = file.is_ghost
         /\ Shrunk(file, new_size).name = file.name
         /\ Grown(file, new_size).alive = file.alive
         /\ Grown(file, new_size).is_ghost = file.is_ghost
         /\ Grown(file, new_size).name = file.name
<1>1. ASSUME NEW b, NEW s, NEW d, NEW p
      PROVE  /\ Filled(file, b, s, d, p).alive = file.alive
             /\ Filled(file, b, s, d, p).is_ghost = file.is_ghost
             /\ Filled(file, b, s, d, p).name = file.name
  BY UpdatedFields
<1>2. PICK b, s, d, p : Shrunk(file, new_size) = Filled(file, b, s, d, p)
  BY Zenon DEF Shrunk
<1>3. /\ Shrunk(file, new_size).alive = file.alive
      /\ Shrunk(file, new_size).is_ghost = file.is_ghost
      /\ Shrunk(file, new_size).name = file.name
  BY <1>1, <1>2
<1>4. PICK b2, s2, d2, p2 : Grown(file, new_size) = Filled(file, b2, s2, d2, p2)
  BY Zenon DEF Grown
<1>5. /\ Grown(file, new_size).alive = file.alive
      /\ Grown(file, new_size).is_ghost = file.is_ghost
      /\ Grown(file, new_size).name = file.name
  BY <1>1, <1>4
<1> QED
  BY <1>3, <1>5

(* ufs_resize keeps the bytes before the shorter of the two ends, and      *)
(* makes empty ones.                                                       *)
LEMMA ResizeServed ==
  ASSUME Counted, CallersInvariant, NEW fd, NEW new_size \in NewSizes,
         ufs_resize(fd, new_size)
  PROVE  Served
<1> DEFINE table == file_descriptors
           f == table[fd].file
           file == files[f]
           d == file.data
<1>1. new_size \in Nat
  BY UserFSAssumption
<1>2. CASE ~IsOpen(fd) /\ Fail("NO_FILE")
  BY <1>2, FailServed, ErrorsJustified
<1>3. ASSUME IsOpen(fd), NEW g, files' = [files EXCEPT ![f] = g],
             g.alive = file.alive, g.is_ghost = file.is_ghost, g.name = file.name,
             SameRights(table, file_descriptors'), ufs_error_code' = ufs_error_code,
             g.data = [i \in 1..new_size |-> IF i \in DOMAIN d THEN d[i] ELSE 0],
             \A x \in OpenIn(table) :
               file_descriptors'[x].offset =
                 IF table[x].file = f /\ new_size < Len(d) /\ new_size < table[x].offset
                 THEN new_size ELSE table[x].offset
      PROVE  Served
  <2>1. f \in Files /\ files \in [Files -> FileRecords]
    BY <1>3, OpenFacts
  <2>2. SameMarks(f)
    BY <1>3, <2>1 DEF SameMarks
  <2>3. /\ CallersInvariant' /\ fd \in 1..MAX_CAPACITY /\ fd \in DOMAIN OpenedFiles
        /\ OpenedFiles[fd].file = f /\ NamedFiles' = NamedFiles
        /\ BytesMeant[f] = d /\ BytesMeant' = [BytesMeant EXCEPT ![f] = g.data]
    <3>1. IsOpen(fd) /\ files' = [files EXCEPT ![f] = g] /\ SameRights(table, file_descriptors')
      BY <1>3
    <3> QED
      BY <2>2, <3>1, OneFileChanges
  <2> HIDE DEF d, f
  <2>4. OpenedFiles' = [x \in DOMAIN OpenedFiles |->
          IF OpenedFiles[x].file = f /\ new_size < Len(d) /\ new_size < OpenedFiles[x].offset
          THEN [OpenedFiles[x] EXCEPT !.offset = new_size] ELSE OpenedFiles[x]]
    <3>1. ASSUME NEW x \in OpenIn(table)
          PROVE  DescriptorSeen(file_descriptors'[x]) =
                   IF table[x].file = f /\ new_size < Len(d) /\ new_size < table[x].offset
                   THEN [DescriptorSeen(table[x]) EXCEPT !.offset = new_size]
                   ELSE DescriptorSeen(table[x])
      BY <1>3 DEF SameRights, DescriptorSeen
    <3>2. \A x \in OpenIn(table) :
            OpenedFiles[x].file = table[x].file /\ OpenedFiles[x].offset = table[x].offset
      BY RightsSeen
    <3>3. OpenIn(file_descriptors') = OpenIn(table)
      BY <1>3 DEF SameRights
    <3>4. /\ DOMAIN OpenedFiles = OpenIn(table)
          /\ \A x \in OpenIn(table) : OpenedFiles[x] = DescriptorSeen(table[x])
      BY OpenedSeen
    <3>5. \A x \in OpenIn(table) :
            DescriptorSeen(file_descriptors'[x]) =
              IF OpenedFiles[x].file = f /\ new_size < Len(d) /\ new_size < OpenedFiles[x].offset
              THEN [OpenedFiles[x] EXCEPT !.offset = new_size] ELSE OpenedFiles[x]
      BY <3>1, <3>2, <3>4
    <3>6. OpenedFiles' = [x \in OpenIn(table) |-> DescriptorSeen(file_descriptors'[x])]
      BY <3>3, OpenedSeen
    <3> QED
      BY <3>4, <3>5, <3>6
  <2>5. Intended!ResizeFile(fd, new_size)
    BY <1>3, <2>3, <2>4 DEF Intended!ResizeFile
  <2> QED
    BY <2>3, <2>5 DEF Served, ServedStep, ResizedByAnyone
<1>4. ASSUME IsOpen(fd)
      PROVE  /\ fd \in OpenIn(table) /\ table \in Tables /\ files \in [Files -> FileRecords]
             /\ f \in Files /\ file \in FileRecords
             /\ d \in Seq(Byte) /\ Len(d) = file.size /\ file.size \in Nat
  BY <1>4, OpenFacts, FileFields DEF GoodFile
<1>5. CASE IsOpen(fd) /\ ShrinkFile(f, new_size)
  <2> DEFINE g == Shrunk(file, new_size)
  <2>1. new_size < file.size /\ files' = [files EXCEPT ![f] = g]
    BY <1>4, <1>5 DEF ShrinkFile, Shrunk, Filled, FileRecords
  <2>2. /\ g.data = SubSeq(d, 1, new_size)
        /\ g.alive = file.alive /\ g.is_ghost = file.is_ghost /\ g.name = file.name
    <3> HIDE DEF file
    <3>1. g.data = SubSeq(d, 1, new_size)
      BY <1>4, <1>5, ShrunkFields
    <3>2. g.alive = file.alive /\ g.is_ghost = file.is_ghost /\ g.name = file.name
      BY <1>4, <1>5, MarksKept
    <3> QED
      BY <3>1, <3>2
  <2>3. file_descriptors' = ClipOffsets(f, new_size)
    BY <1>5 DEF ShrinkFile
  <2>4. /\ SameRights(table, file_descriptors')
        /\ \A x \in OpenIn(table) :
             file_descriptors'[x].offset =
               IF table[x].file = f /\ new_size < Len(d) /\ new_size < table[x].offset
               THEN new_size ELSE table[x].offset
    <3>1. DOMAIN ClipOffsets(f, new_size) = DOMAIN table
      BY DEF ClipOffsets
    <3>2. ASSUME NEW x \in OpenIn(table)
          PROVE  /\ ClipOffsets(f, new_size)[x] # NULL
                 /\ ClipOffsets(f, new_size)[x].file = table[x].file
                 /\ ClipOffsets(f, new_size)[x].open_flags = table[x].open_flags
                 /\ ClipOffsets(f, new_size)[x].offset =
                      IF table[x].file = f /\ new_size < table[x].offset
                      THEN new_size ELSE table[x].offset
      <4>1. table[x] \in FileDescs /\ x \in DOMAIN table /\ table[x] # NULL
        BY <1>4, <1>5, OpenDescriptorType DEF OpenIn
      <4>2. CASE table[x].file = f
        <5> DEFINE o == Smaller(table[x].offset, new_size)
        <5>1. ClipOffsets(f, new_size)[x] = [table[x] EXCEPT !.offset = o]
          BY <4>1, <4>2 DEF ClipOffsets
        <5>2. o \in Nat /\ o = IF new_size < table[x].offset THEN new_size ELSE table[x].offset
          BY <1>1, <4>1 DEF FileDescs, Smaller
        <5> HIDE DEF o
        <5>3. [table[x] EXCEPT !.offset = o] \in FileDescs
          BY <4>1, <5>2 DEF FileDescs
        <5>4. /\ [table[x] EXCEPT !.offset = o].file = table[x].file
              /\ [table[x] EXCEPT !.offset = o].open_flags = table[x].open_flags
              /\ [table[x] EXCEPT !.offset = o].offset = o
          BY <4>1 DEF FileDescs
        <5> QED
          BY <4>2, <5>1, <5>2, <5>3, <5>4, UserFSAssumption
      <4>3. CASE table[x].file # f
        BY <4>1, <4>3 DEF ClipOffsets
      <4> QED
        BY <4>2, <4>3
    <3>3. ASSUME NEW x \in DOMAIN table, table[x] = NULL
          PROVE  ClipOffsets(f, new_size)[x] = NULL
      BY <3>3 DEF ClipOffsets
    <3>4. OpenIn(ClipOffsets(f, new_size)) = OpenIn(table)
      <4> DEFINE after == ClipOffsets(f, new_size)
      <4>1. \A x \in DOMAIN table : after[x] = NULL <=> table[x] = NULL
        BY <3>2, <3>3 DEF OpenIn
      <4> QED
        BY <3>1, <4>1 DEF OpenIn
    <3>5. new_size < Len(d)
      BY <1>4, <1>5, <2>1
    <3> HIDE DEF d, f
    <3> QED
      BY <2>3, <3>2, <3>4, <3>5 DEF SameRights
  <2>5. g.data = [i \in 1..new_size |-> IF i \in DOMAIN d THEN d[i] ELSE 0]
    <3>1. DOMAIN d = 1..Len(d) /\ \A i \in 1..Len(d) : d[i] \in Byte
      BY <1>4, <1>5, LenProperties, ElementOfSeq
    <3>2. \A i \in 1..new_size : i \in 1..Len(d)
      BY <1>1, <1>4, <1>5, <2>1
    <3> DEFINE cut == SubSeq(d, 1, new_size)
    <3> HIDE DEF d
    <3>3. cut \in Seq(Byte) /\ Len(cut) = new_size /\ \A i \in 1..new_size : cut[i] = d[i]
      BY <1>1, <3>1, <3>2, SubSeqProperties
    <3> HIDE DEF cut
    <3>4. cut = [i \in 1..new_size |-> cut[i]]
      BY <3>3, LenProperties
    <3>5. g.data = cut
      BY <2>2 DEF cut
    <3> HIDE DEF g
    <3> QED
      BY <3>1, <3>2, <3>3, <3>4, <3>5
  <2>6. ufs_error_code' = ufs_error_code
    BY <1>5 DEF ShrinkFile
  <2> HIDE DEF g
  <2> QED
    BY <1>3, <1>5, <2>1, <2>2, <2>4, <2>5, <2>6
<1>6. CASE IsOpen(fd) /\ GrowFile(f, new_size)
  <2> DEFINE g == Grown(file, new_size)
             new == [i \in 1..(new_size - Len(d)) |-> 0]
  <2>1. /\ new_size > file.size /\ files' = [files EXCEPT ![f] = g]
        /\ file_descriptors' = table /\ ufs_error_code' = ufs_error_code
    BY <1>4, <1>6 DEF GrowFile, Grown, Filled, FileRecords, descriptors
  <2>2. /\ g.data = d \o new
        /\ g.alive = file.alive /\ g.is_ghost = file.is_ghost /\ g.name = file.name
    <3> HIDE DEF file
    <3>1. g.data = d \o new
      BY <1>4, <1>6, GrownFields
    <3>2. g.alive = file.alive /\ g.is_ghost = file.is_ghost /\ g.name = file.name
      BY <1>4, <1>6, MarksKept
    <3> QED
      BY <3>1, <3>2
  <2>3. SameRights(table, file_descriptors')
    BY <2>1 DEF SameRights
  <2>4. g.data = [i \in 1..new_size |-> IF i \in DOMAIN d THEN d[i] ELSE 0]
    <3> DEFINE n == new_size - Len(d)
    <3>1. DOMAIN d = 1..Len(d) /\ d \in Seq(Byte) /\ Len(d) \in Nat
      BY <1>4, <1>6, LenProperties
    <3>2. n \in Nat /\ Len(d) + n = new_size
      BY <1>1, <1>4, <1>6, <2>1
    <3> HIDE DEF d, n
    <3>3. new = [i \in 1..n |-> 0]
      BY DEF n
    <3>4. new \in [1..n -> Byte]
      BY <3>3 DEF Byte
    <3> HIDE DEF new
    <3>5. new \in Seq(Byte)
      BY <3>2, <3>4, SeqDef
    <3>6. Len(new) = n /\ \A i \in 1..n : new[i] = 0
      BY <3>2, <3>3, <3>4, <3>5, LenProperties
    <3>7. /\ d \o new \in Seq(Byte) /\ Len(d \o new) = Len(d) + n
          /\ \A i \in 1..(Len(d) + n) :
               (d \o new)[i] = IF i <= Len(d) THEN d[i] ELSE new[i - Len(d)]
      BY <3>1, <3>5, <3>6, ConcatProperties
    <3> DEFINE longer == d \o new
    <3>8. longer = [i \in 1..new_size |-> longer[i]]
      BY <3>2, <3>7, LenProperties
    <3>9. g.data = longer
      BY <2>2
    <3> HIDE DEF longer, g
    <3>10. \A i \in 1..(Len(d) + n) : i > Len(d) => i - Len(d) \in 1..n
      BY <3>1, <3>2
    <3>11. \A i \in 1..(Len(d) + n) : longer[i] = IF i <= Len(d) THEN d[i] ELSE 0
      BY <3>1, <3>2, <3>6, <3>7, <3>10 DEF longer
    <3>12. \A i \in 1..new_size : longer[i] = IF i \in DOMAIN d THEN d[i] ELSE 0
      BY <3>1, <3>2, <3>11
    <3> QED
      BY <3>8, <3>9, <3>12
  <2>5. ~(new_size < Len(d))
    BY <1>1, <1>4, <1>6, <2>1
  <2> HIDE DEF g
  <2> QED
    BY <1>3, <1>6, <2>1, <2>2, <2>3, <2>4, <2>5
<1>7. \/ ~IsOpen(fd) /\ Fail("NO_FILE")
      \/ IsOpen(fd) /\ Fail("NO_MEM")
      \/ IsOpen(fd) /\ ShrinkFile(f, new_size)
      \/ IsOpen(fd) /\ GrowFile(f, new_size)
  BY DEF ufs_resize
<1>8. CASE IsOpen(fd) /\ Fail("NO_MEM")
  BY <1>4, <1>8, FailServed, ErrorsJustified
<1> QED
  BY <1>2, <1>5, <1>6, <1>7, <1>8

(* Another count of references leaves the marks and the bytes alone.       *)
LEMMA RefsAside ==
  ASSUME NEW file \in FileRecords, NEW n
  PROVE  LET g == [file EXCEPT !.refs = n] IN
         /\ g.alive = file.alive /\ g.is_ghost = file.is_ghost
         /\ g.name = file.name /\ g.data = file.data
  BY DEF FileRecords

(* A free file has no bytes.                                               *)
LEMMA FreeHasNothing ==
  /\ FreeFile.alive = FALSE /\ FreeFile.data = <<>>
  /\ NamesUnique => \A f \in Files : ~files[f].alive => files[f].data = <<>>
  BY DEF FreeFile, NamesUnique

(* Files that cannot be found take no name from others.                    *)
LEMMA FewerNamed ==
  ASSUME NamesUnique,
         \A h \in Files :
           IF files'[h].alive THEN files'[h].name \in Names ELSE files'[h] = FreeFile,
         \A h \in Files : CanBeFound(h)' => files'[h] = files[h]
  PROVE  NamesUnique'
<1>1. \A h \in Files : CanBeFound(h)' => CanBeFound(h) /\ files'[h].name = files[h].name
  BY DEF CanBeFound
<1>2. \A g, h \in Files :
        CanBeFound(g) /\ CanBeFound(h) /\ files[g].name = files[h].name => g = h
  BY DEF NamesUnique
<1>3. \A g, h \in Files :
        CanBeFound(g)' /\ CanBeFound(h)' /\ files'[g].name = files'[h].name => g = h
  BY <1>1, <1>2
<1> QED
  BY <1>3 DEF NamesUnique

(* A file that is freed had been deleted, or is deleted now: all others    *)
(* are as unique as before.                                                *)
LEMMA FreedKeepsUnique ==
  ASSUME NamesUnique, NEW f \in Files, files'[f] = FreeFile,
         \A h \in Files : h # f => files'[h] = files[h]
  PROVE  NamesUnique'
<1>1. ~files'[f].alive
  BY FreeHasNothing
<1>2. \A h \in Files :
        IF files'[h].alive THEN files'[h].name \in Names ELSE files'[h] = FreeFile
  BY <1>1 DEF NamesUnique
<1>3. \A h \in Files : CanBeFound(h)' => files'[h] = files[h]
  BY <1>1 DEF CanBeFound
<1> QED
  BY <1>2, <1>3, FewerNamed

(* ufs_close takes the descriptor away, and the bytes of a deleted file    *)
(* with the last one.                                                      *)
LEMMA CloseServed ==
  ASSUME UserFSInvariant, UserFSInvariant', Counted, CallersInvariant,
         NEW fd, ufs_close(fd)
  PROVE  Served
<1>1. CASE ~IsOpen(fd)
  <2>1. Fail("NO_FILE")
    BY <1>1 DEF ufs_close
  <2> QED
    BY <2>1, FailServed, ErrorsJustified
<1>2. CASE IsOpen(fd)
  <2> DEFINE table == file_descriptors
             f == table[fd].file
  <2>1. /\ fd \in OpenIn(table) /\ table \in Tables /\ files \in [Files -> FileRecords]
        /\ f \in Files /\ files[f] \in FileRecords
    BY <1>2, OpenFacts
  <2>2. /\ table' = [table EXCEPT ![fd] = NULL]
        /\ IF files[f].refs <= 1 /\ files[f].is_ghost
           THEN files' = [files EXCEPT ![f] = FreeFile]
           ELSE files' = [files EXCEPT ![f].refs = @ - 1]
    BY <1>2 DEF ufs_close, Fail
  <2>3. /\ OpenIn(table') = OpenIn(table) \ {fd}
        /\ \A x \in OpenIn(table') : table'[x] = table[x]
    BY <2>1, <2>2 DEF OpenIn
  <2>4. OpenedFiles' = [x \in DOMAIN OpenedFiles \ {fd} |-> OpenedFiles[x]]
    BY <2>3 DEF OpenedFiles, OpenIn
  <2>5. fd \in DOMAIN OpenedFiles /\ fd \in 1..MAX_CAPACITY /\ PlacesFit'
    BY <2>1, <2>3, CallersView DEF CallersInvariant, PlacesFit
  <2> HIDE DEF f
  <2>6. /\ NamesUnique' /\ NamedFiles' = NamedFiles
        /\ \A h \in Files : files'[h].data = IF files'[h].alive THEN files[h].data ELSE <<>>
    <3>1. NamesUnique /\ \A h \in Files : ~files[h].alive => files[h].data = <<>>
      BY FreeHasNothing DEF CallersInvariant
    <3>2. CASE files[f].refs <= 1 /\ files[f].is_ghost
      <4>1. files'[f] = FreeFile /\ \A h \in Files : h # f => files'[h] = files[h]
        BY <2>1, <2>2, <3>2
      <4>2. NamesUnique'
        BY <2>1, <3>1, <4>1, FreedKeepsUnique
      <4>3. \A n \in Names :
              {h \in Files : files'[h].alive /\ ~files'[h].is_ghost /\ files'[h].name = n} =
              {h \in Files : files[h].alive /\ ~files[h].is_ghost /\ files[h].name = n}
        BY <3>2, <4>1, FreeHasNothing
      <4>4. NamedFiles' = NamedFiles
        BY <4>3 DEF NamedFiles
      <4> QED
        BY <3>1, <4>1, <4>2, <4>4, FreeHasNothing
    <3>3. CASE ~(files[f].refs <= 1 /\ files[f].is_ghost)
      <4> DEFINE g == [files[f] EXCEPT !.refs = @ - 1]
      <4>1. files'[f] = g /\ \A h \in Files : h # f => files'[h] = files[h]
        BY <2>1, <2>2, <3>3
      <4>2. /\ g.alive = files[f].alive /\ g.is_ghost = files[f].is_ghost
            /\ g.name = files[f].name /\ g.data = files[f].data
        BY <2>1, RefsAside
      <4> HIDE DEF g
      <4>3. files[f].alive
        BY <1>2, OpenFacts DEF f
      <4>4. \A h \in Files : SameMarks(h)
        BY <4>1, <4>2 DEF SameMarks
      <4>5. \A h \in Files : ~files[h].alive => files'[h] = files[h]
        BY <4>1, <4>3
      <4>6. NamesUnique' /\ NamedFiles' = NamedFiles
        BY <3>1, <4>4, <4>5, UniqueStays, NamesStay
      <4>7. \A h \in Files : files'[h].data = files[h].data /\ files'[h].alive = files[h].alive
        BY <4>1, <4>2
      <4> QED
        BY <3>1, <4>6, <4>7
    <3> QED
      BY <3>2, <3>3
  <2>7. Intended!ContentKept
    BY <2>6, FreedBytes
  <2>8. Intended!Close(fd)
    <3>1. ufs_error_code' = ufs_error_code
      BY <1>2 DEF ufs_close, Fail
    <3> QED
      BY <2>4, <2>5, <2>6, <2>7, <3>1 DEF Intended!Close
  <2> QED
    BY <2>5, <2>6, <2>8 DEF Served, ServedStep, CallersInvariant, Intended!FSNext
<1> QED
  BY <1>1, <1>2

(* ufs_delete takes the name away at once, and the bytes if nobody has the *)
(* file open.                                                              *)
LEMMA DeleteServed ==
  ASSUME UserFSInvariant, UserFSInvariant', Counted, CallersInvariant,
         NEW filename \in Names, ufs_delete(filename)
  PROVE  Served
<1>1. CASE Find(filename) = NULL
  <2>1. Fail("NO_FILE")
    BY <1>1 DEF ufs_delete
  <2> QED
    BY <2>1, FailServed, ErrorsJustified
<1>2. CASE Find(filename) # NULL
  <2> DEFINE f == Find(filename)
  <2>1. /\ f \in Files /\ files[f] \in FileRecords
        /\ files[f].alive /\ ~files[f].is_ghost /\ files[f].name = filename
    BY <1>2, FoundFile, FindProperties DEF UserFSInvariant
  <2>2. /\ IF files[f].refs <= 0
           THEN files' = [files EXCEPT ![f] = FreeFile]
           ELSE files' = [files EXCEPT ![f].is_ghost = TRUE]
        /\ file_descriptors' = file_descriptors
    BY <1>2 DEF ufs_delete, Fail, descriptors
  <2> HIDE DEF f
  <2>3. files \in [Files -> FileRecords]
    BY DEF UserFSInvariant, TypeOK
  <2>4. /\ NamesUnique' /\ ~(files'[f].alive /\ ~files'[f].is_ghost)
        /\ \A h \in Files : h # f => files'[h] = files[h]
        /\ \A h \in Files : files'[h].data = IF files'[h].alive THEN files[h].data ELSE <<>>
    <3>1. NamesUnique /\ \A h \in Files : ~files[h].alive => files[h].data = <<>>
      BY FreeHasNothing DEF CallersInvariant
    <3>2. CASE files[f].refs <= 0
      <4>1. files'[f] = FreeFile /\ \A h \in Files : h # f => files'[h] = files[h]
        BY <2>1, <2>2, <2>3, <3>2
      <4>2. NamesUnique'
        BY <2>1, <3>1, <4>1, FreedKeepsUnique
      <4> QED
        BY <3>1, <4>1, <4>2, FreeHasNothing
    <3>3. CASE ~(files[f].refs <= 0)
      <4> DEFINE g == [files[f] EXCEPT !.is_ghost = TRUE]
      <4>1. files'[f] = g /\ \A h \in Files : h # f => files'[h] = files[h]
        BY <2>1, <2>2, <2>3, <3>3
      <4>2. /\ g.alive = files[f].alive /\ g.is_ghost = TRUE
            /\ g.name = files[f].name /\ g.data = files[f].data
        BY <2>1 DEF FileRecords
      <4> HIDE DEF g
      <4>3. \A h \in Files :
              IF files'[h].alive THEN files'[h].name \in Names ELSE files'[h] = FreeFile
        BY <2>1, <3>1, <4>1, <4>2 DEF NamesUnique
      <4>4. \A h \in Files : CanBeFound(h)' => files'[h] = files[h]
        BY <4>1, <4>2 DEF CanBeFound
      <4>5. NamesUnique'
        BY <3>1, <4>3, <4>4, FewerNamed
      <4> QED
        BY <2>1, <3>1, <4>1, <4>2, <4>5
    <3> QED
      BY <3>2, <3>3
  <2>5. OpenedFiles' = OpenedFiles /\ PlacesFit'
    BY <2>2 DEF OpenedFiles, CallersInvariant, PlacesFit
  <2>6. NamedFiles[filename] # {}
    BY <2>1, CallersView
  <2>7. NamedFiles' = [NamedFiles EXCEPT ![filename] = {}]
    <3>1. {h \in Files : files'[h].alive /\ ~files'[h].is_ghost /\ files'[h].name = filename} = {}
      <4>1. \A h \in Files :
              files[h].alive /\ ~files[h].is_ghost /\ files[h].name = filename => h = f
        <5>1. \A h \in Files : CanBeFound(f) /\ CanBeFound(h)
                                /\ files[f].name = files[h].name => f = h
          BY <2>1 DEF CallersInvariant, NamesUnique
        <5> QED
          BY <2>1, <5>1 DEF CanBeFound
      <4> QED
        BY <2>4, <4>1
    <3>2. \A n \in Names : n # filename =>
            {h \in Files : files'[h].alive /\ ~files'[h].is_ghost /\ files'[h].name = n} =
            {h \in Files : files[h].alive /\ ~files[h].is_ghost /\ files[h].name = n}
      BY <2>1, <2>4
    <3> QED
      BY <3>1, <3>2 DEF NamedFiles
  <2>8. Intended!ContentKept
    BY <2>4, FreedBytes
  <2>9. Intended!Delete(filename)
    <3>1. ufs_error_code' = ufs_error_code
      BY <1>2 DEF ufs_delete, Fail
    <3> QED
      BY <2>5, <2>6, <2>7, <2>8, <3>1 DEF Intended!Delete
  <2> QED
    BY <2>4, <2>5, <2>9 DEF Served, ServedStep, CallersInvariant, Intended!FSNext
<1> QED
  BY <1>1, <1>2

(* ufs_open, once the file is known: a descriptor that was not used, with  *)
(* the rights of the flags.                                                *)
LEMMA DescriptorGiven ==
  ASSUME TypeOK, UsedCount, PlacesFit, NEW f \in Files, NEW list, NEW record,
         NEW flags \in Flags, OpenDescriptor(f, list, record, flags)
  PROVE  /\ Place \in 1..MAX_CAPACITY /\ Place \notin DOMAIN OpenedFiles /\ PlacesFit'
         /\ OpenedFiles' = [d \in DOMAIN OpenedFiles \cup {Place} |->
              IF d = Place THEN [file |-> f, rights |-> Intended!Rights(flags), offset |-> 0]
              ELSE OpenedFiles[d]]
         /\ files' = [files EXCEPT ![f] = [record EXCEPT !.refs = @ + 1]]
         /\ ufs_error_code' = ufs_error_code
<1> DEFINE desc == [file |-> f, open_flags |-> AccessFlags(flags), offset |-> 0]
           table == file_descriptors
           after == [Table EXCEPT ![Place] = desc]
<1>1. /\ Table \in Tables /\ OpenIn(Table) = OpenIn(table)
      /\ \A i \in 1..Len(table) : Table[i] = table[i]
      /\ Place \in DOMAIN Table /\ Table[Place] = NULL /\ Place # 0
  BY TableProperties, PlaceProperties
<1>2. /\ Len(Table) <= MAX_CAPACITY
      /\ files' = [files EXCEPT ![f] = [record EXCEPT !.refs = @ + 1]]
      /\ table' = after
      /\ ufs_error_code' = ufs_error_code
  BY <1>1 DEF OpenDescriptor
<1>3. Place \in 1..MAX_CAPACITY
  <2>1. DOMAIN Table = 1..Len(Table) /\ Len(Table) \in Nat
    BY <1>1, LenProperties DEF Tables
  <2>2. Place \in 1..Len(Table) /\ Len(Table) <= MAX_CAPACITY
    BY <1>1, <1>2, <2>1
  <2>3. MAX_CAPACITY \in Nat
    BY UserFSAssumption
  <2> QED
    BY <2>1, <2>2, <2>3
<1>4. desc \in FileDescs
  <2>1. flags \in SUBSET AllFlags
    BY UserFSAssumption
  <2>2. AccessFlags(flags) \in SUBSET AllFlags
    BY <2>1 DEF AccessFlags, AllFlags
  <2> QED
    BY <2>2 DEF FileDescs
<1>5. desc.file = f /\ desc.open_flags = AccessFlags(flags) /\ desc.offset = 0
  OBVIOUS
<1> HIDE DEF desc
<1>6. OpenIn(after) = OpenIn(Table) \cup {Place}
  BY <1>1, <1>4, PutDescriptor
<1>7. after[Place] = desc /\ \A x \in DOMAIN Table : x # Place => after[x] = Table[x]
  BY <1>1
<1>8. \A x \in OpenIn(table) : x # Place /\ after[x] = table[x]
  <2>1. \A x \in OpenIn(table) : x \in 1..Len(table) /\ table[x] # NULL
    BY OpenDescriptorType DEF TypeOK, Tables, OpenIn
  <2>2. \A x \in OpenIn(table) : x \in DOMAIN Table
    BY <1>1 DEF OpenIn
  <2> QED
    BY <1>1, <1>7, <2>1, <2>2
<1> HIDE DEF after
<1>9. OpenIn(table') = OpenIn(table) \cup {Place}
  BY <1>1, <1>2, <1>6
<1>10. Place \notin DOMAIN OpenedFiles /\ PlacesFit'
  BY <1>3, <1>8, <1>9, CallersView DEF PlacesFit
<1>11. OpenedFiles' = [d \in DOMAIN OpenedFiles \cup {Place} |->
         IF d = Place THEN [file |-> f, rights |-> Intended!Rights(flags), offset |-> 0]
         ELSE OpenedFiles[d]]
  <2>1. DescriptorSeen(desc) = [file |-> f, rights |-> Intended!Rights(flags), offset |-> 0]
    BY <1>5, RightsOfFlags DEF DescriptorSeen, RightsIn
  <2>2. \A x \in OpenIn(table) :
          DescriptorSeen(table'[x]) = DescriptorSeen(table[x]) /\ x # Place
    BY <1>2, <1>8
  <2>3. table'[Place] = desc
    BY <1>2, <1>7
  <2> HIDE DEF table
  <2> QED
    BY <1>9, <2>1, <2>2, <2>3, OpenedSeen DEF table
<1> QED
  BY <1>2, <1>3, <1>10, <1>11

(* ufs_open opens the file of the name, or makes one if there is none and  *)
(* the flags say so.                                                       *)
LEMMA OpenServed ==
  ASSUME UserFSInvariant, Counted, CallersInvariant,
         NEW filename \in Names, NEW flags \in Flags, ufs_open(filename, flags)
  PROVE  Served
<1>1. /\ TypeOK /\ UsedCount /\ NamesUnique /\ PlacesFit
      /\ files \in [Files -> FileRecords]
  BY DEF UserFSInvariant, CallersInvariant, TypeOK
<1>2. CASE /\ Find(filename) # NULL
           /\ OpenDescriptor(Find(filename), file_list, files[Find(filename)], flags)
  <2> DEFINE f == Find(filename)
  <2>1. /\ f \in Files /\ files[f] \in FileRecords
        /\ files[f].alive /\ ~files[f].is_ghost /\ files[f].name = filename
    BY <1>1, <1>2, FoundFile, FindProperties
  <2>2. OpenDescriptor(f, file_list, files[f], flags)
    BY <1>2
  <2> HIDE DEF f
  <2>3. /\ Place \in 1..MAX_CAPACITY /\ Place \notin DOMAIN OpenedFiles /\ PlacesFit'
        /\ OpenedFiles' = [d \in DOMAIN OpenedFiles \cup {Place} |->
             IF d = Place THEN [file |-> f, rights |-> Intended!Rights(flags), offset |-> 0]
             ELSE OpenedFiles[d]]
        /\ files' = [files EXCEPT ![f] = [files[f] EXCEPT !.refs = @ + 1]]
        /\ ufs_error_code' = ufs_error_code
    BY <1>1, <2>1, <2>2, DescriptorGiven
  <2> DEFINE g == [files[f] EXCEPT !.refs = @ + 1]
  <2>4. /\ g.alive = files[f].alive /\ g.is_ghost = files[f].is_ghost
        /\ g.name = files[f].name /\ g.data = files[f].data
    BY <2>1, RefsAside
  <2>5. files'[f] = g /\ \A h \in Files : h # f => files'[h] = files[h]
    BY <1>1, <2>1, <2>3
  <2> HIDE DEF g
  <2>6. \A h \in Files : SameMarks(h) /\ files'[h].data = files[h].data
    BY <2>4, <2>5 DEF SameMarks
  <2>7. \A h \in Files : ~files[h].alive => files'[h] = files[h]
    BY <2>1, <2>5
  <2>8. NamesUnique' /\ NamedFiles' = NamedFiles
    BY <1>1, <2>6, <2>7, UniqueStays, NamesStay
  <2>9. BytesMeant' = BytesMeant
    BY <2>6 DEF BytesMeant
  <2>10. f \in NamedFiles[filename]
    BY <2>1, CallersView
  <2>11. Intended!Open(filename, flags, Place)
    BY <2>1, <2>3, <2>8, <2>9, <2>10 DEF Intended!Open
  <2> QED
    BY <2>3, <2>8, <2>11 DEF Served, ServedStep, CallersInvariant, Intended!FSNext
<1>3. CASE Find(filename) = NULL /\ "CREATE" \notin flags /\ Fail("NO_FILE")
  BY <1>3, FailServed, ErrorsJustified
<1>4. CASE /\ Find(filename) = NULL /\ "CREATE" \in flags
           /\ \E f \in Files :
                /\ ~files[f].alive
                /\ OpenDescriptor(f, <<f>> \o file_list,
                     [FreeFile EXCEPT !.alive = TRUE, !.name = filename], flags)
  <2>1. PICK f \in Files :
          /\ ~files[f].alive
          /\ OpenDescriptor(f, <<f>> \o file_list,
               [FreeFile EXCEPT !.alive = TRUE, !.name = filename], flags)
    BY <1>4
  <2> DEFINE record == [FreeFile EXCEPT !.alive = TRUE, !.name = filename]
             g == [record EXCEPT !.refs = @ + 1]
  <2>2. /\ g.alive = TRUE /\ g.is_ghost = FALSE /\ g.name = filename /\ g.data = <<>>
    BY DEF FreeFile
  <2> HIDE DEF record
  <2>3. /\ Place \in 1..MAX_CAPACITY /\ Place \notin DOMAIN OpenedFiles /\ PlacesFit'
        /\ OpenedFiles' = [d \in DOMAIN OpenedFiles \cup {Place} |->
             IF d = Place THEN [file |-> f, rights |-> Intended!Rights(flags), offset |-> 0]
             ELSE OpenedFiles[d]]
        /\ files' = [files EXCEPT ![f] = g]
        /\ ufs_error_code' = ufs_error_code
    BY <1>1, <2>1, DescriptorGiven DEF record
  <2> HIDE DEF g
  <2>4. files'[f] = g /\ \A h \in Files : h # f => files'[h] = files[h]
    BY <1>1, <2>3
  <2>5. \A h \in Files : ~(CanBeFound(h) /\ files[h].name = filename)
    <3>1. SUFFICES ASSUME NEW h \in Files, files[h].alive, ~files[h].is_ghost,
                          files[h].name = filename
                   PROVE  FALSE
      BY DEF CanBeFound
    <3>2. h \in Range(file_list)
      BY <3>1 DEF UserFSInvariant, NoFileLost
    <3>3. PICK i \in DOMAIN file_list : file_list[i] = h
      BY <3>2 DEF Range
    <3>4. Matches(i, filename)
      BY <3>1, <3>3 DEF Matches
    <3> QED
      BY <1>1, <1>4, <3>4, FindProperties
  <2>6. NamesUnique'
    <3>1. \A h \in Files :
            IF files'[h].alive THEN files'[h].name \in Names ELSE files'[h] = FreeFile
      BY <1>1, <2>2, <2>4 DEF NamesUnique
    <3>2. \A h \in Files : h # f => (CanBeFound(h)' <=> CanBeFound(h))
      BY <2>4 DEF CanBeFound
    <3>3. \A x, y \in Files :
            CanBeFound(x) /\ CanBeFound(y) /\ files[x].name = files[y].name => x = y
      BY <1>1 DEF NamesUnique
    <3>4. \A x, y \in Files :
            CanBeFound(x)' /\ CanBeFound(y)' /\ files'[x].name = files'[y].name => x = y
      <4> SUFFICES ASSUME NEW x \in Files, NEW y \in Files, CanBeFound(x)', CanBeFound(y)',
                          files'[x].name = files'[y].name, x # y
                   PROVE  FALSE
        OBVIOUS
      <4>1. CASE x = f
        BY <2>2, <2>4, <2>5, <3>2, <4>1
      <4>2. CASE y = f
        BY <2>2, <2>4, <2>5, <3>2, <4>2
      <4>3. CASE x # f /\ y # f
        BY <2>4, <3>2, <3>3, <4>3
      <4> QED
        BY <4>1, <4>2, <4>3
    <3> QED
      BY <3>1, <3>4 DEF NamesUnique
  <2>7. NamedFiles[filename] = {}
    BY <2>5, CallersView DEF CanBeFound
  <2>8. NamedFiles' = [NamedFiles EXCEPT ![filename] = {f}]
    <3>1. {h \in Files : files'[h].alive /\ ~files'[h].is_ghost /\ files'[h].name = filename}
            = {f}
      BY <2>2, <2>4, <2>5 DEF CanBeFound
    <3>2. \A n \in Names : n # filename =>
            {h \in Files : files'[h].alive /\ ~files'[h].is_ghost /\ files'[h].name = n} =
            {h \in Files : files[h].alive /\ ~files[h].is_ghost /\ files[h].name = n}
      BY <2>1, <2>2, <2>4
    <3> QED
      BY <3>1, <3>2 DEF NamedFiles
  <2>9. ~Intended!InUse(f)
    BY <1>1, <2>1, ReachedWhileAlive
  <2>10. BytesMeant' = BytesMeant
    <3>1. files[f].data = <<>>
      BY <1>1, <2>1, FreeHasNothing
    <3>2. \A h \in Files : files'[h].data = files[h].data
      BY <2>2, <2>4, <3>1
    <3> QED
      BY <3>2 DEF BytesMeant
  <2>11. Intended!Open(filename, flags, Place)
    BY <1>4, <2>3, <2>7, <2>8, <2>9, <2>10 DEF Intended!Open
  <2> QED
    BY <2>3, <2>6, <2>11 DEF Served, ServedStep, CallersInvariant, Intended!FSNext
<1> QED
  BY <1>2, <1>3, <1>4 DEF ufs_open

(* ufs_destroy leaves nothing.                                             *)
LEMMA DestroyServed ==
  ASSUME UserFSInvariant', CallersInvariant, ufs_destroy
  PROVE  Served
<1>1. /\ \A f \in Files : files'[f] = FreeFile
      /\ file_descriptors' = <<>>
  BY DEF ufs_destroy
<1>2. NamesUnique'
  BY <1>1, FreeHasNothing DEF NamesUnique, CanBeFound
<1>3. DOMAIN file_descriptors' = {}
  BY <1>1, EmptySeq
<1>4. PlacesFit'
  BY <1>3 DEF PlacesFit, OpenIn
<1>5. NamedFiles' = [n \in Names |-> {}]
  BY <1>1, FreeHasNothing DEF NamedFiles
<1>6. OpenedFiles' = <<>>
  BY <1>3 DEF OpenedFiles
<1>7. Intended!ContentKept
  BY <1>1, <1>2, FreeHasNothing, FreedBytes
<1>8. Intended!Destroy
  BY <1>5, <1>6, <1>7 DEF Intended!Destroy, ufs_destroy
<1> QED
  BY <1>2, <1>4, <1>8 DEF Served, ServedStep, CallersInvariant, Intended!FSNext

-----------------------------------------------------------------------------
(* The refinement.                                                         *)

(* In the beginning there are no names, no descriptors and no bytes.       *)
LEMMA CallersInit ==
  Init => CallersInvariant /\ Intended!FSInit
<1> SUFFICES ASSUME Init  PROVE CallersInvariant /\ Intended!FSInit
  OBVIOUS
<1>1. /\ \A f \in Files : files[f] = FreeFile
      /\ file_descriptors = <<>>
      /\ ufs_error_code = "NO_ERR"
  BY DEF Init
<1>2. DOMAIN file_descriptors = {}
  BY <1>1, EmptySeq
<1>3. CallersInvariant
  BY <1>1, <1>2, FreeHasNothing
     DEF CallersInvariant, NamesUnique, CanBeFound, PlacesFit, OpenIn
<1>4. NamedFiles = [n \in Names |-> {}]
  BY <1>1, FreeHasNothing DEF NamedFiles
<1>5. OpenedFiles = <<>>
  BY <1>2 DEF OpenedFiles
<1>6. BytesMeant = [f \in Files |-> <<>>]
  BY <1>1, FreeHasNothing DEF BytesMeant
<1> QED
  BY <1>1, <1>3, <1>4, <1>5, <1>6 DEF Intended!FSInit

(* Every call is a step of the file system, one of the two exceptions, or  *)
(* nothing a caller can tell.                                              *)
LEMMA CallsServed ==
  UserFSInvariant /\ UserFSInvariant' /\ CallersInvariant /\ [Next]_vars =>
    CallersInvariant' /\ [ServedStep]_(Intended!fsVars)
<1> SUFFICES ASSUME UserFSInvariant, UserFSInvariant', CallersInvariant, [Next]_vars
             PROVE  Served
  BY DEF Served
<1>1. Counted
  BY InvariantIsStateOK DEF Counted
<1>2. CASE \E filename \in Names, flags \in Flags : ufs_open(filename, flags)
  BY <1>1, <1>2, OpenServed
<1>3. CASE \E filename \in Names : ufs_delete(filename)
  BY <1>1, <1>3, DeleteServed
<1>4. CASE \E fd \in 0..(MAX_CAPACITY + 1), buf \in Buffers : ufs_write(fd, buf)
  BY <1>1, <1>4, WriteServed
<1>5. CASE \E fd \in 0..(MAX_CAPACITY + 1), n \in ReadSizes : ufs_read(fd, n)
  BY <1>1, <1>5, ReadServed
<1>6. CASE \E fd \in 0..(MAX_CAPACITY + 1) : ufs_close(fd)
  BY <1>1, <1>6, CloseServed
<1>7. CASE \E fd \in 0..(MAX_CAPACITY + 1), new_size \in NewSizes : ufs_resize(fd, new_size)
  BY <1>1, <1>7, ResizeServed
<1>8. CASE ufs_destroy
  BY <1>8, DestroyServed
<1>9. CASE UNCHANGED vars
  BY <1>9, NothingButError DEF vars, descriptors, Served, Intended!fsVars
<1> QED
  BY <1>2, <1>3, <1>4, <1>5, <1>6, <1>7, <1>8, <1>9 DEF Next

(* The names are unique in every state.                                    *)
LEMMA CallersInvariantHolds == Spec => []CallersInvariant
<1>1. Init => CallersInvariant
  BY CallersInit
<1> QED
  BY <1>1, CallsServed, UserFSInvariantHolds, PTL DEF Spec

(* userfs.c implements the file system of userfs.h with the bytes that the *)
(* calls should give the files, whatever the blocks hold of them, but for  *)
(* two kinds of steps: ufs_resize also changes files through descriptors   *)
(* that have no right to write (userfs.c:450), and ufs_read moves along a  *)
(* file that was patched by as many bytes as its blocks happen to have.    *)
THEOREM ImplementsIntended ==
  Spec => Intended!FSInit
          /\ [][Intended!FSNext \/ ResizedByAnyone \/ PatchedRead]_(Intended!fsVars)
<1>1. Init => Intended!FSInit
  BY CallersInit
<1>2. UserFSInvariant /\ UserFSInvariant' /\ CallersInvariant /\ [Next]_vars =>
        [Intended!FSNext \/ ResizedByAnyone \/ PatchedRead]_(Intended!fsVars)
  BY CallsServed DEF ServedStep
<1> QED
  BY <1>1, <1>2, UserFSInvariantHolds, CallersInvariantHolds, PTL DEF Spec

(* No file has been written or extended but at its end.                    *)
NothingPatched == \A f \in Files : ~files[f].patched

(* Then ufs_read finds the bytes that the files should have.               *)
LEMMA HeldIsMeant ==
  UserFSInvariant /\ NothingPatched => BytesHeld = BytesMeant
<1> SUFFICES ASSUME UserFSInvariant, NothingPatched  PROVE BytesHeld = BytesMeant
  OBVIOUS
<1>1. ASSUME NEW f \in Files
      PROVE  ReadBytes(files[f].blocks, files[f].size, 0, files[f].size) = files[f].data
  <2> DEFINE file == files[f]
             d == file.data
             n == file.size
  <2>1. GoodFile(file) /\ ~file.patched
    BY DEF UserFSInvariant, FilesGood, NothingPatched
  <2>2. /\ file \in FileRecords /\ Exact(file)
        /\ n \in Nat /\ d \in Seq(Byte) /\ Len(d) = n
    BY <2>1, FileFields DEF GoodFile
  <2> HIDE DEF file
  <2>3. ReadBytes(file.blocks, n, 0, n) = SubSeq(d, 0 + 1, Smaller(0 + n, Len(d)))
    BY <2>2, ReadBytesExact
  <2> HIDE DEF d, n
  <2>4. Smaller(0 + n, Len(d)) = n /\ 0 + 1 = 1
    BY <2>2 DEF Smaller
  <2>5. SubSeq(d, 1, Len(d)) = d
    <3>1. d \in [1..n -> Byte]
      BY <2>2, LenProperties
    <3> QED
      BY <2>2, <3>1
  <2> QED
    BY <2>2, <2>3, <2>4, <2>5 DEF d, n, file
<1> QED
  BY <1>1 DEF BytesHeld, BytesMeant

(* The same after a step.                                                  *)
LEMMA HeldIsMeantNext ==
  (UserFSInvariant /\ NothingPatched => BytesHeld = BytesMeant)'
  BY HeldIsMeant, PTL

(* Where the blocks hold the bytes that are meant, the file system that    *)
(* they make is that of the calls, and no read is an exception.            *)
LEMMA SameFileSystem ==
  ASSUME UserFSInvariant, NothingPatched, BytesHeld = BytesMeant
  PROVE  /\ Intended!FSInit => Abstract!FSInit
         /\ BytesHeld' = BytesMeant' /\ [ServedStep]_(Intended!fsVars)
              => [Abstract!FSNext \/ ResizedByAny]_(Abstract!fsVars)
<1>1. Intended!FSInit => Abstract!FSInit
  BY DEF Intended!FSInit, Abstract!FSInit
<1>2. ASSUME BytesHeld' = BytesMeant'
      PROVE  \A fd, new_size : Intended!ResizeFile(fd, new_size) => Abstract!ResizeFile(fd, new_size)
  BY <1>2 DEF Intended!ResizeFile, Abstract!ResizeFile
<1>3. ASSUME BytesHeld' = BytesMeant', Intended!FSNext
      PROVE  Abstract!FSNext
  <2>1. \A name, flags, fd : Intended!Open(name, flags, fd) => Abstract!Open(name, flags, fd)
    BY <1>3 DEF Intended!Open, Intended!InUse, Intended!Rights,
                Abstract!Open, Abstract!InUse, Abstract!Rights
  <2>2. \A fd, buf : Intended!Write(fd, buf) => Abstract!Write(fd, buf)
    BY <1>3 DEF Intended!Write, Intended!Overwritten, Abstract!Write, Abstract!Overwritten
  <2>3. \A fd, n : Intended!Read(fd, n) => Abstract!Read(fd, n)
    BY <1>3 DEF Intended!Read, Intended!Readable, Abstract!Read, Abstract!Readable
  <2>4. \A fd, new_size : Intended!Resize(fd, new_size) => Abstract!Resize(fd, new_size)
    BY <1>2, <1>3 DEF Intended!Resize, Abstract!Resize
  <2>5. Intended!ContentKept => Abstract!ContentKept
    BY <1>3 DEF Intended!ContentKept, Intended!InUse, Abstract!ContentKept, Abstract!InUse
  <2>6. \A fd : Intended!Close(fd) => Abstract!Close(fd)
    BY <2>5 DEF Intended!Close, Abstract!Close
  <2>7. \A name : Intended!Delete(name) => Abstract!Delete(name)
    BY <2>5 DEF Intended!Delete, Abstract!Delete
  <2>8. Intended!Destroy => Abstract!Destroy
    BY <2>5 DEF Intended!Destroy, Abstract!Destroy
  <2>9. Intended!Fail => Abstract!Fail
    BY <1>3 DEF Intended!Fail, Intended!Justified, Abstract!Fail, Abstract!Justified
  <2> QED
    BY <1>3, <2>1, <2>2, <2>3, <2>4, <2>6, <2>7, <2>8, <2>9, Zenon
       DEF Intended!FSNext, Abstract!FSNext
<1>4. ASSUME BytesHeld' = BytesMeant', ResizedByAnyone
      PROVE  ResizedByAny
  BY <1>2, <1>4 DEF ResizedByAnyone, ResizedByAny
<1>5. ~PatchedRead
  <2>1. Counted
    BY InvariantIsStateOK DEF Counted
  <2>2. \A fd \in DOMAIN OpenedFiles : OpenedFiles[fd].file \in Files
    BY <2>1, CallersView, OpenDescriptorType DEF UserFSInvariant, TypeOK, Tables
  <2> QED
    BY <2>2 DEF PatchedRead, NothingPatched
<1>6. ASSUME BytesHeld' = BytesMeant', UNCHANGED Intended!fsVars
      PROVE  UNCHANGED Abstract!fsVars
  BY <1>6 DEF Intended!fsVars, Abstract!fsVars
<1> QED
  BY <1>1, <1>3, <1>4, <1>5, <1>6 DEF ServedStep

(* As long as files only get bytes at their ends, the blocks hold what     *)
(* userfs.h promises: names, descriptors, rights, positions, errors and    *)
(* what ufs_read finds are those of the file system, but for resizes by    *)
(* descriptors without the right to write.                                 *)
THEOREM ImplementsWithoutPatches ==
  Spec /\ []NothingPatched => ImplementsButForResize
<1>1. UserFSInvariant /\ NothingPatched /\ Intended!FSInit => Abstract!FSInit
  BY HeldIsMeant, SameFileSystem
<1>2. /\ UserFSInvariant /\ UserFSInvariant' /\ NothingPatched /\ NothingPatched'
      /\ [Intended!FSNext \/ ResizedByAnyone \/ PatchedRead]_(Intended!fsVars)
      => [Abstract!FSNext \/ ResizedByAny]_(Abstract!fsVars)
  BY HeldIsMeant, HeldIsMeantNext, SameFileSystem DEF ServedStep
<1> QED
  BY <1>1, <1>2, ImplementsIntended, UserFSInvariantHolds, PTL DEF ImplementsButForResize

(* Every way to open a file gives the right to write.                      *)
AllMayWrite == \A flags \in Flags : "WRITE_ONLY" \in Intended!Rights(flags)

OpenedToWrite == \A fd \in DOMAIN OpenedFiles : "WRITE_ONLY" \in OpenedFiles[fd].rights

(* Then every descriptor has it.                                           *)
LEMMA WritersStay ==
  ASSUME AllMayWrite, OpenedToWrite, [ServedStep]_(Intended!fsVars)
  PROVE  OpenedToWrite'
<1>1. ASSUME NEW fd, NEW name, NEW flags \in Flags, Intended!Open(name, flags, fd)
      PROVE  OpenedToWrite'
  BY <1>1 DEF Intended!Open, AllMayWrite, OpenedToWrite
<1>2. ASSUME NEW fd, NEW buf, Intended!Write(fd, buf)
      PROVE  OpenedToWrite'
  BY <1>2 DEF Intended!Write, OpenedToWrite
<1>3. ASSUME NEW fd, NEW n, Intended!Read(fd, n)
      PROVE  OpenedToWrite'
  BY <1>3 DEF Intended!Read, OpenedToWrite
<1>4. ASSUME NEW fd, NEW new_size, Intended!ResizeFile(fd, new_size)
      PROVE  OpenedToWrite'
  BY <1>4 DEF Intended!ResizeFile, OpenedToWrite
<1>5. ASSUME NEW fd, Intended!Close(fd)
      PROVE  OpenedToWrite'
  BY <1>5 DEF Intended!Close, OpenedToWrite
<1>6. CASE Intended!Destroy
  BY <1>6, EmptySeq DEF Intended!Destroy, OpenedToWrite
<1>7. CASE OpenedFiles' = OpenedFiles
  BY <1>7 DEF OpenedToWrite
<1>8. CASE PatchedRead
  BY <1>8 DEF PatchedRead, OpenedToWrite
<1>9. CASE Intended!FSNext
  <2>1. ASSUME NEW name, Intended!Delete(name)
        PROVE  OpenedToWrite'
    BY <1>7, <2>1 DEF Intended!Delete
  <2>2. CASE Intended!Fail
    BY <1>7, <2>2 DEF Intended!Fail
  <2>3. ASSUME NEW fd, NEW new_size, Intended!Resize(fd, new_size)
        PROVE  OpenedToWrite'
    BY <1>4, <2>3 DEF Intended!Resize
  <2> QED
    BY <1>1, <1>2, <1>3, <1>5, <1>6, <1>9, <2>1, <2>2, <2>3, Zenon DEF Intended!FSNext
<1> QED
  BY <1>4, <1>7, <1>8, <1>9 DEF ServedStep, ResizedByAnyone, Intended!fsVars

(* If moreover nobody opens a file only to read it, userfs.c implements    *)
(* the file system of userfs.h without an exception.                       *)
THEOREM ImplementsForWriters ==
  AllMayWrite /\ Spec /\ []NothingPatched => ImplementsFileSystem
<1>1. Intended!FSInit => OpenedToWrite
  BY EmptySeq DEF Intended!FSInit, OpenedToWrite
<1>2. AllMayWrite /\ OpenedToWrite
      /\ [Intended!FSNext \/ ResizedByAnyone \/ PatchedRead]_(Intended!fsVars)
      => OpenedToWrite'
  BY WritersStay DEF ServedStep
<1>3. OpenedToWrite /\ [Abstract!FSNext \/ ResizedByAny]_(Abstract!fsVars)
      => [Abstract!FSNext]_(Abstract!fsVars)
  <2>1. \A fd, new_size : OpenedToWrite /\ Abstract!ResizeFile(fd, new_size)
          => Abstract!Resize(fd, new_size)
    BY DEF OpenedToWrite, Abstract!ResizeFile, Abstract!Resize
  <2>2. OpenedToWrite /\ ResizedByAny => Abstract!FSNext
    BY <2>1, Zenon DEF ResizedByAny, Abstract!FSNext
  <2> QED
    BY <2>2
<1>4. AllMayWrite /\ Spec => []OpenedToWrite
  <2>1. SUFFICES ASSUME AllMayWrite  PROVE Spec => []OpenedToWrite
    OBVIOUS
  <2>2. OpenedToWrite
        /\ [Intended!FSNext \/ ResizedByAnyone \/ PatchedRead]_(Intended!fsVars)
        => OpenedToWrite'
    BY <1>2, <2>1
  <2> QED
    BY <1>1, <2>2, ImplementsIntended, PTL
<1> QED
  BY <1>3, <1>4, ImplementsWithoutPatches, PTL
     DEF ImplementsButForResize, ImplementsFileSystem, Abstract!FileSystemSpec
=============================================================================
