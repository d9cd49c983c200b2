----------------------------- MODULE FileSystem -----------------------------
(***************************************************************************)
(* What src/homework-03/userfs.h promises of names, files and descriptors, *)
(* with no blocks, tables, lists or counters: a name belongs to one file,  *)
(* a deleted file lives on as long as it is open, a descriptor stays on    *)
(* its file until it is closed and keeps a position of its own, only those *)
(* with the right to write change a file, and a call that fails changes    *)
(* nothing.                                                                *)
(***************************************************************************)
EXTENDS Integers, Sequences

CONSTANTS
  Files, Names, Descriptors,
  Flags, Buffers, ReadSizes, NewSizes      \* arguments of the calls

VARIABLES
  named,     \* the files of every name
  opened,    \* the file, the rights and the position of every open descriptor
  content,   \* the bytes of every file; none once it is gone
  error      \* what ufs_errno returns

fsVars == <<named, opened, content, error>>

FSInit ==
  /\ named = [n \in Names |-> {}]
  /\ opened = <<>>
  /\ content = [f \in Files |-> <<>>]
  /\ error = "NO_ERR"

(* Somebody has the file open or can open it. *)
InUse(f) ==
  \/ \E n \in Names : f \in named[n]
  \/ \E fd \in DOMAIN opened : opened[fd].file = f

(* Without a flag for access a file is opened for both. *)
Rights(flags) ==
  LET access == flags \ {"CREATE"} IN
  {r \in {"READ_ONLY", "WRITE_ONLY"} : access = {} \/ r \in access \/ "READ_WRITE" \in access}

(* The file of the name, or a new one, gets a descriptor that is not used. *)
Open(name, flags, fd) ==
  /\ fd \notin DOMAIN opened
  /\ \E f \in Files :
       /\ \/ f \in named[name] /\ UNCHANGED named
          \/ /\ named[name] = {} /\ "CREATE" \in flags /\ ~InUse(f)
             /\ named' = [named EXCEPT ![name] = {f}]
       /\ opened' = [d \in DOMAIN opened \cup {fd} |->
            IF d = fd THEN [file |-> f, rights |-> Rights(flags), offset |-> 0]
            ELSE opened[d]]
  /\ UNCHANGED <<content, error>>

(* Bytes that are put over others from a position on, or behind them. *)
Overwritten(old, at, buf) ==
  [i \in 1..(IF at + Len(buf) > Len(old) THEN at + Len(buf) ELSE Len(old)) |->
     IF i - at \in DOMAIN buf THEN buf[i - at]
     ELSE IF i \in DOMAIN old THEN old[i] ELSE 0]

Write(fd, buf) ==
  /\ fd \in DOMAIN opened
  /\ "WRITE_ONLY" \in opened[fd].rights
  /\ content' = [content EXCEPT ![opened[fd].file] = Overwritten(@, opened[fd].offset, buf)]
  /\ opened' = [opened EXCEPT ![fd].offset = @ + Len(buf)]
  /\ UNCHANGED <<named, error>>

(* How many bytes are left to read from a position, n at most. *)
Readable(bytes, at, n) ==
  IF at >= Len(bytes) THEN 0 ELSE IF n < Len(bytes) - at THEN n ELSE Len(bytes) - at

Read(fd, n) ==
  /\ fd \in DOMAIN opened
  /\ "READ_ONLY" \in opened[fd].rights
  /\ opened' = [opened EXCEPT
       ![fd].offset = @ + Readable(content[opened[fd].file], @, n)]
  /\ UNCHANGED <<named, content, error>>

(* The bytes before the shorter of the two ends stay, new ones are empty,  *)
(* and descriptors behind a nearer end go on from there.                   *)
ResizeFile(fd, new_size) ==
  /\ fd \in DOMAIN opened
  /\ LET f == opened[fd].file
         old == content[f]
     IN /\ content' = [content EXCEPT ![f] =
             [i \in 1..new_size |-> IF i \in DOMAIN old THEN old[i] ELSE 0]]
        /\ opened' = [d \in DOMAIN opened |->
             IF opened[d].file = f /\ new_size < Len(old) /\ new_size < opened[d].offset
             THEN [opened[d] EXCEPT !.offset = new_size] ELSE opened[d]]
  /\ UNCHANGED <<named, error>>

Resize(fd, new_size) ==
  /\ fd \in DOMAIN opened
  /\ "WRITE_ONLY" \in opened[fd].rights
  /\ ResizeFile(fd, new_size)

(* The content lives until the last descriptor is closed. *)
ContentKept ==
  content' = [f \in Files |-> IF InUse(f)' THEN content[f] ELSE <<>>]

Close(fd) ==
  /\ fd \in DOMAIN opened
  /\ opened' = [d \in DOMAIN opened \ {fd} |-> opened[d]]
  /\ UNCHANGED <<named, error>>
  /\ ContentKept

Delete(name) ==
  /\ named[name] # {}
  /\ named' = [named EXCEPT ![name] = {}]
  /\ UNCHANGED <<opened, error>>
  /\ ContentKept

Destroy ==
  /\ named' = [n \in Names |-> {}]
  /\ opened' = <<>>
  /\ UNCHANGED error
  /\ ContentKept

(* A call fails with a name or a descriptor that is not there, on a        *)
(* descriptor without one of the rights, or if memory is short.            *)
Justified(code) ==
  \/ code = "NO_FILE"
  \/ code = "NO_PERMISSION" /\ \E fd \in DOMAIN opened :
       opened[fd].rights # {"READ_ONLY", "WRITE_ONLY"}
  \/ code = "NO_MEM" /\ DOMAIN opened # {}

Fail ==
  /\ Justified(error')
  /\ UNCHANGED <<named, opened, content>>

FSNext ==
  \/ Fail
  \/ Destroy
  \/ \E name \in Names : Delete(name)
  \/ \E fd \in Descriptors :
       \/ Close(fd)
       \/ \E name \in Names, flags \in Flags : Open(name, flags, fd)
       \/ \E buf \in Buffers : Write(fd, buf)
       \/ \E n \in ReadSizes : Read(fd, n)
       \/ \E new_size \in NewSizes : Resize(fd, new_size)

FileSystemSpec == FSInit /\ [][FSNext]_fsVars
=============================================================================
