-------------------------------- MODULE File --------------------------------
(***************************************************************************)
(* common/file.c: loading the file at one path, while others replace,      *)
(* remove or rewrite it.                                                   *)
(*                                                                         *)
(* A load asks the kernel about the path several times before it reads:    *)
(* every stat, fopen and read is a step.  Contents are sequences of units  *)
(* of 64 bytes; sizes are u32 and wrap at Word.  What opens, fills and     *)
(* parses the file besides file.c is in the modules that extend this one.  *)
(***************************************************************************)
EXTENDS Integers, Sequences

CONSTANTS
  Readers,   (* The threads that load the path.                             *)
  Writers,   (* The threads that save to it (img_write).                    *)
  Inodes,    (* The files there can be, two more than threads.              *)
  Word,      (* 2^32 bytes, in units.                                       *)
  None,      (* No file.                                                    *)
  MaxChanges (* Bound: how often others change the path.                    *)

(* There is always an inode that neither the path nor a thread refers to.  *)
ASSUME FileAssumption ==
  /\ Word \in Nat \ {0, 1}
  /\ None \notin Inodes /\ Readers \cap Writers = {}
  /\ \A n \in Inodes \cup {None}, h \in [Readers \cup Writers -> Inodes \cup {None}] :
       \E i \in Inodes : i # n /\ \A t \in Readers \cup Writers : h[t] # i

VARIABLES
  name,      (* What the path names: an inode or None.                      *)
  data,      (* [Inodes -> the sequence of units of the file]               *)
  call,      (* [Readers -> the function of the library it called last]     *)
  pc,        (* [Readers -> its next system call; "return" or "null" when   *)
             (* it has returned, "null" for a NULL of file_load]            *)
  size,      (* Its size: the u32 that file_size returned to it.            *)
  handle,    (* [Threads -> the inode that it has open, or None]            *)
  offset,    (* [Threads -> the offset of its stream in the file]           *)
  got,       (* What the stream fetched for the buffer.                     *)
  buf,       (* Its buffer, <<>> if there is none or it has no bytes.       *)
  over,      (* Whether it wrote past the end of its buffer.                *)
  changes,   (* How often it was changed or saved to.                       *)
  quiet      (* [Threads -> whether nobody else touched the path, and       *)
             (* nothing failed, since it was called]                        *)

fileVars == <<name, data, call, pc, size, handle, offset, got, buf, over, changes, quiet>>

Threads == Readers \cup Writers

nul == [kind |-> "nul"]

exists == name # None

(* st_size of the file that the path names; 0 when there is none.          *)
st_size == IF exists THEN Len(data[name]) ELSE 0

(* file_size: st_size in a u32.                                            *)
file_size == st_size % Word

FileInit ==
  /\ name = None
  /\ data = [i \in Inodes |-> <<>>]
  /\ call = [t \in Readers |-> "none"]
  /\ pc = [t \in Readers |-> "idle"]
  /\ size = [t \in Readers |-> 0]
  /\ handle = [t \in Threads |-> None]
  /\ offset = [t \in Threads |-> 0]
  /\ got = [t \in Readers |-> <<>>]
  /\ buf = [t \in Readers |-> <<>>]
  /\ over = [t \in Readers |-> FALSE]
  /\ changes = 0
  /\ quiet = [t \in Threads |-> FALSE]

Go(t, from, to) == pc[t] = from /\ pc' = [pc EXCEPT ![t] = to]

(* A step of t that failed although the file was there.                    *)
Fail(t) == quiet' = [quiet EXCEPT ![t] = FALSE]

(* The threads in S, or another program if it is empty, changed the path.  *)
Disturb(S) == quiet' = [t \in Threads |-> t \in S /\ quiet[t]]

Change == changes < MaxChanges /\ changes' = changes + 1

-----------------------------------------------------------------------------
(* The file system.                                                        *)

(* The inode of a new file: nothing refers to it.                          *)
unused == CHOOSE i \in Inodes : i # name /\ \A t \in Threads : handle[t] # i

(* Of the files d, what is left when n is the name's and h the threads':   *)
(* a file that nothing refers to is gone.                                  *)
Kept(d, n, h) == [i \in Inodes |-> IF i = n \/ \E t \in Threads : h[t] = i THEN d[i] ELSE <<>>]

(* Another program saves `content` under a new name and renames it.        *)
Replace(content) ==
  /\ Change
  /\ name' = unused
  /\ data' = Kept([data EXCEPT ![unused] = content], unused, handle)
  /\ Disturb({})
  /\ UNCHANGED <<call, pc, size, handle, offset, got, buf, over>>

(* Another program removes the file; who has it open keeps it.             *)
Remove ==
  /\ Change
  /\ exists /\ name' = None
  /\ data' = Kept(data, None, handle)
  /\ Disturb({})
  /\ UNCHANGED <<call, pc, size, handle, offset, got, buf, over>>

(* fopen for reading, which can fail although the file is there.           *)
Opened(t) ==
  /\ exists
  /\ handle' = [handle EXCEPT ![t] = name]
  /\ offset' = [offset EXCEPT ![t] = 0]
  /\ got' = [got EXCEPT ![t] = <<>>]

(* A read(2) of the stream of t: some of what there is, at least one unit. *)
Fetch(t) ==
  LET rest == Len(data[handle[t]]) - offset[t] IN
    /\ rest > 0
    /\ \E n \in {1, rest} :
         /\ got' = [got EXCEPT ![t] = @ \o SubSeq(data[handle[t]], offset[t] + 1, offset[t] + n)]
         /\ offset' = [offset EXCEPT ![t] = @ + n]

(* fread of n units ends: with all of them, at the end of the file, or     *)
(* with an error.                                                          *)
EndOfRead(t, n) ==
  IF Len(got[t]) >= n \/ offset[t] >= Len(data[handle[t]])
    THEN UNCHANGED quiet
    ELSE Fail(t)

(* Mutant: the stream stays open. *)
Leaked(t) == UNCHANGED <<data, handle, offset, got>>

Close(t) ==
  LET without == [handle EXCEPT ![t] = None] IN
  /\ handle' = without
  /\ data' = Kept(data, name, without)
  /\ offset' = [offset EXCEPT ![t] = 0]
  /\ got' = [got EXCEPT ![t] = <<>>]

First(s, n) == SubSeq(s, 1, IF n < Len(s) THEN n ELSE Len(s))

(* What fread puts into the buffer of t when it was asked for n units; the *)
(* return value that would tell how much it was is dropped.                *)
Store(t, n) ==
  LET read == First(got[t], n) IN
    /\ buf' = [buf EXCEPT ![t] =
                 [i \in DOMAIN @ |-> IF i <= Len(read) THEN read[i] ELSE @[i]]]
    /\ over' = [over EXCEPT ![t] = Len(read) > Len(buf[t])]

-----------------------------------------------------------------------------
(* file_load is called.                                                    *)
Load(t) ==
  /\ pc[t] \in {"idle", "return", "null"}
  /\ pc' = [pc EXCEPT ![t] = "exists"]
  /\ call' = [call EXCEPT ![t] = "file_load"]
  /\ buf' = [buf EXCEPT ![t] = <<>>]
  /\ over' = [over EXCEPT ![t] = FALSE]
  /\ quiet' = [quiet EXCEPT ![t] = TRUE]
  /\ UNCHANGED <<name, changes, data, size, handle, offset, got>>

LoadExists(t) ==
  /\ call[t] = "file_load"
  /\ Go(t, "exists", IF exists THEN "size" ELSE "null")
  /\ UNCHANGED <<name, changes, data, call, size, handle, offset, got, buf, over, quiet>>

(* Mutant: no byte more than the file. *)
AllocateTight(n) == n

(* The u32 size of the buffer: a unit more than the file, "a bit of wiggle *)
(* room".                                                                  *)
Allocate(n) == (n + 1) % Word

(* The size is read and the buffer allocated; a call for 0 bytes may       *)
(* return NULL or not.                                                     *)
LoadSize(t) ==
  /\ size' = [size EXCEPT ![t] = file_size]
  /\ \/ /\ Go(t, "size", "existing")
        /\ buf' = [buf EXCEPT ![t] = [i \in 1 .. Allocate(file_size) |-> nul]]
        /\ UNCHANGED quiet
     \/ Go(t, "size", "null") /\ Fail(t) /\ UNCHANGED buf
  /\ UNCHANGED <<name, changes, data, call, handle, offset, got, over>>

(* file_load_existing, called with a buffer and its size: it looks again.  *)
ExistingExists(t) ==
  /\ Go(t, "existing", IF exists THEN "fits" ELSE "return")
  /\ UNCHANGED <<name, changes, data, call, size, handle, offset, got, buf, over, quiet>>

(* Mutant: a buffer that holds the file exactly is too small. *)
ExistingFitsLess(t) ==
  /\ Go(t, "fits", IF file_size < size[t] THEN "open" ELSE "return")
  /\ UNCHANGED <<name, changes, data, call, size, handle, offset, got, buf, over, quiet>>

(* The size is compared with what the file has by now.                     *)
ExistingFits(t) ==
  /\ Go(t, "fits", IF file_size <= size[t] THEN "open" ELSE "return")
  /\ UNCHANGED <<name, changes, data, call, size, handle, offset, got, buf, over, quiet>>

ExistingOpen(t) ==
  /\ \/ Go(t, "open", "read") /\ Opened(t) /\ UNCHANGED quiet
     \/ Go(t, "open", "return") /\ Fail(t) /\ UNCHANGED <<handle, offset, got>>
  /\ UNCHANGED <<name, changes, data, call, size, buf, over>>

ExistingFetch(t) ==
  /\ pc[t] = "read"
  /\ Len(got[t]) < size[t]
  /\ Fetch(t)
  /\ UNCHANGED <<name, changes, data, call, pc, size, handle, buf, over, quiet>>

(* Mutant: after a short read the file is opened again. *)
ExistingReadRetry(t) ==
  /\ Go(t, "read", IF Len(got[t]) < size[t] THEN "open" ELSE "return")
  /\ Store(t, size[t])
  /\ EndOfRead(t, size[t])
  /\ Close(t)
  /\ UNCHANGED <<name, changes, call, size>>

(* fread has all it was asked for, or the file is at its end, or there was *)
(* an error; the handle is closed.                                         *)
ExistingRead(t) ==
  /\ Go(t, "read", "return")
  /\ Store(t, size[t])
  /\ EndOfRead(t, size[t])
  /\ Close(t)
  /\ UNCHANGED <<name, changes, call, size>>

(* What a thread does on its own in a call of file_load.                   *)
LoadStep(t) ==
  \/ LoadExists(t)
  \/ LoadSize(t)
  \/ ExistingExists(t)
  \/ ExistingFits(t)
  \/ ExistingOpen(t)
  \/ ExistingFetch(t)
  \/ ExistingRead(t)

-----------------------------------------------------------------------------
(* The buffer b of a file of n bytes has a NUL behind them.                *)
EndsWithNul(b, n) == Len(b) = n + 1 /\ b[n + 1] = nul

(* What file_load returns of a file that others may change ends with the   *)
(* NUL that parsers of text (obj_load) stop at, since the byte after the   *)
(* size that was read first is never written, if and only if that size is  *)
(* not 2^32 - 1, for which the buffer has no bytes.                        *)
Terminated ==
  \A t \in Readers : pc[t] = "return" /\ call[t] = "file_load" =>
    (EndsWithNul(buf[t], size[t]) <=> size[t] + 1 < Word)

(* While nobody touches it and nothing fails, file_load returns NULL only  *)
(* when there is no file, and otherwise the file whole, up to its size     *)
(* modulo 2^32 when it is larger.  A size of 2^32 - 1 is left out: it      *)
(* leaves no room for the extra byte, nor for any other.                   *)
LoadedWhole ==
  \A t \in Readers : call[t] = "file_load" /\ quiet[t] =>
    /\ pc[t] = "null" => ~exists
    /\ pc[t] = "return" =>
         /\ exists
         /\ file_size + 1 < Word => buf[t] = SubSeq(data[name], 1, file_size) \o <<nul>>

=============================================================================
