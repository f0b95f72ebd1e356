----------------------------- MODULE UserMemory -----------------------------
(***************************************************************************)
(* ps4MemoryShared and ps4MemoryProtected: memory objects that a process   *)
(* opens through its descriptor table and maps.  Sizes are in pages.  All  *)
(* shared memory is opened under one path.                                 *)
(***************************************************************************)
EXTENDS UserDescriptors

CONSTANTS
  PageSize,
  Sizes,        \* what callers ask for, in bytes
  MaxObjects    \* bound on the shared memory objects ever created

ASSUME PageAssumption == PageSize \in Nat \ {0} /\ Sizes \subseteq Nat

VARIABLES
  objects,      \* pages of each shared memory object
  name,         \* the object the path names, 0 if none
  size, fileSize,   \* locals of SharedOpen, in pages
  mapped,       \* the mappings of the memory a thread has open
  stale         \* history: objects resized by a size that was out of date

memory == <<objects, name, size, fileSize, mapped, stale>>
table == <<fds, raced>>

MemoryInit ==
  /\ objects = <<>> /\ name = 0
  /\ size = [t \in Threads |-> 0] /\ fileSize = [t \in Threads |-> 0]
  /\ mapped = [t \in Threads |-> {}] /\ stale = {}

Object(o) == [kind |-> "object", id |-> o]
Mapping(o, n) == [object |-> o, pages |-> n]

Forget(t) == size' = [size EXCEPT ![t] = 0] /\ fileSize' = [fileSize EXCEPT ![t] = 0]
Allocated(t, n) == heap' = [heap EXCEPT ![t] = @ + n]

-----------------------------------------------------------------------------
(* ps4MemorySharedOpen.  m and m->path are allocated; without memory for   *)
(* both what there is is freed.                                            *)
SharedBegin(t) ==
  /\ pc[t] = "idle" /\ mapped[t] = {} /\ Goto(t, "idle", "shm_open") /\ Allocated(t, 2)
  /\ \E bytesWanted \in Sizes :
       size' = [size EXCEPT ![t] =
                  IF bytesWanted = 0 THEN 0 ELSE (bytesWanted - 1) \div PageSize + 1]
  /\ UNCHANGED <<table, locals, handle, held, objects, name, fileSize, mapped, stale>>

SharedOpen(t) ==
  /\ pc[t] = "shm_open"
  /\ \/ /\ name = 0 => Len(objects) < MaxObjects
        /\ objects' = IF name = 0 THEN Append(objects, 0) ELSE objects
        /\ name' = IF name = 0 THEN Len(objects) + 1 ELSE name
        /\ \E d \in DOMAIN fds : Opens(t, Object(name'), d) /\ Pushed(t, d)
        /\ Goto(t, "shm_open", "fstat") /\ UNCHANGED <<heap, size, fileSize>>
     \/ /\ Goto(t, "shm_open", "idle") /\ Allocated(t, -2) /\ Forget(t)
        /\ UNCHANGED <<table, handle, objects, name>>
  /\ UNCHANGED <<locals, held, mapped, stale>>

(* fstat; a size of 0 asks for the file's, or for a page.                  *)
HandleObject(t) == fds[Last(t)].id

SharedSize(t) ==
  /\ pc[t] = "fstat"
  /\ \E n \in {0} \cup {objects[o] : o \in {HandleObject(t)} \cap DOMAIN objects} :
       /\ fileSize' = [fileSize EXCEPT ![t] = n]
       /\ size' = [size EXCEPT ![t] = IF @ # 0 THEN @ ELSE IF n > 0 THEN n ELSE 1]
       /\ Goto(t, "fstat", IF size'[t] > n THEN "ftruncate" ELSE "mmap")
  /\ UNCHANGED <<table, locals, handle, held, heap, objects, name, mapped, stale>>

\* Mutant: the object is made as large as it was.
SharedResizeShort(t) ==
  /\ Goto(t, "ftruncate", "mmap")
  /\ UNCHANGED <<table, locals, handle, held, heap, memory>>

SharedResize(t) ==
  LET o == HandleObject(t)
  IN /\ pc[t] = "ftruncate"
     /\ \/ /\ o # 0 /\ objects' = [objects EXCEPT ![o] = size[t]]
           /\ stale' = IF fileSize[t] = objects[o] THEN stale ELSE stale \cup {o}
           /\ Goto(t, "ftruncate", "mmap")
        \/ Goto(t, "ftruncate", "e3") /\ UNCHANGED <<objects, stale>>
     /\ UNCHANGED <<table, locals, handle, held, heap, name, size, fileSize, mapped>>

SharedMap(t) ==
  /\ pc[t] = "mmap"
  /\ \/ /\ HandleObject(t) # 0 /\ Goto(t, "mmap", "close")
        /\ mapped' = [mapped EXCEPT ![t] = {Mapping(HandleObject(t), size[t])}]
     \/ Goto(t, "mmap", "e3") /\ UNCHANGED mapped
  /\ UNCHANGED <<table, locals, handle, held, heap, objects, name, size, fileSize, stale>>

(* The error path removes the name, whoever made the object.               *)
SharedFail(t) ==
  /\ pc[t] = "e3" /\ Closes(Last(t)) /\ Dropped(t) /\ Goto(t, "e3", "unlink")
  /\ UNCHANGED <<locals, held, heap, memory>>

\* Mutant: the path is not freed.
SharedFailUnlinkLeaks(t) ==
  /\ Goto(t, "unlink", "idle") /\ name' = 0 /\ Allocated(t, -1) /\ Forget(t)
  /\ UNCHANGED <<table, locals, handle, held, objects, mapped, stale>>

SharedFailUnlink(t) ==
  /\ Goto(t, "unlink", "idle") /\ name' = 0 /\ Allocated(t, -2) /\ Forget(t)
  /\ UNCHANGED <<table, locals, handle, held, objects, mapped, stale>>

IsShared(t) == \E m \in mapped[t] : m.object # 0

SharedRelease(t) ==
  /\ pc[t] = "idle" /\ IsShared(t) /\ Allocated(t, -2)
  /\ mapped' = [mapped EXCEPT ![t] = {}]
  /\ Forget(t)
  /\ UNCHANGED <<table, pc, locals, handle, held, objects, stale>>

SharedClose(t) == SharedRelease(t) /\ UNCHANGED name

(* shm_unlink, also when the path names another object by now, and Close.  *)
SharedUnlink(t) == SharedRelease(t) /\ name' = 0

Shared(t) ==
  \/ SharedOpen(t) \/ SharedSize(t) \/ SharedResize(t) \/ SharedMap(t)
  \/ SharedFail(t) \/ SharedFailUnlink(t)

-----------------------------------------------------------------------------
(* ps4MemoryProtectedCreate: an object, an alias of it, a mapping of each. *)
(* Both handles are closed in the end, after an error too.  The calls are  *)
(* taken to store 0 when they fail, which the code tests; a handle that is *)
(* 0 is taken for an error too.                                            *)
Handle(t, from, ok, error) ==
  \/ \E d \in DOMAIN fds :
       /\ Opens(t, File("jit"), d)
       /\ IF d # 0 THEN Goto(t, from, ok) /\ Pushed(t, d) /\ UNCHANGED heap
          ELSE Goto(t, from, error) /\ Allocated(t, -1) /\ UNCHANGED handle
  \/ Goto(t, from, error) /\ Allocated(t, -1) /\ UNCHANGED <<table, handle>>

ProtectedBegin(t) ==
  /\ pc[t] = "idle" /\ mapped[t] = {} /\ Goto(t, "idle", "jit") /\ Allocated(t, 1)
  /\ \E n \in Sizes \ {0} : size' = [size EXCEPT ![t] = n \div PageSize + 1]
  /\ UNCHANGED <<table, locals, handle, held, objects, name, fileSize, mapped, stale>>

ProtectedObject(t) ==
  /\ pc[t] = "jit" /\ Handle(t, "jit", "alias", "idle")
  /\ UNCHANGED <<locals, held, memory>>

ProtectedAlias(t) ==
  /\ pc[t] = "alias" /\ Handle(t, "alias", "map_executable", "close")
  /\ UNCHANGED <<locals, held, memory>>

ProtectedExecutable(t) ==
  /\ pc[t] = "map_executable"
  /\ \/ /\ Goto(t, "map_executable", "map_writable") /\ UNCHANGED heap
        /\ mapped' = [mapped EXCEPT ![t] = {Mapping(0, size[t])}]
     \/ /\ Goto(t, "map_executable", "close") /\ Allocated(t, -1) /\ UNCHANGED mapped
  /\ UNCHANGED <<table, locals, handle, held, objects, name, size, fileSize, stale>>

(* After success the executable handle is closed first, after an error the *)
(* writable one.                                                           *)
ProtectedWritable(t) ==
  /\ pc[t] = "map_writable"
  /\ \/ /\ Goto(t, "map_writable", "close") /\ UNCHANGED <<heap, mapped>>
        /\ handle' = [handle EXCEPT ![t] = <<@[2], @[1]>>]
     \/ /\ Goto(t, "map_writable", "close") /\ Allocated(t, -1)
        /\ mapped' = [mapped EXCEPT ![t] = {}] /\ UNCHANGED handle
  /\ UNCHANGED <<table, locals, held, objects, name, size, fileSize, stale>>

ProtectedDestroy(t) ==
  /\ pc[t] = "idle" /\ mapped[t] # {} /\ ~IsShared(t) /\ Allocated(t, -1)
  /\ mapped' = [mapped EXCEPT ![t] = {}] /\ size' = [size EXCEPT ![t] = 0]
  /\ UNCHANGED <<table, pc, locals, handle, held, objects, name, fileSize, stale>>

Protected(t) ==
  ProtectedObject(t) \/ ProtectedAlias(t) \/ ProtectedExecutable(t) \/ ProtectedWritable(t)
=============================================================================
