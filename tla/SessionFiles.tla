---------------------------- MODULE SessionFiles -----------------------------
(***************************************************************************)
(* Sessions kept in files (ext/session/session.c, mod_files.c): requests   *)
(* of several processes that start, save, destroy, regenerate and abort    *)
(* sessions, interleaved at the system calls of the files handler whose    *)
(* order matters between processes.  What a process does to a file it has  *)
(* locked, with nothing in between that others could see, is one step.     *)
(*                                                                         *)
(* A session id names at most one file; an unlinked file lives on for the  *)
(* processes that have it open.  flock() belongs to the open file: a       *)
(* process waits for it at "flock" and has it from there until it closes.  *)
(* $_SESSION is abstracted to the length of its serialised form, and what  *)
(* user code has assigned to it is a free choice when it is saved.         *)
(***************************************************************************)
EXTENDS Integers, FiniteSets

CONSTANTS Procs,      \* processes that serve requests
          Ids,        \* session ids
          Orphans,    \* names for open files that have lost theirs
          None,
          LazyWrite,  \* session.lazy_write: the values to check
          Strict,     \* session.use_strict_mode: the values to check
          MaxSize     \* bound: lengths of $_SESSION

ASSUME ConstantsAssumption ==
  /\ IsFiniteSet(Procs) /\ Orphans \subseteq Nat /\ IsFiniteSet(Orphans)
  /\ Cardinality(Orphans) >= Cardinality(Procs)
  /\ Ids \cap Orphans = {} /\ None \notin Ids \cup Orphans
  /\ LazyWrite \subseteq BOOLEAN /\ Strict \subseteq BOOLEAN /\ MaxSize \in Nat

Files == Ids \cup Orphans

VARIABLES
  dir,           \* session.save_path: the ids that have a file
  file,          \* contents of the files, by id or orphan
  pc,            \* per process: what it does next
  op,            \* and on behalf of which function
  id,            \* PS(id)
  fd,            \* ps_files.fd
  st_size,       \* ps_files.st_size
  session_vars,  \* PS(session_vars): what was read, kept for lazy_write
  ini            \* the settings

disk    == <<dir, file>>
handler == <<fd, st_size>>
vars    == <<disk, pc, op, id, handler, session_vars, ini>>

Steps     == {"idle", "user", "validate", "create", "open", "flock", "gc", "truncate", "unlink"}
Functions == {"none", "start", "regenerate", "save", "destroy"}

Values     == 0 .. MaxSize
Encoded(v) == [val |-> v, size |-> v, is |-> "whole"]
Blank      == Encoded(0)

Init ==
  /\ dir = {} /\ file = [n \in Files |-> Blank]
  /\ pc = [p \in Procs |-> "idle"] /\ op = [p \in Procs |-> "none"]
  /\ id = [p \in Procs |-> None]
  /\ fd = [p \in Procs |-> None] /\ st_size = [p \in Procs |-> 0]
  /\ session_vars = [p \in Procs |-> None]
  /\ ini \in [lazy_write : LazyWrite, use_strict_mode : Strict]

At(p, s)      == pc[p] = s
Goto(p, s)    == pc' = [pc EXCEPT ![p] = s]
Call(p, f, s) == Goto(p, s) /\ op' = [op EXCEPT ![p] = f]
Return(p)     == Call(p, "none", "user")   \* with the session active

\* The kernel forgets an orphan nobody has open.
Reclaimed(f, g) ==
  [n \in Files |-> IF n \in Ids \/ \E p \in Procs : g[p] = n THEN f[n] ELSE Blank]

\* ps_files_close, after which the lock is free.  Mutant: kept open.
ClosedNot(p) == [fd EXCEPT ![p] = @]
Closed(p)    == [fd EXCEPT ![p] = None]

\* The contents f are written before.
CloseFile(p, f) ==
  /\ fd' = Closed(p)
  /\ st_size' = [st_size EXCEPT ![p] = 0]
  /\ file' = Reclaimed(f, fd')

\* An open file becomes an orphan.
Unlink(i) ==
  LET free == {n \in Orphans : \A p \in Procs : fd[p] # n}
      o    == CHOOSE n \in free : \A m \in free : n <= m
  IN  /\ dir' = dir \ {i}
      /\ fd' = [p \in Procs |-> IF fd[p] = i THEN o ELSE fd[p]]
      /\ file' = [n \in Files |-> IF n = i THEN Blank
                                ELSE IF \E p \in Procs : fd[p] = i /\ n = o THEN file[i]
                                ELSE file[n]]

\* Not looked at again: the next start replaces it.
Forget(p) == session_vars' = [session_vars EXCEPT ![p] = None]

\* PS(session_status) = php_session_none.  The next session_start, of the same
\* request or of another one, comes with an id or without.
Deactivate(p) ==
  /\ Call(p, "none", "idle")
  /\ id' = [id EXCEPT ![p] = None]
  /\ Forget(p)
------------------------------------------------------------------------------
(* Starting a session.                                                     *)

\* php_session_initialize up to the first system call
Initialize(p, i) ==
  /\ id' = [id EXCEPT ![p] = i]
  /\ Call(p, "start", IF i = None THEN "create"
                      ELSE IF ini.use_strict_mode THEN "validate" ELSE "open")

SessionStart(p, i) ==
  /\ At(p, "idle")
  /\ Initialize(p, i)
  /\ UNCHANGED <<disk, handler, session_vars, ini>>

\* ps_validate_sid: stat().  A session that is gone gets a new id.
ValidateSid(p) ==
  /\ At(p, "validate")
  /\ Goto(p, IF id[p] \in dir THEN "open" ELSE "create")
  /\ UNCHANGED <<disk, op, id, handler, session_vars, ini>>

\* Random ids: nobody else knows them.
FreshIds(p) == {i \in Ids \ dir : \A q \in Procs \ {p} : id[q] # i}

\* ps_create_sid; without a free id after too many collisions
CreateSid(p) ==
  /\ At(p, "create")
  /\ \/ /\ \E i \in FreshIds(p) : id' = [id EXCEPT ![p] = i]
        /\ Goto(p, "open")
        /\ UNCHANGED <<op, session_vars>>
     \/ /\ FreshIds(p) = {}
        /\ Deactivate(p)
  /\ UNCHANGED <<disk, handler, ini>>

\* ps_files_open: open(O_CREAT)
OpenFile(p) ==
  /\ At(p, "open")
  /\ dir' = dir \cup {id[p]}
  /\ fd' = [fd EXCEPT ![p] = id[p]]
  /\ Goto(p, "flock")
  /\ UNCHANGED <<file, op, id, st_size, session_vars, ini>>

\* flock(LOCK_EX) does not wait any longer.
LockFree(p) == \A q \in Procs \ {p} : fd[q] = fd[p] => At(q, "flock")

\* s_read fails, because open or pread does: php_session_abort, or its
\* counterpart in session_regenerate_id
ReadFails(p) ==
  /\ At(p, "open") \/ (At(p, "flock") /\ LockFree(p))
  /\ CloseFile(p, file)
  /\ Deactivate(p)
  /\ UNCHANGED <<dir, ini>>

\* The size ps_read_files remembers.  Mutant: it keeps the old one.
ReadSizeKept(p) == st_size[p]
ReadSize(p)     == file[fd[p]].size

\* What was read is kept until it is decoded.  session_regenerate_id does not
\* look at it, and has forgotten what was read before.  Mutant: it has not.
CacheKept(p) == IF op[p] = "regenerate" THEN session_vars[p] ELSE file[fd[p]]
Cache(p)     == IF op[p] = "regenerate" THEN None ELSE file[fd[p]]

\* ps_files_open: flock(LOCK_EX), which waits, and ps_read_files
FlockAndRead(p) ==
  /\ At(p, "flock")
  /\ LockFree(p)
  /\ st_size' = [st_size EXCEPT ![p] = ReadSize(p)]
  /\ session_vars' = [session_vars EXCEPT ![p] = Cache(p)]
  /\ IF op[p] = "regenerate" THEN Return(p) ELSE Goto(p, "gc") /\ UNCHANGED op
  /\ UNCHANGED <<disk, id, fd, ini>>

\* php_session_gc and ps_files_cleanup_dir, for one file of any session, open
\* or not, called in php_session_initialize and by session_gc().  The age of a
\* file is looked up before its name is removed; it may be touched or replaced
\* in between and time may pass at any step, so that no file is safe.
SessionGc(p, i) ==
  /\ At(p, "gc") \/ At(p, "user")
  /\ i \in dir
  /\ Unlink(i)
  /\ UNCHANGED <<pc, op, id, st_size, session_vars, ini>>

\* php_session_decode after the gc.  A mixture of old and new data may be
\* refused, and then the session is destroyed.  Without lazy_write what was
\* read is forgotten.
Decode(p) ==
  /\ At(p, "gc")
  /\ \/ /\ session_vars' = [session_vars EXCEPT ![p] = IF ini.lazy_write THEN @ ELSE None]
        /\ Return(p)
        /\ UNCHANGED <<file, handler>>
     \/ /\ session_vars[p].is # "whole"
        /\ CloseFile(p, file)
        /\ Call(p, "destroy", "unlink")
        /\ UNCHANGED session_vars
  /\ UNCHANGED <<dir, id, ini>>
------------------------------------------------------------------------------
(* Using, saving and closing it.                                           *)

\* s_close with the contents f written, and what function g does after it
Close(p, f, g) ==
  /\ CloseFile(p, f)
  /\ \/ g = "save" /\ Deactivate(p)
     \/ /\ g = "regenerate" /\ Call(p, g, "create")
        /\ id' = [id EXCEPT ![p] = None]
        /\ UNCHANGED session_vars

\* php_session_save_current_state: an unchanged session is only touched.  When
\* that fails, because the file has lost its name, it is written all the same.
Touched(p, v) == ini.lazy_write /\ session_vars[p] = Encoded(v) /\ id[p] \in dir

\* pwrite overwrites the beginning of a longer file.  One that stops early
\* leaves a mixture, and the old size if that was larger.
Larger(c, v)      == IF v > c.size THEN v ELSE c.size
Torn(c, v)        == [val |-> 0, size |-> Larger(c, v), is |-> "torn"]
Overwritten(c, v) == [val |-> v, size |-> Larger(c, v), is |-> IF v < c.size THEN "mixed" ELSE "whole"]

\* ps_files_write, into the file that is open even if it has lost its name
Write(p, g, v) ==
  LET n == fd[p]
      W == [file EXCEPT ![n] = Overwritten(@, v)]
  IN  \/ /\ v < st_size[p]
         /\ file' = W
         /\ Call(p, g, "truncate")
         /\ UNCHANGED <<id, handler, session_vars>>
      \/ /\ v >= st_size[p]
         /\ Close(p, W, g)
      \/ Close(p, file, "save")       \* pwrite fails or stops early
      \/ v > 0 /\ Close(p, [file EXCEPT ![n] = Torn(@, v)], "save")

\* ftruncate, whose failure is ignored
Truncate(p) ==
  /\ At(p, "truncate")
  /\ \E c \in {Encoded(file[fd[p]].val), Torn(file[fd[p]], 0)} :
       Close(p, [file EXCEPT ![fd[p]] = c], op[p])
  /\ UNCHANGED <<dir, ini>>

\* session_write_close, session_commit, and the end of a request, which saves a
\* session that is still active
SessionFlush(p, v) ==
  /\ At(p, "user")
  /\ \/ Touched(p, v) /\ Close(p, file, "save")
     \/ ~Touched(p, v) /\ Write(p, "save", v)
  /\ UNCHANGED <<dir, ini>>

\* session_abort, and session_start with read_and_close
SessionAbort(p) ==
  /\ At(p, "user")
  /\ CloseFile(p, file)
  /\ Deactivate(p)
  /\ UNCHANGED <<dir, ini>>

SessionReset(p) ==
  /\ At(p, "user")
  /\ CloseFile(p, file)
  /\ Initialize(p, id[p])
  /\ Forget(p)
  /\ UNCHANGED <<dir, ini>>

\* ps_destroy_files: the lock goes before the name does.
Destroy(p, g) ==
  /\ At(p, "user")
  /\ CloseFile(p, file)
  /\ Call(p, g, "unlink")
  /\ UNCHANGED <<dir, id, session_vars, ini>>

SessionDestroy(p) == Destroy(p, "destroy")

SessionRegenerateId(p, del_ses, v) ==
  \/ del_ses /\ Destroy(p, "regenerate")
  \/ ~del_ses /\ At(p, "user") /\ Write(p, "regenerate", v) /\ UNCHANGED <<dir, ini>>

DestroyUnlink(p) ==
  /\ At(p, "unlink")
  /\ Unlink(id[p])
  /\ IF op[p] = "regenerate"
       THEN /\ Goto(p, "create")
            /\ id' = [id EXCEPT ![p] = None]
            /\ UNCHANGED <<op, session_vars>>
       ELSE Deactivate(p)
  /\ UNCHANGED <<st_size, ini>>

\* The process dies; the kernel closes its file.
Crash(p) ==
  /\ ~At(p, "idle")
  /\ CloseFile(p, IF At(p, "truncate") THEN [file EXCEPT ![fd[p]] = Torn(@, 0)] ELSE file)
  /\ Deactivate(p)
  /\ UNCHANGED <<dir, ini>>
------------------------------------------------------------------------------
UserCode(p) ==
  \/ \E i \in Ids \cup {None} : SessionStart(p, i)
  \/ SessionAbort(p) \/ SessionReset(p) \/ SessionDestroy(p)
  \/ \E del_ses \in BOOLEAN, v \in Values : SessionRegenerateId(p, del_ses, v)

Proceed(p) ==
  \/ ValidateSid(p) \/ CreateSid(p) \/ OpenFile(p) \/ Decode(p)
  \/ \E v \in Values : SessionFlush(p, v)
  \/ Truncate(p) \/ DestroyUnlink(p)

Next ==
  \E p \in Procs :
    \/ UserCode(p) \/ Proceed(p) \/ FlockAndRead(p)
    \/ \E i \in Ids : SessionGc(p, i)
    \/ ReadFails(p) \/ Crash(p)

\* System calls return, the gc comes to the end of the directory and a request
\* to its end (max_execution_time), and a lock that is free again and again is
\* given to everyone who waits for it.
Fairness == \A p \in Procs : WF_vars(Proceed(p)) /\ SF_vars(FlockAndRead(p))

Spec == Init /\ [][Next]_vars /\ Fairness
------------------------------------------------------------------------------
(* Properties.                                                             *)

Contents == [val : 0 .. MaxSize, size : 0 .. MaxSize, is : {"whole", "mixed", "torn"}]

\* The variables have their types.
TypeOK ==
  /\ dir \subseteq Ids /\ file \in [Files -> Contents]
  /\ pc \in [Procs -> Steps] /\ op \in [Procs -> Functions]
  /\ id \in [Procs -> Ids \cup {None}]
  /\ fd \in [Procs -> Files \cup {None}] /\ st_size \in [Procs -> 0 .. MaxSize]
  /\ session_vars \in [Procs -> Contents \cup {None}]
  /\ ini \in [lazy_write : LazyWrite, use_strict_mode : Strict]

\* What PS(session_vars) remembers of a session is still what its file holds
\* when the session is saved, so that lazy_write may skip the write: no other
\* request wrote to the file in between, whatever was destroyed, regenerated or
\* collected meanwhile, and no operation of the same request left it behind.
CacheIsFile ==
  /\ TypeOK
  /\ \A p \in Procs :
       session_vars[p] # None /\ fd[p] # None /\ (At(p, "gc") \/ At(p, "user")) =>
         session_vars[p] = file[fd[p]]

\* A file that no write or crash has torn is whole when its writer has got
\* through: a value shorter than the old one is always cut to its length by the
\* one who wrote it (st_size is the file's size whenever ps_files_write compares
\* with it).
ContentIsWhole ==
  \A n \in Files : file[n].is = "mixed" => \E p \in Procs : fd[p] = n /\ At(p, "truncate")

\* Nobody waits for a session forever: every path out of the functions, failed
\* ones and a crash included, gives the lock back, and nobody waits for a second
\* session while holding one.
WaiterGetsSession == \A p \in Procs : At(p, "flock") ~> ~At(p, "flock")
=============================================================================
