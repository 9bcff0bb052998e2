-------------------------- MODULE SessionFilesProofs --------------------------
(* Theorems about SessionFiles, for any number of processes, session ids and   *)
(* lengths of $_SESSION, whatever the settings, system calls that fail and     *)
(* processes that die.                                                         *)
EXTENDS SessionFiles, FiniteSetTheorems, TLAPS

\* A non-empty set of naturals has a least element.
LEMMA LeastNatural ==
  ASSUME NEW S \in SUBSET Nat, S # {}
  PROVE  \E n \in S : \A m \in S : n <= m
<1>1. PICK n \in S : \A m \in S : ~(<<m, n>> \in OpToRel(<, Nat))
  BY NatLessThanWellFounded, WFMin, Zenon
<1>2. \A m \in S : ~(m < n)
  BY <1>1 DEF OpToRel
<1>3. QED
  BY <1>2

\* Fewer holders than things to hold: something is held by nobody.
LEMMA TooFewHolders ==
  ASSUME NEW S, NEW T, IsFiniteSet(S), IsFiniteSet(T), Cardinality(T) < Cardinality(S),
         NEW f
  PROVE  \E n \in S : \A q \in T : f[q] # n
<1>1. \A h \in [S -> T] : \E m, n \in S : m # n /\ h[m] = h[n]
  BY FS_PigeonHole, Zenon
<1>2. SUFFICES ASSUME \A n \in S : \E q \in T : f[q] = n
               PROVE  FALSE
  OBVIOUS
<1> DEFINE h == [n \in S |-> CHOOSE q \in T : f[q] = n]
<1>3. h \in [S -> T] /\ \A n \in S : f[h[n]] = n
  BY <1>2
<1> HIDE DEF h
<1>4. QED
  BY <1>1, <1>3

\* The steps between ps_files_open and ps_files_close.
FileOpen  == {"flock", "gc", "user", "truncate"}
\* Those that hold the lock of the file, and those that have read it since.
FileLocked == {"gc", "user", "truncate"}
FileRead   == {"gc", "user"}
\* The steps at which PS(id) names a session.
IdKnown == {"validate", "open", "unlink"} \cup FileOpen

\* A file is open exactly between ps_files_open and ps_files_close, and a session
\* has an id whenever a file is opened or unlinked for it.
ControlMatchesFiles ==
  \A p \in Procs : /\ fd[p] # None <=> pc[p] \in FileOpen
                   /\ pc[p] \in IdKnown => id[p] # None

\* flock() keeps everybody else out of a file that is in use, orphans included.
LockExcludes ==
  \A p, q \in Procs : p # q /\ pc[p] \in FileLocked /\ pc[q] \in FileLocked => fd[p] # fd[q]

\* st_size is the size of the file until ps_files_write looks at it.
SizeIsFile == \A p \in Procs : pc[p] \in FileRead => st_size[p] = file[fd[p]].size

\* What PS(session_vars) holds was read from the file.
VarsAreFile ==
  \A p \in Procs : pc[p] \in FileRead => session_vars[p] \in {None, file[fd[p]]}

\* The inductive invariant behind the theorems.
SessionInvariant ==
  /\ TypeOK /\ ControlMatchesFiles /\ LockExcludes /\ SizeIsFile /\ VarsAreFile
  /\ ContentIsWhole

-------------------------------------------------------------------------------
\* While some process has the file of a session open, there is an orphan left that
\* the file can become.
LEMMA OrphanLeft ==
  ASSUME NEW i \in Ids, NEW p \in Procs, fd[p] = i
  PROVE  \E n \in Orphans : \A q \in Procs : fd[q] # n
<1> USE ConstantsAssumption
<1> DEFINE others == Procs \ {p}
<1>1. IsFiniteSet(others) /\ Cardinality(others) = Cardinality(Procs) - 1
  BY FS_RemoveElement
<1>2. Cardinality(Procs) \in Nat /\ Cardinality(Orphans) \in Nat
  BY FS_CardinalityType
<1>3. Cardinality(others) < Cardinality(Orphans)
  BY <1>1, <1>2
<1>4. PICK n \in Orphans : \A q \in others : fd[q] # n
  <2> HIDE DEF others
  <2> QED BY <1>1, <1>3, TooFewHolders, ZenonT(60)
<1>5. QED
  BY <1>4

\* Unlinking moves an open file, contents and all, to a name nobody else uses.
LEMMA UnlinkRenames ==
  ASSUME TypeOK, NEW i \in Ids, Unlink(i)
  PROVE  /\ dir' \subseteq Ids /\ fd' \in [Procs -> Files \cup {None}]
         /\ file' \in [Files -> Contents]
         /\ \A p \in Procs : fd'[p] = None <=> fd[p] = None
         /\ \A p, q \in Procs : fd'[p] = fd'[q] <=> fd[p] = fd[q]
         /\ \A p \in Procs : fd[p] # None => file'[fd'[p]] = file[fd[p]]
         /\ \A n \in Files : file'[n].is = "mixed" =>
              \E m \in Files : /\ file[m].is = "mixed"
                               /\ \A p \in Procs : fd[p] = m => fd'[p] = n
<1> USE ConstantsAssumption DEF Files
<1>1. Blank \in Contents /\ Blank.is = "whole"
  BY DEF Blank, Encoded, Contents
<1>2. dir' \subseteq Ids
  BY DEF Unlink, TypeOK
<1>3. CASE \A p \in Procs : fd[p] # i
  <2>1. fd' = fd
    BY <1>3 DEF Unlink, TypeOK
  <2>2. file' = [n \in Files |-> IF n = i THEN Blank ELSE file[n]]
    BY <1>3 DEF Unlink
  <2>3. QED
    BY <1>1, <1>2, <1>3, <2>1, <2>2 DEF TypeOK
<1>4. CASE \E p \in Procs : fd[p] = i
  <2> DEFINE free == {n \in Orphans : \A p \in Procs : fd[p] # n}
             o    == CHOOSE n \in free : \A m \in free : n <= m
  <2>1. free # {} /\ free \in SUBSET Nat
    BY <1>4, OrphanLeft
  <2>2. \E n \in free : \A m \in free : n <= m
    <3> HIDE DEF free
    <3> QED BY <2>1, LeastNatural
  <2>3. o \in Orphans /\ \A p \in Procs : fd[p] # o
    BY <2>2
  <2>4. fd' = [p \in Procs |-> IF fd[p] = i THEN o ELSE fd[p]]
    BY DEF Unlink
  <2>5. file' = [n \in Files |-> IF n = i THEN Blank ELSE IF n = o THEN file[i] ELSE file[n]]
    BY <1>4 DEF Unlink
  <2> HIDE DEF o
  <2>6. o # i /\ o # None
    BY <2>3
  <2>7. fd' \in [Procs -> Files \cup {None}] /\ file' \in [Files -> Contents]
    BY <1>1, <2>3, <2>4, <2>5 DEF TypeOK
  <2>8. \A p, q \in Procs : fd'[p] = fd'[q] <=> fd[p] = fd[q]
    BY <2>3, <2>4
  <2>9. \A p \in Procs : fd'[p] = None <=> fd[p] = None
    BY <2>4, <2>6
  <2>10. \A p \in Procs : fd[p] # None => file'[fd'[p]] = file[fd[p]]
    BY <2>3, <2>4, <2>5, <2>6 DEF TypeOK
  <2>11. ASSUME NEW n \in Files, file'[n].is = "mixed"
         PROVE  \E m \in Files : /\ file[m].is = "mixed"
                                 /\ \A p \in Procs : fd[p] = m => fd'[p] = n
    <3>1. n # i
      BY <1>1, <2>5, <2>11
    <3>2. CASE n = o
      BY <2>4, <2>5, <2>6, <2>11, <3>2
    <3>3. CASE n # o
      BY <2>4, <2>5, <2>11, <3>1, <3>3
    <3>4. QED
      BY <3>2, <3>3
  <2>12. QED
    BY <1>2, <2>7, <2>8, <2>9, <2>10, <2>11
<1>5. QED
  BY <1>3, <1>4

\* Closing a file gives up the lock and changes nothing for the others.
LEMMA CloseKeepsOthers ==
  ASSUME TypeOK, NEW p \in Procs, NEW f \in [Files -> Contents], CloseFile(p, f)
  PROVE  /\ fd' = [fd EXCEPT ![p] = None]
         /\ st_size' = [st_size EXCEPT ![p] = 0]
         /\ file' \in [Files -> Contents]
         /\ \A q \in Procs \ {p} : fd[q] # None => file'[fd[q]] = f[fd[q]]
         /\ \A n \in Files : file'[n].is = "mixed" => f[n].is = "mixed"
<1> USE ConstantsAssumption DEF Files
<1>1. Blank \in Contents /\ Blank.is = "whole"
  BY DEF Blank, Encoded, Contents
<1>2. fd' = [fd EXCEPT ![p] = None] /\ st_size' = [st_size EXCEPT ![p] = 0]
  BY DEF CloseFile, Closed
<1>3. file' = [n \in Files |-> IF n \in Ids \/ \E q \in Procs : fd'[q] = n THEN f[n] ELSE Blank]
  BY DEF CloseFile, Reclaimed
<1>4. file' \in [Files -> Contents]
  BY <1>1, <1>3
<1>5. ASSUME NEW q \in Procs \ {p}, fd[q] # None
      PROVE  file'[fd[q]] = f[fd[q]]
  <2>1. fd'[q] = fd[q] /\ fd[q] \in Files
    BY <1>2, <1>5 DEF TypeOK
  <2>2. QED
    BY <1>3, <2>1
<1>6. \A n \in Files : file'[n].is = "mixed" => f[n].is = "mixed"
  BY <1>1, <1>3
<1>7. QED
  BY <1>2, <1>4, <1>5, <1>6

-------------------------------------------------------------------------------
\* Contents that p may leave behind when it closes its file: those of the files
\* others have locked, and nothing half-written.
Harmless(p, f) ==
  /\ f \in [Files -> Contents]
  /\ \A q \in Procs \ {p} : pc[q] \in FileLocked => f[fd[q]] = file[fd[q]]
  /\ \A n \in Files : f[n].is = "mixed" => \E q \in Procs \ {p} : fd[q] = n /\ pc[q] = "truncate"

\* p may close its file without writing to it, unless it has to truncate it first.
LEMMA FileIsHarmless ==
  ASSUME SessionInvariant, NEW p \in Procs, pc[p] # "truncate"
  PROVE  Harmless(p, file)
BY DEF SessionInvariant, TypeOK, ContentIsWhole, At, Harmless

\* It may also leave what is not half-written in a file it has locked.
LEMMA OwnFileIsHarmless ==
  ASSUME SessionInvariant, NEW p \in Procs, pc[p] \in FileLocked,
         NEW c \in Contents, c.is # "mixed"
  PROVE  Harmless(p, [file EXCEPT ![fd[p]] = c])
<1>1. fd[p] \in Files
  BY DEF SessionInvariant, TypeOK, ControlMatchesFiles, FileLocked, FileOpen
<1>2. [file EXCEPT ![fd[p]] = c] \in [Files -> Contents]
  BY DEF SessionInvariant, TypeOK
<1>3. \A q \in Procs \ {p} : pc[q] \in FileLocked => fd[q] # fd[p] /\ fd[q] \in Files
  BY DEF SessionInvariant, TypeOK, LockExcludes, ControlMatchesFiles, FileLocked, FileOpen
<1>4. \A n \in Files : file[n].is = "mixed" /\ n # fd[p] =>
        \E q \in Procs \ {p} : fd[q] = n /\ pc[q] = "truncate"
  BY DEF SessionInvariant, ContentIsWhole, At
<1>5. QED
  BY <1>1, <1>2, <1>3, <1>4 DEF Harmless, SessionInvariant, TypeOK

\* What the system calls write has its type and is not half-written.
LEMMA WrittenContents ==
  ASSUME NEW c \in Contents, NEW v \in Values
  PROVE  /\ Encoded(v) \in Contents /\ Encoded(v).is = "whole"
         /\ Torn(c, v) \in Contents /\ Torn(c, v).is = "torn"
         /\ Overwritten(c, v) \in Contents
         /\ v >= c.size => Overwritten(c, v).is = "whole"
BY ConstantsAssumption DEF Contents, Values, Encoded, Torn, Overwritten, Larger

\* Closing the file and going on without one preserves the invariant.
LEMMA ClosePreserves ==
  ASSUME SessionInvariant, NEW p \in Procs, NEW f, Harmless(p, f), CloseFile(p, f),
         NEW l \in Steps \ FileOpen, pc' = [pc EXCEPT ![p] = l],
         op' \in [Procs -> Functions],
         NEW x \in Ids \cup {None}, id' = [id EXCEPT ![p] = x], l \in IdKnown => x # None,
         session_vars' \in {session_vars, [session_vars EXCEPT ![p] = None]},
         dir' = dir, ini' = ini
  PROVE  SessionInvariant'
<1> USE ConstantsAssumption DEF SessionInvariant, FileOpen, FileLocked, FileRead, IdKnown, Steps
<1>1. f \in [Files -> Contents]
  BY DEF Harmless
<1>2. /\ fd' = [fd EXCEPT ![p] = None] /\ st_size' = [st_size EXCEPT ![p] = 0]
      /\ file' \in [Files -> Contents]
      /\ \A q \in Procs \ {p} : fd[q] # None => file'[fd[q]] = f[fd[q]]
      /\ \A n \in Files : file'[n].is = "mixed" => f[n].is = "mixed"
  BY <1>1, CloseKeepsOthers
<1>3. TypeOK'
  BY <1>2 DEF TypeOK
<1>4. ControlMatchesFiles'
  BY <1>2 DEF ControlMatchesFiles, TypeOK
<1>5. LockExcludes'
  BY <1>2 DEF LockExcludes, TypeOK
<1>6. \A q \in Procs : pc'[q] \in FileLocked =>
        /\ q # p /\ pc[q] = pc'[q] /\ fd'[q] = fd[q] /\ st_size'[q] = st_size[q]
        /\ session_vars'[q] = session_vars[q] /\ file'[fd'[q]] = file[fd[q]]
  BY <1>2 DEF TypeOK, Harmless, ControlMatchesFiles
<1>7. SizeIsFile' /\ VarsAreFile'
  BY <1>6 DEF SizeIsFile, VarsAreFile
<1>8. ContentIsWhole'
  BY <1>2 DEF ContentIsWhole, Harmless, At, TypeOK
<1>9. QED
  BY <1>3, <1>4, <1>5, <1>7, <1>8

\* What is left of a session that has come to its end.
LEMMA DeactivateFacts ==
  ASSUME SessionInvariant, NEW p \in Procs, Deactivate(p)
  PROVE  /\ "idle" \in Steps \ FileOpen /\ pc' = [pc EXCEPT ![p] = "idle"]
         /\ op' \in [Procs -> Functions]
         /\ None \in Ids \cup {None} /\ id' = [id EXCEPT ![p] = None] /\ "idle" \notin IdKnown
         /\ session_vars' \in {session_vars, [session_vars EXCEPT ![p] = None]}
<1>1. pc' = [pc EXCEPT ![p] = "idle"] /\ "idle" \in Steps \ FileOpen /\ "idle" \notin IdKnown
  BY DEF Deactivate, Call, Goto, Steps, FileOpen, IdKnown
<1>2. op' \in [Procs -> Functions]
  BY DEF Deactivate, Call, Functions, SessionInvariant, TypeOK
<1>3. id' = [id EXCEPT ![p] = None] /\ session_vars' = [session_vars EXCEPT ![p] = None]
  BY DEF Deactivate, Forget
<1>4. QED
  BY <1>1, <1>2, <1>3

\* The steps a session may start with.
LEMMA InitializeFacts ==
  ASSUME SessionInvariant, NEW p \in Procs, NEW i \in Ids \cup {None}, Initialize(p, i)
  PROVE  \E l \in Steps \ FileOpen :
           /\ pc' = [pc EXCEPT ![p] = l] /\ op' \in [Procs -> Functions]
           /\ id' = [id EXCEPT ![p] = i] /\ (l \in IdKnown => i # None)
<1> DEFINE l == IF i = None THEN "create" ELSE IF ini.use_strict_mode THEN "validate" ELSE "open"
<1>1. pc' = [pc EXCEPT ![p] = l] /\ id' = [id EXCEPT ![p] = i]
  BY DEF Initialize, Call, Goto
<1>2. l \in Steps \ FileOpen /\ (l \in IdKnown => i # None)
  BY DEF Steps, FileOpen, IdKnown
<1>3. op' \in [Procs -> Functions]
  BY DEF Initialize, Call, Functions, SessionInvariant, TypeOK
<1>4. QED
  BY <1>1, <1>2, <1>3

\* The session ends with its file, in an error, an abort or a crash.
LEMMA EndPreserves ==
  ASSUME SessionInvariant, NEW p \in Procs, NEW f, Harmless(p, f), CloseFile(p, f),
         Deactivate(p), dir' = dir, ini' = ini
  PROVE  SessionInvariant'
BY DeactivateFacts, ClosePreserves

\* s_close and what follows it.
LEMMA CloseOperationPreserves ==
  ASSUME SessionInvariant, NEW p \in Procs, NEW f, Harmless(p, f),
         NEW g \in Functions, Close(p, f, g), dir' = dir, ini' = ini
  PROVE  SessionInvariant'
<1>1. CloseFile(p, f)
  BY DEF Close
<1>2. CASE Deactivate(p)
  BY <1>1, <1>2, EndPreserves
<1>3. CASE /\ g = "regenerate" /\ Call(p, g, "create")
           /\ id' = [id EXCEPT ![p] = None]
           /\ UNCHANGED session_vars
  <2>1. pc' = [pc EXCEPT ![p] = "create"] /\ "create" \in Steps \ FileOpen
        /\ "create" \notin IdKnown
    BY <1>3 DEF Call, Goto, Steps, FileOpen, IdKnown
  <2>2. op' \in [Procs -> Functions]
    BY <1>3 DEF Call, Functions, SessionInvariant, TypeOK
  <2>3. QED
    BY <1>1, <1>3, <2>1, <2>2, ClosePreserves
<1>4. QED
  BY <1>2, <1>3 DEF Close

\* ps_files_write, for session_write_close and session_regenerate_id.
LEMMA WritePreserves ==
  ASSUME SessionInvariant, NEW p \in Procs, pc[p] = "user", NEW v \in Values,
         NEW g \in {"save", "regenerate"}, Write(p, g, v), dir' = dir, ini' = ini
  PROVE  SessionInvariant'
<1> USE ConstantsAssumption DEF FileLocked
<1> DEFINE n == fd[p]
           W == [file EXCEPT ![n] = Overwritten(file[n], v)]
<1>1. n \in Files /\ file[n] \in Contents /\ st_size[p] = file[n].size
  BY DEF SessionInvariant, TypeOK, ControlMatchesFiles, SizeIsFile, FileRead, FileOpen
<1>2. Overwritten(file[n], v) \in Contents /\ Torn(file[n], v) \in Contents
      /\ Torn(file[n], v).is = "torn"
  BY <1>1, WrittenContents
<1>3. Harmless(p, file)
  BY FileIsHarmless
<1>4. g \in Functions /\ "save" \in Functions
  BY DEF Functions
<1>5. CASE /\ v < st_size[p]
           /\ file' = W
           /\ Call(p, g, "truncate")
           /\ UNCHANGED <<id, handler, session_vars>>
  <2> USE DEF SessionInvariant, Call, Goto, handler, FileOpen, IdKnown, FileRead
  <2>1. /\ pc' = [pc EXCEPT ![p] = "truncate"] /\ fd' = fd /\ st_size' = st_size
        /\ id' = id /\ session_vars' = session_vars
        /\ op' \in [Procs -> Functions] /\ W \in [Files -> Contents]
    BY <1>1, <1>2, <1>4, <1>5 DEF TypeOK
  <2>2. TypeOK'
    BY <1>5, <2>1 DEF TypeOK, Steps
  <2>3. ControlMatchesFiles' /\ LockExcludes'
    BY <2>1 DEF ControlMatchesFiles, LockExcludes, TypeOK
  <2>4. \A q \in Procs : pc'[q] \in FileRead => pc[q] = pc'[q] /\ W[fd[q]] = file[fd[q]]
    BY <1>1, <2>1 DEF LockExcludes, TypeOK, ControlMatchesFiles
  <2>5. SizeIsFile' /\ VarsAreFile'
    BY <1>5, <2>1, <2>4 DEF SizeIsFile, VarsAreFile
  <2>6. ContentIsWhole'
    BY <1>1, <1>5, <2>1 DEF ContentIsWhole, At, TypeOK
  <2>7. QED
    BY <2>2, <2>3, <2>5, <2>6
<1>6. CASE v >= st_size[p] /\ Close(p, W, g)
  <2>1. Overwritten(file[n], v).is = "whole"
    BY <1>1, <1>6, WrittenContents
  <2>2. Harmless(p, W)
    BY <1>2, <2>1, OwnFileIsHarmless
  <2>3. QED
    BY <1>4, <1>6, <2>2, CloseOperationPreserves
<1>7. CASE Close(p, file, "save")
  BY <1>3, <1>4, <1>7, CloseOperationPreserves
<1>8. CASE Close(p, [file EXCEPT ![n] = Torn(file[n], v)], "save")
  <2>1. Harmless(p, [file EXCEPT ![n] = Torn(file[n], v)])
    BY <1>2, OwnFileIsHarmless
  <2>2. QED
    BY <1>4, <1>8, <2>1, CloseOperationPreserves
<1>9. QED
  BY <1>1, <1>5, <1>6, <1>7, <1>8 DEF Write, SessionInvariant, TypeOK

\* Unlinking any session's file, by a process that has none open or goes on with its
\* own, preserves the invariant.
LEMMA UnlinkPreserves ==
  ASSUME SessionInvariant, NEW i \in Ids, Unlink(i), NEW p \in Procs,
         NEW l \in Steps, pc' = [pc EXCEPT ![p] = l],
         l = pc[p] \/ (pc[p] \notin FileOpen /\ l \notin FileOpen \cup IdKnown),
         op' \in [Procs -> Functions],
         NEW x \in Ids \cup {None}, id' = [id EXCEPT ![p] = x], l \in IdKnown => x # None,
         session_vars' = session_vars
           \/ (pc[p] \notin FileOpen /\ session_vars' = [session_vars EXCEPT ![p] = None]),
         st_size' = st_size, ini' = ini
  PROVE  SessionInvariant'
<1> USE ConstantsAssumption DEF SessionInvariant, FileOpen, FileLocked, FileRead, IdKnown, Steps
<1>1. /\ dir' \subseteq Ids /\ fd' \in [Procs -> Files \cup {None}]
      /\ file' \in [Files -> Contents]
      /\ \A q \in Procs : fd'[q] = None <=> fd[q] = None
      /\ \A q, r \in Procs : fd'[q] = fd'[r] <=> fd[q] = fd[r]
      /\ \A q \in Procs : fd[q] # None => file'[fd'[q]] = file[fd[q]]
      /\ \A n \in Files : file'[n].is = "mixed" =>
           \E m \in Files : /\ file[m].is = "mixed"
                            /\ \A q \in Procs : fd[q] = m => fd'[q] = n
  BY UnlinkRenames
<1>2. TypeOK'
  BY <1>1 DEF TypeOK
<1>3. \A q \in Procs : pc'[q] \in FileOpen <=> pc[q] \in FileOpen
  BY DEF TypeOK
<1>4. \A q \in Procs : pc'[q] \in FileOpen => pc'[q] = pc[q] /\ session_vars'[q] = session_vars[q]
  BY DEF TypeOK
<1>5. ControlMatchesFiles'
  BY <1>1, <1>3, <1>4 DEF ControlMatchesFiles, TypeOK
<1>6. LockExcludes'
  BY <1>1, <1>4 DEF LockExcludes
<1>7. SizeIsFile' /\ VarsAreFile'
  BY <1>1, <1>4 DEF SizeIsFile, VarsAreFile, ControlMatchesFiles
<1>8. \A q \in Procs : pc[q] = "truncate" => pc'[q] = "truncate"
  BY DEF TypeOK
<1>9. ContentIsWhole'
  BY <1>1, <1>8 DEF ContentIsWhole, At
<1>10. QED
  BY <1>2, <1>5, <1>6, <1>7, <1>9

\* Steps that touch neither files nor the handler, of a process that has none open.
LEMMA PrivateStepPreserves ==
  ASSUME SessionInvariant, NEW p \in Procs, pc[p] \notin FileOpen,
         NEW l \in Steps \ FileOpen, pc' = [pc EXCEPT ![p] = l],
         op' \in [Procs -> Functions],
         NEW x \in Ids \cup {None}, id' = [id EXCEPT ![p] = x], l \in IdKnown => x # None,
         session_vars' \in {session_vars, [session_vars EXCEPT ![p] = None]},
         UNCHANGED <<disk, handler, ini>>
  PROVE  SessionInvariant'
<1> USE DEF SessionInvariant, FileOpen, FileLocked, FileRead, IdKnown, Steps, disk, handler
<1>1. TypeOK'
  BY DEF TypeOK
<1>2. ControlMatchesFiles' /\ LockExcludes'
  BY DEF ControlMatchesFiles, LockExcludes, TypeOK
<1>3. SizeIsFile' /\ VarsAreFile'
  BY DEF SizeIsFile, VarsAreFile, TypeOK
<1>4. ContentIsWhole'
  BY DEF ContentIsWhole, At, TypeOK
<1>5. QED
  BY <1>1, <1>2, <1>3, <1>4

\* The invariant holds initially, and every operation preserves it.
THEOREM SessionInvariantHolds == Spec => []SessionInvariant
<1> USE ConstantsAssumption
<1>1. Init => SessionInvariant
  <2> SUFFICES ASSUME Init PROVE SessionInvariant
    OBVIOUS
  <2>1. Blank \in Contents /\ Blank.is = "whole"
    BY DEF Blank, Encoded, Contents
  <2>2. TypeOK
    BY <2>1 DEF Init, TypeOK, Steps, Functions
  <2>3. QED
    BY <2>1, <2>2 DEF Init, SessionInvariant, ControlMatchesFiles, LockExcludes, SizeIsFile,
       VarsAreFile, ContentIsWhole, FileOpen, FileLocked, FileRead, IdKnown
<1>2. SessionInvariant /\ [Next]_vars => SessionInvariant'
  <2> SUFFICES ASSUME SessionInvariant, [Next]_vars PROVE SessionInvariant'
    OBVIOUS
  <2>1. CASE UNCHANGED vars
    BY <2>1 DEF vars, disk, handler, SessionInvariant, TypeOK, ControlMatchesFiles, LockExcludes,
       SizeIsFile, VarsAreFile, ContentIsWhole, At
  <2>2. CASE Next
    <3> PICK p \in Procs : \/ UserCode(p) \/ Proceed(p) \/ FlockAndRead(p)
                           \/ \E i \in Ids : SessionGc(p, i)
                           \/ ReadFails(p) \/ Crash(p)
      BY <2>2 DEF Next
    <3>0. /\ pc \in [Procs -> Steps] /\ op \in [Procs -> Functions] /\ id[p] \in Ids \cup {None}
          /\ id = [id EXCEPT ![p] = id[p]] /\ pc = [pc EXCEPT ![p] = pc[p]]
          /\ pc[p] \in IdKnown => id[p] # None
          /\ \A g \in Functions : [op EXCEPT ![p] = g] \in [Procs -> Functions]
      BY DEF SessionInvariant, TypeOK, ControlMatchesFiles
    <3>1. ASSUME NEW i \in Ids \cup {None}, SessionStart(p, i) PROVE SessionInvariant'
      <4>1. /\ pc[p] \notin FileOpen /\ Initialize(p, i)
            /\ UNCHANGED <<disk, handler, ini>> /\ session_vars' = session_vars
        BY <3>1 DEF SessionStart, At, FileOpen
      <4>2. PICK l \in Steps \ FileOpen :
              /\ pc' = [pc EXCEPT ![p] = l] /\ op' \in [Procs -> Functions]
              /\ id' = [id EXCEPT ![p] = i] /\ (l \in IdKnown => i # None)
        BY <3>1, <4>1, InitializeFacts
      <4>3. QED
        BY <3>1, <4>1, <4>2, PrivateStepPreserves
    <3>2. CASE SessionAbort(p)
      <4>1. Harmless(p, file)
        BY <3>2, FileIsHarmless DEF SessionAbort, At
      <4>2. QED
        BY <3>2, <4>1, EndPreserves DEF SessionAbort
    <3>3. CASE SessionReset(p)
      <4>1. Harmless(p, file) /\ id[p] # None
        BY <3>0, <3>3, FileIsHarmless DEF SessionReset, At, IdKnown, FileOpen
      <4>2. /\ CloseFile(p, file) /\ Initialize(p, id[p]) /\ UNCHANGED <<dir, ini>>
            /\ session_vars' = [session_vars EXCEPT ![p] = None]
        BY <3>3 DEF SessionReset, Forget
      <4>3. PICK l \in Steps \ FileOpen :
              /\ pc' = [pc EXCEPT ![p] = l] /\ op' \in [Procs -> Functions]
              /\ id' = [id EXCEPT ![p] = id[p]]
        BY <3>0, <4>2, InitializeFacts
      <4>4. QED
        BY <3>0, <4>1, <4>2, <4>3, ClosePreserves
    <3>4. ASSUME NEW g \in {"destroy", "regenerate"}, Destroy(p, g) PROVE SessionInvariant'
      <4>1. Harmless(p, file) /\ id[p] # None
        BY <3>0, <3>4, FileIsHarmless DEF Destroy, At, IdKnown, FileOpen
      <4>2. QED
        BY <3>0, <3>4, <4>1, ClosePreserves DEF Destroy, Call, Goto, Steps, FileOpen, IdKnown,
           Functions
    <3>5. ASSUME NEW del_ses \in BOOLEAN, NEW v \in Values, SessionRegenerateId(p, del_ses, v)
          PROVE  SessionInvariant'
      <4>1. CASE Destroy(p, "regenerate")
        BY <3>4, <4>1
      <4>2. CASE At(p, "user") /\ Write(p, "regenerate", v) /\ UNCHANGED <<dir, ini>>
        BY <4>2, WritePreserves DEF At
      <4>3. QED
        BY <3>5, <4>1, <4>2 DEF SessionRegenerateId
    <3>6. CASE ValidateSid(p)
      BY <3>0, <3>6, PrivateStepPreserves DEF ValidateSid, At, Goto, Steps, FileOpen, IdKnown
    <3>7. CASE CreateSid(p)
      <4>1. pc[p] = "create" /\ UNCHANGED <<disk, handler, ini>>
        BY <3>7 DEF CreateSid, At
      <4>2. CASE /\ \E i \in FreshIds(p) : id' = [id EXCEPT ![p] = i]
                 /\ Goto(p, "open")
                 /\ UNCHANGED <<op, session_vars>>
        <5>1. PICK i \in Ids : id' = [id EXCEPT ![p] = i]
          BY <4>2 DEF FreshIds
        <5>2. QED
          BY <3>0, <4>1, <4>2, <5>1, PrivateStepPreserves DEF Goto, Steps, FileOpen, IdKnown
      <4>3. CASE Deactivate(p)
        <5>1. pc[p] \notin FileOpen
          BY <4>1 DEF FileOpen
        <5>2. QED
          BY <4>1, <4>3, <5>1, DeactivateFacts, PrivateStepPreserves
      <4>4. QED
        BY <3>7, <4>2, <4>3 DEF CreateSid
    <3>8. CASE OpenFile(p)
      <4> USE DEF SessionInvariant, FileOpen, FileLocked, FileRead, IdKnown
      <4>1. /\ pc[p] = "open" /\ pc' = [pc EXCEPT ![p] = "flock"] /\ id[p] \in Ids
            /\ fd' = [fd EXCEPT ![p] = id[p]] /\ fd[p] = None
            /\ dir' = dir \cup {id[p]}
            /\ UNCHANGED <<file, op, id, st_size, session_vars, ini>>
        BY <3>0, <3>8 DEF OpenFile, At, Goto, ControlMatchesFiles
      <4>2. TypeOK'
        BY <4>1 DEF TypeOK, Files, Steps
      <4>3. ControlMatchesFiles' /\ LockExcludes'
        BY <4>1 DEF ControlMatchesFiles, LockExcludes, TypeOK
      <4>4. SizeIsFile' /\ VarsAreFile'
        BY <4>1 DEF SizeIsFile, VarsAreFile, TypeOK
      <4>5. ContentIsWhole'
        BY <4>1 DEF ContentIsWhole, At, TypeOK
      <4>6. QED
        BY <4>2, <4>3, <4>4, <4>5
    <3>9. CASE Decode(p)
      <4>1. pc[p] = "gc" /\ UNCHANGED <<dir, id, ini>>
        BY <3>9 DEF Decode, At
      <4>2. CASE /\ session_vars' = [session_vars EXCEPT ![p] = IF ini.lazy_write THEN @ ELSE None]
                 /\ Return(p)
                 /\ UNCHANGED <<file, handler>>
        <5> USE DEF SessionInvariant, FileOpen, FileLocked, FileRead, IdKnown
        <5>1. /\ pc' = [pc EXCEPT ![p] = "user"] /\ op' \in [Procs -> Functions]
              /\ \A q \in Procs : session_vars'[q] \in {session_vars[q], None}
              /\ session_vars' \in [Procs -> Contents \cup {None}]
              /\ \A q \in Procs \ {p} : session_vars'[q] = session_vars[q]
              /\ UNCHANGED <<file, fd, st_size>>
          BY <3>0, <4>2 DEF Return, Call, Goto, Functions, handler, TypeOK
        <5>2. TypeOK'
          BY <4>1, <5>1 DEF TypeOK, Steps
        <5>3. ControlMatchesFiles' /\ LockExcludes'
          BY <4>1, <5>1 DEF ControlMatchesFiles, LockExcludes, TypeOK
        <5>4. SizeIsFile' /\ VarsAreFile'
          BY <4>1, <5>1 DEF SizeIsFile, VarsAreFile, TypeOK
        <5>5. ContentIsWhole'
          BY <4>1, <5>1 DEF ContentIsWhole, At, TypeOK
        <5>6. QED
          BY <5>2, <5>3, <5>4, <5>5
      <4>3. CASE CloseFile(p, file) /\ Call(p, "destroy", "unlink") /\ UNCHANGED session_vars
        <5>1. Harmless(p, file) /\ id[p] # None
          BY <3>0, <4>1, FileIsHarmless DEF IdKnown, FileOpen
        <5>2. QED
          BY <3>0, <4>1, <4>3, <5>1, ClosePreserves DEF Call, Goto, Steps, FileOpen, IdKnown,
             Functions
      <4>4. QED
        BY <3>9, <4>2, <4>3 DEF Decode
    <3>10. ASSUME NEW v \in Values, SessionFlush(p, v) PROVE SessionInvariant'
      <4>1. pc[p] = "user" /\ UNCHANGED <<dir, ini>>
        BY <3>10 DEF SessionFlush, At
      <4>2. CASE Close(p, file, "save")
        BY <4>1, <4>2, FileIsHarmless, CloseOperationPreserves DEF Functions
      <4>3. CASE Write(p, "save", v)
        BY <4>1, <4>3, WritePreserves
      <4>4. QED
        BY <3>10, <4>2, <4>3 DEF SessionFlush
    <3>11. CASE Truncate(p)
      <4>1. pc[p] = "truncate" /\ UNCHANGED <<dir, ini>>
        BY <3>11 DEF Truncate, At
      <4>2. fd[p] \in Files /\ file[fd[p]] \in Contents
        BY <4>1 DEF SessionInvariant, TypeOK, ControlMatchesFiles, FileOpen
      <4>3. PICK c \in {Encoded(file[fd[p]].val), Torn(file[fd[p]], 0)} :
              Close(p, [file EXCEPT ![fd[p]] = c], op[p])
        BY <3>11 DEF Truncate
      <4>4. file[fd[p]].val \in Values /\ 0 \in Values
        BY <4>2 DEF Contents, Values
      <4>5. c \in Contents /\ c.is # "mixed"
        <5> DEFINE d == file[fd[p]]
                   v == d.val
        <5>1. d \in Contents /\ v \in Values /\ 0 \in Values
          BY <4>2, <4>4
        <5> HIDE DEF d, v
        <5>2. Encoded(v) \in Contents /\ Encoded(v).is = "whole"
          BY <5>1, WrittenContents
        <5>3. Torn(d, 0) \in Contents /\ Torn(d, 0).is = "torn"
          BY <5>1, WrittenContents
        <5>4. QED
          BY <4>3, <5>2, <5>3 DEF d, v
      <4>6. Harmless(p, [file EXCEPT ![fd[p]] = c])
        BY <4>1, <4>5, OwnFileIsHarmless DEF FileLocked
      <4>7. QED
        BY <3>0, <4>1, <4>3, <4>6, CloseOperationPreserves
    <3>12. CASE DestroyUnlink(p)
      <4>1. /\ pc[p] = "unlink" /\ id[p] \in Ids /\ Unlink(id[p])
            /\ UNCHANGED <<st_size, ini>>
        BY <3>0, <3>12 DEF DestroyUnlink, At, IdKnown
      <4>2. CASE /\ Goto(p, "create")
                 /\ id' = [id EXCEPT ![p] = None]
                 /\ UNCHANGED <<op, session_vars>>
        BY <3>0, <4>1, <4>2, UnlinkPreserves DEF Goto, Steps, FileOpen, IdKnown
      <4>3. CASE Deactivate(p)
        <5>1. pc[p] \notin FileOpen
          BY <4>1 DEF FileOpen
        <5>2. QED
          BY <4>1, <4>3, <5>1, DeactivateFacts, UnlinkPreserves
      <4>4. QED
        BY <3>12, <4>2, <4>3 DEF DestroyUnlink
    <3>13. CASE FlockAndRead(p)
      <4> USE DEF SessionInvariant, FileOpen, FileLocked, FileRead, IdKnown
      <4>1. /\ pc[p] = "flock" /\ UNCHANGED <<dir, file, id, fd, ini>>
            /\ fd[p] \in Files /\ file[fd[p]] \in Contents
            /\ \A q \in Procs \ {p} : fd[q] = fd[p] => pc[q] = "flock"
        BY <3>13 DEF FlockAndRead, At, LockFree, disk, TypeOK, ControlMatchesFiles
      <4>2. PICK l \in {"user", "gc"} : pc' = [pc EXCEPT ![p] = l]
        BY <3>13 DEF FlockAndRead, Return, Call, Goto
      <4>3. op' \in [Procs -> Functions]
        BY <3>0, <3>13 DEF FlockAndRead, Return, Call, Functions
      <4>4. /\ st_size' = [st_size EXCEPT ![p] = file[fd[p]].size]
            /\ session_vars' = [session_vars EXCEPT ![p] = Cache(p)]
            /\ Cache(p) \in {None, file[fd[p]]}
        BY <3>0, <3>13, <4>2 DEF FlockAndRead, ReadSize, Cache, Return, Call, Goto
      <4>5. file[fd[p]].size \in 0 .. MaxSize
        BY <4>1 DEF Contents
      <4>6. TypeOK'
        BY <4>1, <4>2, <4>3, <4>4, <4>5 DEF TypeOK, Steps
      <4>7. ControlMatchesFiles'
        BY <4>1, <4>2, <4>4, <4>5 DEF ControlMatchesFiles, TypeOK
      <4>8. LockExcludes'
        BY <4>1, <4>2 DEF LockExcludes, TypeOK
      <4>9. SizeIsFile' /\ VarsAreFile'
        BY <4>1, <4>2, <4>4 DEF SizeIsFile, VarsAreFile, TypeOK
      <4>10. ContentIsWhole'
        BY <4>1, <4>2 DEF ContentIsWhole, At, TypeOK
      <4>11. QED
        BY <4>6, <4>7, <4>8, <4>9, <4>10
    <3>14. ASSUME NEW i \in Ids, SessionGc(p, i) PROVE SessionInvariant'
      BY <3>0, <3>14, UnlinkPreserves DEF SessionGc, At
    <3>15. CASE ReadFails(p)
      <4>1. Harmless(p, file)
        BY <3>15, FileIsHarmless DEF ReadFails, At
      <4>2. QED
        BY <3>15, <4>1, EndPreserves DEF ReadFails
    <3>16. CASE Crash(p)
      <4>1. CASE pc[p] # "truncate"
        BY <3>16, <4>1, FileIsHarmless, EndPreserves DEF Crash, At
      <4>2. CASE pc[p] = "truncate"
        <5>1. file[fd[p]] \in Contents /\ 0 \in Values
          BY <4>2 DEF SessionInvariant, TypeOK, ControlMatchesFiles, FileOpen, Values
        <5>2. Harmless(p, [file EXCEPT ![fd[p]] = Torn(file[fd[p]], 0)])
          BY <4>2, <5>1, WrittenContents, OwnFileIsHarmless DEF FileLocked
        <5>3. QED
          BY <3>16, <4>2, <5>2, EndPreserves DEF Crash, At
      <4>3. QED
        BY <4>1, <4>2
    <3>17. QED
      BY <3>1, <3>2, <3>3, <3>4, <3>5, <3>6, <3>7, <3>8, <3>9, <3>10, <3>11, <3>12, <3>13,
         <3>14, <3>15, <3>16 DEF UserCode, Proceed, SessionDestroy
  <2>3. QED
    BY <2>1, <2>2
<1>3. QED
  BY <1>1, <1>2, PTL DEF Spec

\* What PS(session_vars) remembers of a session is what its file holds whenever the
\* session may be saved, so that ps_files_update_timestamp may stand for the write.
THEOREM CacheIsFileHolds == Spec => []CacheIsFile
<1>1. SessionInvariant => CacheIsFile
  BY DEF SessionInvariant, CacheIsFile, VarsAreFile, FileRead, At
<1>2. QED
  BY <1>1, SessionInvariantHolds, PTL

\* Only a process that is about to truncate a file leaves old data behind new data.
THEOREM ContentIsWholeHolds == Spec => []ContentIsWhole
<1>1. SessionInvariant => ContentIsWhole
  BY DEF SessionInvariant
<1>2. QED
  BY <1>1, SessionInvariantHolds, PTL

\* At most one request is in a session: two that have read or are writing the same
\* file are the same process, also when the file has lost its name.
THEOREM LockExcludesHolds == Spec => []LockExcludes
<1>1. SessionInvariant => LockExcludes
  BY DEF SessionInvariant
<1>2. QED
  BY <1>1, SessionInvariantHolds, PTL
===============================================================================
