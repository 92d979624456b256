---------------------------- MODULE Descritores ----------------------------
(***************************************************************************)
(* The file descriptors of the HAL: the lists of devices and file systems, *)
(* the pool of descriptors, and the calls open, close, read, write, ioctl, *)
(* fcntl, lseek, fstat and isatty on them.  A build has one thread, so that*)
(* alt_fd_list_lock is an empty macro and a call is one step.  The reduced *)
(* calls of a build with direct drivers, which know the three standard     *)
(* descriptors only, are what the full ones are compared with.             *)
(***************************************************************************)
EXTENDS Integers, FiniteSets, FiniteSetsExt, SequencesExt

CONSTANTS
  ALT_MAX_FD,       \* size of the pool
  Device,           \* character devices, each also standing for its own name
  SmallOnes,        \* those with the small, polled driver
  STDIO,            \* the device of ALT_STDIN, ALT_STDOUT and ALT_STDERR
  FileSystem,       \* mount points: paths, as sequences of their parts
  FileName,         \* paths that are opened
  OpenMode,         \* access modes asked for
  FcntlArg,         \* words given to F_SETFL, as sets of flags
  null,             \* alt_dev_null
  None              \* no device

ASSUME FdAssumption ==
  /\ ALT_MAX_FD \in Nat /\ ALT_MAX_FD >= 3
  /\ OpenMode \subseteq {"RDONLY", "WRONLY", "RDWR"}
  /\ SmallOnes \subseteq Device
  /\ STDIO \in Device /\ null \notin Device /\ None \notin Device \cup {null}
  /\ FileSystem \cap (Device \cup {null, None}) = {}
  /\ FileName \cap (Device \cup {null}) = {}

VARIABLES
  alt_dev_list,     \* devices registered
  alt_fs_list,      \* file systems registered, newest first
  alt_fd_list,      \* the pool
  alt_max_fd,       \* highest descriptor ever given
  redirected,       \* alt_main has called alt_io_redirect
  handles           \* descriptors the program has opened and not closed

fdVars == <<alt_dev_list, alt_fs_list, alt_fd_list, alt_max_fd, redirected, handles>>

Fd     == 0..(ALT_MAX_FD - 1)
Stdin  == 0
Std    == 0..2
Modes  == {"RDONLY", "WRONLY", "RDWR"}
ALT_FCNTL_FLAGS_MASK == {"APPEND", "NONBLOCK"}
FdFlags == ALT_FCNTL_FLAGS_MASK \cup {"EXCL", "DEV"}
Dev    == Device \cup FileSystem \cup {null}
Name   == Device \cup FileName \cup {null}

FdTypeOK ==
  /\ alt_dev_list \subseteq Device \cup {null}
  /\ alt_fs_list \in Seq(FileSystem)
  /\ alt_fd_list \in [Fd -> [dev : Dev \cup {None}, mode : Modes, flags : SUBSET FdFlags]]
  /\ alt_max_fd \in -1..(ALT_MAX_FD - 1)
  /\ redirected \in BOOLEAN
  /\ handles \subseteq Fd \ Std

Free == [dev |-> None, mode |-> "RDONLY", flags |-> {}]

FdInit ==
  /\ alt_dev_list = {null} /\ alt_fs_list = <<>>
  /\ alt_fd_list = [i \in Fd |-> IF i \in Std THEN [Free EXCEPT !.dev = null] ELSE Free]
  /\ alt_max_fd = -1
  /\ redirected = FALSE /\ handles = {}

\* The functions a driver provides (its alt_dev structure).
NullDriver  == {"write"}
SmallDriver == {"read", "write"}
FastDriver  == {"close", "read", "write", "ioctl"}

Provides(d) ==
  CASE d = null                  -> NullDriver
    [] d \in SmallOnes           -> SmallDriver
    [] d \in Device \ SmallOnes  -> FastDriver
    [] d \in FileSystem          -> {"open", "close", "read", "write", "lseek", "fstat", "ioctl"}
    [] OTHER                     -> {}

-----------------------------------------------------------------------------
(* Start-up, before main: drivers register, then stdio is redirected.       *)

alt_dev_llist_insert(d) ==
  /\ ~redirected /\ d \notin alt_dev_list
  /\ alt_dev_list' = alt_dev_list \cup {d}
  /\ UNCHANGED <<alt_fs_list, alt_fd_list, alt_max_fd, redirected, handles>>

alt_fs_reg(f) ==
  /\ ~redirected /\ ~ \E i \in DOMAIN alt_fs_list : alt_fs_list[i] = f
  /\ alt_fs_list' = <<f>> \o alt_fs_list
  /\ UNCHANGED <<alt_dev_list, alt_fd_list, alt_max_fd, redirected, handles>>

alt_find_dev(name) == IF name \in alt_dev_list THEN name ELSE None

\* The first file system of the list that the path lies under.
alt_find_file(name) ==
  LET owns == {i \in DOMAIN alt_fs_list : name \in FileName /\ IsPrefix(alt_fs_list[i], name)}
  IN IF owns = {} THEN None ELSE alt_fs_list[Min(owns)]

alt_get_fd(list) ==
  LET free == {i \in Fd : list[i].dev = None} IN IF free = {} THEN -1 ELSE Min(free)

alt_release_fd_AboveThree(list, i) ==
  IF i > 3 THEN [list EXCEPT ![i] = Free] ELSE list

alt_release_fd(list, i) ==
  IF i > 2 THEN [list EXCEPT ![i] = Free] ELSE list

\* The loop of alt_fd_lock in place of that of alt_file_locked.
alt_file_locked_BelowMark(list, i, max) ==
  \E j \in 0..(max - 1) : j # i /\ list[j].dev = list[i].dev /\ "EXCL" \in list[j].flags

\* Some descriptor up to the water mark holds the device of i for itself.
alt_file_locked(list, i, max) ==
  \E j \in 0..max : j # i /\ list[j].dev = list[i].dev /\ "EXCL" \in list[j].flags

\* open(name, mode): the descriptor (negative when it fails), the pool and the water
\* mark after it; ok is the driver's answer.
alt_open(list, max, name, mode, ok) ==
  LET found == alt_find_dev(name)
      dev   == IF found # None THEN found ELSE alt_find_file(name)
      i     == alt_get_fd(list)
      high  == IF i > max THEN i ELSE max
      taken == [list EXCEPT ![i] = [dev |-> dev, mode |-> mode,
                                    flags |-> IF found # None THEN {"DEV"} ELSE {}]]
      fails == IF found # None THEN alt_file_locked(taken, i, high)
                               ELSE "open" \in Provides(dev) /\ ~ok
  IN IF dev = None \/ i < 0 THEN [fd |-> -1, list |-> list, max |-> max]
     ELSE IF fails THEN [fd |-> -1, list |-> alt_release_fd(taken, i), max |-> high]
     ELSE [fd |-> i, list |-> taken, max |-> high]

\* alt_open_fd: open, copy to the standard descriptor, free the slot used.
alt_open_fd(s, i, mode) ==
  LET o == alt_open(s.list, s.max, STDIO, mode, TRUE)
  IN IF o.fd < 0 THEN [list |-> o.list, max |-> o.max]
     ELSE [list |-> alt_release_fd([o.list EXCEPT ![i] = o.list[o.fd]], o.fd), max |-> o.max]

alt_io_redirect ==
  LET out == alt_open_fd([list |-> alt_fd_list, max |-> alt_max_fd], 1, "WRONLY")
      in  == alt_open_fd(out, Stdin, "RDONLY")
      err == alt_open_fd(in, 2, "WRONLY")
  IN /\ ~redirected /\ redirected' = TRUE
     /\ alt_fd_list' = err.list /\ alt_max_fd' = err.max
     /\ UNCHANGED <<alt_dev_list, alt_fs_list, handles>>

-----------------------------------------------------------------------------
(* The program's calls.  A descriptor is a standard one or one it holds.    *)

InUse == Std \cup handles

ALT_OPEN(name, mode) ==
  \E ok \in BOOLEAN :
    LET o == alt_open(alt_fd_list, alt_max_fd, name, mode, ok)
    IN /\ redirected
       /\ alt_fd_list' = o.list /\ alt_max_fd' = o.max
       /\ handles' = IF o.fd < 0 THEN handles ELSE handles \cup {o.fd}
       /\ UNCHANGED <<alt_dev_list, alt_fs_list, redirected>>

\* Whatever the driver's close answers, the descriptor is freed.
ALT_CLOSE(i) ==
  /\ redirected /\ i \in InUse
  /\ alt_fd_list' = alt_release_fd(alt_fd_list, i)
  /\ handles' = handles \ {i}
  /\ UNCHANGED <<alt_dev_list, alt_fs_list, alt_max_fd, redirected>>

\* alt_fd_lock looks at the descriptors below the water mark.
alt_fd_lock(i) ==
  IF \E j \in 0..(alt_max_fd - 1) : j # i /\ alt_fd_list[j].dev = alt_fd_list[i].dev
    THEN alt_fd_list
    ELSE [alt_fd_list EXCEPT ![i].flags = @ \cup {"EXCL"}]

alt_fd_unlock(i) == [alt_fd_list EXCEPT ![i].flags = @ \ {"EXCL"}]

\* On a device the two requests are answered here; all else goes to the driver.
ALT_IOCTL(i, req) ==
  LET here == "DEV" \in alt_fd_list[i].flags /\ req \in {"TIOCEXCL", "TIOCNXCL"}
  IN /\ redirected /\ i \in InUse
     /\ alt_fd_list' = CASE here /\ req = "TIOCEXCL" -> alt_fd_lock(i)
                         [] here /\ req = "TIOCNXCL" -> alt_fd_unlock(i)
                         [] OTHER -> alt_fd_list
     /\ UNCHANGED <<alt_dev_list, alt_fs_list, alt_max_fd, redirected, handles>>

\* F_SETFL; F_GETFL changes nothing.
ALT_FCNTL(i, flags) ==
  /\ redirected /\ i \in InUse
  /\ alt_fd_list' = [alt_fd_list EXCEPT ![i].flags = (@ \ ALT_FCNTL_FLAGS_MASK) \cup (flags \cap ALT_FCNTL_FLAGS_MASK)]
  /\ UNCHANGED <<alt_dev_list, alt_fs_list, alt_max_fd, redirected, handles>>

(* Calls that change no state: the driver each is passed on to, if any.     *)

Reached(op, i, allowed) ==
  LET d == alt_fd_list[i].dev IN IF allowed /\ op \in Provides(d) THEN d ELSE None

ALT_READ(i)  == Reached("read", i, alt_fd_list[i].mode # "WRONLY")
ALT_WRITE(i) == Reached("write", i, alt_fd_list[i].mode # "RDONLY")
ALT_LSEEK(i) == Reached("lseek", i, TRUE)

\* Where an ioctl goes that is not answered here.
IoctlDriver(i) == Reached("ioctl", i, TRUE)

\* Without a driver's fstat to ask, a descriptor is a character device and a terminal.
ALT_FSTAT(i)  == Reached("fstat", i, TRUE)
ALT_ISATTY(i) == ALT_FSTAT(i) = None

FdNext ==
  \/ \E d \in Device : alt_dev_llist_insert(d)
  \/ \E f \in FileSystem : alt_fs_reg(f)
  \/ alt_io_redirect
  \/ \E n \in Name, m \in OpenMode : ALT_OPEN(n, m)
  \/ \E i \in InUse :
       \/ ALT_CLOSE(i)
       \/ \E r \in {"TIOCEXCL", "TIOCNXCL", "other"} : ALT_IOCTL(i, r)
       \/ \E f \in FcntlArg : ALT_FCNTL(i, f)

FdSpec == FdInit /\ [][FdNext]_fdVars

-----------------------------------------------------------------------------
(* A build with direct drivers knows the standard descriptors alone.       *)

\* ALT_DRIVER_READ, _WRITE and _IOCTL name a driver at compile time.
AltDriver == STDIO

DirectRead(i)  == IF i = Stdin THEN AltDriver ELSE None
DirectWrite(i) == IF i \in Std \ {Stdin} THEN AltDriver ELSE None
DirectIoctl(i) == IF i \in Std THEN AltDriver ELSE None
DirectLseek(i) == None

\* isatty, and fstat as whether it answers that the descriptor is a character device.
DirectTerminal(i) == i \in Std
DirectFstat(i)    == i \in Std

-----------------------------------------------------------------------------
\* The pool holds what the program holds: a refused open leaves no slot taken, and a slot
\* is given to one opener at a time (alt_open.c:159-171, alt_get_fd.c:77-89).
HandlesExact == {i \in Fd \ Std : alt_fd_list[i].dev # None} = handles

\* The standard descriptors always stand for some device: the null one at first, the
\* console later, and close frees neither (alt_dev.c:109-118, alt_release_fd.c:44-51).
StandardOpen == \A i \in Std : alt_fd_list[i].dev # None

\* "Further calls to open() for this device will fail until the lock is released"
\* (alt_fd_lock.c:44): this step adds no descriptor for a device that stays locked.
LockRespected ==
  \A i \in Fd : "EXCL" \in alt_fd_list[i].flags /\ "EXCL" \in alt_fd_list'[i].flags =>
    \A j \in Fd : alt_fd_list'[j].dev = alt_fd_list[i].dev => alt_fd_list[j].dev = alt_fd_list[i].dev

\* A descriptor that the program holds before and after this step is still of the device
\* or file system, and of the access mode, it was opened with: what others open and close,
\* also where an open fails half way, does not reach it (alt_open.c:105-171).
HandlesKept ==
  \A i \in handles \cap handles' : /\ alt_fd_list'[i].dev = alt_fd_list[i].dev
                                   /\ alt_fd_list'[i].mode = alt_fd_list[i].mode

\* No step opens what is locked or takes an open file from who holds it: the two above.
DescriptorsKept == [][LockRespected /\ HandlesKept]_fdVars

\* Once stdio is redirected, a full build's calls on the standard descriptors reach the
\* drivers a direct build's reach, whatever was opened, closed, locked and set meanwhile
\* (the two versions each of alt_read.c, alt_write.c, alt_ioctl.c, alt_lseek.c, alt_fstat.c
\* and alt_isatty.c).
StdioAlike ==
  redirected /\ STDIO \in alt_dev_list => \A i \in Std :
    /\ ALT_READ(i) = DirectRead(i)
    /\ ALT_WRITE(i) = DirectWrite(i)
    /\ "ioctl" \in Provides(STDIO) => IoctlDriver(i) = DirectIoctl(i)
    /\ ALT_LSEEK(i) = DirectLseek(i)
    /\ ALT_FSTAT(i) = None <=> DirectFstat(i)
    /\ ALT_ISATTY(i) <=> DirectTerminal(i)

\* The pool and what the calls make of it.
FdSafe == HandlesExact /\ StandardOpen /\ StdioAlike

\* "If there are no other open file descriptors which reference the same device, then
\* alt_fd_lock() will grant the lock" (alt_fd_lock.c:43): who is granted it is alone.
ExclusiveMeansAlone ==
  [][\A i \in Fd : "EXCL" \in alt_fd_list'[i].flags \ alt_fd_list[i].flags =>
       \A j \in Fd \ {i} : alt_fd_list'[j].dev # alt_fd_list'[i].dev]_fdVars

=============================================================================
