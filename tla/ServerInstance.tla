--------------------------- MODULE ServerInstance ---------------------------
(***************************************************************************)
(* Server processes that start and stop beside each other (server.rs,      *)
(* CowchatServer::new, run and drop; main.rs): the lock of the database,   *)
(* the Unix socket that is bound in place of a stale one, the TCP address, *)
(* and the control channel of an owning application.                       *)
(*                                                                         *)
(* Every call of the file system is a step.  An inode number is free again *)
(* once its file and its listener are gone.  A process may crash anywhere; *)
(* the kernel then closes what it held, and its socket file stays.         *)
(***************************************************************************)
EXTENDS Naturals, FiniteSets

CONSTANTS
    Servers,   \* processes at one time; a slot is used again and again
    Names,     \* database paths as they are given
    Canon,     \* name -> canonical path
    File,      \* canonical path -> the file it is a link of
    Paths,     \* socket paths
    Inodes,    \* inode numbers
    None,      \* nothing
    Alien,     \* something at a path that is not a socket
    MaxStarts  \* bound: processes started

ASSUME InstanceAssumption ==
    /\ IsFiniteSet(DOMAIN File)
    /\ None \notin Servers \cup Inodes \cup Paths \cup DOMAIN File
    /\ Alien \notin Inodes \cup {None}
    /\ DOMAIN Canon = Names
    /\ \A n \in Names : Canon[n] \in DOMAIN File
    /\ MaxStarts \in Nat

VARIABLES
    fs,         \* what is at each socket path
    owner,      \* inode -> the process whose socket is bound to it
    accepting,  \* inodes whose sockets accept connections
    lock,       \* canonical path -> the process that has its .lock locked
    tcp,        \* the process that listens on the TCP address
    proc,       \* the processes
    users,      \* history: per socket path, the databases of processes that
                \* came to bind it
    failed,     \* history: socket paths whose accept loop failed
    rivals,     \* history: per process, who was in its way since it started
    starts

os == <<fs, owner, accepting, lock, tcp>>
history == <<users, failed, rivals>>
vars == <<os, proc, history, starts>>

Canons == DOMAIN File
Links(c) == {d \in Canons : File[d] = File[c]}

(* A process: its step, database, socket path, the inode it found there,   *)
(* its own socket's inode and that of its OwnedSocketPath, whether it      *)
(* wants the TCP address, and its control channel with an application:     *)
(* not there (or not yet), watched, closed, in grace, done.                *)
Off == [at |-> "off", db |-> None, path |-> None, seen |-> None,
        ino |-> None, guard |-> None, tcp |-> FALSE, app |-> FALSE,
        control |-> "none"]

Starting == {"link", "lock", "stat", "connect", "restat", "remove", "bind",
             "listen", "own", "tcp", "open"}
Undoing == {"undo", "unbind", "fail"}
Dropping == {"unlock", "guard", "unlink", "drain"}
PCs == {"off", "running"} \cup Starting \cup Undoing \cup Dropping
Holding == {"running"} \cup (Starting \ {"link", "lock"})
Bound == {"listen", "own", "tcp", "open", "running"}
Unbound == {"off", "link", "lock", "stat", "connect", "restat", "remove", "bind"}

Procs == [at : PCs, db : Canons \cup {None}, path : Paths \cup {None},
          seen : Inodes \cup {None, Alien}, ino : Inodes \cup {None},
          guard : Inodes \cup {None}, tcp : BOOLEAN, app : BOOLEAN,
          control : {"none", "watched", "closed", "grace", "done"}]

(* Type invariant: a process past the lock holds it and nobody else does,  *)
(* no process has two sockets, and a guard is only there after a socket.   *)
TypeOK ==
    /\ fs \in [Paths -> Inodes \cup {None, Alien}]
    /\ owner \in [Inodes -> Servers \cup {None}]
    /\ accepting \subseteq {i \in Inodes : owner[i] # None}
    /\ lock \in [Canons -> Servers \cup {None}]
    /\ proc \in [Servers -> Procs]
    /\ \A p \in Servers :
           /\ proc[p].at # "off" => proc[p].db # None /\ proc[p].path # None
           /\ \A c \in Canons : lock[c] = p =>
                  proc[p].db = c /\ proc[p].at \notin {"off", "link", "lock"}
           /\ proc[p].at \in Holding => lock[proc[p].db] = p
           /\ \A i \in Inodes : owner[i] = p => proc[p].ino = i
           /\ proc[p].at \in Unbound => proc[p].ino = None
           /\ proc[p].at \in Bound => proc[p].ino # None /\ owner[proc[p].ino] = p
           /\ proc[p].guard # None => proc[p].ino # None
    /\ tcp \in Servers \cup {None}
    /\ users \in [Paths -> SUBSET Canons]
    /\ failed \subseteq Paths /\ rivals \in [Servers -> BOOLEAN]
    /\ starts \in 0..MaxStarts

Init ==
    /\ fs \in [Paths -> {None, Alien}]
    /\ owner = [i \in Inodes |-> None] /\ accepting = {}
    /\ lock = [c \in Canons |-> None] /\ tcp = None
    /\ proc = [p \in Servers |-> Off]
    /\ users = [q \in Paths |-> {}] /\ failed = {}
    /\ rivals = [p \in Servers |-> FALSE]
    /\ starts = 0

At(p, s) == proc[p].at = s
Goto(p, s) == proc' = [proc EXCEPT ![p].at = s]
Found(p) == fs[proc[p].path]
Free(i) == owner[i] = None /\ \A q \in Paths : fs[q] # i

(* Another process is up that names the same database, the same socket     *)
(* path or, as this one does, the TCP address; or no socket is at the path.*)
InTheWay(p) ==
    \/ Found(p) = Alien \/ Cardinality(Links(proc[p].db)) > 1
    \/ \E q \in Servers \ {p} :
        /\ proc[q] # Off
        /\ \/ proc[q].db = proc[p].db \/ proc[q].path = proc[p].path
           \/ proc[q].tcp /\ proc[p].tcp

(* Kept for every process that is starting, after each step of another. *)
Meet ==
    rivals' = [p \in Servers |->
        IF proc'[p] = Off THEN FALSE ELSE rivals[p] \/ InTheWay(p)']

-----------------------------------------------------------------------------
(* CowchatServer::new *)

(* canonical_db_path *)
Canonical(n) == Canon[n]

(* main: Serve *)
Start(p, n, path, wants, app) ==
    /\ proc[p] = Off /\ starts < MaxStarts
    /\ starts' = starts + 1
    /\ proc' = [proc EXCEPT ![p] = [Off EXCEPT !.at = "link", !.db = Canonical(n),
                                        !.path = path, !.tcp = wants, !.app = app]]
    /\ UNCHANGED <<os, users, failed>>
    /\ Meet

(* Mutant: the number of links is not looked at. *)
CheckLinksNot(p) ==
    /\ At(p, "link")
    /\ Goto(p, "lock")
    /\ UNCHANGED <<os, users, failed, starts>>
    /\ Meet

(* reject_hard_linked_database *)
CheckLinks(p) ==
    /\ At(p, "link")
    /\ Goto(p, IF Cardinality(Links(proc[p].db)) > 1 THEN "fail" ELSE "lock")
    /\ UNCHANGED <<os, users, failed, starts>>
    /\ Meet

(* acquire_instance_lock *)
Lock(p) ==
    /\ At(p, "lock")
    /\ IF lock[proc[p].db] = None
       THEN /\ lock' = [lock EXCEPT ![proc[p].db] = p]
            /\ users' = [users EXCEPT ![proc[p].path] = @ \cup {proc[p].db}]
            /\ Goto(p, "stat")
       ELSE Goto(p, "fail") /\ UNCHANGED <<lock, users>>
    /\ UNCHANGED <<fs, owner, accepting, tcp, failed, starts>>
    /\ Meet

(* Mutant: a socket that is there already is never replaced. *)
StatRefuse(p) ==
    /\ At(p, "stat")
    /\ Goto(p, IF Found(p) = None THEN "bind" ELSE "fail")
    /\ UNCHANGED <<os, users, failed, starts>>
    /\ Meet

(* bind_unix_listener: what is at the path, ... *)
Stat(p) ==
    /\ At(p, "stat")
    /\ proc' = [proc EXCEPT ![p].seen = Found(p), ![p].at =
           CASE Found(p) = None -> "bind" [] Found(p) = Alien -> "fail"
             [] OTHER -> "connect"]
    /\ UNCHANGED <<os, users, failed, starts>>
    /\ Meet

(* Mutant: the socket found is taken for stale. *)
ConnectNot(p) ==
    /\ At(p, "connect")
    /\ Goto(p, "restat")
    /\ UNCHANGED <<os, users, failed, starts>>
    /\ Meet

(* ... whether somebody accepts connections there, ... *)
Connect(p) ==
    /\ At(p, "connect")
    /\ Goto(p, IF Found(p) \in accepting THEN "fail" ELSE "restat")
    /\ UNCHANGED <<os, users, failed, starts>>
    /\ Meet

(* ... whether the same inode is still there, ... *)
Restat(p) ==
    /\ At(p, "restat")
    /\ Goto(p, IF Found(p) = proc[p].seen THEN "remove" ELSE "stat")
    /\ UNCHANGED <<os, users, failed, starts>>
    /\ Meet

(* ... the removal of whatever is there, which fails if nothing is, ... *)
Remove(p) ==
    /\ At(p, "remove")
    /\ IF Found(p) = None THEN Goto(p, "fail") /\ UNCHANGED fs
       ELSE fs' = [fs EXCEPT ![proc[p].path] = None] /\ Goto(p, "bind")
    /\ UNCHANGED <<owner, accepting, lock, tcp, users, failed, starts>>
    /\ Meet

(* ... bind, which begins anew if something is there again, ... *)
Bind(p) ==
    /\ At(p, "bind")
    /\ IF Found(p) = None
       THEN \E i \in {j \in Inodes : Free(j)} :
              /\ fs' = [fs EXCEPT ![proc[p].path] = i]
              /\ owner' = [owner EXCEPT ![i] = p]
              /\ proc' = [proc EXCEPT ![p].at = "listen", ![p].ino = i]
       ELSE Goto(p, "stat") /\ UNCHANGED <<fs, owner>>
    /\ UNCHANGED <<accepting, lock, tcp, users, failed, starts>>
    /\ Meet

(* ... and listen; std does both in one call, the kernel does not. *)
Listen(p) ==
    /\ At(p, "listen")
    /\ accepting' = accepting \cup {proc[p].ino}
    /\ Goto(p, "own")
    /\ UNCHANGED <<fs, owner, lock, tcp, users, failed, starts>>
    /\ Meet

(* OwnedSocketPath::new takes the inode that it finds at the path. *)
Own(p) ==
    /\ At(p, "own")
    /\ IF Found(p) \in Inodes
       THEN proc' = [proc EXCEPT ![p].guard = Found(p), ![p].at = "tcp"]
       ELSE Goto(p, "fail")
    /\ UNCHANGED <<os, users, failed, starts>>
    /\ Meet

(* bind_tcp_listener *)
BindTcp(p) ==
    /\ At(p, "tcp")
    /\ IF ~proc[p].tcp THEN Goto(p, "open") /\ UNCHANGED tcp
       ELSE IF tcp = None THEN Goto(p, "open") /\ tcp' = p
       ELSE Goto(p, "undo") /\ UNCHANGED tcp
    /\ UNCHANGED <<fs, owner, accepting, lock, users, failed, starts>>
    /\ Meet

(* Store::open and the key file, which may fail; the application's control *)
(* channel is watched from now on.                                         *)
Open(p) ==
    /\ At(p, "open")
    /\ \/ Goto(p, "undo")
       \/ proc' = [proc EXCEPT ![p].at = "running",
                       ![p].control = IF proc[p].app THEN "watched" ELSE "none"]
    /\ UNCHANGED <<os, users, failed, starts>>
    /\ Meet

-----------------------------------------------------------------------------
(* The end of a process. *)

StillOwns(p) == proc[p].guard # None /\ Found(p) = proc[p].guard

(* The kernel closes what is left, and the slot is free. *)
Gone(p) ==
    /\ proc' = [proc EXCEPT ![p] = Off]
    /\ owner' = [i \in Inodes |-> IF owner[i] = p THEN None ELSE owner[i]]
    /\ accepting' = {i \in accepting : owner[i] # p}
    /\ lock' = [c \in Canons |-> IF lock[c] = p THEN None ELSE lock[c]]
    /\ tcp' = IF tcp = p THEN None ELSE tcp

(* new fails with a socket: its guard is dropped before listener and lock. *)
UndoCheck(p) ==
    /\ At(p, "undo")
    /\ Goto(p, IF StillOwns(p) THEN "unbind" ELSE "fail")
    /\ UNCHANGED <<os, users, failed, starts>>
    /\ Meet

Unlink(p, next) ==
    /\ fs' = [fs EXCEPT ![proc[p].path] = None]
    /\ Goto(p, next)
    /\ UNCHANGED <<owner, accepting, lock, tcp, users, failed, starts>>
    /\ Meet

UndoUnlink(p) == At(p, "unbind") /\ Unlink(p, "fail")

Fail(p) ==
    /\ At(p, "fail")
    /\ Gone(p)
    /\ UNCHANGED <<fs, users, failed, starts>>
    /\ Meet

(* A signal, or a command of the application, ends run; its tasks go on. *)
Stop(p) ==
    /\ At(p, "running")
    /\ Goto(p, "unlock")
    /\ UNCHANGED <<os, users, failed, starts>>
    /\ Meet

(* An accept loop fails, which drops its listener and ends run. *)
AcceptFails(p) ==
    /\ At(p, "running")
    /\ \/ /\ accepting' = accepting \ {proc[p].ino}
          /\ owner' = [i \in Inodes |-> IF owner[i] = p THEN None ELSE owner[i]]
          /\ failed' = failed \cup {proc[p].path}
          /\ UNCHANGED tcp
       \/ /\ tcp = p /\ tcp' = None
          /\ UNCHANGED <<owner, accepting, failed>>
    /\ Goto(p, "unlock")
    /\ UNCHANGED <<fs, lock, users, starts>>
    /\ Meet

(* CowchatServer is dropped: first the instance lock, ... *)
DropLock(p) ==
    /\ At(p, "unlock")
    /\ lock' = [c \in Canons |-> IF lock[c] = p THEN None ELSE lock[c]]
    /\ Goto(p, "guard")
    /\ UNCHANGED <<fs, owner, accepting, tcp, users, failed, starts>>
    /\ Meet

(* ... then OwnedSocketPath, which looks ... *)
DropGuard(p) ==
    /\ At(p, "guard")
    /\ Goto(p, IF StillOwns(p) THEN "unlink" ELSE "drain")
    /\ UNCHANGED <<os, users, failed, starts>>
    /\ Meet

(* ... and removes. *)
DropUnlink(p) == At(p, "unlink") /\ Unlink(p, "drain")

(* The runtime ends the tasks that are left, and the process exits. *)
Exit(p) ==
    /\ At(p, "drain")
    /\ Gone(p)
    /\ UNCHANGED <<fs, users, failed, starts>>
    /\ Meet

(* A crash, kill or loss of power; the files stay. *)
Die(p) == proc[p] # Off /\ Gone(p) /\ UNCHANGED <<fs, users, failed, starts>> /\ Meet

-----------------------------------------------------------------------------
(* monitor_app_control *)

(* The application goes away: its end of the channel is closed. *)
AppGone(p) ==
    /\ proc[p].control = "watched"
    /\ proc' = [proc EXCEPT ![p].control = "closed"]
    /\ UNCHANGED <<os, users, failed, starts>>
    /\ Meet

(* Mutant: a shutdown that was asked for is not enforced. *)
ControlEofOnly(p) ==
    /\ proc[p].control = "closed"
    /\ proc' = [proc EXCEPT ![p].control = "done", ![p].at =
                   IF At(p, "running") THEN "unlock" ELSE @]
    /\ UNCHANGED <<os, users, failed, starts>>
    /\ Meet

(* End of file: Terminate, which run's caller acts on, ... *)
ControlEof(p) ==
    /\ proc[p].control = "closed"
    /\ proc' = [proc EXCEPT ![p].control = "grace", ![p].at =
                   IF At(p, "running") THEN "unlock" ELSE @]
    /\ UNCHANGED <<os, users, failed, starts>>
    /\ Meet

(* ... and a second later Kill. *)
ControlKill(p) == proc[p].control = "grace" /\ Die(p)

-----------------------------------------------------------------------------
Begin(p) ==
    \/ CheckLinks(p) \/ Lock(p) \/ Stat(p) \/ Connect(p) \/ Restat(p)
    \/ Remove(p) \/ Bind(p) \/ Listen(p) \/ Own(p) \/ BindTcp(p) \/ Open(p)

End(p) ==
    \/ UndoCheck(p) \/ UndoUnlink(p) \/ Fail(p)
    \/ DropLock(p) \/ DropGuard(p) \/ DropUnlink(p) \/ Exit(p)

Control(p) == ControlEof(p) \/ ControlKill(p)

Next ==
    \E p \in Servers :
        \/ \E n \in Names, q \in Paths, w \in BOOLEAN, b \in BOOLEAN :
               Start(p, n, q, w, b)
        \/ Begin(p) \/ End(p) \/ Control(p)
        \/ Stop(p) \/ AcceptFails(p) \/ AppGone(p) \/ Die(p)

(* The control thread runs, and sleep returns; nothing is assumed of the   *)
(* threads that are to stop.                                               *)
Fairness == \A p \in Servers : WF_vars(Control(p))

Spec == Init /\ [][Next]_vars /\ Fairness

-----------------------------------------------------------------------------
InUse(p) == proc[p].at \in {"running"} \cup Dropping

(* Two processes have one database open only while all of them but one     *)
(* are on their way out, whatever name they were given for it ("Lock the   *)
(* canonical database identity before touching SQLite", server.rs:341).    *)
OneServerPerDatabase ==
    \A p, q \in Servers :
        p # q /\ At(p, "running") /\ InUse(q)
              /\ File[proc[p].db] = File[proc[q].db] => proc[q].at \in Dropping

(* A server that runs can be reached at its socket: starts that fail,      *)
(* stops, crashes and the files they leave never take it away, if only one *)
(* database's servers use the path and none of their accept loops failed   *)
(* (server.rs:264, 166: looked at and removed in two steps).               *)
RunningIsReachable ==
    \A p \in Servers :
        /\ At(p, "running") /\ users[proc[p].path] = {proc[p].db}
        /\ proc[p].path \notin failed
        => Found(p) = proc[p].ino /\ proc[p].ino \in accepting

(* A start that does not reach its database fails only if another process  *)
(* was in its way meanwhile, or the path or the database is refused: what  *)
(* a crash leaves is never in the way (server.rs:300).                     *)
FailsOnlyForCause ==
    [][\A p \in Servers :
        proc[p].at \in Starting \ {"open"} /\ proc'[p].at \in Undoing
            => rivals[p]]_vars

(* A server whose application is gone ends, also if its shutdown hangs. *)
OrphansEnd == \A p \in Servers : proc[p].control = "closed" ~> proc[p] = Off
=============================================================================
