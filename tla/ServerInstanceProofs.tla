------------------------ MODULE ServerInstanceProofs ------------------------
(***************************************************************************)
(* Proofs about servers beside each other, for any number of processes,    *)
(* database names and links, socket paths and inodes.                      *)
(***************************************************************************)
EXTENDS ServerInstance, FiniteSetTheorems, TLAPS

(* A process that has got as far as the lock saw no other link.            *)
OneLink ==
    \A p \in Servers : At(p, "lock") \/ proc[p].at \in Holding =>
        ~(Cardinality(Links(proc[p].db)) > 1)

IInv == TypeOK /\ OneLink

(* Two names of one file are one name, if it has one link. *)
LEMMA OneName ==
    ASSUME NEW c \in Canons, NEW d \in Canons, File[c] = File[d],
           ~(Cardinality(Links(c)) > 1)
    PROVE  c = d
<1> USE InstanceAssumption DEF Canons
<1>1. IsFiniteSet(Links(c)) /\ {c, d} \subseteq Links(c)
  BY FS_Subset DEF Links
<1>2. SUFFICES ASSUME c # d PROVE FALSE
  OBVIOUS
<1>3. Cardinality({c, d}) = 2
  <2>1. IsFiniteSet({d}) /\ Cardinality({d}) = 1
    BY FS_Singleton
  <2>2. Cardinality({d} \cup {c}) = Cardinality({d}) + 1
    BY <2>1, <1>2, FS_AddElement
  <2>3. {d} \cup {c} = {c, d}
    OBVIOUS
  <2> QED BY <2>1, <2>2, <2>3
<1>4. Cardinality({c, d}) <= Cardinality(Links(c)) /\ Cardinality(Links(c)) \in Nat
  BY <1>1, FS_Subset, FS_CardinalityType
<1> QED BY <1>3, <1>4

-----------------------------------------------------------------------------
LEMMA InitInv == Init => IInv
<1> USE InstanceAssumption
<1> QED BY DEF Init, IInv, TypeOK, OneLink, Off, Procs, PCs, Holding, Unbound, Bound,
        Starting, Undoing, Dropping, At, Canons

(* Meet only changes the history of who met whom. *)
LEMMA MeetType ==
    ASSUME rivals \in [Servers -> BOOLEAN], Meet
    PROVE  rivals' \in [Servers -> BOOLEAN]
<1>1. ASSUME NEW p \in Servers
      PROVE  (IF proc'[p] = Off THEN FALSE ELSE rivals[p] \/ InTheWay(p)') \in BOOLEAN
  <2>1. InTheWay(p)' \in BOOLEAN
    BY DEF InTheWay
  <2> QED BY <2>1
<1> QED BY <1>1 DEF Meet

(* What the rest of the state has to be for a process to be r. *)
Fits(p, r, l, o) ==
    /\ r.at # "off" => r.db # None /\ r.path # None
    /\ \A c \in Canons : l[c] = p => r.db = c /\ r.at \notin {"off", "link", "lock"}
    /\ r.at \in Holding => l[r.db] = p
    /\ \A i \in Inodes : o[i] = p => r.ino = i
    /\ r.at \in Unbound => r.ino = None
    /\ r.at \in Bound => r.ino # None /\ o[r.ino] = p
    /\ r.guard # None => r.ino # None
    /\ r.at = "lock" \/ r.at \in Holding => ~(Cardinality(Links(r.db)) > 1)

LEMMA IInvFits ==
    IInv => proc \in [Servers -> Procs] /\ \A p \in Servers : Fits(p, proc[p], lock, owner)
BY DEF IInv, TypeOK, OneLink, Fits, At

(* A step of one process keeps the invariant if it fits afterwards, and    *)
(* takes no lock and no inode from the others.                             *)
LEMMA OneMoves ==
    ASSUME IInv, NEW p \in Servers, NEW r \in Procs,
           proc' = [proc EXCEPT ![p] = r], Fits(p, r, lock', owner'), Meet,
           fs' \in [Paths -> Inodes \cup {None, Alien}],
           owner' \in [Inodes -> Servers \cup {None}],
           lock' \in [Canons -> Servers \cup {None}],
           accepting' \subseteq {i \in Inodes : owner'[i] # None},
           \A q \in Servers \ {p} :
               /\ \A c \in Canons : lock'[c] = q <=> lock[c] = q
               /\ \A i \in Inodes : owner'[i] = q <=> owner[i] = q,
           tcp' \in Servers \cup {None},
           users' \in [Paths -> SUBSET Canons],
           failed' \subseteq Paths, starts' \in 0..MaxStarts
    PROVE  IInv'
<1>1. /\ proc \in [Servers -> Procs]
      /\ \A q \in Servers : Fits(q, proc[q], lock, owner)
  BY IInvFits
<1>2. proc' \in [Servers -> Procs]
  BY <1>1
<1>3. ASSUME NEW q \in Servers PROVE Fits(q, proc'[q], lock', owner')
  <2>1. CASE q = p
    BY <1>1, <2>1
  <2>2. CASE q # p
    <3>1. proc'[q] = proc[q] /\ proc[q] \in Procs
      BY <1>1, <2>2
    <3>2. Fits(q, proc[q], lock, owner)
      BY <1>1
    <3>3. /\ proc[q].at \in Holding => proc[q].db \in Canons
          /\ proc[q].at \in Bound => proc[q].ino \in Inodes
      BY <3>1, <3>2 DEF Fits, Procs, Holding, Starting, Bound
    <3> QED BY <2>2, <3>1, <3>2, <3>3 DEF Fits
  <2> QED BY <2>1, <2>2
<1>4. rivals' \in [Servers -> BOOLEAN]
  BY MeetType DEF IInv, TypeOK
<1>5. TypeOK'
  BY <1>2, <1>3, <1>4 DEF TypeOK, Fits
<1>6. OneLink'
  BY <1>3 DEF OneLink, Fits, At
<1> QED BY <1>5, <1>6 DEF IInv

(* A process that moves on, with the locks and inodes it had, to a place   *)
(* which asks no more of it.                                               *)
LEMMA KeepStep ==
    ASSUME IInv, NEW p \in Servers, NEW r \in Procs, proc' = [proc EXCEPT ![p] = r],
           r.db = proc[p].db, r.path = proc[p].path, r.ino = proc[p].ino,
           r.guard # None => r.ino # None,
           r.at \notin {"off", "link", "lock"}, proc[p].at # "off",
           r.at \in Holding => proc[p].at \in Holding,
           r.at \in Unbound => proc[p].at \in Unbound,
           r.at \in Bound => proc[p].at \in Bound,
           Meet, fs' \in [Paths -> Inodes \cup {None, Alien}],
           accepting' \subseteq {i \in Inodes : owner[i] # None},
           tcp' \in Servers \cup {None},
           UNCHANGED <<owner, lock, users, failed, starts>>
    PROVE  IInv'
<1>1. Fits(p, proc[p], lock, owner)
  BY IInvFits
<1>2. Fits(p, r, lock, owner)
  BY <1>1 DEF Fits
<1> QED BY <1>2, OneMoves DEF IInv, TypeOK

LEMMA GotoStep ==
    ASSUME IInv, NEW p \in Servers, NEW s \in PCs, Goto(p, s), Meet,
           UNCHANGED <<owner, lock, users, failed, starts>>,
           accepting' \subseteq {i \in Inodes : owner[i] # None},
           fs' \in [Paths -> Inodes \cup {None, Alien}],
           tcp' \in Servers \cup {None},
           s \notin {"off", "link", "lock"}, proc[p].at # "off",
           s \in Holding => proc[p].at \in Holding,
           s \in Unbound => proc[p].at \in Unbound,
           s \in Bound => proc[p].at \in Bound
    PROVE  IInv'
<1> DEFINE r == [proc[p] EXCEPT !.at = s]
<1>1. proc[p] \in Procs /\ Fits(p, proc[p], lock, owner) /\ proc' = [proc EXCEPT ![p] = r]
  BY IInvFits DEF Goto
<1>2. /\ r \in Procs /\ r.at = s /\ r.db = proc[p].db /\ r.path = proc[p].path
      /\ r.ino = proc[p].ino /\ r.guard = proc[p].guard
  BY <1>1 DEF Procs
<1>3. r.guard # None => r.ino # None
  BY <1>1, <1>2 DEF Fits
<1> HIDE DEF r
<1> QED BY <1>1, <1>2, <1>3, KeepStep DEF IInv, TypeOK

(* The end of a process takes nothing from the others. *)
LEMMA GoneStep ==
    ASSUME IInv, NEW p \in Servers, Gone(p), Meet,
           fs' \in [Paths -> Inodes \cup {None, Alien}],
           UNCHANGED <<users, failed, starts>>
    PROVE  IInv'
<1> USE InstanceAssumption
<1>1. Off \in Procs /\ Fits(p, Off, lock', owner')
  BY DEF Off, Procs, Fits, PCs, Holding, Unbound, Bound, Starting, Gone, IInv, TypeOK, Canons
<1>2. proc' = [proc EXCEPT ![p] = Off]
  BY DEF Gone
<1>3. /\ owner' \in [Inodes -> Servers \cup {None}]
      /\ lock' \in [Canons -> Servers \cup {None}]
      /\ accepting' \subseteq {i \in Inodes : owner'[i] # None}
      /\ tcp' \in Servers \cup {None}
  BY DEF Gone, IInv, TypeOK
<1>4. \A q \in Servers \ {p} :
         /\ \A c \in Canons : lock'[c] = q <=> lock[c] = q
         /\ \A i \in Inodes : owner'[i] = q <=> owner[i] = q
  BY DEF Gone, IInv, TypeOK
<1> QED BY <1>1, <1>2, <1>3, <1>4, OneMoves DEF IInv, TypeOK

-----------------------------------------------------------------------------
(* The steps of a start. *)

LEMMA StartInv ==
    ASSUME IInv, NEW p \in Servers, NEW n \in Names, NEW path \in Paths,
           NEW w \in BOOLEAN, NEW b \in BOOLEAN, Start(p, n, path, w, b)
    PROVE  IInv'
<1> USE InstanceAssumption
<1> DEFINE r == [Off EXCEPT !.at = "link", !.db = Canonical(n), !.path = path,
                            !.tcp = w, !.app = b]
<1>1. r \in Procs /\ proc' = [proc EXCEPT ![p] = r] /\ proc[p] = Off
  BY DEF Start, Off, Procs, PCs, Starting, Canonical, Canons
<1>2. \A c \in Canons : lock[c] # p
  BY <1>1, IInvFits DEF Fits, Off
<1>3. \A i \in Inodes : owner[i] # p
  BY <1>1, IInvFits DEF Fits, Off
<1>4. Fits(p, r, lock, owner)
  BY <1>2, <1>3 DEF Fits, Off, Holding, Starting, Bound, Canonical, Canons
<1>5. starts' \in 0..MaxStarts
  BY DEF Start, IInv, TypeOK
<1> HIDE DEF r
<1> QED BY <1>1, <1>4, <1>5, OneMoves DEF Start, os, IInv, TypeOK

LEMMA CheckLinksInv ==
    ASSUME IInv, NEW p \in Servers, CheckLinks(p)
    PROVE  IInv'
<1> DEFINE s == IF Cardinality(Links(proc[p].db)) > 1 THEN "fail" ELSE "lock"
           r == [proc[p] EXCEPT !.at = s]
<1>1. /\ proc[p] \in Procs /\ Fits(p, proc[p], lock, owner)
      /\ proc' = [proc EXCEPT ![p] = r]
  BY IInvFits DEF CheckLinks, Goto
<1>2. s \in {"fail", "lock"} /\ (s = "lock" => ~(Cardinality(Links(proc[p].db)) > 1))
  OBVIOUS
<1> HIDE DEF s
<1>3. r \in Procs /\ r.db = proc[p].db /\ r.at = s
  BY <1>1, <1>2 DEF Procs, PCs, Starting, Undoing
<1>4. Fits(p, r, lock, owner)
  BY <1>1, <1>2, <1>3 DEF Fits, CheckLinks, At, Holding, Starting, Unbound, Bound, Procs
<1> HIDE DEF r
<1> QED BY <1>1, <1>3, <1>4, OneMoves DEF CheckLinks, os, IInv, TypeOK

LEMMA LockInv ==
    ASSUME IInv, NEW p \in Servers, Lock(p)
    PROVE  IInv'
<1> USE InstanceAssumption
<1>1. CASE lock[proc[p].db] = None
  <2> DEFINE r == [proc[p] EXCEPT !.at = "stat"]
  <2>1. /\ proc[p] \in Procs /\ Fits(p, proc[p], lock, owner)
        /\ proc' = [proc EXCEPT ![p] = r]
    BY <1>1, IInvFits DEF Lock, Goto
  <2>2. proc[p].db \in Canons
    BY <2>1 DEF Fits, Procs, Lock, At
  <2>3. lock' = [lock EXCEPT ![proc[p].db] = p] /\ lock \in [Canons -> Servers \cup {None}]
    BY <1>1 DEF Lock, IInv, TypeOK
  <2>4. r \in Procs /\ r.db = proc[p].db /\ r.at = "stat" /\ r.path = proc[p].path
        /\ r.ino = proc[p].ino /\ r.guard = proc[p].guard
    BY <2>1 DEF Procs, PCs, Starting
  <2>5. \A c \in Canons : lock[c] # p
    BY <2>1 DEF Fits, Lock, At
  <2>6. Fits(p, r, lock', owner')
    BY <2>1, <2>2, <2>3, <2>4, <2>5 DEF Fits, Lock, At, Holding, Starting, Unbound, Bound
  <2>7. \A q \in Servers \ {p} : \A c \in Canons : lock'[c] = q <=> lock[c] = q
    BY <1>1, <2>2, <2>3
  <2>8. lock' \in [Canons -> Servers \cup {None}]
    BY <2>2, <2>3
  <2>9. users' \in [Paths -> SUBSET Canons]
    BY <1>1, <2>2 DEF Lock, IInv, TypeOK
  <2> HIDE DEF r
  <2>10. Meet /\ UNCHANGED <<fs, owner, accepting, tcp, failed, starts>>
    BY DEF Lock
  <2>11. /\ fs' \in [Paths -> Inodes \cup {None, Alien}]
         /\ owner' \in [Inodes -> Servers \cup {None}]
         /\ accepting' \subseteq {i \in Inodes : owner'[i] # None}
         /\ tcp' \in Servers \cup {None} /\ failed' \subseteq Paths
         /\ starts' \in 0..MaxStarts
    BY <2>10 DEF IInv, TypeOK
  <2>12. \A q \in Servers \ {p} :
            /\ \A c \in Canons : lock'[c] = q <=> lock[c] = q
            /\ \A i \in Inodes : owner'[i] = q <=> owner[i] = q
    BY <2>7, <2>10
  <2> QED BY <2>1, <2>4, <2>6, <2>8, <2>9, <2>10, <2>11, <2>12, OneMoves
<1>2. CASE lock[proc[p].db] # None
  BY <1>2, GotoStep DEF Lock, At, PCs, Undoing, Holding, Starting, Unbound, Bound, IInv, TypeOK
<1> QED BY <1>1, <1>2

LEMMA SocketInv ==
    ASSUME IInv, NEW p \in Servers,
           Stat(p) \/ Connect(p) \/ Restat(p) \/ Remove(p)
    PROVE  IInv'
<1> USE InstanceAssumption
<1>0. fs \in [Paths -> Inodes \cup {None, Alien}] /\ proc[p] \in Procs
  BY DEF IInv, TypeOK
<1>1. CASE Stat(p)
  <2>1. proc[p].at = "stat" /\ Fits(p, proc[p], lock, owner)
    BY <1>1, IInvFits DEF Stat, At
  <2>2. Found(p) \in Inodes \cup {None, Alien}
    BY <1>0, <2>1 DEF Found, Fits, Procs
  <2>3. PICK s \in {"bind", "fail", "connect"}, f \in Inodes \cup {None, Alien} :
          proc' = [proc EXCEPT ![p].seen = f, ![p].at = s]
    BY <1>1, <2>2 DEF Stat
  <2> DEFINE r == [proc[p] EXCEPT !.seen = f, !.at = s]
  <2>8. s \in PCs
    BY DEF PCs, Starting, Undoing
  <2>4. /\ r \in Procs /\ r.at = s /\ r.db = proc[p].db /\ r.path = proc[p].path
        /\ r.ino = proc[p].ino /\ r.guard = proc[p].guard
    BY <1>0, <2>8 DEF Procs
  <2>5. proc' = [proc EXCEPT ![p] = r]
    BY <2>3
  <2>6. r.guard # None => r.ino # None
    BY <2>1, <2>4 DEF Fits
  <2> HIDE DEF r
  <2>7. Meet /\ UNCHANGED <<fs, owner, accepting, lock, tcp, users, failed, starts>>
    BY <1>1 DEF Stat, os
  <2> QED BY <2>1, <2>4, <2>5, <2>6, <2>7, KeepStep
          DEF Holding, Starting, Unbound, Bound, IInv, TypeOK
<1>2. CASE Connect(p)
  <2>1. \E t \in {"fail", "restat"} : Goto(p, t)
    BY <1>2 DEF Connect
  <2> QED BY <1>2, <2>1, GotoStep DEF Connect, At, os, PCs, Undoing, Holding, Starting,
          Unbound, Bound, IInv, TypeOK
<1>3. CASE Restat(p)
  <2>1. \E t \in {"stat", "remove"} : Goto(p, t)
    BY <1>3 DEF Restat
  <2> QED BY <1>3, <2>1, GotoStep DEF Restat, At, os, PCs, Holding, Starting,
          Unbound, Bound, IInv, TypeOK
<1>4. CASE Remove(p)
  <2>1. \E t \in {"fail", "bind"} : Goto(p, t)
    BY <1>4 DEF Remove
  <2>2. fs' \in [Paths -> Inodes \cup {None, Alien}]
    BY <1>0, <1>4 DEF Remove
  <2> QED BY <1>4, <2>1, <2>2, GotoStep DEF Remove, At, PCs, Undoing, Holding, Starting,
          Unbound, Bound, IInv, TypeOK
<1> QED BY <1>1, <1>2, <1>3, <1>4

LEMMA BindInv ==
    ASSUME IInv, NEW p \in Servers, Bind(p)
    PROVE  IInv'
<1> USE InstanceAssumption
<1>0. /\ fs \in [Paths -> Inodes \cup {None, Alien}] /\ proc[p] \in Procs
      /\ owner \in [Inodes -> Servers \cup {None}]
      /\ proc[p].at = "bind" /\ Fits(p, proc[p], lock, owner)
  BY IInvFits DEF IInv, TypeOK, Bind, At
<1>1. CASE Found(p) = None
  <2>1. PICK i \in Inodes :
          /\ Free(i)
          /\ fs' = [fs EXCEPT ![proc[p].path] = i]
          /\ owner' = [owner EXCEPT ![i] = p]
          /\ proc' = [proc EXCEPT ![p].at = "listen", ![p].ino = i]
    BY <1>1 DEF Bind
  <2> DEFINE r == [proc[p] EXCEPT !.at = "listen", !.ino = i]
  <2>2. proc' = [proc EXCEPT ![p] = r]
    BY <2>1
  <2>3. /\ r \in Procs /\ r.at = "listen" /\ r.db = proc[p].db
        /\ r.path = proc[p].path /\ r.ino = i /\ r.guard = proc[p].guard
    BY <1>0 DEF Procs, PCs, Starting
  <2> HIDE DEF r
  <2>4. \A j \in Inodes : owner[j] # p
    BY <1>0 DEF Fits, Unbound
  <2>5. fs' \in [Paths -> Inodes \cup {None, Alien}]
    BY <1>0, <2>1
  <2>6. /\ owner' \in [Inodes -> Servers \cup {None}]
        /\ owner'[i] = p /\ \A j \in Inodes : owner'[j] = p => j = i
        /\ \A j \in Inodes : owner[j] # None => owner'[j] # None
        /\ \A q \in Servers \ {p} : \A j \in Inodes : owner'[j] = q <=> owner[j] = q
    BY <1>0, <2>1, <2>4 DEF Free
  <2>7. UNCHANGED <<accepting, lock, tcp, users, failed, starts>> /\ Meet
    BY DEF Bind
  <2>8. Fits(p, r, lock', owner')
    BY <1>0, <2>3, <2>6, <2>7 DEF Fits, Holding, Starting, Unbound, Bound
  <2>9. accepting' \subseteq {j \in Inodes : owner'[j] # None}
    BY <2>6, <2>7 DEF IInv, TypeOK
  <2>10. /\ lock' \in [Canons -> Servers \cup {None}] /\ lock' = lock
         /\ tcp' \in Servers \cup {None} /\ users' \in [Paths -> SUBSET Canons]
         /\ failed' \subseteq Paths /\ starts' \in 0..MaxStarts
    BY <2>7 DEF IInv, TypeOK
  <2>11. \A q \in Servers \ {p} :
            /\ \A c \in Canons : lock'[c] = q <=> lock[c] = q
            /\ \A j \in Inodes : owner'[j] = q <=> owner[j] = q
    BY <2>6, <2>7
  <2> QED BY <2>2, <2>3, <2>5, <2>6, <2>7, <2>8, <2>9, <2>10, <2>11, OneMoves
<1>2. CASE Found(p) # None
  BY <1>0, <1>2, GotoStep DEF Bind, PCs, Holding, Starting, Unbound, Bound, IInv, TypeOK
<1> QED BY <1>1, <1>2

LEMMA ListenInv ==
    ASSUME IInv, NEW p \in Servers, Listen(p) \/ Own(p) \/ BindTcp(p) \/ Open(p)
    PROVE  IInv'
<1> USE InstanceAssumption
<1>0. proc[p] \in Procs /\ Fits(p, proc[p], lock, owner)
  BY IInvFits
<1>1. CASE Listen(p)
  <2>1. owner[proc[p].ino] # None /\ proc[p].ino \in Inodes
    BY <1>0, <1>1, InstanceAssumption DEF Listen, At, Fits, Bound, Procs
  <2>2. accepting' \subseteq {i \in Inodes : owner[i] # None}
    BY <1>1, <2>1 DEF Listen, IInv, TypeOK
  <2> QED BY <1>1, <2>2, GotoStep DEF Listen, At, PCs, Holding, Starting, Unbound, Bound,
          IInv, TypeOK
<1>2. CASE Own(p)
  <2>1. CASE Found(p) \in Inodes
    <3> DEFINE r == [proc[p] EXCEPT !.guard = Found(p), !.at = "tcp"]
    <3>1. proc' = [proc EXCEPT ![p] = r] /\ proc[p].at = "own"
      BY <1>2, <2>1 DEF Own, At
    <3>2. "tcp" \in PCs
      BY DEF PCs, Starting
    <3>3. /\ r \in Procs /\ r.at = "tcp" /\ r.db = proc[p].db /\ r.path = proc[p].path
          /\ r.ino = proc[p].ino
      BY <1>0, <2>1, <3>2 DEF Procs
    <3> HIDE DEF r
    <3>4. Meet /\ UNCHANGED <<fs, owner, accepting, lock, tcp, users, failed, starts>>
      BY <1>2 DEF Own, os
    <3>5. proc[p].ino # None
      BY <1>0, <3>1 DEF Fits, Bound
    <3> QED BY <3>1, <3>3, <3>4, <3>5, KeepStep
            DEF Holding, Starting, Unbound, Bound, IInv, TypeOK
  <2>2. CASE Found(p) \notin Inodes
    BY <1>2, <2>2, GotoStep DEF Own, At, os, PCs, Undoing, Holding, Starting, Unbound, Bound,
       IInv, TypeOK
  <2> QED BY <2>1, <2>2
<1>3. CASE BindTcp(p)
  <2>1. /\ \E t \in {"open", "undo"} : Goto(p, t)
        /\ tcp' \in Servers \cup {None}
    BY <1>3 DEF BindTcp, IInv, TypeOK
  <2> QED BY <1>3, <2>1, GotoStep DEF BindTcp, At, PCs, Undoing, Holding, Starting,
          Unbound, Bound, IInv, TypeOK
<1>4. CASE Open(p)
  <2>1. CASE Goto(p, "undo")
    BY <1>4, <2>1, GotoStep DEF Open, At, os, PCs, Undoing, Holding, Starting, Unbound, Bound,
       IInv, TypeOK
  <2>2. CASE ~Goto(p, "undo")
    <3>1. PICK x \in {"watched", "none"} :
            proc' = [proc EXCEPT ![p].at = "running", ![p].control = x]
      BY <1>4, <2>2 DEF Open
    <3> DEFINE r == [proc[p] EXCEPT !.at = "running", !.control = x]
    <3>2. "running" \in PCs
      BY DEF PCs
    <3>3. /\ r \in Procs /\ r.at = "running" /\ r.db = proc[p].db
          /\ r.path = proc[p].path /\ r.ino = proc[p].ino /\ r.guard = proc[p].guard
      BY <1>0, <3>2 DEF Procs
    <3>4. proc' = [proc EXCEPT ![p] = r]
      BY <3>1
    <3>5. r.guard # None => r.ino # None
      BY <1>0, <3>3 DEF Fits
    <3> HIDE DEF r
    <3>6. /\ Meet /\ UNCHANGED <<fs, owner, accepting, lock, tcp, users, failed, starts>>
          /\ proc[p].at = "open"
      BY <1>4 DEF Open, os, At
    <3> QED BY <3>3, <3>4, <3>5, <3>6, KeepStep
            DEF Holding, Starting, Unbound, Bound, IInv, TypeOK
  <2> QED BY <2>1, <2>2
<1> QED BY <1>1, <1>2, <1>3, <1>4

LEMMA BeginInv ==
    ASSUME IInv, NEW p \in Servers, Begin(p)
    PROVE  IInv'
BY CheckLinksInv, LockInv, SocketInv, BindInv, ListenInv DEF Begin

-----------------------------------------------------------------------------
(* The end of a process. *)

LEMMA UndoInv ==
    ASSUME IInv, NEW p \in Servers, UndoCheck(p) \/ UndoUnlink(p) \/ Fail(p)
    PROVE  IInv'
<1>1. CASE UndoCheck(p)
  <2>1. \E t \in {"unbind", "fail"} : Goto(p, t)
    BY <1>1 DEF UndoCheck
  <2> QED BY <1>1, <2>1, GotoStep DEF UndoCheck, At, os, PCs, Undoing, Holding,
          Starting, Unbound, Bound, IInv, TypeOK
<1>2. CASE UndoUnlink(p)
  <2>1. fs' \in [Paths -> Inodes \cup {None, Alien}]
    BY <1>2 DEF UndoUnlink, Unlink, IInv, TypeOK
  <2> QED BY <1>2, <2>1, GotoStep DEF UndoUnlink, Unlink, At, PCs, Undoing, Holding,
          Starting, Unbound, Bound, IInv, TypeOK
<1>3. CASE Fail(p)
  BY <1>3, GoneStep DEF Fail, IInv, TypeOK
<1> QED BY <1>1, <1>2, <1>3

LEMMA AcceptFailsInv ==
    ASSUME IInv, NEW p \in Servers, AcceptFails(p)
    PROVE  IInv'
<1> USE InstanceAssumption
<1> DEFINE r == [proc[p] EXCEPT !.at = "unlock"]
<1>1. /\ proc[p] \in Procs /\ Fits(p, proc[p], lock, owner)
      /\ proc' = [proc EXCEPT ![p] = r] /\ proc[p].at = "running"
  BY IInvFits DEF AcceptFails, Goto, At
<1>2. "unlock" \in PCs
  BY DEF PCs, Dropping
<1>3. /\ r \in Procs /\ r.at = "unlock" /\ r.db = proc[p].db /\ r.path = proc[p].path
      /\ r.ino = proc[p].ino /\ r.guard = proc[p].guard
  BY <1>1, <1>2 DEF Procs
<1> HIDE DEF r
<1>4. /\ owner \in [Inodes -> Servers \cup {None}]
      /\ accepting \subseteq {i \in Inodes : owner[i] # None}
      /\ proc[p].path \in Paths
  BY <1>1 DEF IInv, TypeOK, Fits, Procs
<1>5. /\ owner' \in [Inodes -> Servers \cup {None}]
      /\ \A i \in Inodes : owner'[i] = p => owner[i] = p
      /\ \A q \in Servers \ {p} : \A i \in Inodes : owner'[i] = q <=> owner[i] = q
  BY <1>4 DEF AcceptFails
<1>6. accepting' \subseteq {i \in Inodes : owner'[i] # None}
  <2>1. \A i \in Inodes : owner[i] = p => i = proc[p].ino
    BY <1>1 DEF Fits
  <2> QED BY <1>4, <2>1 DEF AcceptFails
<1>7. /\ fs' = fs /\ lock' = lock /\ users' = users /\ starts' = starts /\ Meet
      /\ failed' \subseteq Paths /\ tcp' \in Servers \cup {None}
  BY <1>4 DEF AcceptFails, IInv, TypeOK
<1>8. Fits(p, r, lock', owner')
  BY <1>1, <1>3, <1>5, <1>7 DEF Fits, Holding, Starting, Unbound, Bound
<1> QED BY <1>1, <1>3, <1>5, <1>6, <1>7, <1>8, OneMoves DEF IInv, TypeOK

LEMMA DropLockInv ==
    ASSUME IInv, NEW p \in Servers, DropLock(p)
    PROVE  IInv'
<1> USE InstanceAssumption
<1> DEFINE r == [proc[p] EXCEPT !.at = "guard"]
<1>1. /\ proc[p] \in Procs /\ Fits(p, proc[p], lock, owner)
      /\ proc' = [proc EXCEPT ![p] = r] /\ proc[p].at = "unlock"
  BY IInvFits DEF DropLock, Goto, At
<1>2. "guard" \in PCs
  BY DEF PCs, Dropping
<1>3. /\ r \in Procs /\ r.at = "guard" /\ r.db = proc[p].db /\ r.path = proc[p].path
      /\ r.ino = proc[p].ino /\ r.guard = proc[p].guard
  BY <1>1, <1>2 DEF Procs
<1> HIDE DEF r
<1>4. /\ lock' \in [Canons -> Servers \cup {None}]
      /\ \A q \in Servers \ {p} : \A c \in Canons : lock'[c] = q <=> lock[c] = q
      /\ \A c \in Canons : lock'[c] # p
  BY DEF DropLock, IInv, TypeOK
<1>5. Meet /\ UNCHANGED <<fs, owner, accepting, tcp, users, failed, starts>>
  BY DEF DropLock
<1>6. Fits(p, r, lock', owner')
  BY <1>1, <1>3, <1>4, <1>5 DEF Fits, Holding, Starting, Unbound, Bound
<1>7. /\ fs' \in [Paths -> Inodes \cup {None, Alien}]
      /\ owner' \in [Inodes -> Servers \cup {None}]
      /\ accepting' \subseteq {i \in Inodes : owner'[i] # None}
      /\ tcp' \in Servers \cup {None} /\ users' \in [Paths -> SUBSET Canons]
      /\ failed' \subseteq Paths /\ starts' \in 0..MaxStarts
  BY <1>5 DEF IInv, TypeOK
<1>8. \A q \in Servers \ {p} :
         /\ \A c \in Canons : lock'[c] = q <=> lock[c] = q
         /\ \A i \in Inodes : owner'[i] = q <=> owner[i] = q
  BY <1>4, <1>5
<1> QED BY <1>1, <1>3, <1>4, <1>5, <1>6, <1>7, <1>8, OneMoves

LEMMA EndInv ==
    ASSUME IInv, NEW p \in Servers, End(p)
    PROVE  IInv'
<1>1. CASE DropGuard(p)
  <2>1. \E t \in {"unlink", "drain"} : Goto(p, t)
    BY <1>1 DEF DropGuard
  <2> QED BY <1>1, <2>1, GotoStep DEF DropGuard, At, os, PCs, Dropping, Holding,
          Starting, Unbound, Bound, IInv, TypeOK
<1>2. CASE DropUnlink(p)
  <2>1. fs' \in [Paths -> Inodes \cup {None, Alien}]
    BY <1>2 DEF DropUnlink, Unlink, IInv, TypeOK
  <2> QED BY <1>2, <2>1, GotoStep DEF DropUnlink, Unlink, At, PCs, Dropping, Holding,
          Starting, Unbound, Bound, IInv, TypeOK
<1>3. CASE Exit(p)
  BY <1>3, GoneStep DEF Exit, IInv, TypeOK
<1> QED BY <1>1, <1>2, <1>3, UndoInv, DropLockInv DEF End

LEMMA DieInv ==
    ASSUME IInv, NEW p \in Servers, Die(p)
    PROVE  IInv'
BY GoneStep DEF Die, IInv, TypeOK

(* The control channel says nothing about locks and sockets. *)
LEMMA ControlInv ==
    ASSUME IInv, NEW p \in Servers, Control(p) \/ AppGone(p)
    PROVE  IInv'
<1>0. proc[p] \in Procs /\ Fits(p, proc[p], lock, owner)
  BY IInvFits
<1>1. ASSUME NEW a \in {proc[p].at, "unlock"}, NEW x \in {"closed", "grace"},
             proc' = [proc EXCEPT ![p].control = x, ![p].at = a],
             a = "unlock" => proc[p].at # "off",
             UNCHANGED os, UNCHANGED <<users, failed, starts>>, Meet
      PROVE  IInv'
  <2> DEFINE r == [proc[p] EXCEPT !.control = x, !.at = a]
  <2>1. a \in PCs
    BY <1>0 DEF PCs, Dropping, Procs
  <2>2. /\ r \in Procs /\ r.at = a /\ r.db = proc[p].db /\ r.path = proc[p].path
        /\ r.ino = proc[p].ino /\ r.guard = proc[p].guard
    BY <1>0, <2>1 DEF Procs
  <2>3. proc' = [proc EXCEPT ![p] = r]
    BY <1>1
  <2> HIDE DEF r
  <2>4. Fits(p, r, lock, owner)
    BY <1>0, <1>1, <2>2 DEF Fits, Holding, Starting, Unbound, Bound
  <2>5. UNCHANGED <<fs, owner, accepting, lock, tcp, users, failed, starts>> /\ Meet
    BY <1>1 DEF os
  <2> QED BY <2>2, <2>3, <2>4, <2>5, OneMoves DEF IInv, TypeOK
<1>2. CASE AppGone(p)
  <2>1. proc \in [Servers -> Procs]
    BY DEF IInv, TypeOK
  <2>2. proc' = [proc EXCEPT ![p] = [proc[p] EXCEPT !.control = "closed"]]
    BY <1>2 DEF AppGone
  <2>3. [proc[p] EXCEPT !.control = "closed"]
            = [proc[p] EXCEPT !.control = "closed", !.at = proc[p].at]
    BY <1>0 DEF Procs
  <2>4. proc' = [proc EXCEPT ![p].control = "closed", ![p].at = proc[p].at]
    BY <2>1, <2>2, <2>3
  <2> QED BY <1>1, <1>2, <2>4 DEF AppGone
<1>3. CASE ControlEof(p)
  <2>1. PICK a \in {proc[p].at, "unlock"} :
          /\ proc' = [proc EXCEPT ![p].control = "grace", ![p].at = a]
          /\ a = "unlock" => proc[p].at # "off"
    BY <1>3 DEF ControlEof, At
  <2> QED BY <1>1, <1>3, <2>1 DEF ControlEof
<1>4. CASE ControlKill(p)
  BY <1>4, DieInv DEF ControlKill
<1> QED BY <1>2, <1>3, <1>4 DEF Control

-----------------------------------------------------------------------------
LEMMA StepInv == IInv /\ [Next]_vars => IInv'
<1> SUFFICES ASSUME IInv, [Next]_vars PROVE IInv'
  OBVIOUS
<1>1. CASE UNCHANGED vars
  BY <1>1 DEF vars, os, history, IInv, TypeOK, OneLink, At
<1>2. CASE Next
  <2>1. PICK p \in Servers :
          \/ \E n \in Names, q \in Paths, w \in BOOLEAN, b \in BOOLEAN :
                 Start(p, n, q, w, b)
          \/ Begin(p) \/ End(p) \/ Control(p)
          \/ Stop(p) \/ AcceptFails(p) \/ AppGone(p) \/ Die(p)
    BY <1>2 DEF Next
  <2>2. CASE Stop(p)
    BY <2>2, GotoStep DEF Stop, At, os, PCs, Dropping, Holding, Starting, Unbound, Bound,
       IInv, TypeOK
  <2> QED BY <2>1, <2>2, StartInv, BeginInv, EndInv, ControlInv, AcceptFailsInv, DieInv
<1> QED BY <1>1, <1>2

(* Locks, sockets and guards belong to the processes the code gives them   *)
(* to, through any order of starts, failures, crashes and drops            *)
(* (CowchatServer::new, run and drop).                                     *)
THEOREM TypeCorrect == Spec => []TypeOK
<1>1. Init => IInv
  BY InitInv
<1>2. IInv /\ [Next]_vars => IInv'
  BY StepInv
<1>3. IInv => TypeOK
  BY DEF IInv
<1> QED BY <1>1, <1>2, <1>3, PTL DEF Spec

(* The instance lock and the refusal of hard links keep a second server    *)
(* from a database until the first is on its way out, whatever name or     *)
(* link either was given (acquire_instance_lock,                           *)
(* reject_hard_linked_database).                                           *)
THEOREM OneServer == Spec => []OneServerPerDatabase
<1>1. IInv => OneServerPerDatabase
  <2> SUFFICES ASSUME IInv, NEW p \in Servers, NEW q \in Servers, p # q,
                      At(p, "running"), InUse(q), proc[q].at \notin Dropping,
                      File[proc[p].db] = File[proc[q].db]
               PROVE  FALSE
    BY DEF OneServerPerDatabase
  <2>1. proc[p].at = "running" /\ proc[q].at = "running"
    BY DEF At, InUse
  <2>2. /\ Fits(p, proc[p], lock, owner) /\ Fits(q, proc[q], lock, owner)
        /\ proc[p] \in Procs /\ proc[q] \in Procs
    BY IInvFits
  <2>3. /\ lock[proc[p].db] = p /\ lock[proc[q].db] = q
        /\ ~(Cardinality(Links(proc[p].db)) > 1)
    BY <2>1, <2>2 DEF Fits, Holding
  <2>4. proc[p].db \in Canons /\ proc[q].db \in Canons
    BY <2>1, <2>2 DEF Fits, Procs
  <2>5. proc[p].db = proc[q].db
    BY <2>3, <2>4, OneName
  <2> QED BY <2>3, <2>5
<1> QED BY <1>1, InitInv, StepInv, PTL DEF Spec
-----------------------------------------------------------------------------
(* A running server stays reachable.                                       *)

(* Steps at which a process has its socket at its path.                    *)
Serving == {"listen", "own", "tcp", "open", "running", "undo", "unbind",
            "unlock", "guard", "unlink"}

(* One database's servers use the path, and no accept loop failed there.   *)
Solo(q, u, l) == q \notin l /\ \A c, d \in u[q] : c = d

(* What the sockets have to be for a process to be r: its own is at the    *)
(* path until it removes it, whatever its step, and what it is about to    *)
(* remove from the path at its start accepts no connections.               *)
Calm(p, r, f, o, a) ==
    /\ r.at \in Serving => r.ino # None /\ f[r.path] = r.ino /\ o[r.ino] = p
    /\ r.at \in Serving \ {"listen"} => r.ino \in a
    /\ r.at \in Serving \ {"listen", "own"} => r.guard = r.ino
    /\ r.at \in {"restat", "remove"} => f[r.path] \notin a

Known == \A p \in Servers : proc[p].at \in Holding => proc[p].db \in users[proc[p].path]

(* A socket is at no other path than its process's.                        *)
OwnPath ==
    \A q \in Paths, p \in Servers :
        fs[q] \in Inodes /\ owner[fs[q]] = p => proc[p].path = q

AllCalm ==
    \A p \in Servers : proc[p].at # "off" /\ Solo(proc[p].path, users, failed) =>
                           Calm(p, proc[p], fs, owner, accepting)

Reach == Known /\ OwnPath /\ AllCalm

(* Of the processes on such a path one has the lock.                       *)
LEMMA OneHolder ==
    ASSUME IInv, Reach, NEW p \in Servers, NEW s \in Servers, p # s,
           proc[p].at \in Holding, proc[s].at \in Holding,
           proc[p].path = proc[s].path, Solo(proc[p].path, users, failed)
    PROVE  FALSE
<1>1. proc[p].db \in users[proc[p].path] /\ proc[s].db \in users[proc[p].path]
  BY DEF Reach, Known
<1>2. proc[p].db = proc[s].db
  BY <1>1 DEF Solo
<1>3. lock[proc[p].db] = p /\ lock[proc[s].db] = s
  BY IInvFits DEF Fits
<1> QED BY <1>2, <1>3

(* A step of one process, as the others and their sockets see it.          *)
LEMMA MoverReach ==
    ASSUME IInv, Reach, NEW p \in Servers, NEW r \in Procs,
           proc' = [proc EXCEPT ![p] = r],
           \A q \in Paths : users[q] \subseteq users'[q], failed \subseteq failed',
           \A s \in Servers \ {p} :
               proc[s].at # "off" /\ Solo(proc[s].path, users, failed)
               /\ Calm(s, proc[s], fs, owner, accepting)
                   => Calm(s, proc[s], fs', owner', accepting'),
           OwnPath',
           r.at \in Holding => r.db \in users'[r.path],
           r.at # "off" /\ Solo(r.path, users', failed') => Calm(p, r, fs', owner', accepting')
    PROVE  Reach'
<1>1. proc \in [Servers -> Procs] /\ \A s \in Servers : Fits(s, proc[s], lock, owner)
  BY IInvFits
<1>2. /\ proc'[p] = r
      /\ \A s \in Servers \ {p} : proc'[s] = proc[s]
  BY <1>1
<1>3. \A s \in Servers : proc[s].at # "off" => proc[s].path \in Paths
  BY <1>1 DEF Fits, Procs
<1>4. ASSUME NEW s \in Servers, proc'[s].at \in Holding
      PROVE  proc'[s].db \in users'[proc'[s].path]
  <2>1. CASE s = p
    BY <1>2, <1>4, <2>1
  <2>2. CASE s # p
    <3>1. proc'[s] = proc[s] /\ proc[s].at # "off"
      BY <1>2, <1>4, <2>2 DEF Holding, Starting
    <3>2. proc[s].db \in users[proc[s].path] /\ proc[s].path \in Paths
      BY <1>3, <1>4, <3>1 DEF Reach, Known
    <3> QED BY <3>1, <3>2
  <2> QED BY <2>1, <2>2
<1>5. ASSUME NEW s \in Servers, proc'[s].at # "off", Solo(proc'[s].path, users', failed')
      PROVE  Calm(s, proc'[s], fs', owner', accepting')
  <2>1. CASE s = p
    <3>1. r.at # "off" /\ Solo(r.path, users', failed')
      BY <1>2, <1>5, <2>1
    <3> QED BY <1>2, <2>1, <3>1
  <2>2. CASE s # p
    <3>1. proc'[s] = proc[s] /\ proc[s].at # "off" /\ proc[s].path \in Paths
      BY <1>2, <1>3, <1>5, <2>2
    <3>2. Solo(proc[s].path, users, failed)
      BY <1>5, <3>1 DEF Solo
    <3>3. Calm(s, proc[s], fs, owner, accepting)
      BY <3>1, <3>2 DEF Reach, AllCalm
    <3>4. Calm(s, proc[s], fs', owner', accepting')
      BY <2>2, <3>1, <3>2, <3>3
    <3> QED BY <3>1, <3>4
  <2> QED BY <2>1, <2>2
<1> HIDE DEF Calm
<1>6. Known'
  BY <1>4 DEF Known
<1>7. AllCalm'
  BY <1>5 DEF AllCalm
<1> QED BY <1>6, <1>7 DEF Reach

(* Nothing appears at a path or begins to accept connections, and only the *)
(* process that moves may close what it has.                               *)
LEMMA QuietReach ==
    ASSUME IInv, Reach, NEW p \in Servers, NEW r \in Procs,
           proc' = [proc EXCEPT ![p] = r], fs' = fs,
           \A q \in Paths : users[q] \subseteq users'[q], failed \subseteq failed',
           accepting' \subseteq accepting,
           \A i \in Inodes : owner'[i] \in {owner[i], None},
           \A s \in Servers \ {p} : \A i \in Inodes :
               owner[i] = s => owner'[i] = s /\ (i \in accepting => i \in accepting'),
           (\E i \in Inodes : owner'[i] = p) => r.path = proc[p].path,
           r.at \in Holding => r.db \in users'[r.path],
           r.at # "off" /\ Solo(r.path, users', failed') => Calm(p, r, fs, owner', accepting')
    PROVE  Reach'
<1> USE InstanceAssumption
<1>1. proc \in [Servers -> Procs]
  BY IInvFits
<1>2. ASSUME NEW s \in Servers \ {p}, Calm(s, proc[s], fs, owner, accepting)
      PROVE  Calm(s, proc[s], fs', owner', accepting')
  <2>1. proc[s].ino \in Inodes \cup {None}
    BY <1>1 DEF Procs
  <2> QED BY <1>2, <2>1 DEF Calm
<1>3. OwnPath'
  <2>1. ASSUME NEW q \in Paths, NEW s \in Servers, fs[q] \in Inodes, owner'[fs[q]] = s
        PROVE  proc'[s].path = q
    <3>1. owner[fs[q]] = s
      BY <2>1
    <3>2. proc[s].path = q
      BY <2>1, <3>1 DEF Reach, OwnPath
    <3> QED BY <1>1, <2>1, <3>2
  <2> QED BY <2>1 DEF OwnPath
<1> QED BY <1>2, <1>3, MoverReach

(* A process moves on and takes its socket with it.                        *)
LEMMA OnwardReach ==
    ASSUME IInv, Reach, NEW p \in Servers, NEW r \in Procs,
           proc' = [proc EXCEPT ![p] = r], proc[p].at # "off",
           UNCHANGED <<fs, owner, accepting, users, failed>>,
           r.db = proc[p].db, r.path = proc[p].path,
           r.at \in Holding => proc[p].at \in Holding,
           Solo(proc[p].path, users, failed) /\ Calm(p, proc[p], fs, owner, accepting)
               => Calm(p, r, fs, owner, accepting)
    PROVE  Reach'
<1>1. r.at \in Holding => r.db \in users'[r.path]
  BY DEF Reach, Known
<1>2. Solo(r.path, users', failed') => Solo(proc[p].path, users, failed)
  BY DEF Solo
<1>3. Solo(proc[p].path, users, failed) => Calm(p, proc[p], fs, owner, accepting)
  BY DEF Reach, AllCalm
<1>4. \A i \in Inodes : owner'[i] \in {owner[i], None}
  OBVIOUS
<1> QED BY <1>1, <1>2, <1>3, <1>4, QuietReach

LEMMA GotoReach ==
    ASSUME IInv, Reach, NEW p \in Servers, NEW s \in PCs, Goto(p, s),
           proc[p].at # "off",
           UNCHANGED <<fs, owner, accepting, users, failed>>,
           s \in Holding => proc[p].at \in Holding,
           s \in Serving => proc[p].at \in Serving,
           s \in Serving \ {"listen"} => proc[p].at \in Serving \ {"listen"},
           s \in Serving \ {"listen", "own"} => proc[p].at \in Serving \ {"listen", "own"},
           Solo(proc[p].path, users, failed) /\ Calm(p, proc[p], fs, owner, accepting)
               /\ s \in {"restat", "remove"} => Found(p) \notin accepting
    PROVE  Reach'
<1> DEFINE r == [proc[p] EXCEPT !.at = s]
<1>1. proc[p] \in Procs /\ proc' = [proc EXCEPT ![p] = r]
  BY IInvFits DEF Goto
<1>2. /\ r \in Procs /\ r.at = s /\ r.db = proc[p].db /\ r.path = proc[p].path
      /\ r.ino = proc[p].ino /\ r.guard = proc[p].guard
  BY <1>1 DEF Procs
<1> HIDE DEF r
<1>3. Solo(proc[p].path, users, failed) /\ Calm(p, proc[p], fs, owner, accepting)
          => Calm(p, r, fs, owner, accepting)
  BY <1>2 DEF Calm, Found
<1> QED BY <1>1, <1>2, <1>3, OnwardReach

(* Steps that look, or only move on.                                       *)
LEMMA LookReach ==
    ASSUME IInv, Reach, NEW p \in Servers,
           CheckLinks(p) \/ Connect(p) \/ Restat(p) \/ BindTcp(p) \/ UndoCheck(p)
           \/ Stop(p) \/ DropLock(p) \/ DropGuard(p)
    PROVE  Reach'
<1> USE DEF PCs, Starting, Undoing, Dropping, Holding, Serving
<1>1. CASE CheckLinks(p)
  <2>1. \E s \in {"fail", "lock"} : Goto(p, s)
    BY <1>1 DEF CheckLinks
  <2> QED BY <1>1, <2>1, GotoReach DEF CheckLinks, At, os
<1>2. CASE Connect(p)
  <2>1. \E s \in {"fail", "restat"} : Goto(p, s) /\ (s = "restat" => Found(p) \notin accepting)
    BY <1>2 DEF Connect
  <2> QED BY <1>2, <2>1, GotoReach DEF Connect, At, os
<1>3. CASE Restat(p)
  <2>1. \E s \in {"stat", "remove"} : Goto(p, s)
    BY <1>3 DEF Restat
  <2>2. Calm(p, proc[p], fs, owner, accepting) => Found(p) \notin accepting
    BY <1>3 DEF Restat, At, Calm, Found
  <2> QED BY <1>3, <2>1, <2>2, GotoReach DEF Restat, At, os
<1>4. CASE BindTcp(p)
  <2>1. \E s \in {"open", "undo"} : Goto(p, s)
    BY <1>4 DEF BindTcp
  <2> QED BY <1>4, <2>1, GotoReach DEF BindTcp, At
<1>5. CASE UndoCheck(p)
  <2>1. \E s \in {"unbind", "fail"} : Goto(p, s)
    BY <1>5 DEF UndoCheck
  <2> QED BY <1>5, <2>1, GotoReach DEF UndoCheck, At, os
<1>6. CASE Stop(p)
  BY <1>6, GotoReach DEF Stop, At, os
<1>7. CASE DropLock(p)
  BY <1>7, GotoReach DEF DropLock, At
<1>8. CASE DropGuard(p)
  <2>1. \E s \in {"unlink", "drain"} : Goto(p, s)
    BY <1>8 DEF DropGuard
  <2> QED BY <1>8, <2>1, GotoReach DEF DropGuard, At, os
<1> QED BY <1>1, <1>2, <1>3, <1>4, <1>5, <1>6, <1>7, <1>8

LEMMA StartReach ==
    ASSUME IInv, Reach, NEW p \in Servers, NEW n \in Names, NEW path \in Paths,
           NEW w \in BOOLEAN, NEW b \in BOOLEAN, Start(p, n, path, w, b)
    PROVE  Reach'
<1> USE InstanceAssumption
<1> DEFINE r == [Off EXCEPT !.at = "link", !.db = Canonical(n), !.path = path,
                            !.tcp = w, !.app = b]
<1>1. /\ r \in Procs /\ proc' = [proc EXCEPT ![p] = r] /\ proc[p] = Off
      /\ UNCHANGED <<fs, owner, accepting, users, failed>>
  BY DEF Start, Off, Procs, PCs, Starting, Canonical, Canons, os
<1>2. \A i \in Inodes : owner[i] # p
  BY <1>1, IInvFits DEF Fits, Off
<1>3. Calm(p, r, fs, owner, accepting) /\ r.at \notin Holding
  BY DEF Off, Calm, Serving, Holding, Starting
<1> HIDE DEF r
<1>4. \A i \in Inodes : owner'[i] \in {owner[i], None}
  BY <1>1
<1> QED BY <1>1, <1>2, <1>3, <1>4, QuietReach

LEMMA LockReach ==
    ASSUME IInv, Reach, NEW p \in Servers, Lock(p)
    PROVE  Reach'
<1>1. CASE lock[proc[p].db] = None
  <2> DEFINE r == [proc[p] EXCEPT !.at = "stat"]
  <2>1. /\ proc[p] \in Procs /\ Fits(p, proc[p], lock, owner)
        /\ proc' = [proc EXCEPT ![p] = r] /\ proc[p].at = "lock"
    BY <1>1, IInvFits DEF Lock, Goto, At
  <2>2. /\ r \in Procs /\ r.at = "stat" /\ r.db = proc[p].db /\ r.path = proc[p].path
    BY <2>1 DEF Procs, PCs, Starting
  <2>3. /\ users' = [users EXCEPT ![proc[p].path] = @ \cup {proc[p].db}]
        /\ UNCHANGED <<fs, owner, accepting, failed>>
        /\ users \in [Paths -> SUBSET Canons]
    BY <1>1 DEF Lock, IInv, TypeOK
  <2>4. proc[p].path \in Paths
    BY <2>1 DEF Fits, Procs
  <2>5. /\ r.db \in users'[r.path] /\ \A q \in Paths : users[q] \subseteq users'[q]
    BY <2>2, <2>3, <2>4
  <2>6. Calm(p, r, fs, owner, accepting)
    BY <2>2 DEF Calm, Serving
  <2>7. \A i \in Inodes : owner'[i] \in {owner[i], None}
    BY <2>3
  <2> HIDE DEF r
  <2> QED BY <2>1, <2>2, <2>3, <2>5, <2>6, <2>7, QuietReach
<1>2. CASE lock[proc[p].db] # None
  BY <1>2, GotoReach DEF Lock, At, PCs, Undoing, Holding, Starting, Serving
<1> QED BY <1>1, <1>2

LEMMA StatReach ==
    ASSUME IInv, Reach, NEW p \in Servers, Stat(p)
    PROVE  Reach'
<1>0. proc[p] \in Procs /\ Fits(p, proc[p], lock, owner) /\ proc[p].at = "stat"
  BY IInvFits DEF Stat, At
<1>1. Found(p) \in Inodes \cup {None, Alien}
  BY <1>0 DEF Found, Fits, Procs, IInv, TypeOK
<1>2. PICK s \in {"bind", "fail", "connect"} :
        proc' = [proc EXCEPT ![p].seen = Found(p), ![p].at = s]
  <2> DEFINE next == CASE Found(p) = None -> "bind" [] Found(p) = Alien -> "fail"
                       [] OTHER -> "connect"
  <2>1. next \in {"bind", "fail", "connect"}
    OBVIOUS
  <2>2. proc' = [proc EXCEPT ![p].seen = Found(p), ![p].at = next]
    BY DEF Stat
  <2> HIDE DEF next
  <2> QED BY <2>1, <2>2
<1> DEFINE r == [proc[p] EXCEPT !.seen = Found(p), !.at = s]
<1>3. s \in PCs
  BY DEF PCs, Starting, Undoing
<1>4. r \in Procs /\ r.at = s /\ r.db = proc[p].db /\ r.path = proc[p].path
  BY <1>0, <1>1, <1>3 DEF Procs
<1>5. proc' = [proc EXCEPT ![p] = r] /\ UNCHANGED <<fs, owner, accepting, users, failed>>
  BY <1>2 DEF Stat, os
<1> HIDE DEF r
<1>6. Calm(p, r, fs, owner, accepting)
  BY <1>4 DEF Calm, Serving
<1> QED BY <1>0, <1>4, <1>5, <1>6, OnwardReach DEF Holding, Starting

LEMMA OwnReach ==
    ASSUME IInv, Reach, NEW p \in Servers, Own(p)
    PROVE  Reach'
<1>0. proc[p] \in Procs /\ proc[p].at = "own"
      /\ UNCHANGED <<fs, owner, accepting, users, failed>>
  BY IInvFits DEF Own, At, os
<1>1. CASE Found(p) \in Inodes
  <2> DEFINE r == [proc[p] EXCEPT !.guard = Found(p), !.at = "tcp"]
  <2>1. proc' = [proc EXCEPT ![p] = r]
    BY <1>1 DEF Own
  <2>2. "tcp" \in PCs
    BY DEF PCs, Starting
  <2>3. /\ r \in Procs /\ r.at = "tcp" /\ r.db = proc[p].db /\ r.path = proc[p].path
        /\ r.ino = proc[p].ino /\ r.guard = Found(p)
    BY <1>0, <1>1, <2>2 DEF Procs
  <2> HIDE DEF r
  <2>4. Calm(p, proc[p], fs, owner, accepting) => Calm(p, r, fs, owner, accepting)
    BY <1>0, <2>3 DEF Calm, Serving, Found
  <2> QED BY <1>0, <2>1, <2>3, <2>4, OnwardReach DEF Holding, Starting
<1>2. CASE Found(p) \notin Inodes
  BY <1>0, <1>2, GotoReach DEF Own, PCs, Undoing, Holding, Starting, Serving
<1> QED BY <1>1, <1>2

LEMMA OpenReach ==
    ASSUME IInv, Reach, NEW p \in Servers, Open(p)
    PROVE  Reach'
<1>0. proc[p] \in Procs /\ proc[p].at = "open"
      /\ UNCHANGED <<fs, owner, accepting, users, failed>>
  BY IInvFits DEF Open, At, os
<1>1. CASE Goto(p, "undo")
  BY <1>0, <1>1, GotoReach DEF PCs, Undoing, Holding, Starting, Serving
<1>2. CASE ~Goto(p, "undo")
  <2>1. PICK x \in {"watched", "none"} :
          proc' = [proc EXCEPT ![p].at = "running", ![p].control = x]
    BY <1>2 DEF Open
  <2> DEFINE r == [proc[p] EXCEPT !.at = "running", !.control = x]
  <2>2. "running" \in PCs
    BY DEF PCs
  <2>3. /\ r \in Procs /\ r.at = "running" /\ r.db = proc[p].db
        /\ r.path = proc[p].path /\ r.ino = proc[p].ino /\ r.guard = proc[p].guard
    BY <1>0, <2>2 DEF Procs
  <2>4. proc' = [proc EXCEPT ![p] = r]
    BY <2>1
  <2> HIDE DEF r
  <2>5. Calm(p, proc[p], fs, owner, accepting) => Calm(p, r, fs, owner, accepting)
    BY <1>0, <2>3 DEF Calm, Serving
  <2> QED BY <1>0, <2>3, <2>4, <2>5, OnwardReach DEF Holding, Starting
<1> QED BY <1>1, <1>2

(* Something is removed from the path of the process that moves: no other  *)
(* process there has its socket at the path.                               *)
LEMMA RemovedReach ==
    ASSUME IInv, Reach, NEW p \in Servers, NEW s \in PCs, Goto(p, s),
           proc[p].at \in {"remove", "unbind", "unlink"}, s \in {"bind", "fail", "drain"},
           s = "bind" => proc[p].at = "remove",
           fs' = [fs EXCEPT ![proc[p].path] = None],
           UNCHANGED <<owner, accepting, users, failed>>
    PROVE  Reach'
<1> USE InstanceAssumption
<1> DEFINE r == [proc[p] EXCEPT !.at = s]
<1>1. /\ proc \in [Servers -> Procs] /\ proc' = [proc EXCEPT ![p] = r]
      /\ \A u \in Servers : Fits(u, proc[u], lock, owner)
  BY IInvFits DEF Goto
<1>0. proc[p] \in Procs
  BY <1>1
<1>2. /\ r \in Procs /\ r.at = s /\ r.db = proc[p].db /\ r.path = proc[p].path
  BY <1>0 DEF Procs
<1> HIDE DEF r
<1>3. /\ fs \in [Paths -> Inodes \cup {None, Alien}] /\ proc[p].path \in Paths
      /\ accepting \subseteq Inodes
  BY <1>1 DEF IInv, TypeOK, Fits, Procs
<1>4. /\ fs'[proc[p].path] = None
      /\ \A q \in Paths : q # proc[p].path => fs'[q] = fs[q]
  BY <1>3
<1>5. ASSUME NEW u \in Servers \ {p}, proc[u].at # "off",
             Solo(proc[u].path, users, failed),
             Calm(u, proc[u], fs, owner, accepting)
      PROVE  Calm(u, proc[u], fs', owner', accepting')
  <2>1. proc[u].path \in Paths
    BY <1>1, <1>5 DEF Fits, Procs
  <2>2. CASE proc[u].path # proc[p].path
    <3>1. fs'[proc[u].path] = fs[proc[u].path]
      BY <1>4, <2>1, <2>2
    <3> QED BY <1>5, <3>1 DEF Calm
  <2>3. CASE proc[u].path = proc[p].path
    <3>1. Calm(p, proc[p], fs, owner, accepting)
      BY <1>5, <2>3 DEF Reach, AllCalm
    <3>2. proc[u].at \notin Serving
      <4>1. CASE proc[p].at \in {"unbind", "unlink"}
        BY <1>5, <2>3, <3>1, <4>1 DEF Calm, Serving
      <4>2. CASE proc[p].at = "remove" /\ proc[u].at # "listen"
        BY <1>5, <2>3, <3>1, <4>2 DEF Calm, Serving
      <4>3. CASE proc[p].at = "remove" /\ proc[u].at = "listen"
        BY <1>5, <2>3, <4>3, OneHolder DEF Holding, Starting
      <4> QED BY <4>1, <4>2, <4>3
    <3>3. fs'[proc[u].path] \notin accepting
      BY <1>3, <1>4, <2>3
    <3> QED BY <3>2, <3>3 DEF Calm
  <2> QED BY <2>2, <2>3
<1>6. OwnPath'
  <2>1. ASSUME NEW q \in Paths, NEW u \in Servers, fs'[q] \in Inodes, owner[fs'[q]] = u
        PROVE  proc'[u].path = q
    <3>1. fs'[q] = fs[q]
      BY <1>4, <2>1
    <3>2. proc[u].path = q
      BY <2>1, <3>1 DEF Reach, OwnPath
    <3> QED BY <1>1, <1>2, <3>2
  <2> QED BY <2>1 DEF OwnPath
<1>7. r.at \in Holding => r.db \in users'[r.path]
  BY <1>2 DEF Holding, Starting, Reach, Known
<1>8. Calm(p, r, fs', owner', accepting')
  BY <1>2 DEF Calm, Serving
<1> QED BY <1>1, <1>2, <1>5, <1>6, <1>7, <1>8, MoverReach

LEMMA RemoveReach ==
    ASSUME IInv, Reach, NEW p \in Servers, Remove(p) \/ UndoUnlink(p) \/ DropUnlink(p)
    PROVE  Reach'
<1> USE DEF PCs, Starting, Undoing, Dropping
<1>1. CASE Remove(p) /\ Found(p) = None
  BY <1>1, GotoReach DEF Remove, At, Holding, Serving
<1>2. CASE Remove(p) /\ Found(p) # None
  BY <1>2, RemovedReach DEF Remove, At
<1>3. CASE UndoUnlink(p)
  BY <1>3, RemovedReach DEF UndoUnlink, Unlink, At
<1>4. CASE DropUnlink(p)
  BY <1>4, RemovedReach DEF DropUnlink, Unlink, At
<1> QED BY <1>1, <1>2, <1>3, <1>4

LEMMA BindReach ==
    ASSUME IInv, Reach, NEW p \in Servers, Bind(p)
    PROVE  Reach'
<1> USE InstanceAssumption
<1>0. /\ proc \in [Servers -> Procs] /\ proc[p].at = "bind"
      /\ \A u \in Servers : Fits(u, proc[u], lock, owner)
      /\ fs \in [Paths -> Inodes \cup {None, Alien}]
      /\ owner \in [Inodes -> Servers \cup {None}]
      /\ UNCHANGED <<accepting, users, failed>>
  BY IInvFits DEF Bind, At, IInv, TypeOK
<1>1. CASE Found(p) = None
  <2>1. PICK i \in Inodes :
          /\ Free(i)
          /\ fs' = [fs EXCEPT ![proc[p].path] = i]
          /\ owner' = [owner EXCEPT ![i] = p]
          /\ proc' = [proc EXCEPT ![p].at = "listen", ![p].ino = i]
    BY <1>1 DEF Bind
  <2> DEFINE r == [proc[p] EXCEPT !.at = "listen", !.ino = i]
  <2>2. proc' = [proc EXCEPT ![p] = r]
    BY <2>1
  <2>3. /\ r \in Procs /\ r.at = "listen" /\ r.db = proc[p].db
        /\ r.path = proc[p].path /\ r.ino = i
    <3>1. proc[p] \in Procs
      BY <1>0
    <3>2. "listen" \in PCs
      BY DEF PCs, Starting
    <3> QED BY <3>1, <3>2 DEF Procs
  <2> HIDE DEF r
  <2>4. proc[p].path \in Paths
    BY <1>0 DEF Fits, Procs
  <2>5. /\ fs'[proc[p].path] = i /\ \A q \in Paths : q # proc[p].path => fs'[q] = fs[q]
        /\ owner'[i] = p /\ \A j \in Inodes : j # i => owner'[j] = owner[j]
        /\ owner[i] = None /\ \A q \in Paths : fs[q] # i
    BY <1>0, <2>1, <2>4 DEF Free
  <2>6. ASSUME NEW u \in Servers \ {p}, proc[u].at # "off",
               Solo(proc[u].path, users, failed),
               Calm(u, proc[u], fs, owner, accepting)
        PROVE  Calm(u, proc[u], fs', owner', accepting')
    <3>1. proc[u].path \in Paths /\ proc[u].ino \in Inodes \cup {None}
      BY <1>0, <2>6 DEF Fits, Procs
    <3>2. CASE proc[u].path # proc[p].path
      <4>1. fs'[proc[u].path] = fs[proc[u].path]
        BY <2>5, <3>1, <3>2
      <4>2. owner[proc[u].ino] = u /\ proc[u].ino \in Inodes => owner'[proc[u].ino] = u
        BY <2>5
      <4> QED BY <1>0, <2>6, <3>1, <4>1, <4>2 DEF Calm
    <3>3. CASE proc[u].path = proc[p].path
      <4>1. proc[u].at \notin Serving
        BY <1>1, <2>6, <3>3 DEF Calm, Found
      <4>2. proc[u].at \notin {"restat", "remove"}
        BY <1>0, <2>6, <3>3, OneHolder DEF Holding, Starting
      <4> QED BY <4>1, <4>2 DEF Calm
    <3> QED BY <3>2, <3>3
  <2>7. OwnPath'
    <3>1. ASSUME NEW q \in Paths, NEW u \in Servers, fs'[q] \in Inodes, owner'[fs'[q]] = u
          PROVE  proc'[u].path = q
      <4>1. CASE q = proc[p].path
        <5>1. u = p
          BY <2>5, <3>1, <4>1
        <5> QED BY <1>0, <2>2, <2>3, <4>1, <5>1
      <4>2. CASE q # proc[p].path
        <5>1. fs'[q] = fs[q] /\ fs[q] # i
          BY <2>5, <4>2
        <5>2. owner[fs[q]] = u /\ fs[q] \in Inodes
          BY <2>5, <3>1, <5>1
        <5>3. proc[u].path = q
          BY <5>2 DEF Reach, OwnPath
        <5> QED BY <1>0, <2>2, <2>3, <5>3
      <4> QED BY <4>1, <4>2
    <3> QED BY <3>1 DEF OwnPath
  <2>8. r.at \in Holding => r.db \in users'[r.path]
    BY <1>0, <2>3 DEF Holding, Starting, Reach, Known
  <2>9. Calm(p, r, fs', owner', accepting')
    BY <2>3, <2>5 DEF Calm, Serving
  <2>10. (\A q \in Paths : users[q] \subseteq users'[q]) /\ failed \subseteq failed'
    BY <1>0
  <2> QED BY <2>2, <2>3, <2>6, <2>7, <2>8, <2>9, <2>10, MoverReach
<1>2. CASE Found(p) # None
  BY <1>0, <1>2, GotoReach DEF Bind, PCs, Holding, Starting, Serving
<1> QED BY <1>1, <1>2

LEMMA ListenReach ==
    ASSUME IInv, Reach, NEW p \in Servers, Listen(p)
    PROVE  Reach'
<1> USE InstanceAssumption
<1> DEFINE r == [proc[p] EXCEPT !.at = "own"]
<1>1. /\ proc \in [Servers -> Procs] /\ proc[p].at = "listen"
      /\ \A u \in Servers : Fits(u, proc[u], lock, owner)
      /\ proc' = [proc EXCEPT ![p] = r]
      /\ accepting' = accepting \cup {proc[p].ino}
      /\ UNCHANGED <<fs, owner, users, failed>>
  BY IInvFits DEF Listen, Goto, At
<1>2. /\ r \in Procs /\ r.at = "own" /\ r.db = proc[p].db /\ r.path = proc[p].path
      /\ r.ino = proc[p].ino
  BY <1>1 DEF Procs, PCs, Starting
<1> HIDE DEF r
<1>3. proc[p].ino \in Inodes /\ owner[proc[p].ino] = p /\ proc[p].path \in Paths
  BY <1>1 DEF Fits, Bound, Procs
<1>4. ASSUME NEW u \in Servers \ {p}, proc[u].at # "off",
             Solo(proc[u].path, users, failed),
             Calm(u, proc[u], fs, owner, accepting)
      PROVE  Calm(u, proc[u], fs', owner', accepting')
  <2>1. proc[u].at \in {"restat", "remove"} => fs[proc[u].path] # proc[p].ino
    <3>1. SUFFICES ASSUME proc[u].at \in {"restat", "remove"},
                          fs[proc[u].path] = proc[p].ino
                   PROVE  FALSE
      OBVIOUS
    <3>2. proc[u].path \in Paths
      BY <1>1, <1>4 DEF Fits, Procs
    <3>3. proc[p].path = proc[u].path
      BY <1>3, <3>1, <3>2 DEF Reach, OwnPath
    <3> QED BY <1>1, <1>4, <3>1, <3>3, OneHolder DEF Holding, Starting
  <2> QED BY <1>1, <1>4, <2>1 DEF Calm
<1>5. OwnPath'
  <2>1. \A u \in Servers : proc'[u].path = proc[u].path
    BY <1>1, <1>2
  <2> QED BY <1>1, <2>1 DEF Reach, OwnPath
<1>6. r.at \in Holding => r.db \in users'[r.path]
  BY <1>1, <1>2 DEF Holding, Starting, Reach, Known
<1>7. Solo(r.path, users', failed') => Calm(p, r, fs', owner', accepting')
  <2>1. Solo(proc[p].path, users, failed) => Calm(p, proc[p], fs, owner, accepting)
    BY <1>1 DEF Reach, AllCalm
  <2> QED BY <1>1, <1>2, <2>1 DEF Calm, Serving
<1>8. (\A q \in Paths : users[q] \subseteq users'[q]) /\ failed \subseteq failed'
  BY <1>1
<1> QED BY <1>1, <1>2, <1>4, <1>5, <1>6, <1>7, <1>8, MoverReach

(* An accept loop that fails takes its path out of what is promised.       *)
LEMMA AcceptFailsReach ==
    ASSUME IInv, Reach, NEW p \in Servers, AcceptFails(p)
    PROVE  Reach'
<1> USE InstanceAssumption
<1> DEFINE r == [proc[p] EXCEPT !.at = "unlock"]
<1>1. /\ proc[p] \in Procs /\ Fits(p, proc[p], lock, owner)
      /\ proc' = [proc EXCEPT ![p] = r] /\ proc[p].at = "running"
      /\ owner \in [Inodes -> Servers \cup {None}]
      /\ fs' = fs /\ users' = users
  BY IInvFits DEF AcceptFails, Goto, At, IInv, TypeOK
<1>2. /\ r \in Procs /\ r.at = "unlock" /\ r.db = proc[p].db /\ r.path = proc[p].path
      /\ r.ino = proc[p].ino /\ r.guard = proc[p].guard
  BY <1>1 DEF Procs, PCs, Dropping
<1> HIDE DEF r
<1>3. owner[proc[p].ino] = p
  BY <1>1 DEF Fits, Bound
<1>4. /\ accepting' \subseteq accepting /\ failed \subseteq failed'
      /\ \A i \in Inodes : owner'[i] \in {owner[i], None}
      /\ \A s \in Servers \ {p} : \A i \in Inodes :
             owner[i] = s => owner'[i] = s /\ (i \in accepting => i \in accepting')
  BY <1>1, <1>3 DEF AcceptFails
<1>5. Solo(r.path, users', failed') => Calm(p, r, fs, owner', accepting')
  <2>1. CASE proc[p].path \in failed'
    BY <1>2, <2>1 DEF Solo
  <2>2. CASE proc[p].path \notin failed'
    <3>1. UNCHANGED <<owner, accepting, failed>>
      BY <2>2 DEF AcceptFails
    <3>2. Solo(proc[p].path, users, failed) => Calm(p, proc[p], fs, owner, accepting)
      BY <1>1 DEF Reach, AllCalm
    <3> QED BY <1>1, <1>2, <3>1, <3>2 DEF Calm, Serving
  <2> QED BY <2>1, <2>2
<1>6. r.at \notin Holding
  BY <1>2 DEF Holding, Starting
<1> QED BY <1>1, <1>2, <1>4, <1>5, <1>6, QuietReach

LEMMA GoneReach ==
    ASSUME IInv, Reach, NEW p \in Servers, Gone(p), UNCHANGED <<fs, users, failed>>
    PROVE  Reach'
<1> USE InstanceAssumption
<1>1. Off \in Procs /\ Off.at = "off" /\ proc' = [proc EXCEPT ![p] = Off]
  BY DEF Off, Procs, PCs, Gone
<1>2. /\ accepting' \subseteq accepting
      /\ \A i \in Inodes : owner'[i] \in {owner[i], None} /\ owner'[i] # p
      /\ \A s \in Servers \ {p} : \A i \in Inodes :
             owner[i] = s => owner'[i] = s /\ (i \in accepting => i \in accepting')
  BY DEF Gone, IInv, TypeOK
<1>3. Off.at \notin Holding
  BY <1>1 DEF Holding, Starting
<1> QED BY <1>1, <1>2, <1>3, QuietReach

LEMMA ControlReach ==
    ASSUME IInv, Reach, NEW p \in Servers, Control(p) \/ AppGone(p)
    PROVE  Reach'
<1>1. CASE ControlKill(p)
  BY <1>1, GoneReach DEF ControlKill, Die
<1>2. CASE AppGone(p) \/ ControlEof(p)
  <2>1. /\ proc[p] \in Procs /\ Fits(p, proc[p], lock, owner)
        /\ UNCHANGED <<fs, owner, accepting, users, failed>>
        /\ proc[p].control # "none" /\ proc \in [Servers -> Procs]
    BY <1>2, IInvFits DEF AppGone, ControlEof, os
  <2>2. PICK x \in {"closed", "grace"}, a \in {proc[p].at, "unlock"} :
          /\ proc' = [proc EXCEPT ![p] = [proc[p] EXCEPT !.control = x, !.at = a]]
          /\ a # proc[p].at => proc[p].at = "running"
    <3>1. CASE AppGone(p)
      <4>1. proc' = [proc EXCEPT ![p] = [proc[p] EXCEPT !.control = "closed"]]
        BY <3>1 DEF AppGone
      <4>2. [proc[p] EXCEPT !.control = "closed"]
                = [proc[p] EXCEPT !.control = "closed", !.at = proc[p].at]
        BY <2>1 DEF Procs
      <4> QED BY <4>1, <4>2
    <3>2. CASE ControlEof(p)
      BY <3>2 DEF ControlEof, At
    <3> QED BY <1>2, <3>1, <3>2
  <2> DEFINE r == [proc[p] EXCEPT !.control = x, !.at = a]
  <2>3. a \in PCs
    BY <2>1 DEF PCs, Dropping, Procs
  <2>4. /\ r \in Procs /\ r.at = a /\ r.db = proc[p].db /\ r.path = proc[p].path
        /\ r.ino = proc[p].ino /\ r.guard = proc[p].guard
    BY <2>1, <2>3 DEF Procs
  <2>5. proc' = [proc EXCEPT ![p] = r]
    BY <2>2
  <2> HIDE DEF r
  <2>6. Calm(p, proc[p], fs, owner, accepting) => Calm(p, r, fs, owner, accepting)
    BY <2>2, <2>4 DEF Calm, Serving
  <2>7. r.at \in Holding => proc[p].at \in Holding
    BY <2>2, <2>4 DEF Holding, Starting
  <2>8. CASE proc[p].at # "off"
    BY <2>1, <2>4, <2>5, <2>6, <2>7, <2>8, OnwardReach
  <2>9. CASE proc[p].at = "off"
    <3>1. a = "off"
      BY <2>2, <2>9
    <3>2. r.at \notin Holding
      BY <2>4, <3>1 DEF Holding, Starting
    <3>3. \A i \in Inodes : owner'[i] \in {owner[i], None}
      BY <2>1
    <3> QED BY <2>1, <2>4, <2>5, <3>1, <3>2, <3>3, QuietReach
  <2> QED BY <2>8, <2>9
<1> QED BY <1>1, <1>2 DEF Control

LEMMA ReachStep == IInv /\ Reach /\ [Next]_vars => Reach'
<1> SUFFICES ASSUME IInv, Reach, [Next]_vars PROVE Reach'
  OBVIOUS
<1>1. CASE UNCHANGED vars
  BY <1>1 DEF vars, os, history, Reach, Known, OwnPath, AllCalm
<1>2. CASE Next
  <2>1. PICK p \in Servers :
          \/ \E n \in Names, q \in Paths, w \in BOOLEAN, b \in BOOLEAN :
                 Start(p, n, q, w, b)
          \/ Begin(p) \/ End(p) \/ Control(p)
          \/ Stop(p) \/ AcceptFails(p) \/ AppGone(p) \/ Die(p)
    BY <1>2 DEF Next
  <2>2. CASE Begin(p)
    BY <2>2, LookReach, LockReach, StatReach, RemoveReach, BindReach, ListenReach,
       OwnReach, OpenReach DEF Begin
  <2>3. CASE End(p)
    <3>1. CASE Fail(p) \/ Exit(p)
      BY <3>1, GoneReach DEF Fail, Exit
    <3> QED BY <2>3, <3>1, LookReach, RemoveReach DEF End
  <2>4. CASE Die(p)
    BY <2>4, GoneReach DEF Die
  <2> QED BY <2>1, <2>2, <2>3, <2>4, StartReach, LookReach, ControlReach, AcceptFailsReach
<1> QED BY <1>1, <1>2

LEMMA InitReach == Init => Reach
<1> USE InstanceAssumption
<1> QED BY DEF Init, Reach, Known, OwnPath, AllCalm, Off, Holding, Starting

(* A running server can be reached at its socket: no start that fails, no  *)
(* stop, no crash and no file left behind takes the socket away, though    *)
(* every one of them looks at the path in one step and removes it in       *)
(* another (bind_unix_listener, OwnedSocketPath::drop).                    *)
THEOREM Reachable == Spec => []RunningIsReachable
<1>1. Init => IInv /\ Reach
  BY InitInv, InitReach
<1>2. IInv /\ Reach /\ [Next]_vars => (IInv /\ Reach)'
  BY StepInv, ReachStep
<1>3. Reach => RunningIsReachable
  <2> SUFFICES ASSUME Reach, NEW p \in Servers, At(p, "running"),
                      users[proc[p].path] = {proc[p].db}, proc[p].path \notin failed
               PROVE  Found(p) = proc[p].ino /\ proc[p].ino \in accepting
    BY DEF RunningIsReachable
  <2>1. Solo(proc[p].path, users, failed) /\ proc[p].at = "running"
    BY DEF Solo, At
  <2>2. Calm(p, proc[p], fs, owner, accepting)
    BY <2>1 DEF Reach, AllCalm
  <2> QED BY <2>1, <2>2 DEF Calm, Serving, Found
<1> QED BY <1>1, <1>2, <1>3, PTL DEF Spec

-----------------------------------------------------------------------------
(* A start fails for a cause.                                              *)

(* Whoever is in the way of a process is on record.                        *)
Rivals == \A p \in Servers : proc[p] # Off /\ InTheWay(p) => rivals[p]

(* Steps of a process that has not got the TCP address.                    *)
Before == Unbound \cup {"listen", "own", "tcp"}

TcpOwn == \A p \in Servers : tcp = p => proc[p].tcp /\ proc[p].at \notin Before

(* What is about to be removed, or has been bound, is at the path, unless  *)
(* somebody was in the way.                                                *)
Looks(r, f, v) ==
    /\ r.at \in {"connect", "restat", "remove"} => r.seen \in Inodes
    /\ r.at = "remove" => v \/ f[r.path] = r.seen
    /\ r.at \in {"listen", "own"} => v \/ f[r.path] = r.ino

AllLook == \A p \in Servers : Looks(proc[p], fs, rivals[p])

Rivalry == Rivals /\ TcpOwn /\ AllLook

LEMMA Meets ==
    ASSUME IInv, Meet
    PROVE  /\ Rivals'
           /\ \A s \in Servers : proc'[s] # Off /\ rivals[s] => rivals'[s]
<1>1. ASSUME NEW s \in Servers, proc'[s] # Off, InTheWay(s)' PROVE rivals'[s]
  BY <1>1 DEF Meet
<1>2. ASSUME NEW s \in Servers, proc'[s] # Off, rivals[s] PROVE rivals'[s]
  BY <1>2 DEF Meet
<1> HIDE DEF InTheWay
<1>3. Rivals'
  BY <1>1 DEF Rivals
<1> QED BY <1>2, <1>3

(* A step of one process, as the others look at their paths.               *)
LEMMA MoverLooks ==
    ASSUME IInv, Rivalry, NEW p \in Servers, NEW r \in Procs,
           proc' = [proc EXCEPT ![p] = r], Meet,
           \A q \in Paths : q # proc[p].path => fs'[q] = fs[q],
           fs' = fs \/ proc[p].at # "off",
           \A s \in Servers \ {p} : tcp' = s => tcp = s,
           tcp' = p => r.tcp /\ r.at \notin Before,
           Looks(r, fs', rivals'[p])
    PROVE  Rivalry'
<1>1. proc \in [Servers -> Procs] /\ \A s \in Servers : Fits(s, proc[s], lock, owner)
  BY IInvFits
<1>2. proc'[p] = r /\ \A s \in Servers \ {p} : proc'[s] = proc[s]
  BY <1>1
<1>3. Rivals' /\ \A s \in Servers : proc'[s] # Off /\ rivals[s] => rivals'[s]
  BY Meets
<1>4. ASSUME NEW s \in Servers PROVE Looks(proc'[s], fs', rivals'[s])
  <2>1. CASE s = p
    BY <1>2, <2>1
  <2>2. CASE s # p /\ proc[s].at \in {"remove", "listen", "own"}
    <3>1. /\ proc'[s] = proc[s] /\ proc[s].at # "off" /\ proc[s] # Off
          /\ proc[s].path \in Paths
      BY <1>1, <1>2, <2>2 DEF Fits, Procs, Off
    <3>2. rivals[s] => rivals'[s]
      BY <1>3, <3>1
    <3>3. Looks(proc[s], fs, rivals[s])
      BY DEF Rivalry, AllLook
    <3>4. CASE fs'[proc[s].path] = fs[proc[s].path]
      BY <3>1, <3>2, <3>3, <3>4 DEF Looks
    <3>5. CASE fs'[proc[s].path] # fs[proc[s].path]
      <4>1. proc[s].path = proc[p].path /\ proc[p] # Off
        BY <3>1, <3>5 DEF Off
      <4>2. InTheWay(s)
        BY <2>2, <4>1 DEF InTheWay
      <4>3. rivals'[s]
        BY <3>1, <3>2, <4>2 DEF Rivalry, Rivals
      <4> QED BY <2>2, <3>1, <3>3, <4>3 DEF Looks
    <3> QED BY <3>4, <3>5
  <2>3. CASE s # p /\ proc[s].at \notin {"remove", "listen", "own"}
    <3>1. Looks(proc[s], fs, rivals[s]) /\ proc'[s] = proc[s]
      BY <1>2, <2>3 DEF Rivalry, AllLook
    <3> QED BY <2>3, <3>1 DEF Looks
  <2> QED BY <2>1, <2>2, <2>3
<1>5. TcpOwn'
  <2>1. ASSUME NEW s \in Servers, tcp' = s PROVE proc'[s].tcp /\ proc'[s].at \notin Before
    <3>1. CASE s = p
      BY <1>2, <2>1, <3>1
    <3>2. CASE s # p
      BY <1>2, <2>1, <3>2 DEF Rivalry, TcpOwn
    <3> QED BY <3>1, <3>2
  <2> HIDE DEF Before
  <2> QED BY <2>1 DEF TcpOwn
<1> HIDE DEF Looks
<1>6. AllLook'
  BY <1>4 DEF AllLook
<1> QED BY <1>3, <1>5, <1>6 DEF Rivalry

LEMMA GotoLooks ==
    ASSUME IInv, Rivalry, NEW p \in Servers, NEW s \in PCs, Goto(p, s), Meet,
           proc[p].at # "off",
           \A q \in Paths : q # proc[p].path => fs'[q] = fs[q],
           \A u \in Servers \ {p} : tcp' = u => tcp = u,
           tcp' = p => proc[p].tcp /\ s \notin Before,
           s \in {"connect", "restat", "remove"} =>
               proc[p].at \in {"connect", "restat", "remove"},
           s = "remove" => fs' = fs /\ Found(p) = proc[p].seen,
           s \in {"listen", "own"} => proc[p].at \in {"listen", "own"} /\ fs' = fs
    PROVE  Rivalry'
<1> DEFINE r == [proc[p] EXCEPT !.at = s]
<1>1. proc[p] \in Procs /\ proc' = [proc EXCEPT ![p] = r]
  BY IInvFits DEF Goto
<1>2. /\ r \in Procs /\ r.at = s /\ r.path = proc[p].path /\ r.ino = proc[p].ino
      /\ r.seen = proc[p].seen /\ r.tcp = proc[p].tcp
  BY <1>1 DEF Procs
<1>3. proc' [p] = r
  BY <1>1, IInvFits
<1> HIDE DEF r
<1>4. r.at # "off" => (rivals[p] => rivals'[p])
  BY <1>3, Meets DEF Off
<1>5. Looks(proc[p], fs, rivals[p])
  BY DEF Rivalry, AllLook
<1>6. Looks(r, fs', rivals'[p])
  BY <1>2, <1>4, <1>5 DEF Looks, Found
<1> QED BY <1>1, <1>2, <1>6, MoverLooks

LEMMA LookLooks ==
    ASSUME IInv, Rivalry, NEW p \in Servers,
           CheckLinks(p) \/ Lock(p) \/ Connect(p) \/ Restat(p) \/ Remove(p)
           \/ Listen(p) \/ BindTcp(p)
    PROVE  Rivalry'
<1> USE DEF PCs, Starting, Undoing, Before, Unbound
<1>0. tcp = p => proc[p].tcp /\ proc[p].at \notin Before
  BY DEF Rivalry, TcpOwn
<1>1. CASE CheckLinks(p)
  <2>1. \E s \in {"fail", "lock"} : Goto(p, s)
    BY <1>1 DEF CheckLinks
  <2> QED BY <1>0, <1>1, <2>1, GotoLooks DEF CheckLinks, At, os
<1>2. CASE Lock(p)
  <2>1. \E s \in {"fail", "stat"} : Goto(p, s)
    BY <1>2 DEF Lock
  <2> QED BY <1>0, <1>2, <2>1, GotoLooks DEF Lock, At
<1>3. CASE Connect(p)
  <2>1. \E s \in {"fail", "restat"} : Goto(p, s)
    BY <1>3 DEF Connect
  <2> QED BY <1>0, <1>3, <2>1, GotoLooks DEF Connect, At, os
<1>4. CASE Restat(p)
  <2>1. \E s \in {"stat", "remove"} : Goto(p, s) /\ (s = "remove" => Found(p) = proc[p].seen)
    BY <1>4 DEF Restat
  <2> QED BY <1>0, <1>4, <2>1, GotoLooks DEF Restat, At, os
<1>5. CASE Remove(p)
  <2>1. \E s \in {"fail", "bind"} : Goto(p, s)
    BY <1>5 DEF Remove
  <2>2. \A q \in Paths : q # proc[p].path => fs'[q] = fs[q]
    BY <1>5 DEF Remove, IInv, TypeOK
  <2> QED BY <1>0, <1>5, <2>1, <2>2, GotoLooks DEF Remove, At
<1>6. CASE Listen(p)
  BY <1>0, <1>6, GotoLooks DEF Listen, At
<1>7. CASE BindTcp(p)
  <2>1. \E s \in {"open", "undo"} : Goto(p, s)
    BY <1>7 DEF BindTcp
  <2>2. /\ \A u \in Servers \ {p} : tcp' = u => tcp = u
        /\ tcp' = p => proc[p].tcp
    BY <1>0, <1>7 DEF BindTcp, At
  <2> QED BY <1>7, <2>1, <2>2, GotoLooks DEF BindTcp, At
<1> QED BY <1>1, <1>2, <1>3, <1>4, <1>5, <1>6, <1>7

LEMMA EndLooks ==
    ASSUME IInv, Rivalry, NEW p \in Servers,
           UndoCheck(p) \/ UndoUnlink(p) \/ Stop(p) \/ AcceptFails(p)
           \/ DropLock(p) \/ DropGuard(p) \/ DropUnlink(p)
    PROVE  Rivalry'
<1> USE InstanceAssumption DEF PCs, Starting, Undoing, Dropping, Before, Unbound
<1>0. tcp = p => proc[p].tcp
  BY DEF Rivalry, TcpOwn
<1>1. CASE UndoCheck(p)
  <2>1. \E s \in {"unbind", "fail"} : Goto(p, s)
    BY <1>1 DEF UndoCheck
  <2> QED BY <1>0, <1>1, <2>1, GotoLooks DEF UndoCheck, At, os
<1>2. CASE UndoUnlink(p) \/ DropUnlink(p)
  <2>1. \A q \in Paths : q # proc[p].path => fs'[q] = fs[q]
    BY <1>2 DEF UndoUnlink, DropUnlink, Unlink, IInv, TypeOK
  <2> QED BY <1>0, <1>2, <2>1, GotoLooks DEF UndoUnlink, DropUnlink, Unlink, At
<1>3. CASE Stop(p)
  BY <1>0, <1>3, GotoLooks DEF Stop, At, os
<1>4. CASE AcceptFails(p)
  <2>1. \A u \in Servers : tcp' = u => tcp = u
    BY <1>4 DEF AcceptFails
  <2> QED BY <1>0, <1>4, <2>1, GotoLooks DEF AcceptFails, At
<1>5. CASE DropLock(p)
  BY <1>0, <1>5, GotoLooks DEF DropLock, At
<1>6. CASE DropGuard(p)
  <2>1. \E s \in {"unlink", "drain"} : Goto(p, s)
    BY <1>6 DEF DropGuard
  <2> QED BY <1>0, <1>6, <2>1, GotoLooks DEF DropGuard, At, os
<1> QED BY <1>1, <1>2, <1>3, <1>4, <1>5, <1>6

LEMMA StatLooks ==
    ASSUME IInv, Rivalry, NEW p \in Servers, Stat(p)
    PROVE  Rivalry'
<1>0. proc[p] \in Procs /\ Fits(p, proc[p], lock, owner) /\ proc[p].at = "stat"
  BY IInvFits DEF Stat, At
<1>1. Found(p) \in Inodes \cup {None, Alien}
  BY <1>0 DEF Found, Fits, Procs, IInv, TypeOK
<1>2. PICK s \in {"bind", "fail", "connect"} :
        /\ proc' = [proc EXCEPT ![p].seen = Found(p), ![p].at = s]
        /\ s = "connect" => Found(p) \notin {None, Alien}
  <2> DEFINE next == CASE Found(p) = None -> "bind" [] Found(p) = Alien -> "fail"
                       [] OTHER -> "connect"
  <2>1. /\ next \in {"bind", "fail", "connect"}
        /\ next = "connect" => Found(p) \notin {None, Alien}
    OBVIOUS
  <2>2. proc' = [proc EXCEPT ![p].seen = Found(p), ![p].at = next]
    BY DEF Stat
  <2> HIDE DEF next
  <2> QED BY <2>1, <2>2
<1> DEFINE r == [proc[p] EXCEPT !.seen = Found(p), !.at = s]
<1>3. s \in PCs
  BY DEF PCs, Starting, Undoing
<1>4. r \in Procs /\ r.at = s /\ r.seen = Found(p)
  BY <1>0, <1>1, <1>3 DEF Procs
<1>5. proc' = [proc EXCEPT ![p] = r] /\ fs' = fs /\ tcp' = tcp /\ Meet
  BY <1>2 DEF Stat, os
<1> HIDE DEF r
<1>6. Looks(r, fs', rivals'[p])
  BY <1>1, <1>2, <1>4 DEF Looks
<1>7. tcp # p
  BY <1>0 DEF Rivalry, TcpOwn, Before, Unbound
<1> QED BY <1>4, <1>5, <1>6, <1>7, MoverLooks

LEMMA BindLooks ==
    ASSUME IInv, Rivalry, NEW p \in Servers, Bind(p)
    PROVE  Rivalry'
<1>0. /\ proc[p] \in Procs /\ Fits(p, proc[p], lock, owner) /\ proc[p].at = "bind"
      /\ fs \in [Paths -> Inodes \cup {None, Alien}] /\ tcp' = tcp /\ Meet
  BY IInvFits DEF Bind, At, IInv, TypeOK
<1>1. tcp # p
  BY <1>0 DEF Rivalry, TcpOwn, Before, Unbound
<1>2. CASE Found(p) = None
  <2>1. PICK i \in Inodes :
          /\ fs' = [fs EXCEPT ![proc[p].path] = i]
          /\ proc' = [proc EXCEPT ![p].at = "listen", ![p].ino = i]
    BY <1>2 DEF Bind
  <2> DEFINE r == [proc[p] EXCEPT !.at = "listen", !.ino = i]
  <2>2. proc' = [proc EXCEPT ![p] = r]
    BY <2>1
  <2>3. "listen" \in PCs
    BY DEF PCs, Starting
  <2>4. r \in Procs /\ r.at = "listen" /\ r.path = proc[p].path /\ r.ino = i
    BY <1>0, <2>3 DEF Procs
  <2> HIDE DEF r
  <2>5. fs'[r.path] = i /\ \A q \in Paths : q # proc[p].path => fs'[q] = fs[q]
    BY <1>0, <2>1, <2>4 DEF Fits, Procs
  <2>6. Looks(r, fs', rivals'[p])
    BY <2>4, <2>5 DEF Looks
  <2> QED BY <1>0, <1>1, <2>2, <2>4, <2>5, <2>6, MoverLooks
<1>3. CASE Found(p) # None
  BY <1>0, <1>1, <1>3, GotoLooks DEF Bind, PCs, Starting
<1> QED BY <1>2, <1>3

LEMMA OwnLooks ==
    ASSUME IInv, Rivalry, NEW p \in Servers, Own(p) \/ Open(p)
    PROVE  Rivalry'
<1>0. proc[p] \in Procs /\ proc[p].at \in {"own", "open"} /\ fs' = fs /\ tcp' = tcp /\ Meet
  BY IInvFits DEF Own, Open, At, os
<1>1. tcp = p => proc[p].tcp /\ proc[p].at # "own"
  BY DEF Rivalry, TcpOwn, Before
<1>2. CASE Own(p) /\ Found(p) \in Inodes
  <2> DEFINE r == [proc[p] EXCEPT !.guard = Found(p), !.at = "tcp"]
  <2>1. proc' = [proc EXCEPT ![p] = r]
    BY <1>2 DEF Own
  <2>2. "tcp" \in PCs
    BY DEF PCs, Starting
  <2>3. r \in Procs /\ r.at = "tcp"
    BY <1>0, <1>2, <2>2 DEF Procs
  <2> HIDE DEF r
  <2>4. tcp' # p
    BY <1>0, <1>1, <1>2 DEF Own, At
  <2> QED BY <1>0, <2>1, <2>3, <2>4, MoverLooks DEF Looks
<1>3. CASE Own(p) /\ Found(p) \notin Inodes
  <2>1. Goto(p, "fail")
    BY <1>3 DEF Own
  <2> QED BY <1>0, <1>1, <2>1, GotoLooks DEF PCs, Undoing, Before, Unbound
<1>4. CASE Open(p) /\ Goto(p, "undo")
  BY <1>0, <1>1, <1>4, GotoLooks DEF PCs, Undoing, Before, Unbound
<1>5. CASE Open(p) /\ ~Goto(p, "undo")
  <2>1. PICK x \in {"watched", "none"} :
          proc' = [proc EXCEPT ![p].at = "running", ![p].control = x]
    BY <1>5 DEF Open
  <2> DEFINE r == [proc[p] EXCEPT !.at = "running", !.control = x]
  <2>2. "running" \in PCs
    BY DEF PCs
  <2>3. r \in Procs /\ r.at = "running" /\ r.tcp = proc[p].tcp
    BY <1>0, <2>2 DEF Procs
  <2>4. proc' = [proc EXCEPT ![p] = r]
    BY <2>1
  <2> HIDE DEF r
  <2>5. Looks(r, fs', rivals'[p]) /\ r.at \notin Before
    BY <2>3 DEF Looks, Before, Unbound
  <2> QED BY <1>0, <1>1, <2>3, <2>4, <2>5, MoverLooks
<1> QED BY <1>2, <1>3, <1>4, <1>5

LEMMA StartLooks ==
    ASSUME IInv, Rivalry, NEW p \in Servers, NEW n \in Names, NEW path \in Paths,
           NEW w \in BOOLEAN, NEW b \in BOOLEAN, Start(p, n, path, w, b)
    PROVE  Rivalry'
<1> USE InstanceAssumption
<1> DEFINE r == [Off EXCEPT !.at = "link", !.db = Canonical(n), !.path = path,
                            !.tcp = w, !.app = b]
<1>1. /\ r \in Procs /\ proc' = [proc EXCEPT ![p] = r] /\ proc[p] = Off
      /\ fs' = fs /\ tcp' = tcp /\ Meet
  BY DEF Start, Off, Procs, PCs, Starting, Canonical, Canons, os
<1>2. r.at = "link"
  BY DEF Off
<1> HIDE DEF r
<1>3. Looks(r, fs', rivals'[p])
  BY <1>2 DEF Looks
<1>4. tcp # p
  BY <1>1 DEF Rivalry, TcpOwn, Before, Unbound, Off
<1> QED BY <1>1, <1>3, <1>4, MoverLooks

LEMMA GoneLooks ==
    ASSUME IInv, Rivalry, NEW p \in Servers, Gone(p), Meet, fs' = fs
    PROVE  Rivalry'
<1> USE InstanceAssumption
<1>1. Off \in Procs /\ proc' = [proc EXCEPT ![p] = Off]
  BY DEF Off, Procs, PCs, Gone
<1>2. /\ tcp' # p /\ \A s \in Servers \ {p} : tcp' = s => tcp = s
  BY DEF Gone
<1>3. Looks(Off, fs', rivals'[p])
  BY DEF Looks, Off
<1> QED BY <1>1, <1>2, <1>3, MoverLooks

LEMMA ControlLooks ==
    ASSUME IInv, Rivalry, NEW p \in Servers, Control(p) \/ AppGone(p)
    PROVE  Rivalry'
<1>1. CASE ControlKill(p)
  BY <1>1, GoneLooks DEF ControlKill, Die
<1>2. CASE AppGone(p) \/ ControlEof(p)
  <2>1. proc \in [Servers -> Procs] /\ proc[p] \in Procs /\ fs' = fs /\ tcp' = tcp /\ Meet
    BY <1>2, IInvFits DEF AppGone, ControlEof, os
  <2>2. PICK x \in {"closed", "grace"}, a \in {proc[p].at, "unlock"} :
          /\ proc' = [proc EXCEPT ![p] = [proc[p] EXCEPT !.control = x, !.at = a]]
          /\ a # proc[p].at => proc[p].at = "running"
    <3>1. CASE AppGone(p)
      <4>1. proc' = [proc EXCEPT ![p] = [proc[p] EXCEPT !.control = "closed"]]
        BY <3>1 DEF AppGone
      <4>2. [proc[p] EXCEPT !.control = "closed"]
                = [proc[p] EXCEPT !.control = "closed", !.at = proc[p].at]
        BY <2>1 DEF Procs
      <4> QED BY <4>1, <4>2
    <3>2. CASE ControlEof(p)
      BY <3>2 DEF ControlEof, At
    <3> QED BY <1>2, <3>1, <3>2
  <2> DEFINE r == [proc[p] EXCEPT !.control = x, !.at = a]
  <2>3. a \in PCs
    BY <2>1 DEF PCs, Dropping, Procs
  <2>4. /\ r \in Procs /\ r.at = a /\ r.path = proc[p].path
        /\ r.ino = proc[p].ino /\ r.seen = proc[p].seen /\ r.tcp = proc[p].tcp
    BY <2>1, <2>3 DEF Procs
  <2>5. proc' = [proc EXCEPT ![p] = r] /\ proc'[p] = r
    BY <2>1, <2>2
  <2> HIDE DEF r
  <2>6. tcp' = p => r.tcp /\ r.at \notin Before
    BY <2>1, <2>4 DEF Rivalry, TcpOwn, Before, Unbound
  <2>7. r.at # "off" => (rivals[p] => rivals'[p])
    BY <2>1, <2>5, Meets DEF Off
  <2>8. Looks(proc[p], fs, rivals[p])
    BY DEF Rivalry, AllLook
  <2>9. Looks(r, fs', rivals'[p])
    BY <2>1, <2>4, <2>7, <2>8 DEF Looks
  <2> QED BY <2>1, <2>4, <2>5, <2>6, <2>9, MoverLooks
<1> QED BY <1>1, <1>2 DEF Control

LEMMA RivalryStep == IInv /\ Rivalry /\ [Next]_vars => Rivalry'
<1> SUFFICES ASSUME IInv, Rivalry, [Next]_vars PROVE Rivalry'
  OBVIOUS
<1>1. CASE UNCHANGED vars
  BY <1>1 DEF vars, os, history, Rivalry, Rivals, InTheWay, Found, TcpOwn, AllLook, Looks
<1>2. CASE Next
  <2>1. PICK p \in Servers :
          \/ \E n \in Names, q \in Paths, w \in BOOLEAN, b \in BOOLEAN :
                 Start(p, n, q, w, b)
          \/ Begin(p) \/ End(p) \/ Control(p)
          \/ Stop(p) \/ AcceptFails(p) \/ AppGone(p) \/ Die(p)
    BY <1>2 DEF Next
  <2>2. CASE Begin(p)
    BY <2>2, LookLooks, StatLooks, BindLooks, OwnLooks DEF Begin
  <2>3. CASE End(p)
    <3>1. CASE Fail(p) \/ Exit(p)
      BY <3>1, GoneLooks DEF Fail, Exit
    <3> QED BY <2>3, <3>1, EndLooks DEF End
  <2>4. CASE Die(p)
    BY <2>4, GoneLooks DEF Die
  <2> QED BY <2>1, <2>2, <2>3, <2>4, StartLooks, EndLooks, ControlLooks
<1> QED BY <1>1, <1>2

LEMMA InitRivalry == Init => Rivalry
<1> USE InstanceAssumption
<1> QED BY DEF Init, Rivalry, Rivals, TcpOwn, AllLook, Looks, Off

(* Every step is one process's.                                            *)
LEMMA OthersStand ==
    ASSUME IInv, NEW m \in Servers, NEW p \in Servers \ {m},
           \/ \E n \in Names, q \in Paths, w \in BOOLEAN, b \in BOOLEAN :
                  Start(m, n, q, w, b)
           \/ Begin(m) \/ End(m) \/ Control(m)
           \/ Stop(m) \/ AcceptFails(m) \/ AppGone(m) \/ Die(m)
    PROVE  proc'[p] = proc[p]
<1>1. proc \in [Servers -> Procs]
  BY IInvFits
<1>2. \A r : proc' = [proc EXCEPT ![m] = r] => proc'[p] = proc[p]
  BY <1>1
<1>3. \E r : proc' = [proc EXCEPT ![m] = r]
  <2>1. \A s : Goto(m, s) => \E r : proc' = [proc EXCEPT ![m] = r]
    BY DEF Goto
  <2>2. Gone(m) => \E r : proc' = [proc EXCEPT ![m] = r]
    BY DEF Gone
  <2>3. ASSUME \/ \E n \in Names, q \in Paths, w \in BOOLEAN, b \in BOOLEAN :
                      Start(m, n, q, w, b)
               \/ Stat(m) \/ AppGone(m) \/ ControlEof(m)
        PROVE  \E r : proc' = [proc EXCEPT ![m] = r]
    BY <2>3 DEF Start, Stat, AppGone, ControlEof
  <2>4. Bind(m) \/ Own(m) \/ Open(m) => \E r : proc' = [proc EXCEPT ![m] = r]
    BY <2>1 DEF Bind, Own, Open
  <2>5. CheckLinks(m) \/ Lock(m) \/ Connect(m) \/ Restat(m) \/ Remove(m) \/ Listen(m)
        \/ BindTcp(m) \/ UndoCheck(m) \/ UndoUnlink(m) \/ DropLock(m) \/ DropGuard(m)
        \/ DropUnlink(m) \/ Stop(m) \/ AcceptFails(m)
           => \E s : Goto(m, s)
    BY DEF CheckLinks, Lock, Connect, Restat, Remove, Listen, BindTcp, UndoCheck,
       UndoUnlink, DropLock, DropGuard, DropUnlink, Unlink, Stop, AcceptFails
  <2>6. Fail(m) \/ Exit(m) \/ Die(m) \/ ControlKill(m) => Gone(m)
    BY DEF Fail, Exit, Die, ControlKill
  <2>7. (\E s : Goto(m, s)) => \E r : proc' = [proc EXCEPT ![m] = r]
    BY <2>1
  <2>8. CASE Begin(m)
    BY <2>3, <2>4, <2>5, <2>7, <2>8 DEF Begin
  <2>9. CASE End(m)
    BY <2>2, <2>5, <2>6, <2>7, <2>9 DEF End
  <2>10. CASE Control(m) \/ Die(m) \/ AppGone(m)
    BY <2>2, <2>3, <2>6, <2>10 DEF Control
  <2>11. CASE Stop(m) \/ AcceptFails(m)
    BY <2>5, <2>7, <2>11
  <2> QED BY <2>3, <2>8, <2>9, <2>10, <2>11
<1> QED BY <1>2, <1>3

(* The step at which a start fails: whoever made it fail is on record.     *)
LEMMA FailStep ==
    ASSUME IInv, Reach, Rivalry, NEW p \in Servers, Begin(p),
           proc[p].at \in Starting \ {"open"}, proc'[p].at \in Undoing
    PROVE  rivals[p]
<1> USE InstanceAssumption
<1>1. /\ proc \in [Servers -> Procs] /\ proc[p] \in Procs
      /\ Fits(p, proc[p], lock, owner) /\ Looks(proc[p], fs, rivals[p])
  BY IInvFits DEF Rivalry, AllLook
<1>2. proc[p] # Off /\ proc[p].at # "off" /\ proc[p].path \in Paths /\ proc[p].db \in Canons
  BY <1>1 DEF Starting, Off, Fits, Procs
<1>3. InTheWay(p) => rivals[p]
  BY <1>2 DEF Rivalry, Rivals
<1>4. ASSUME NEW q \in Servers \ {p}, proc[q].at # "off",
             \/ proc[q].db = proc[p].db \/ proc[q].path = proc[p].path
             \/ proc[q].tcp /\ proc[p].tcp
      PROVE  rivals[p]
  <2>1. proc[q] # Off
    BY <1>4 DEF Off
  <2> QED BY <1>3, <1>4, <2>1 DEF InTheWay
<1>5. \A s : Goto(p, s) => proc'[p].at = s
  BY <1>1 DEF Goto, Procs
<1>6. CASE CheckLinks(p)
  <2>1. Cardinality(Links(proc[p].db)) > 1
    BY <1>5, <1>6 DEF CheckLinks, Undoing
  <2> QED BY <1>3, <2>1 DEF InTheWay
<1>7. CASE Lock(p)
  <2>1. lock[proc[p].db] # None
    BY <1>5, <1>7 DEF Lock, Undoing
  <2> DEFINE q == lock[proc[p].db]
  <2>2. q \in Servers
    BY <1>2, <2>1 DEF IInv, TypeOK
  <2>3. Fits(q, proc[q], lock, owner)
    BY <2>2, IInvFits
  <2>4. proc[q].db = proc[p].db /\ proc[q].at \notin {"off", "link", "lock"}
    BY <1>2, <2>3 DEF Fits
  <2>5. q # p
    BY <1>7, <2>4 DEF Lock, At
  <2> HIDE DEF q
  <2> QED BY <1>4, <2>2, <2>4, <2>5
<1>8. CASE Stat(p)
  <2>1. CASE Found(p) = Alien
    BY <1>3, <2>1 DEF InTheWay
  <2>2. CASE Found(p) # Alien
    <3>1. PICK s \in {"bind", "connect"} :
            proc' = [proc EXCEPT ![p].seen = Found(p), ![p].at = s]
      BY <1>8, <2>2 DEF Stat
    <3>2. proc'[p].at = s
      BY <1>1, <3>1 DEF Procs
    <3> QED BY <3>2 DEF Undoing
  <2> QED BY <2>1, <2>2
<1>9. CASE Connect(p)
  <2>1. Found(p) \in accepting
    BY <1>5, <1>9 DEF Connect, Undoing
  <2>2. Found(p) \in Inodes /\ owner[Found(p)] \in Servers
    BY <2>1 DEF IInv, TypeOK
  <2> DEFINE q == owner[Found(p)]
  <2>3. Fits(q, proc[q], lock, owner) /\ proc[q] \in Procs
    BY <2>2, IInvFits
  <2>4. proc[q].ino = Found(p)
    BY <2>2, <2>3 DEF Fits
  <2>5. proc[q].ino # None /\ proc[q].at \notin Unbound
    BY <2>2, <2>3, <2>4 DEF Fits
  <2>6. q \in Servers /\ q # p /\ proc[q].at # "off"
    BY <1>9, <2>2, <2>5 DEF Connect, At, Unbound
  <2>7. proc[q].path = proc[p].path
    BY <1>2, <2>2 DEF Reach, OwnPath, Found
  <2> HIDE DEF q
  <2> QED BY <1>4, <2>6, <2>7
<1>10. CASE Remove(p)
  <2>1. Found(p) = None /\ proc[p].at = "remove"
    BY <1>5, <1>10 DEF Remove, Undoing, At
  <2>2. proc[p].seen \in Inodes /\ (rivals[p] \/ Found(p) = proc[p].seen)
    BY <1>1, <2>1 DEF Looks, Found
  <2> QED BY <2>1, <2>2
<1>11. CASE Own(p)
  <2>1. Found(p) \notin Inodes /\ proc[p].at = "own"
    <3>1. CASE Found(p) \in Inodes
      <4>1. proc' = [proc EXCEPT ![p].guard = Found(p), ![p].at = "tcp"]
        BY <1>11, <3>1 DEF Own
      <4>2. proc'[p].at = "tcp"
        BY <1>1, <4>1 DEF Procs
      <4> QED BY <4>2 DEF Undoing
    <3> QED BY <1>11, <3>1 DEF Own, At
  <2>2. proc[p].ino \in Inodes /\ (rivals[p] \/ Found(p) = proc[p].ino)
    BY <1>1, <2>1 DEF Looks, Found, Fits, Bound, Procs
  <2> QED BY <2>1, <2>2
<1>12. CASE BindTcp(p)
  <2>1. proc[p].tcp /\ tcp # None /\ proc[p].at = "tcp"
    BY <1>5, <1>12 DEF BindTcp, Undoing, At
  <2>2. tcp \in Servers
    BY <2>1 DEF IInv, TypeOK
  <2>3. proc[tcp].tcp /\ proc[tcp].at \notin Before
    BY <2>2 DEF Rivalry, TcpOwn
  <2>4. tcp # p /\ proc[tcp].at # "off"
    BY <2>1, <2>3 DEF Before, Unbound
  <2> QED BY <1>4, <2>1, <2>2, <2>3, <2>4
<1>13. CASE Restat(p) \/ Listen(p)
  <2>1. \E s \in {"remove", "stat", "own"} : Goto(p, s)
    BY <1>13 DEF Restat, Listen
  <2> QED BY <1>5, <2>1 DEF Undoing
<1>14. CASE Bind(p)
  <2>1. CASE Found(p) = None
    <3>1. PICK i \in Inodes : proc' = [proc EXCEPT ![p].at = "listen", ![p].ino = i]
      BY <1>14, <2>1 DEF Bind
    <3>2. proc'[p].at = "listen"
      BY <1>1, <3>1 DEF Procs
    <3> QED BY <3>2 DEF Undoing
  <2>2. CASE Found(p) # None
    BY <1>5, <1>14, <2>2 DEF Bind, Undoing
  <2> QED BY <2>1, <2>2
<1>15. CASE Open(p)
  BY <1>15 DEF Open, At, Starting
<1> QED BY <1>6, <1>7, <1>8, <1>9, <1>10, <1>11, <1>12, <1>13, <1>14, <1>15 DEF Begin

(* Only its own start takes a process from starting to giving up.          *)
LEMMA OwnFailure ==
    ASSUME IInv, NEW m \in Servers,
           \/ \E n \in Names, q \in Paths, w \in BOOLEAN, b \in BOOLEAN :
                  Start(m, n, q, w, b)
           \/ Begin(m) \/ End(m) \/ Control(m)
           \/ Stop(m) \/ AcceptFails(m) \/ AppGone(m) \/ Die(m),
           NEW p \in Servers, proc[p].at \in Starting, proc'[p].at \in Undoing
    PROVE  m = p /\ Begin(p)
<1>1. /\ proc \in [Servers -> Procs] /\ proc[p] \in Procs
      /\ Starting \cap (Undoing \cup Dropping \cup {"off", "running"}) = {}
      /\ Undoing \cap {"off", "unlock", "link"} = {}
  BY IInvFits DEF Starting, Undoing, Dropping
<1>2. m = p
  BY <1>1, OthersStand
<1>3. ~End(p) /\ ~Stop(p) /\ ~AcceptFails(p)
  BY <1>1 DEF End, Stop, AcceptFails, At, UndoCheck, UndoUnlink, Fail, DropLock, DropGuard,
     DropUnlink, Exit, Undoing, Dropping
<1>4. ~Die(p) /\ ~ControlKill(p)
  <2>1. Gone(p) => proc'[p].at = "off"
    BY <1>1 DEF Gone, Off
  <2> QED BY <1>1, <2>1 DEF Die, ControlKill
<1>5. ~AppGone(p) /\ ~ControlEof(p)
  <2>1. \A x, a : proc' = [proc EXCEPT ![p].control = x, ![p].at = a] => proc'[p].at = a
    BY <1>1 DEF Procs
  <2>2. \A x : proc' = [proc EXCEPT ![p].control = x] => proc'[p].at = proc[p].at
    BY <1>1 DEF Procs
  <2>3. ~AppGone(p)
    BY <1>1, <2>2 DEF AppGone
  <2>4. ~ControlEof(p)
    BY <1>1, <2>1 DEF ControlEof
  <2> QED BY <2>3, <2>4
<1>6. ASSUME NEW n \in Names, NEW q \in Paths, NEW w \in BOOLEAN, NEW b \in BOOLEAN,
             Start(p, n, q, w, b)
      PROVE  FALSE
  BY <1>1, <1>6 DEF Start, Off
<1> QED BY <1>2, <1>3, <1>4, <1>5, <1>6 DEF Control

(* A start that does not get to its database gives up because another      *)
(* process or a foreign file was in its way since it began, never because  *)
(* of what a crashed server left behind (bind_unix_listener).              *)
THEOREM CausesOfFailure == Spec => FailsOnlyForCause
<1>1. Init => IInv /\ Reach /\ Rivalry
  BY InitInv, InitReach, InitRivalry
<1>2. IInv /\ Reach /\ Rivalry /\ [Next]_vars => (IInv /\ Reach /\ Rivalry)'
  BY StepInv, ReachStep, RivalryStep
<1>3. IInv /\ Reach /\ Rivalry /\ [Next]_vars =>
        [\A p \in Servers : proc[p].at \in Starting \ {"open"} /\ proc'[p].at \in Undoing
             => rivals[p]]_vars
  <2> SUFFICES ASSUME IInv, Reach, Rivalry, Next, NEW p \in Servers,
                      proc[p].at \in Starting \ {"open"}, proc'[p].at \in Undoing
               PROVE  rivals[p]
    OBVIOUS
  <2>1. Begin(p)
    BY OwnFailure DEF Next
  <2> QED BY <2>1, FailStep
<1> QED BY <1>1, <1>2, <1>3, PTL DEF Spec, FailsOnlyForCause
=============================================================================
