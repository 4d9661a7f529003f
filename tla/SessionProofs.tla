---------------------------- MODULE SessionProofs ----------------------------
(***************************************************************************)
(* Proofs about SessionLifecycle, for any connections, rooms and renames   *)
(* and any size of the reconnect buffer.                                   *)
(***************************************************************************)
EXTENDS SessionLifecycle, WellFoundedInduction, SequenceTheorems, TLAPS

-----------------------------------------------------------------------------
(* What Only keeps of a sequence, from the well-foundedness of < on Nat:   *)
(* a counterexample would have a shortest prefix.                          *)

(* A non-empty set of natural numbers has a least element. *)
LEMMA LeastNat ==
    ASSUME NEW T, T \subseteq Nat, T # {}
    PROVE  \E x \in T : \A y \in T : x <= y
<1> DEFINE R == OpToRel(<, Nat)
<1>1. PICK x \in T : \A y \in T : ~ (<<y, x>> \in R)
  BY WFMin, NatLessThanWellFounded
<1>2. ASSUME NEW y \in T PROVE x <= y
  <2>1. ~ (<<y, x>> \in {ss \in Nat \X Nat : ss[1] < ss[2]})
    BY <1>1 DEF OpToRel
  <2> QED BY <2>1
<1> QED BY <1>2

(* The prefixes of s, filtered. *)
Filters(g, s, T, n) ==
    g = [i \in 0..n |-> IF i = 0 THEN <<>>
                        ELSE IF s[i] \in T THEN Append(g[i - 1], s[i])
                        ELSE g[i - 1]]

(* The recursion of Only is well founded. *)
LEMMA FiltersExist ==
    ASSUME NEW S, NEW s \in Seq(S), NEW T
    PROVE  \E g : Filters(g, s, T, Len(s))
<1> DEFINE Bad == {n \in Nat : ~ \E g : Filters(g, s, T, n)}
<1>1. SUFFICES Bad = {}
  BY LenProperties
<1>2. SUFFICES ASSUME Bad # {} PROVE FALSE
  OBVIOUS
<1>3. PICK n \in Bad : \A m \in Bad : n <= m
  BY <1>2, LeastNat
<1>4. CASE n = 0
  <2> DEFINE h == [i \in 0..0 |-> <<>>]
  <2>1. Filters(h, s, T, 0)
    BY DEF Filters
  <2> QED BY <1>3, <1>4, <2>1
<1>5. CASE n # 0
  <2>1. n \in Nat /\ n - 1 \in Nat /\ n - 1 \notin Bad
    BY <1>3, <1>5
  <2>2. PICK g : Filters(g, s, T, n - 1)
    BY <2>1
  <2> DEFINE h == [i \in 0..n |-> IF i = n
                                  THEN IF s[n] \in T THEN Append(g[n - 1], s[n])
                                       ELSE g[n - 1]
                                  ELSE g[i]]
  <2>3. \A i \in 0..(n - 1) : h[i] = g[i]
    BY <2>1
  <2>4. h[n] = IF s[n] \in T THEN Append(h[n - 1], s[n]) ELSE h[n - 1]
    BY <2>1, <2>3
  <2>5. \A i \in 0..(n - 1) :
            g[i] = IF i = 0 THEN <<>>
                   ELSE IF s[i] \in T THEN Append(g[i - 1], s[i]) ELSE g[i - 1]
    BY <2>2 DEF Filters
  <2>6. \A i \in 0..n :
            h[i] = IF i = 0 THEN <<>>
                   ELSE IF s[i] \in T THEN Append(h[i - 1], s[i]) ELSE h[i - 1]
    <3> TAKE i \in 0..n
    <3> HIDE DEF h
    <3>1. CASE i = n
      BY <3>1, <2>4, <1>5
    <3>2. CASE i # n
      <4>1. i \in 0..(n - 1) /\ (i # 0 => i - 1 \in 0..(n - 1))
        BY <3>2, <2>1
      <4> QED BY <4>1, <2>3, <2>5
    <3> QED BY <3>1, <3>2
  <2>7. Filters(h, s, T, n)
    <3>1. h = [i \in 0..n |-> h[i]]
      OBVIOUS
    <3> HIDE DEF h
    <3> QED BY <3>1, <2>6 DEF Filters
  <2> QED BY <1>3, <2>7
<1> QED BY <1>4, <1>5

(* Only is the last of the filtered prefixes. *)
LEMMA OnlyIs ==
    ASSUME NEW S, NEW s \in Seq(S), NEW T
    PROVE  \E g : Filters(g, s, T, Len(s)) /\ Only(s, T) = g[Len(s)]
<1> DEFINE sel == CHOOSE g : g = [i \in 0..Len(s) |->
                                      IF i = 0 THEN <<>>
                                      ELSE IF s[i] \in T THEN Append(g[i - 1], s[i])
                                      ELSE g[i - 1]]
<1>1. Filters(sel, s, T, Len(s))
  <2>1. PICK g : Filters(g, s, T, Len(s))
    BY FiltersExist
  <2> QED BY <2>1, Zenon DEF Filters
<1>2. Only(s, T) = sel[Len(s)]
  BY Zenon DEF Only
<1> QED BY <1>1, <1>2

(* The places e in s of the elements of u, which are those of the first n  *)
(* elements of s that are in T.                                            *)
Places(e, u, s, T, n) ==
    /\ Len(u) <= n
    /\ e \in [1..Len(u) -> 1..n]
    /\ \A k \in 1..Len(u) : u[k] = s[e[k]] /\ s[e[k]] \in T
    /\ \A k, l \in 1..Len(u) : k < l => e[k] < e[l]
    /\ \A j \in 1..n : s[j] \in T => \E k \in 1..Len(u) : e[k] = j

(* One more element of s. *)
LEMMA PlacesGrow ==
    ASSUME NEW S, NEW s \in Seq(S), NEW T, NEW n \in 1..Len(s),
           NEW u \in Seq(S), NEW e, Places(e, u, s, T, n - 1)
    PROVE  /\ s[n] \notin T => \E f : Places(f, u, s, T, n)
           /\ s[n] \in T => \E f : Places(f, Append(u, s[n]), s, T, n)
<1>1. n \in Nat /\ n - 1 \in Nat /\ Len(s) \in Nat /\ Len(u) \in Nat /\ s[n] \in S
  BY LenProperties, ElementOfSeq
<1>2. ASSUME s[n] \notin T PROVE Places(e, u, s, T, n)
  BY <1>1, <1>2 DEF Places
<1>3. ASSUME s[n] \in T PROVE \E f : Places(f, Append(u, s[n]), s, T, n)
  <2> DEFINE v == Append(u, s[n])
             f == [k \in 1..(Len(u) + 1) |-> IF k = Len(u) + 1 THEN n ELSE e[k]]
  <2>1. /\ Len(v) = Len(u) + 1
        /\ v[Len(u) + 1] = s[n]
        /\ \A k \in 1..Len(u) : v[k] = u[k]
    BY <1>1
  <2>2. f[Len(u) + 1] = n /\ \A k \in 1..Len(u) : f[k] = e[k] /\ e[k] \in 1..(n - 1)
    BY <1>1 DEF Places
  <2>3. f \in [1..Len(v) -> 1..n]
    <3>1. \A k \in 1..(Len(u) + 1) : f[k] \in 1..n
      <4>1. \A k \in 1..(Len(u) + 1) : k \in 1..Len(u) \/ k = Len(u) + 1
        BY <1>1
      <4>2. 1..(n - 1) \subseteq 1..n /\ n \in 1..n
        BY <1>1
      <4> HIDE DEF f
      <4> QED BY <2>2, <4>1, <4>2
    <3>2. f \in [1..(Len(u) + 1) -> 1..n]
      BY <3>1
    <3> QED BY <2>1, <3>2
  <2>4. \A k \in 1..Len(v) : k \in 1..Len(u) \/ k = Len(u) + 1
    BY <1>1, <2>1
  <2> HIDE DEF v, f
  <2>5. \A k \in 1..Len(v) : v[k] = s[f[k]] /\ s[f[k]] \in T
    BY <1>3, <2>1, <2>2, <2>4 DEF Places
  <2>6. \A k, l \in 1..Len(v) : k < l => f[k] < f[l]
    BY <1>1, <2>2, <2>4 DEF Places
  <2>7. \A j \in 1..n : s[j] \in T => \E k \in 1..Len(v) : f[k] = j
    <3> SUFFICES ASSUME NEW j \in 1..n, s[j] \in T
                 PROVE  \E k \in 1..Len(v) : f[k] = j
      OBVIOUS
    <3>1. CASE j = n
      BY <3>1, <1>1, <2>1, <2>2
    <3>2. CASE j # n
      <4>1. j \in 1..(n - 1)
        BY <3>2, <1>1
      <4>2. PICK k \in 1..Len(u) : e[k] = j
        BY <4>1 DEF Places
      <4>3. k \in 1..Len(v) /\ f[k] = j
        BY <4>2, <1>1, <2>1, <2>2
      <4> QED BY <4>3
    <3> QED BY <3>1, <3>2
  <2>8. Places(f, v, s, T, n)
    <3>1. Len(v) <= n
      BY <1>1, <2>1 DEF Places
    <3> QED BY <3>1, <2>3, <2>5, <2>6, <2>7 DEF Places
  <2> QED BY <2>8 DEF v
<1> QED BY <1>2, <1>3

(* Only keeps the elements that are in T, each once and in their order. *)
LEMMA OnlyPlaces ==
    ASSUME NEW S, NEW s \in Seq(S), NEW T
    PROVE  Only(s, T) \in Seq(S) /\ \E e : Places(e, Only(s, T), s, T, Len(s))
<1>1. PICK g : Filters(g, s, T, Len(s)) /\ Only(s, T) = g[Len(s)]
  BY OnlyIs
<1> DEFINE Good(n) == g[n] \in Seq(S) /\ \E e : Places(e, g[n], s, T, n)
           Bad == {n \in 0..Len(s) : ~ Good(n)}
<1>2. Len(s) \in Nat /\ Bad \subseteq Nat
  BY LenProperties
<1>3. SUFFICES Bad = {}
  BY <1>1, <1>2
<1>4. SUFFICES ASSUME Bad # {} PROVE FALSE
  OBVIOUS
<1>5. PICK n \in Bad : \A m \in Bad : n <= m
  BY <1>2, <1>4, LeastNat
<1>6. \A i \in 0..Len(s) :
          g[i] = IF i = 0 THEN <<>>
                 ELSE IF s[i] \in T THEN Append(g[i - 1], s[i]) ELSE g[i - 1]
  BY <1>1 DEF Filters
<1>7. CASE n = 0
  <2>1. g[0] = <<>>
    BY <1>2, <1>6
  <2>2. Places(<<>>, <<>>, s, T, 0)
    BY DEF Places
  <2>3. Good(0)
    BY <2>1, <2>2
  <2> QED BY <1>7, <2>3, <1>5
<1>8. CASE n # 0
  <2>1. n \in 1..Len(s) /\ n - 1 \in 0..Len(s) /\ n - 1 \notin Bad
    <3>1. n \in 0..Len(s)
      BY <1>5
    <3> HIDE DEF Bad
    <3> QED BY <3>1, <1>2, <1>5, <1>8
  <2>2. Good(n - 1)
    BY <2>1
  <2>3. PICK e : Places(e, g[n - 1], s, T, n - 1)
    BY <2>2
  <2>4. g[n] = IF s[n] \in T THEN Append(g[n - 1], s[n]) ELSE g[n - 1]
    BY <1>2, <1>6, <1>8, <2>1
  <2>5. s[n] \in S
    BY <2>1, ElementOfSeq
  <2>6. g[n] \in Seq(S)
    BY <2>2, <2>4, <2>5
  <2>7. \E f : Places(f, g[n], s, T, n)
    BY <2>1, <2>2, <2>3, <2>4, PlacesGrow
  <2>8. n \notin Bad
    BY <2>6, <2>7
  <2> QED BY <2>8, <1>5
<1> QED BY <1>7, <1>8

(* Its elements are those of s that are in T, and they are not more. *)
LEMMA OnlyKeeps ==
    ASSUME NEW S, NEW s \in Seq(S), NEW T
    PROVE  /\ Only(s, T) \in Seq(S) /\ Len(Only(s, T)) <= Len(s)
           /\ Range(Only(s, T)) = Range(s) \cap T
<1>1. Only(s, T) \in Seq(S)
  BY OnlyPlaces
<1> DEFINE u == Only(s, T)
<1>2. PICK e : Places(e, u, s, T, Len(s))
  BY OnlyPlaces
<1> HIDE DEF u
<1>3. DOMAIN u = 1..Len(u) /\ DOMAIN s = 1..Len(s)
  BY <1>1, LenProperties DEF u
<1>4. Range(u) \subseteq Range(s) \cap T
  BY <1>2, <1>3 DEF Places, Range
<1>5. ASSUME NEW x \in Range(s) \cap T PROVE x \in Range(u)
  <2>1. PICK j \in 1..Len(s) : x = s[j]
    BY <1>3, <1>5 DEF Range
  <2>2. PICK k \in 1..Len(u) : e[k] = j
    BY <1>2, <1>5, <2>1 DEF Places
  <2>3. u[k] = x
    BY <1>2, <2>1, <2>2 DEF Places
  <2> QED BY <1>3, <2>3 DEF Range
<1> QED BY <1>1, <1>2, <1>4, <1>5 DEF u, Places

(* What about, tail, append and concatenation do to the elements. *)
LEMMA SeqElements ==
    ASSUME NEW S, NEW s \in Seq(S)
    PROVE  /\ Range(s) = {s[i] : i \in 1..Len(s)} /\ Range(s) \subseteq S
           /\ Range(s) = {} <=> s = <<>>
           /\ \A x \in S : /\ Append(s, x) \in Seq(S) /\ Len(Append(s, x)) = Len(s) + 1
                           /\ Range(Append(s, x)) = Range(s) \cup {x}
           /\ \A t \in Seq(S) : s \o t \in Seq(S) /\ Range(s \o t) = Range(s) \cup Range(t)
           /\ s # <<>> => /\ Head(s) \in S /\ Tail(s) \in Seq(S)
                          /\ Range(s) = {Head(s)} \cup Range(Tail(s))
<1> DEFINE At(u) == {u[i] : i \in 1..Len(u)}
<1>1. \A u \in Seq(S) : Range(u) = At(u)
  BY LenProperties DEF Range
<1>2. Range(s) \subseteq S
  BY <1>1, ElementOfSeq
<1>3. Range(s) = {} <=> s = <<>>
  <2>1. s # <<>> => 1 \in 1..Len(s)
    BY EmptySeq
  <2>2. s # <<>> => s[1] \in At(s)
    BY <2>1
  <2>3. s = <<>> => At(s) = {}
    BY EmptySeq
  <2> QED BY <1>1, <2>2, <2>3
<1>4. ASSUME NEW x \in S
      PROVE  /\ Append(s, x) \in Seq(S) /\ Len(Append(s, x)) = Len(s) + 1
             /\ At(Append(s, x)) = At(s) \cup {x}
  OBVIOUS
<1>5. ASSUME NEW t \in Seq(S)
      PROVE  s \o t \in Seq(S) /\ At(s \o t) = At(s) \cup At(t)
  <2>1. \A i \in 1..Len(t) : (s \o t)[Len(s) + i] = t[i]
    BY ConcatProperties, LenProperties
  <2>2. At(t) \subseteq At(s \o t)
    <3>1. \A i \in 1..Len(t) : Len(s) + i \in 1..Len(s \o t)
      BY ConcatProperties, LenProperties
    <3> QED BY <2>1, <3>1
  <2>3. At(s) \subseteq At(s \o t)
    BY ConcatProperties, LenProperties
  <2>4. ASSUME NEW i \in 1..Len(s \o t) PROVE (s \o t)[i] \in At(s) \cup At(t)
    <3>1. i \in 1..Len(s) \/ i - Len(s) \in 1..Len(t)
      BY ConcatProperties, LenProperties
    <3> QED BY <3>1, ConcatProperties, LenProperties
  <2>5. s \o t \in Seq(S)
    BY ConcatProperties
  <2> QED BY <2>2, <2>3, <2>4, <2>5
<1>6. ASSUME s # <<>>
      PROVE  /\ Head(s) \in S /\ Tail(s) \in Seq(S)
             /\ At(s) = {Head(s)} \cup At(Tail(s))
  <2>1. /\ Head(s) \in S /\ Tail(s) \in Seq(S) /\ Len(s) \in Nat \ {0}
        /\ Head(s) = s[1] /\ Len(Tail(s)) = Len(s) - 1
        /\ \A i \in 1..(Len(s) - 1) : Tail(s)[i] = s[i + 1]
    BY <1>6, HeadTailProperties, EmptySeq, LenProperties
  <2>2. \A i \in 2..Len(s) : i - 1 \in 1..(Len(s) - 1) /\ s[i] = Tail(s)[i - 1]
    BY <2>1
  <2>3. At(s) \subseteq {Head(s)} \cup At(Tail(s))
    BY <2>1, <2>2
  <2>4. At(Tail(s)) \subseteq At(s)
    <3>1. \A i \in 1..(Len(s) - 1) : i + 1 \in 1..Len(s)
      BY <2>1
    <3> QED BY <2>1, <3>1
  <2> QED BY <2>1, <2>3, <2>4
<1> QED BY <1>1, <1>2, <1>3, <1>4, <1>5, <1>6

(* About, of a sequence of frames. *)
LEMMA AboutKeeps ==
    ASSUME NEW s \in Seq(Frame), NEW R
    PROVE  /\ About(s, R) \in Seq(Frame) /\ Len(About(s, R)) <= Len(s)
           /\ \A f \in Frame : f \in Range(About(s, R)) <=> f \in Range(s) /\ f[1] \in R
           /\ Range(About(s, R)) \subseteq Range(s)
           /\ s = <<>> => About(s, R) = <<>>
<1>1. /\ About(s, R) \in Seq(Frame) /\ Len(About(s, R)) <= Len(s)
      /\ Range(About(s, R)) = Range(s) \cap (R \X (1..Gone))
  BY OnlyKeeps DEF About
<1>2. \A f \in Frame : f \in R \X (1..Gone) <=> f[1] \in R
  BY DEF Frame
<1>3. s = <<>> => About(s, R) = <<>>
  BY <1>1, SeqElements
<1> QED BY <1>1, <1>2, <1>3

-----------------------------------------------------------------------------
(* The steps of a connection, by what they are part of. *)
Registering(c) ==
    \/ BeginReclaim(c) \/ Snapshot(c) \/ SnapshotPanics(c) \/ TakeOver(c)
    \/ RegisterFresh(c) \/ Install(c) \/ Restored(c) \/ Refresh(c)
    \/ Written(c) \/ WriteFails(c) \/ Commit(c) \/ TailCheck(c) \/ TailSend(c)
    \/ \E r \in Rooms : Restore(c, r)

Requesting(c) ==
    \/ JoinApply(c) \/ LeaveApply(c)
    \/ \E r \in Rooms : JoinCheck(c, r) \/ LeaveCheck(c, r)

Ending(c) ==
    \/ Disconnect(c) \/ Cleanup(c) \/ StashFilter(c) \/ StashInsert(c)
    \/ StashRecheck(c) \/ Remove(c) \/ FailedRemove(c) \/ Unwound(c)
    \/ Release(c) \/ \E r \in Rooms : Leave(c, r)

Publishing ==
    \/ \E r \in Rooms : Rename(r) \/ Destroy(r)
    \/ Buffer \/ Publish \/ DestroyMembers \/ ForgetTombstone \/ ForgetSweep

(* The steps, by what they are part of. *)
LEMMA NextIs ==
    [Next]_vars <=> \/ \E c \in Conns : Registering(c) \/ Requesting(c) \/ Ending(c)
                    \/ StashExpires \/ Publishing \/ UNCHANGED vars
BY Zenon DEF Next, Registering, Requesting, Ending, Publishing

-----------------------------------------------------------------------------
(* Types. *)

(* A frame is on its way unless the publisher is idle. *)
RoomTypes ==
    /\ exists \subseteq Rooms /\ destroyed \subseteq Rooms
    /\ version \in [Rooms -> 0..MaxVersion]
    /\ pub \in [step : {"idle", "buffer", "live", "members", "tombstone",
                        "sweep"}, frame : Frame \cup {<<>>}]
    /\ pub.step = "idle" => pub.frame = <<>>
    /\ pub.step # "idle" => pub.frame \in Frame

(* The store and the publisher keep their types. *)
LEMMA RoomTypesStep ==
    ASSUME RoomTypes, [Next]_vars
    PROVE  RoomTypes'
<1> USE SessionAssumption DEF RoomTypes, Frame, Gone
<1>1. ASSUME UNCHANGED rooms PROVE RoomTypes'
  BY <1>1 DEF rooms
<1>2. ASSUME NEW c \in Conns, Registering(c) PROVE UNCHANGED rooms
  BY <1>2 DEF Registering, BeginReclaim, Snapshot, SnapshotPanics, TakeOver,
     RegisterFresh, Install, Restored, Refresh, Written, WriteFails, Commit,
     TailCheck, TailSend, Restore, rooms
<1>3. ASSUME NEW c \in Conns, Requesting(c) PROVE UNCHANGED rooms
  BY <1>3 DEF Requesting, JoinApply, LeaveApply, JoinCheck, LeaveCheck, rooms
<1>4. ASSUME NEW c \in Conns, Ending(c) PROVE UNCHANGED rooms
  BY <1>4 DEF Ending, Disconnect, Cleanup, StashFilter, StashInsert,
     StashRecheck, Remove, FailedRemove, Unwound, Release, Leave, rooms
<1>5. CASE StashExpires
  BY <1>1, <1>5 DEF StashExpires
<1>6. ASSUME NEW r \in Rooms, Rename(r) PROVE RoomTypes'
  BY <1>6 DEF Rename
<1>7. ASSUME NEW r \in Rooms, Destroy(r) PROVE RoomTypes'
  BY <1>7 DEF Destroy
<1>8. CASE Buffer
  BY <1>8 DEF Buffer, PubStep
<1>9. CASE Publish
  BY <1>9 DEF Publish
<1>10. CASE DestroyMembers
  BY <1>10 DEF DestroyMembers, PubStep
<1>11. CASE ForgetTombstone
  BY <1>11 DEF ForgetTombstone, PubStep
<1>12. CASE ForgetSweep
  BY <1>12 DEF ForgetSweep, PubStep
<1>13. CASE UNCHANGED vars
  BY <1>1, <1>13 DEF vars
<1> QED
  BY <1>1, <1>2, <1>3, <1>4, <1>5, <1>6, <1>7, <1>8, <1>9, <1>10, <1>11, <1>12,
     <1>13, NextIs DEF Publishing

(* What is left of a stash that is gone is nothing. *)
StashTypes ==
    /\ stash \in [present : BOOLEAN, rooms : SUBSET Rooms, missed : Seq(Frame),
                   lease : Conns \cup {None}]
    /\ Len(stash.missed) <= MaxBuffered
    /\ ~ stash.present => stash = NoStash

(* The stash keeps its type, and a lease is that of a task that claims it. *)
LEMMA StashTypesStep ==
    ASSUME StashTypes, RoomTypes, saving \subseteq Rooms, [Next]_vars
    PROVE  StashTypes'
<1> USE SessionAssumption DEF StashTypes
<1> DEFINE Stashes == [present : BOOLEAN, rooms : SUBSET Rooms, missed : Seq(Frame),
                       lease : Conns \cup {None}]
<1>1. NoStash \in Stashes /\ Len(NoStash.missed) <= MaxBuffered
  BY EmptySeq DEF NoStash
<1>2. ASSUME stash' \in {stash, NoStash} PROVE StashTypes'
  BY <1>1, <1>2
<1>3. /\ stash.present \in BOOLEAN /\ stash.rooms \subseteq Rooms
      /\ stash.missed \in Seq(Frame) /\ stash.lease \in Conns \cup {None}
      /\ ~ stash.present => /\ stash.rooms = {} /\ stash.missed = <<>>
                            /\ stash.lease = None
  BY DEF NoStash
<1>4. ASSUME NEW m \in Seq(Frame), Len(m) <= MaxBuffered, NEW R \in SUBSET Rooms,
             NEW l \in Conns \cup {None}, NEW p \in BOOLEAN,
             stash' = [present |-> p, rooms |-> R, missed |-> m, lease |-> l],
             ~ p => R = {} /\ m = <<>> /\ l = None
      PROVE  StashTypes'
  BY <1>4 DEF NoStash
<1>5. /\ stash = [present |-> stash.present, rooms |-> stash.rooms,
                  missed |-> stash.missed, lease |-> stash.lease]
      /\ Len(stash.missed) \in Nat
  BY <1>3, LenProperties
<1> HIDE DEF Stashes, StashTypes
<1>6. ASSUME NEW c \in Conns, Registering(c) PROVE StashTypes'
  <2>1. CASE BeginReclaim(c)
    <3>1. stash' = [present |-> stash.present, rooms |-> stash.rooms,
                    missed |-> stash.missed, lease |-> c]
      BY <1>5, <2>1 DEF BeginReclaim
    <3> QED BY <3>1, <1>3, <1>4, <2>1 DEF BeginReclaim, StashTypes
  <2>2. CASE Commit(c)
    BY <1>2, <2>2 DEF Commit
  <2>3. CASE ~ (BeginReclaim(c) \/ Commit(c))
    <3>1. UNCHANGED stash
      BY <1>6, <2>3 DEF Registering, Snapshot, SnapshotPanics, TakeOver,
         RegisterFresh, Install, Restored, Refresh, Written, WriteFails,
         TailCheck, TailSend, Restore
    <3> QED BY <3>1, <1>2
  <2> QED BY <2>1, <2>2, <2>3
<1>7. ASSUME NEW c \in Conns, Requesting(c) PROVE UNCHANGED stash
  BY <1>7 DEF Requesting, JoinApply, LeaveApply, JoinCheck, LeaveCheck
<1>8. ASSUME NEW c \in Conns, Ending(c) PROVE StashTypes'
  <2>1. CASE StashInsert(c)
    <3>1. stash' = [present |-> TRUE, rooms |-> saving, missed |-> <<>>, lease |-> None]
      BY <2>1 DEF StashInsert
    <3>2. <<>> \in Seq(Frame) /\ Len(<<>>) <= MaxBuffered
      BY EmptySeq
    <3> QED BY <3>1, <3>2, <1>4
  <2>2. CASE StashRecheck(c)
    <3>1. stash' = [present |-> stash.present, rooms |-> stash.rooms \ destroyed,
                    missed |-> stash.missed, lease |-> stash.lease]
      BY <1>5, <2>2 DEF StashRecheck
    <3> QED BY <3>1, <1>3, <1>4 DEF StashTypes
  <2>3. CASE Release(c)
    <3>1. stash' = stash \/
          stash' = [present |-> stash.present, rooms |-> stash.rooms,
                    missed |-> stash.missed, lease |-> None]
      BY <1>5, <2>3 DEF Release
    <3> QED BY <3>1, <1>2, <1>3, <1>4 DEF StashTypes
  <2>4. CASE ~ (StashInsert(c) \/ StashRecheck(c) \/ Release(c))
    <3>1. UNCHANGED stash
      BY <1>8, <2>4 DEF Ending, Disconnect, Cleanup, StashFilter, Remove,
         FailedRemove, Unwound, Leave
    <3> QED BY <3>1, <1>2
  <2> QED BY <2>1, <2>2, <2>3, <2>4
<1>9. CASE StashExpires
  BY <1>2, <1>9 DEF StashExpires
<1>10. CASE Buffer
  <2>1. CASE stash.present /\ Len(stash.missed) < MaxBuffered /\ stash' # stash
    <3>1. stash' = [present |-> stash.present, rooms |-> stash.rooms,
                    missed |-> Append(stash.missed, pub.frame), lease |-> stash.lease]
      BY <1>5, <1>10, <2>1 DEF Buffer
    <3>2. pub.frame \in Frame
      BY <1>10 DEF Buffer, RoomTypes
    <3>3. /\ Append(stash.missed, pub.frame) \in Seq(Frame)
          /\ Len(Append(stash.missed, pub.frame)) = Len(stash.missed) + 1
      BY <3>2, <1>3, SeqElements
    <3>4. Len(Append(stash.missed, pub.frame)) <= MaxBuffered
      BY <3>3, <2>1, <1>5
    <3> QED BY <3>1, <3>3, <3>4, <1>3, <1>4, <2>1
  <2> QED BY <1>2, <1>10, <2>1 DEF Buffer
<1>11. CASE ForgetSweep
  <2> DEFINE m == About(stash.missed, Rooms \ {pub.frame[1]})
  <2>1. stash' = [present |-> stash.present, rooms |-> stash.rooms \ {pub.frame[1]},
                  missed |-> m, lease |-> stash.lease]
    BY <1>5, <1>11 DEF ForgetSweep
  <2>2. m \in Seq(Frame) /\ Len(m) <= MaxBuffered /\ (stash.missed = <<>> => m = <<>>)
    <3>1. m \in Seq(Frame) /\ Len(m) <= Len(stash.missed) /\ Len(m) \in Nat
      BY <1>3, AboutKeeps, LenProperties
    <3> QED BY <3>1, <1>3, <1>5, AboutKeeps DEF StashTypes
  <2> QED BY <2>1, <2>2, <1>3, <1>4
<1>12. CASE Publishing /\ ~ Buffer /\ ~ ForgetSweep
  <2>1. UNCHANGED stash
    BY <1>12 DEF Publishing, Rename, Destroy, Publish, DestroyMembers, ForgetTombstone
  <2> QED BY <2>1, <1>2
<1>13. CASE UNCHANGED vars
  BY <1>2, <1>13 DEF vars
<1> QED
  BY <1>2, <1>6, <1>7, <1>8, <1>9, <1>10, <1>11, <1>12, <1>13, NextIs

(* The mutex is held where the code holds it, a lease ends with its holder. *)
LockTypes ==
    /\ live \in Conns \cup {None} /\ lock \in Conns \cup {None}
    /\ pc \in [Conns -> PCs]
    /\ stash.lease # None => pc[stash.lease] \in Claiming
    /\ \A c \in Conns : lock = c <=> pc[c] \in Locked

(* A task moves, and takes or gives back the mutex or the lease. *)
LEMMA LockTypesMove ==
    ASSUME LockTypes, stash.lease \in Conns \cup {None},
           NEW c \in Conns, NEW p \in PCs,
           pc' = [pc EXCEPT ![c] = p], live' \in {live, c, None},
           \/ lock' = lock /\ (p \in Locked <=> pc[c] \in Locked)
           \/ lock = None /\ lock' = c /\ p \in Locked
           \/ lock = c /\ lock' = None /\ p \notin Locked,
           stash'.lease \in {stash.lease, None, c},
           stash'.lease = c => p \in Claiming
    PROVE  LockTypes'
<1> USE SessionAssumption DEF LockTypes
<1>1. live' \in Conns \cup {None} /\ lock' \in Conns \cup {None} /\ pc' \in [Conns -> PCs]
  OBVIOUS
<1>2. stash'.lease # None => pc'[stash'.lease] \in Claiming
  <2>1. CASE stash'.lease = c
    BY <2>1
  <2>2. CASE stash'.lease # c
    BY <2>2
  <2> QED BY <2>1, <2>2
<1>3. \A d \in Conns : lock' = d <=> pc'[d] \in Locked
  OBVIOUS
<1> QED BY <1>1, <1>2, <1>3

(* So it is at every step. *)
LEMMA LockTypesStep ==
    ASSUME LockTypes, StashTypes, [Next]_vars
    PROVE  LockTypes'
<1> USE SessionAssumption DEF LockTypes, PCs, Goto, Locked, Claiming, NoStash,
        rooms, registry, local, history
<1>1. stash.lease \in Conns \cup {None}
  BY DEF StashTypes
<1>2. ASSUME NEW c \in Conns, Registering(c) PROVE LockTypes'
  <2>1. CASE BeginReclaim(c)
    BY <2>1 DEF BeginReclaim
  <2>2. CASE Snapshot(c)
    BY <2>2 DEF Snapshot
  <2>3. CASE SnapshotPanics(c)
    <3>1. stash.lease # c
      BY <2>3 DEF SnapshotPanics, StashTypes
    <3> QED BY <2>3, <3>1 DEF SnapshotPanics
  <2>4. CASE TakeOver(c)
    BY <2>4 DEF TakeOver
  <2>5. CASE RegisterFresh(c)
    BY <2>5 DEF RegisterFresh
  <2>6. CASE Install(c)
    BY <2>6 DEF Install
  <2>7. CASE Restored(c)
    BY <2>7 DEF Restored
  <2>8. CASE Refresh(c)
    BY <2>8 DEF Refresh
  <2>9. CASE Written(c)
    BY <2>9 DEF Written
  <2>10. CASE WriteFails(c)
    BY <2>10 DEF WriteFails
  <2>11. CASE Commit(c)
    BY <1>1, <2>11, LockTypesMove DEF Commit
  <2>12. CASE TailCheck(c)
    BY <1>1, <2>12, LockTypesMove DEF TailCheck
  <2>13. CASE TailSend(c)
    BY <1>1, <2>13, LockTypesMove DEF TailSend
  <2>14. ASSUME NEW r \in Rooms, Restore(c, r) PROVE LockTypes'
    BY <2>14 DEF Restore
  <2> QED BY <2>1, <2>2, <2>3, <2>4, <2>5, <2>6, <2>7, <2>8, <2>9, <2>10, <2>11, <2>12, <2>13, <2>14, <1>2 DEF Registering
<1>3. ASSUME NEW c \in Conns, Requesting(c) PROVE LockTypes'
  <2>1. CASE JoinApply(c)
    BY <2>1 DEF JoinApply, LifecycleFree
  <2>2. CASE LeaveApply(c)
    BY <2>2 DEF LeaveApply
  <2>3. ASSUME NEW r \in Rooms, JoinCheck(c, r) PROVE LockTypes'
    BY <2>3 DEF JoinCheck
  <2>4. ASSUME NEW r \in Rooms, LeaveCheck(c, r) PROVE LockTypes'
    BY <2>4 DEF LeaveCheck
  <2> QED BY <2>1, <2>2, <2>3, <2>4, <1>3 DEF Requesting
<1>4. ASSUME NEW c \in Conns, Ending(c) PROVE LockTypes'
  <2>1. CASE Disconnect(c)
    BY <2>1 DEF Disconnect
  <2>2. CASE Cleanup(c)
    BY <1>1, <2>2, LockTypesMove DEF Cleanup, Finish
  <2>3. CASE StashFilter(c)
    BY <2>3 DEF StashFilter
  <2>4. CASE StashInsert(c)
    BY <2>4 DEF StashInsert
  <2>5. CASE StashRecheck(c)
    BY <2>5 DEF StashRecheck
  <2>6. CASE Remove(c)
    BY <2>6 DEF Remove, Finish
  <2>7. CASE FailedRemove(c)
    BY <1>1, <2>7, LockTypesMove DEF FailedRemove
  <2>8. CASE Unwound(c)
    BY <2>8 DEF Unwound
  <2>9. CASE Release(c)
    BY <2>9 DEF Release, Finish
  <2>10. ASSUME NEW r \in Rooms, Leave(c, r) PROVE LockTypes'
    BY <2>10 DEF Leave
  <2> QED BY <2>1, <2>2, <2>3, <2>4, <2>5, <2>6, <2>7, <2>8, <2>9, <2>10, <1>4 DEF Ending
<1>5. CASE StashExpires
  BY <1>5 DEF StashExpires
<1>6. CASE Publishing
  <2>1. UNCHANGED <<live, lock, pc>>
    BY <1>6 DEF Publishing, Rename, Destroy, Buffer, Publish, DestroyMembers,
       ForgetTombstone, ForgetSweep
  <2>2. stash'.lease = stash.lease
    BY <1>6 DEF Publishing, Rename, Destroy, Buffer, Publish, DestroyMembers,
       ForgetTombstone, ForgetSweep, StashTypes
  <2> QED BY <2>1, <2>2
<1>7. CASE UNCHANGED vars
  BY <1>7 DEF vars
<1> QED BY <1>2, <1>3, <1>4, <1>5, <1>6, <1>7, NextIs

(* A task about to send has a frame to send. *)
ConnTypes ==
    /\ way \in [Conns -> {"fresh", "reclaim", "takeover"}]
    /\ todo \in [Conns -> SUBSET Rooms] /\ saving \subseteq Rooms
    /\ frames \in [Conns -> Seq(Frame)] /\ out \in [Conns -> Seq(Frame)]
    /\ held \in [Conns -> SUBSET Rooms]
    /\ tailed \in [Conns -> SUBSET Frame] /\ early \in [Conns -> SUBSET Frame]
    /\ \A c \in Conns : pc[c] = "send" => frames[c] # <<>>

HistoryTypes ==
    /\ members \subseteq Rooms /\ owned \subseteq Rooms /\ late \subseteq Rooms
    /\ excused \in BOOLEAN
    /\ buffered \subseteq Frame /\ reached \subseteq Frame /\ lost \subseteq Frame

TypeInv == RoomTypes /\ StashTypes /\ LockTypes /\ ConnTypes /\ HistoryTypes

(* The locals of the connections keep their types. *)
LEMMA ConnTypesStep ==
    ASSUME TypeInv, [Next]_vars
    PROVE  ConnTypes'
<1> USE SessionAssumption DEF ConnTypes, Goto, Set, rooms, registry, local, history
<1>1. /\ ConnTypes /\ pc \in [Conns -> PCs] /\ live \in Conns \cup {None}
      /\ members \subseteq Rooms /\ exists \subseteq Rooms
      /\ stash.missed \in Seq(Frame) /\ stash.rooms \subseteq Rooms
  BY DEF TypeInv, RoomTypes, StashTypes, LockTypes, HistoryTypes
<1> USE <1>1
<1>2. ASSUME NEW c \in Conns, Registering(c) PROVE ConnTypes'
  <2>1. CASE BeginReclaim(c)
    BY <2>1 DEF BeginReclaim
  <2>2. CASE Snapshot(c)
    <3>1. About(stash.missed, exists) \in Seq(Frame)
      BY AboutKeeps
    <3> QED BY <2>2, <3>1 DEF Snapshot
  <2>3. CASE SnapshotPanics(c)
    BY <2>3 DEF SnapshotPanics
  <2>4. CASE TakeOver(c)
    BY <2>4 DEF TakeOver
  <2>5. CASE RegisterFresh(c)
    BY <2>5 DEF RegisterFresh
  <2>6. CASE Install(c)
    BY <2>6 DEF Install
  <2>7. CASE Restored(c)
    BY <2>7 DEF Restored
  <2>8. CASE Refresh(c)
    <3>1. /\ About(stash.missed, exists) \in Seq(Frame)
          /\ About(frames[c], exists) \in Seq(Frame)
      BY AboutKeeps
    <3>2. \E u \in Seq(Frame) : frames' = [frames EXCEPT ![c] = u]
      BY <2>8, <3>1 DEF Refresh
    <3> QED BY <2>8, <3>2 DEF Refresh
  <2>9. CASE Written(c)
    BY <2>9 DEF Written
  <2>10. CASE WriteFails(c)
    BY <2>10 DEF WriteFails
  <2>11. CASE Commit(c)
    <3>1. Only(stash.missed, Frame \ Range(frames[c])) \in Seq(Frame) /\ <<>> \in Seq(Frame)
      BY OnlyKeeps, EmptySeq
    <3>2. \E u \in Seq(Frame) : frames' = [frames EXCEPT ![c] = u]
      BY <2>11, <3>1 DEF Commit
    <3>3. \E p \in {"tail", "ready"} : pc' = [pc EXCEPT ![c] = p]
      BY <2>11 DEF Commit
    <3> QED BY <2>11, <3>2, <3>3 DEF Commit
  <2>12. CASE TailCheck(c)
    <3>1. CASE UNCHANGED frames
      BY <2>12, <3>1 DEF TailCheck
    <3>2. CASE ~ UNCHANGED frames
      <4>1. /\ frames[c] # <<>> /\ frames' = [frames EXCEPT ![c] = Tail(frames[c])]
            /\ pc' = pc /\ pc[c] = "tail"
        BY <2>12, <3>2 DEF TailCheck
      <4>2. Tail(frames[c]) \in Seq(Frame)
        BY <4>1, SeqElements
      <4> QED BY <2>12, <4>1, <4>2 DEF TailCheck
    <3> QED BY <3>1, <3>2
  <2>13. CASE TailSend(c)
    <3>1. /\ Head(frames[c]) \in Frame /\ Tail(frames[c]) \in Seq(Frame)
          /\ Append(out[c], Head(frames[c])) \in Seq(Frame) /\ <<>> \in Seq(Frame)
      <4>1. frames[c] # <<>> /\ frames[c] \in Seq(Frame) /\ out[c] \in Seq(Frame)
        BY <2>13 DEF TailSend
      <4> QED BY <4>1, SeqElements, EmptySeq
    <3>2. tailed[c] \cup {Head(frames[c])} \in SUBSET Frame
      BY <3>1
    <3>3. CASE live = c
      <4>1. /\ frames' = [frames EXCEPT ![c] = Tail(frames[c])]
            /\ out' = [out EXCEPT ![c] = Append(out[c], Head(frames[c]))]
            /\ tailed' = [tailed EXCEPT ![c] = tailed[c] \cup {Head(frames[c])}]
            /\ pc' = [pc EXCEPT ![c] = "tail"]
            /\ UNCHANGED <<way, todo, saving, held, early>>
        BY <2>13, <3>3 DEF TailSend
      <4> QED BY <3>1, <3>2, <4>1
    <3>4. CASE live # c
      <4>1. /\ frames' = [frames EXCEPT ![c] = <<>>]
            /\ pc' = [pc EXCEPT ![c] = "ready"]
            /\ UNCHANGED <<way, todo, saving, out, held, tailed, early>>
        BY <2>13, <3>4 DEF TailSend
      <4> QED BY <3>1, <4>1
    <3> QED BY <3>3, <3>4
  <2>14. ASSUME NEW r \in Rooms, Restore(c, r) PROVE ConnTypes'
    <3>1. held[c] \cup {r} \in SUBSET Rooms
      OBVIOUS
    <3>2. CASE r \in exists
      <4>1. /\ todo' = [todo EXCEPT ![c] = todo[c] \ {r}]
            /\ held' = [held EXCEPT ![c] = held[c] \cup {r}]
            /\ UNCHANGED <<pc, way, saving, frames, out, tailed, early>>
        BY <2>14, <3>2 DEF Restore
      <4> QED BY <3>1, <4>1
    <3>3. CASE r \notin exists
      BY <2>14, <3>3 DEF Restore
    <3> QED BY <3>2, <3>3
  <2> QED BY <2>1, <2>2, <2>3, <2>4, <2>5, <2>6, <2>7, <2>8, <2>9, <2>10, <2>11, <2>12, <2>13, <2>14, <1>2 DEF Registering
<1>3. ASSUME NEW c \in Conns, Requesting(c) PROVE ConnTypes'
  <2>1. CASE JoinApply(c)
    <3>1. held[c] \cup todo[c] \in SUBSET Rooms
      OBVIOUS
    <3>2. held' \in {held, [held EXCEPT ![c] = held[c] \cup todo[c]]}
      BY <2>1 DEF JoinApply
    <3>3. held' \in [Conns -> SUBSET Rooms]
      BY <3>1, <3>2
    <3> QED BY <2>1, <3>3 DEF JoinApply
  <2>2. CASE LeaveApply(c)
    BY <2>2 DEF LeaveApply
  <2>3. ASSUME NEW r \in Rooms, JoinCheck(c, r) PROVE ConnTypes'
    BY <2>3 DEF JoinCheck
  <2>4. ASSUME NEW r \in Rooms, LeaveCheck(c, r) PROVE ConnTypes'
    BY <2>4 DEF LeaveCheck
  <2> QED BY <2>1, <2>2, <2>3, <2>4, <1>3 DEF Requesting
<1>4. ASSUME NEW c \in Conns, Ending(c) PROVE ConnTypes'
  <2>1. CASE Disconnect(c)
    BY <2>1 DEF Disconnect
  <2>2. CASE Cleanup(c)
    <3>1. CASE live = c
      BY <2>2, <3>1 DEF Cleanup
    <3>2. CASE live # c
      <4>1. <<>> \in Seq(Frame)
        BY EmptySeq
      <4>2. /\ pc' = [pc EXCEPT ![c] = "done"] /\ way' = [way EXCEPT ![c] = "fresh"]
            /\ out' = [out EXCEPT ![c] = <<>>] /\ frames' = [frames EXCEPT ![c] = <<>>]
            /\ held' = [held EXCEPT ![c] = {}] /\ tailed' = [tailed EXCEPT ![c] = {}]
            /\ early' = [early EXCEPT ![c] = {}] /\ UNCHANGED <<todo, saving>>
        BY <2>2, <3>2 DEF Cleanup, Finish
      <4> QED BY <4>1, <4>2
    <3> QED BY <3>1, <3>2
  <2>3. CASE StashFilter(c)
    BY <2>3 DEF StashFilter
  <2>4. CASE StashInsert(c)
    BY <2>4 DEF StashInsert
  <2>5. CASE StashRecheck(c)
    BY <2>5 DEF StashRecheck
  <2>6. CASE Remove(c)
    BY <2>6 DEF Remove, Finish
  <2>7. CASE FailedRemove(c)
    <3>1. CASE live = c
      <4>1. members \in SUBSET Rooms
        OBVIOUS
      <4>2. /\ pc' = [pc EXCEPT ![c] = "unwind"]
            /\ todo' = [todo EXCEPT ![c] = members]
            /\ UNCHANGED <<way, saving, frames, out, held, tailed, early>>
        BY <2>7, <3>1 DEF FailedRemove
      <4> QED BY <4>1, <4>2
    <3>2. CASE live # c
      BY <2>7, <3>2 DEF FailedRemove
    <3> QED BY <3>1, <3>2
  <2>8. CASE Unwound(c)
    BY <2>8 DEF Unwound
  <2>9. CASE Release(c)
    BY <2>9 DEF Release, Finish
  <2>10. ASSUME NEW r \in Rooms, Leave(c, r) PROVE ConnTypes'
    BY <2>10 DEF Leave
  <2> QED BY <2>1, <2>2, <2>3, <2>4, <2>5, <2>6, <2>7, <2>8, <2>9, <2>10, <1>4 DEF Ending
<1>5. CASE StashExpires
  BY <1>5 DEF StashExpires
<1>6. CASE Publishing
  <2>1. CASE Publish
    <3>1. CASE live = None
      BY <2>1, <3>1 DEF Publish, SendLive
    <3>2. CASE live # None
      <4>1. pub.frame \in Frame /\ live \in Conns
        BY <2>1, <3>2 DEF Publish, TypeInv, RoomTypes
      <4>2. Append(out[live], pub.frame) \in Seq(Frame)
        BY <4>1, SeqElements
      <4>3. out' = [out EXCEPT ![live] = Append(out[live], pub.frame)]
        BY <2>1, <3>2 DEF Publish, SendLive
      <4>4. early' \in [Conns -> SUBSET Frame]
        <5>1. early[live] \cup {pub.frame} \in SUBSET Frame
          BY <4>1
        <5>2. early' \in {early, [early EXCEPT ![live] = early[live] \cup {pub.frame}]}
          BY <2>1, <3>2 DEF Publish, SendLive
        <5> QED BY <4>1, <5>1, <5>2
      <4> QED BY <2>1, <4>1, <4>2, <4>3, <4>4 DEF Publish
    <3> QED BY <3>1, <3>2
  <2>2. CASE ~ Publish
    BY <1>6, <2>2 DEF Publishing, Rename, Destroy, Buffer, DestroyMembers,
       ForgetTombstone, ForgetSweep
  <2> QED BY <2>1, <2>2
<1>7. CASE UNCHANGED vars
  BY <1>7 DEF vars
<1> QED BY <1>2, <1>3, <1>4, <1>5, <1>6, <1>7, NextIs

(* The members and the history keep their types. *)
LEMMA HistoryTypesStep ==
    ASSUME TypeInv, [Next]_vars
    PROVE  HistoryTypes'
<1> USE SessionAssumption DEF HistoryTypes, ConnTypes, Goto, Set, rooms, registry, local, history
<1>1. HistoryTypes /\ ConnTypes /\ stash.present \in BOOLEAN
  BY DEF TypeInv, StashTypes
<1> USE <1>1
<1>2. ASSUME NEW c \in Conns, Registering(c) PROVE HistoryTypes'
  <2>1. CASE BeginReclaim(c)
    BY <2>1 DEF BeginReclaim
  <2>2. CASE Snapshot(c)
    BY <2>2 DEF Snapshot
  <2>3. CASE SnapshotPanics(c)
    BY <2>3 DEF SnapshotPanics
  <2>4. CASE TakeOver(c)
    BY <2>4 DEF TakeOver
  <2>5. CASE RegisterFresh(c)
    BY <2>5 DEF RegisterFresh
  <2>6. CASE Install(c)
    BY <2>6 DEF Install
  <2>7. CASE Restored(c)
    BY <2>7 DEF Restored
  <2>8. CASE Refresh(c)
    BY <2>8 DEF Refresh
  <2>9. CASE Written(c)
    <3>1. Range(frames[c]) \subseteq Frame
      BY SeqElements
    <3> QED BY <2>9, <3>1 DEF Written
  <2>10. CASE WriteFails(c)
    BY <2>10 DEF WriteFails
  <2>11. CASE Commit(c)
    BY <2>11 DEF Commit
  <2>12. CASE TailCheck(c)
    BY <2>12 DEF TailCheck
  <2>13. CASE TailSend(c)
    <3>1. frames[c] # <<>> /\ frames[c] \in Seq(Frame)
      BY <2>13 DEF TailSend
    <3>2. Head(frames[c]) \in Frame /\ Range(frames[c]) \subseteq Frame
      BY <3>1, SeqElements
    <3> QED BY <2>13, <3>2 DEF TailSend
  <2>14. ASSUME NEW r \in Rooms, Restore(c, r) PROVE HistoryTypes'
    BY <2>14 DEF Restore
  <2> QED BY <2>1, <2>2, <2>3, <2>4, <2>5, <2>6, <2>7, <2>8, <2>9, <2>10, <2>11, <2>12, <2>13, <2>14, <1>2 DEF Registering
<1>3. ASSUME NEW c \in Conns, Requesting(c) PROVE HistoryTypes'
  <2>1. CASE JoinApply(c)
    <3>1. todo[c] \subseteq Rooms
      OBVIOUS
    <3>2. UNCHANGED <<excused, buffered, reached, lost>>
      BY <2>1 DEF JoinApply
    <3>3. /\ members' \in {members, members \cup todo[c]}
          /\ owned' \in {owned, owned \cup todo[c]}
          /\ late' \in {late, late \cup todo[c]}
      BY <2>1 DEF JoinApply
    <3> QED BY <3>1, <3>2, <3>3
  <2>2. CASE LeaveApply(c)
    <3>1. todo[c] \subseteq Rooms
      OBVIOUS
    <3>2. UNCHANGED <<excused, buffered, reached, lost>>
      BY <2>2 DEF LeaveApply
    <3>3. /\ members' = members \ todo[c]
          /\ owned' \in {owned, owned \ todo[c]}
          /\ late' \in {late, late \cup todo[c]}
      BY <2>2 DEF LeaveApply
    <3> QED BY <3>1, <3>2, <3>3
  <2>3. ASSUME NEW r \in Rooms, JoinCheck(c, r) PROVE HistoryTypes'
    BY <2>3 DEF JoinCheck
  <2>4. ASSUME NEW r \in Rooms, LeaveCheck(c, r) PROVE HistoryTypes'
    BY <2>4 DEF LeaveCheck
  <2> QED BY <2>1, <2>2, <2>3, <2>4, <1>3 DEF Requesting
<1>4. ASSUME NEW c \in Conns, Ending(c) PROVE HistoryTypes'
  <2>1. CASE Disconnect(c)
    BY <2>1 DEF Disconnect
  <2>2. CASE Cleanup(c)
    BY <2>2 DEF Cleanup, Finish
  <2>3. CASE StashFilter(c)
    BY <2>3 DEF StashFilter
  <2>4. CASE StashInsert(c)
    <3>1. Range(stash.missed) \subseteq Frame
      BY SeqElements DEF TypeInv, StashTypes
    <3>2. owned' \subseteq Rooms
      BY <2>4 DEF StashInsert
    <3> QED BY <2>4, <3>1, <3>2 DEF StashInsert
  <2>5. CASE StashRecheck(c)
    BY <2>5 DEF StashRecheck
  <2>6. CASE Remove(c)
    BY <2>6 DEF Remove, Finish
  <2>7. CASE FailedRemove(c)
    BY <2>7 DEF FailedRemove
  <2>8. CASE Unwound(c)
    BY <2>8 DEF Unwound
  <2>9. CASE Release(c)
    BY <2>9 DEF Release, Finish
  <2>10. ASSUME NEW r \in Rooms, Leave(c, r) PROVE HistoryTypes'
    BY <2>10 DEF Leave
  <2> QED BY <2>1, <2>2, <2>3, <2>4, <2>5, <2>6, <2>7, <2>8, <2>9, <2>10, <1>4 DEF Ending
<1>5. CASE StashExpires
  <2>1. Range(stash.missed) \subseteq Frame
    BY SeqElements DEF TypeInv, StashTypes
  <2> QED BY <1>5, <2>1 DEF StashExpires
<1>6. CASE Publishing
  <2>1. UNCHANGED <<owned, late, excused, reached, lost>> /\ members' \subseteq members
    BY <1>6 DEF Publishing, Rename, Destroy, Buffer, Publish, DestroyMembers,
       ForgetTombstone, ForgetSweep
  <2>2. buffered' = buffered \/ (Buffer /\ buffered' = buffered \cup {pub.frame})
    BY <1>6 DEF Publishing, Rename, Destroy, Buffer, Publish, DestroyMembers,
       ForgetTombstone, ForgetSweep
  <2>3. Buffer => pub.frame \in Frame
    BY DEF Buffer, TypeInv, RoomTypes
  <2> QED BY <2>1, <2>2, <2>3
<1>7. CASE UNCHANGED vars
  BY <1>7 DEF vars
<1> QED BY <1>2, <1>3, <1>4, <1>5, <1>6, <1>7, NextIs

(* The first state is typed. *)
LEMMA TypeInit == Init => TypeInv
<1> SUFFICES ASSUME Init PROVE TypeInv
  OBVIOUS
<1> USE SessionAssumption, EmptySeq DEF Init, NoStash
<1>1. RoomTypes
  BY DEF RoomTypes
<1>2. StashTypes
  BY DEF StashTypes
<1>3. LockTypes
  BY DEF LockTypes, PCs, Locked
<1>4. ConnTypes
  <2>1. <<>> \in Seq(Frame)
    OBVIOUS
  <2> QED BY <2>1 DEF ConnTypes
<1>5. HistoryTypes
  BY DEF HistoryTypes
<1> QED BY <1>1, <1>2, <1>3, <1>4, <1>5 DEF TypeInv

(* A step keeps the types. *)
LEMMA TypeStep == TypeInv /\ [Next]_vars => TypeInv'
<1>1. TypeInv => saving \subseteq Rooms
  BY DEF TypeInv, ConnTypes
<1> QED
  BY <1>1, RoomTypesStep, StashTypesStep, LockTypesStep, ConnTypesStep,
     HistoryTypesStep DEF TypeInv

(* The registry, the stash with its bounded buffer, the publisher and the  *)
(* locals of every connection keep their types, and nobody but the holder  *)
(* of agent_lifecycle is where the code holds it.                          *)
THEOREM TypeCorrect == Spec => []TypeOK
<1>1. TypeInv => TypeOK
  BY DEF TypeInv, RoomTypes, StashTypes, LockTypes, ConnTypes, HistoryTypes, TypeOK
<1> QED BY <1>1, TypeInit, TypeStep, PTL DEF Spec

-----------------------------------------------------------------------------
(* The rooms of the agent are those of its session. *)

(* A room on its way out is gone from the store.  Registration up to the   *)
(* last restored room and cleanup from the first look at the entry are     *)
(* those of the installed session; what the agent is a member of is on the *)
(* list of whoever clears it, unless a replaced session joined it.         *)
MembersInv ==
    /\ pub.step \in {"members", "tombstone", "sweep"} => pub.frame[1] \notin exists
    /\ \A c \in Conns :
        /\ pc[c] = "restore" => live = c
        /\ pc[c] \in {"filter", "insert", "recheck", "leave", "remove"} =>
               live = c /\ members \subseteq late \cup todo[c]
        /\ pc[c] = "remove" => todo[c] = {}
        /\ pc[c] = "unwind" => live = None /\ members \subseteq late \cup todo[c]
        /\ pc[c] \in {"new", "snapshot", "install"} => held[c] = {}
        /\ live = c /\ pc[c] \in {"restore", "refresh", "write"} \cup Acked =>
               (held[c] \cap exists) \ late \subseteq members
    /\ live = None /\ (\A c \in Conns : pc[c] # "unwind") => members \subseteq late

(* A step keeps the rooms those of the session. *)
LEMMA MembersStep ==
    ASSUME TypeInv, MembersInv, [Next]_vars
    PROVE  MembersInv'
<1> USE SessionAssumption DEF MembersInv, Goto, Set, Locked, Acked, rooms, registry,
        local, history
<1>1. ConnTypes /\ LockTypes
  BY DEF TypeInv
<1> USE DEF ConnTypes, LockTypes
<1>2. ASSUME NEW c \in Conns, Registering(c) PROVE MembersInv'
  <2>1. CASE BeginReclaim(c)
    BY <1>1, <2>1 DEF BeginReclaim
  <2>2. CASE Snapshot(c)
    BY <1>1, <2>2 DEF Snapshot
  <2>3. CASE SnapshotPanics(c)
    BY <1>1, <2>3 DEF SnapshotPanics
  <2>4. CASE TakeOver(c)
    BY <1>1, <2>4 DEF TakeOver
  <2>5. CASE RegisterFresh(c)
    BY <1>1, <2>5 DEF RegisterFresh
  <2>6. CASE Install(c)
    BY <1>1, <2>6 DEF Install
  <2>7. CASE Restored(c)
    BY <1>1, <2>7 DEF Restored
  <2>8. CASE Refresh(c)
    BY <1>1, <2>8 DEF Refresh
  <2>9. CASE Written(c)
    BY <1>1, <2>9 DEF Written
  <2>10. CASE WriteFails(c)
    BY <1>1, <2>10 DEF WriteFails
  <2>11. CASE Commit(c)
    BY <1>1, <2>11 DEF Commit
  <2>12. CASE TailCheck(c)
    BY <1>1, <2>12 DEF TailCheck
  <2>13. CASE TailSend(c)
    <3>1. PICK p \in {"tail", "ready"} : pc' = [pc EXCEPT ![c] = p]
      BY <2>13 DEF TailSend
    <3>2. pc[c] = "send" /\ UNCHANGED <<pub, exists, live, members, todo, held, late>>
      BY <2>13 DEF TailSend
    <3> QED BY <1>1, <3>1, <3>2
  <2>14. ASSUME NEW r \in Rooms, Restore(c, r) PROVE MembersInv'
    BY <1>1, <2>14 DEF Restore
  <2> QED BY <2>1, <2>2, <2>3, <2>4, <2>5, <2>6, <2>7, <2>8, <2>9, <2>10, <2>11, <2>12, <2>13, <2>14, <1>2 DEF Registering
<1>3. ASSUME NEW c \in Conns, Requesting(c) PROVE MembersInv'
  <2>1. CASE JoinApply(c)
    <3>1. /\ pc[c] = "joining" /\ pc' = [pc EXCEPT ![c] = "ready"]
          /\ todo' = [todo EXCEPT ![c] = {}]
          /\ UNCHANGED <<pub, exists, live, lock>>
      BY <2>1 DEF JoinApply
    <3>2. CASE UNCHANGED <<members, held, late>>
      BY <1>1, <3>1, <3>2
    <3>3. CASE ~ UNCHANGED <<members, held, late>>
      <4>1. /\ members' = members \cup todo[c]
            /\ held' = [held EXCEPT ![c] = held[c] \cup todo[c]]
            /\ \/ live = c /\ lock = None /\ late' = late
               \/ ~ (live = c /\ lock = None) /\ late' = late \cup todo[c]
        BY <2>1, <3>3 DEF JoinApply, Alone
      <4>2. CASE live = c /\ lock = None
        BY <1>1, <3>1, <4>1, <4>2
      <4>3. CASE ~ (live = c /\ lock = None)
        BY <1>1, <3>1, <4>1, <4>3
      <4> QED BY <4>2, <4>3
    <3> QED BY <3>2, <3>3
  <2>2. CASE LeaveApply(c)
    <3>1. /\ pc[c] = "leaving" /\ pc' = [pc EXCEPT ![c] = "ready"]
          /\ todo' = [todo EXCEPT ![c] = {}]
          /\ members' = members \ todo[c]
          /\ held' = [held EXCEPT ![c] = held[c] \ todo[c]]
          /\ UNCHANGED <<pub, exists, live, lock>>
          /\ \/ live = c /\ lock = None /\ late' = late
             \/ ~ (live = c /\ lock = None) /\ late' = late \cup todo[c]
      BY <2>2 DEF LeaveApply, Alone
    <3>2. CASE live = c /\ lock = None
      BY <1>1, <3>1, <3>2
    <3>3. CASE ~ (live = c /\ lock = None)
      BY <1>1, <3>1, <3>3
    <3> QED BY <3>2, <3>3
  <2>3. ASSUME NEW r \in Rooms, JoinCheck(c, r) PROVE MembersInv'
    BY <1>1, <2>3 DEF JoinCheck
  <2>4. ASSUME NEW r \in Rooms, LeaveCheck(c, r) PROVE MembersInv'
    BY <1>1, <2>4 DEF LeaveCheck
  <2> QED BY <2>1, <2>2, <2>3, <2>4, <1>3 DEF Requesting
<1>4. ASSUME NEW c \in Conns, Ending(c) PROVE MembersInv'
  <2>1. CASE Disconnect(c)
    BY <1>1, <2>1 DEF Disconnect
  <2>2. CASE Cleanup(c)
    BY <1>1, <2>2 DEF Cleanup, Finish
  <2>3. CASE StashFilter(c)
    BY <1>1, <2>3 DEF StashFilter
  <2>4. CASE StashInsert(c)
    BY <1>1, <2>4 DEF StashInsert
  <2>5. CASE StashRecheck(c)
    BY <1>1, <2>5 DEF StashRecheck
  <2>6. CASE Remove(c)
    BY <1>1, <2>6 DEF Remove, Finish
  <2>7. CASE FailedRemove(c)
    BY <1>1, <2>7 DEF FailedRemove
  <2>8. CASE Unwound(c)
    BY <1>1, <2>8 DEF Unwound
  <2>9. CASE Release(c)
    BY <1>1, <2>9 DEF Release, Finish
  <2>10. ASSUME NEW r \in Rooms, Leave(c, r) PROVE MembersInv'
    BY <1>1, <2>10 DEF Leave
  <2> QED BY <2>1, <2>2, <2>3, <2>4, <2>5, <2>6, <2>7, <2>8, <2>9, <2>10, <1>4 DEF Ending
<1>5. CASE StashExpires
  BY <1>1, <1>5 DEF StashExpires
<1>6. CASE Publishing
  <2>1. UNCHANGED <<live, lock, pc, todo, held, late>>
    BY <1>6 DEF Publishing, Rename, Destroy, Buffer, Publish, DestroyMembers,
       ForgetTombstone, ForgetSweep
  <2>2. /\ exists' \subseteq exists
        /\ pub'.step \in {"members", "tombstone", "sweep"} => pub'.frame[1] \notin exists'
    BY <1>1, <1>6 DEF Publishing, Rename, Destroy, Buffer, Publish, DestroyMembers,
       ForgetTombstone, ForgetSweep, PubStep, TypeInv, RoomTypes
  <2>3. members' \subseteq members /\ members \cap exists \subseteq members'
    BY <1>1, <1>6 DEF Publishing, Rename, Destroy, Buffer, Publish, DestroyMembers,
       ForgetTombstone, ForgetSweep
  <2> QED BY <2>1, <2>2, <2>3
<1>7. CASE UNCHANGED vars
  BY <1>1, <1>7 DEF vars
<1> QED BY <1>2, <1>3, <1>4, <1>5, <1>6, <1>7, NextIs

(* When the agent's last session is gone it is in no room but those a      *)
(* replaced session joined too late, and an acknowledged session keeps the *)
(* rooms it restored or joined, whatever older sessions do in their        *)
(* cleanup (server.rs:885-888).                                            *)
THEOREM RoomsFollowTheSession == Spec => []MembersAreTheSessions
<1>1. Init => MembersInv
  BY DEF Init, MembersInv
<1>2. TypeInv /\ MembersInv /\ [Next]_vars => MembersInv'
  BY MembersStep
<1>3. TypeInv /\ MembersInv => MembersAreTheSessions
  <2> SUFFICES ASSUME TypeInv, MembersInv PROVE MembersAreTheSessions
    OBVIOUS
  <2>1. GoneMeansOut
    BY SessionAssumption DEF TypeInv, LockTypes, Locked, MembersInv, GoneMeansOut, Settled
  <2>2. SessionKeepsRooms
    BY DEF MembersInv, SessionKeepsRooms
  <2> QED BY <2>1, <2>2 DEF MembersAreTheSessions
<1> QED BY <1>1, <1>2, <1>3, TypeInit, TypeStep, PTL DEF Spec

-----------------------------------------------------------------------------
(* The stash forgets the rooms that are destroyed. *)

(* A room that is not in the store is tombstoned, or its destruction has   *)
(* not come to that; the stash names only rooms in the store, those on     *)
(* their way out, and until the second look those that went meanwhile.     *)
ForgetInv ==
    /\ destroyed \cap exists = {}
    /\ \A r \in Rooms \ exists :
           \/ r \in destroyed
           \/ pub.step \in {"members", "tombstone"} /\ pub.frame[1] = r
    /\ pub.step = "buffer" => pub.frame[1] \in exists
    /\ LET going == IF pub.step \in {"members", "tombstone", "sweep"}
                    THEN {pub.frame[1]} ELSE {}
       IN  /\ (\A c \in Conns : pc[c] # "recheck") => stash.rooms \subseteq exists \cup going
           /\ \A f \in Range(stash.missed) : f[1] \in exists \cup going

(* A step keeps the stash rid of rooms that are gone. *)
LEMMA ForgetStep ==
    ASSUME TypeInv, MembersInv, ForgetInv, [Next]_vars
    PROVE  ForgetInv'
<1> USE SessionAssumption DEF ForgetInv, Goto, Set, Locked, rooms, registry,
        local, history
<1>1. ConnTypes /\ LockTypes /\ StashTypes
  BY DEF TypeInv
<1>2. Range(<<>>) = {} /\ NoStash.rooms = {} /\ Range(NoStash.missed) = {}
  BY EmptySeq, SeqElements DEF NoStash
<1> USE DEF ConnTypes, LockTypes
<1>3. ASSUME NEW c \in Conns, Registering(c) PROVE ForgetInv'
  <2>1. CASE BeginReclaim(c)
    BY <1>1, <2>1 DEF BeginReclaim
  <2>2. CASE Snapshot(c)
    BY <1>1, <2>2 DEF Snapshot
  <2>3. CASE SnapshotPanics(c)
    BY <1>1, <2>3 DEF SnapshotPanics
  <2>4. CASE TakeOver(c)
    BY <1>1, <2>4 DEF TakeOver
  <2>5. CASE RegisterFresh(c)
    BY <1>1, <2>5 DEF RegisterFresh
  <2>6. CASE Install(c)
    BY <1>1, <2>6 DEF Install
  <2>7. CASE Restored(c)
    BY <1>1, <2>7 DEF Restored
  <2>8. CASE Refresh(c)
    BY <1>1, <2>8 DEF Refresh
  <2>9. CASE Written(c)
    BY <1>1, <2>9 DEF Written
  <2>10. CASE WriteFails(c)
    BY <1>1, <2>10 DEF WriteFails
  <2>11. CASE Commit(c)
    <3>1. stash' \in {stash, NoStash} /\ \E p \in {"tail", "ready"} : pc' = [pc EXCEPT ![c] = p]
      BY <2>11 DEF Commit
    <3>2. pc[c] = "commit" /\ UNCHANGED <<exists, destroyed, pub>>
      BY <2>11 DEF Commit
    <3> QED BY <1>1, <1>2, <3>1, <3>2
  <2>12. CASE TailCheck(c)
    BY <1>1, <2>12 DEF TailCheck
  <2>13. CASE TailSend(c)
    BY <1>1, <2>13 DEF TailSend
  <2>14. ASSUME NEW r \in Rooms, Restore(c, r) PROVE ForgetInv'
    BY <1>1, <2>14 DEF Restore
  <2> QED BY <2>1, <2>2, <2>3, <2>4, <2>5, <2>6, <2>7, <2>8, <2>9, <2>10, <2>11, <2>12, <2>13, <2>14, <1>3 DEF Registering
<1>4. ASSUME NEW c \in Conns, Requesting(c) PROVE ForgetInv'
  <2>1. CASE JoinApply(c)
    BY <1>1, <2>1 DEF JoinApply, LifecycleFree
  <2>2. CASE LeaveApply(c)
    BY <1>1, <2>2 DEF LeaveApply
  <2>3. ASSUME NEW r \in Rooms, JoinCheck(c, r) PROVE ForgetInv'
    BY <1>1, <2>3 DEF JoinCheck
  <2>4. ASSUME NEW r \in Rooms, LeaveCheck(c, r) PROVE ForgetInv'
    BY <1>1, <2>4 DEF LeaveCheck
  <2> QED BY <2>1, <2>2, <2>3, <2>4, <1>4 DEF Requesting
<1>5. ASSUME NEW c \in Conns, Ending(c) PROVE ForgetInv'
  <2>1. CASE Disconnect(c)
    BY <1>1, <2>1 DEF Disconnect
  <2>2. CASE Cleanup(c)
    BY <1>1, <2>2 DEF Cleanup, Finish
  <2>3. CASE StashFilter(c)
    BY <1>1, <2>3 DEF StashFilter
  <2>4. CASE StashInsert(c)
    <3>1. pc'[c] = "recheck" /\ Range(stash'.missed) = {}
      BY <1>1, <1>2, <2>4 DEF StashInsert
    <3> QED BY <1>1, <2>4, <3>1 DEF StashInsert
  <2>5. CASE StashRecheck(c)
    <3>1. /\ stash'.rooms = stash.rooms \ destroyed /\ stash'.missed = stash.missed
          /\ stash.rooms \subseteq Rooms /\ UNCHANGED <<exists, destroyed, pub>>
      BY <1>1, <2>5 DEF StashRecheck, StashTypes
    <3> QED BY <3>1
  <2>6. CASE Remove(c)
    BY <1>1, <2>6 DEF Remove, Finish
  <2>7. CASE FailedRemove(c)
    BY <1>1, <2>7 DEF FailedRemove
  <2>8. CASE Unwound(c)
    BY <1>1, <2>8 DEF Unwound
  <2>9. CASE Release(c)
    BY <1>1, <2>9 DEF Release, Finish
  <2>10. ASSUME NEW r \in Rooms, Leave(c, r) PROVE ForgetInv'
    BY <1>1, <2>10 DEF Leave
  <2> QED BY <2>1, <2>2, <2>3, <2>4, <2>5, <2>6, <2>7, <2>8, <2>9, <2>10, <1>5 DEF Ending
<1>6. CASE StashExpires
  BY <1>1, <1>2, <1>6 DEF StashExpires
<1>7. CASE Publishing
  <2>1. ASSUME NEW r \in Rooms, Rename(r) PROVE ForgetInv'
    BY <2>1 DEF Rename
  <2>2. ASSUME NEW r \in Rooms, Destroy(r) PROVE ForgetInv'
    BY <2>2 DEF Destroy
  <2>3. CASE Buffer
    <3>1. \/ UNCHANGED stash
          \/ /\ stash'.rooms = stash.rooms /\ pub.frame[1] \in exists
             /\ Range(stash'.missed) = Range(stash.missed) \cup {pub.frame}
      <4>1. pub.frame \in Frame /\ stash.missed \in Seq(Frame)
        BY <1>1, <2>3 DEF Buffer, TypeInv, RoomTypes, StashTypes
      <4>2. Range(Append(stash.missed, pub.frame)) = Range(stash.missed) \cup {pub.frame}
        BY <4>1, SeqElements
      <4>3. CASE UNCHANGED stash
        BY <4>3
      <4>4. CASE ~ UNCHANGED stash
        <5>1. stash' = [stash EXCEPT !.missed = Append(stash.missed, pub.frame)]
          BY <2>3, <4>4 DEF Buffer
        <5>2. stash'.rooms = stash.rooms /\ stash'.missed = Append(stash.missed, pub.frame)
          BY <1>1, <5>1 DEF StashTypes
        <5>3. pub.frame[1] \in exists
          BY <2>3 DEF Buffer
        <5> QED BY <4>2, <5>2, <5>3
      <4> QED BY <4>3, <4>4
    <3>2. /\ pub.step = "buffer" /\ pub'.step \in {"idle", "live"}
          /\ UNCHANGED <<exists, destroyed, pc>>
      BY <2>3 DEF Buffer, PubStep, TypeInv, RoomTypes
    <3> QED BY <3>1, <3>2
  <2>4. CASE Publish
    BY <2>4 DEF Publish
  <2>5. CASE DestroyMembers
    BY <2>5 DEF DestroyMembers, PubStep
  <2>6. CASE ForgetTombstone
    BY <2>6 DEF ForgetTombstone, PubStep, MembersInv
  <2>7. CASE ForgetSweep
    <3>1. stash.missed \in Seq(Frame) /\ Range(stash.missed) \subseteq Frame
      BY <1>1, SeqElements DEF StashTypes
    <3>2. /\ stash'.rooms = stash.rooms \ {pub.frame[1]}
          /\ stash'.missed = About(stash.missed, Rooms \ {pub.frame[1]})
      BY <1>1, <2>7 DEF ForgetSweep, StashTypes
    <3>3. \A f \in Range(stash'.missed) : f \in Range(stash.missed) /\ f[1] # pub.frame[1]
      BY <3>1, <3>2, AboutKeeps
    <3> QED BY <2>7, <3>2, <3>3 DEF ForgetSweep, PubStep
  <2> QED BY <1>7, <2>1, <2>2, <2>3, <2>4, <2>5, <2>6, <2>7 DEF Publishing
<1>8. CASE UNCHANGED vars
  BY <1>1, <1>8 DEF vars
<1> QED BY <1>3, <1>4, <1>5, <1>6, <1>7, <1>8, NextIs

(* At first no room is gone. *)
LEMMA ForgetInit == Init => ForgetInv
<1> SUFFICES ASSUME Init PROVE ForgetInv
  OBVIOUS
<1>1. Range(<<>>) = {}
  BY EmptySeq, SeqElements
<1> QED BY <1>1 DEF Init, ForgetInv, NoStash

(* reconnect.rs:303-305: a stash never names a destroyed room, nor holds   *)
(* an event of one, once its destruction is through, whatever the order of *)
(* tombstone, filter, insertion, sweep and second look.                    *)
THEOREM DestroyedRoomsAreForgotten == Spec => []StashForgetsRooms
<1>1. Init => MembersInv
  BY DEF Init, MembersInv
<1>2. TypeInv /\ ForgetInv => StashForgetsRooms
  <2>1. TypeInv /\ pub.step \in {"members", "tombstone", "sweep"} => pub.frame # <<>>
    BY EmptySeq DEF TypeInv, RoomTypes, Frame
  <2> QED BY <2>1 DEF ForgetInv, StashForgetsRooms
<1> QED BY <1>1, <1>2, MembersStep, ForgetInit, ForgetStep, TypeInit, TypeStep,
           PTL DEF Spec

-----------------------------------------------------------------------------
(* Nothing the stash accepted is forgotten. *)

(* A session about to commit has replayed what it holds. *)
ReachInv ==
    /\ \A c \in Conns : pc[c] = "commit" => Range(frames[c]) \subseteq reached
    /\ BufferedUntilReached

(* Where the frames are that are still to reach a session. *)
Kept == Range(stash.missed)
            \cup UNION {Range(frames[c]) : c \in {d \in Conns : pc[d] \in {"tail", "send"}}}

(* Kept, before and after a step. *)
LEMMA KeptIs ==
    /\ \A f : f \in Kept <=>
           \/ f \in Range(stash.missed)
           \/ \E c \in Conns : pc[c] \in {"tail", "send"} /\ f \in Range(frames[c])
    /\ \A f : f \in Kept' <=>
           \/ f \in Range(stash'.missed)
           \/ \E c \in Conns : pc'[c] \in {"tail", "send"} /\ f \in Range(frames'[c])
BY DEF Kept

(* What keeps the buffered frames in sight. *)
LEMMA ReachMove ==
    ASSUME BufferedUntilReached, exists' \subseteq exists,
           reached \subseteq reached', lost \subseteq lost',
           buffered' \subseteq buffered \cup Kept',
           \A f \in Kept : f[1] \in exists' => f \in Kept' \cup reached' \cup lost'
    PROVE  BufferedUntilReached'
BY DEF BufferedUntilReached, Kept

(* A step loses no frame that the stash accepted. *)
LEMMA ReachStep ==
    ASSUME TypeInv, MembersInv, ForgetInv, ReachInv, [Next]_vars
    PROVE  ReachInv'
<1> USE SessionAssumption DEF ReachInv, BufferedUntilReached, Goto, Set, rooms, registry,
        local, history
<1>1. ConnTypes /\ LockTypes /\ StashTypes
  BY DEF TypeInv
<1>2. Range(<<>>) = {} /\ Range(NoStash.missed) = {}
  BY EmptySeq, SeqElements DEF NoStash
<1> USE DEF ConnTypes, LockTypes
<1>3. ASSUME NEW c \in Conns, NEW p, pc' = [pc EXCEPT ![c] = p],
             pc[c] \notin {"tail", "send"}, p \notin {"commit", "tail", "send"},
             Range(stash'.missed) = Range(stash.missed),
             \A d \in Conns \ {c} : frames'[d] = frames[d],
             UNCHANGED <<exists, buffered, reached, lost>>
      PROVE  ReachInv'
  <2>1. \A f \in Kept : f \in Kept'
    BY <1>1, <1>3, KeptIs
  <2>2. BufferedUntilReached'
    BY <1>3, <2>1, ReachMove
  <2> QED BY <1>1, <1>3, <2>2
<1>4. ASSUME NEW c \in Conns, Registering(c) PROVE ReachInv'
  <2>1. CASE BeginReclaim(c)
    BY <1>1, <1>3, <2>1 DEF BeginReclaim, StashTypes
  <2>2. CASE Snapshot(c)
    BY <1>1, <2>2 DEF Snapshot
  <2>3. CASE SnapshotPanics(c)
    BY <1>1, <2>3 DEF SnapshotPanics
  <2>4. CASE TakeOver(c)
    BY <1>1, <2>4 DEF TakeOver
  <2>5. CASE RegisterFresh(c)
    BY <1>1, <2>5 DEF RegisterFresh
  <2>6. CASE Install(c)
    BY <1>1, <2>6 DEF Install
  <2>7. CASE Restored(c)
    BY <1>1, <2>7 DEF Restored
  <2>8. CASE Refresh(c)
    BY <1>1, <2>8 DEF Refresh
  <2>9. CASE Written(c)
    BY <1>1, <2>9 DEF Written
  <2>10. CASE WriteFails(c)
    BY <1>1, <2>10 DEF WriteFails
  <2>11. CASE Commit(c)
    <3> DEFINE rest == Only(stash.missed, Frame \ Range(frames[c]))
    <3>1. Range(rest) = Range(stash.missed) \cap (Frame \ Range(frames[c]))
      BY <1>1, OnlyKeeps DEF StashTypes
    <3>2. Range(stash.missed) \subseteq Range(rest) \cup reached
      <4>1. Range(stash.missed) \subseteq Frame
        BY <1>1, SeqElements DEF StashTypes
      <4>2. Range(frames[c]) \subseteq reached
        BY <2>11 DEF Commit
      <4> QED BY <3>1, <4>1, <4>2
    <3> HIDE DEF rest
    <3>3. CASE stash.lease = c
      <4>1. /\ stash' = NoStash /\ frames' = [frames EXCEPT ![c] = rest]
            /\ pc' = [pc EXCEPT ![c] = "tail"] /\ pc[c] = "commit"
            /\ UNCHANGED <<exists, buffered, reached, lost>>
        BY <2>11, <3>3 DEF Commit, rest
      <4>2. pc'[c] = "tail" /\ frames'[c] = rest
        BY <1>1, <4>1
      <4>3. \A d \in Conns \ {c} : pc'[d] = pc[d] /\ frames'[d] = frames[d]
        BY <1>1, <4>1
      <4>4. ASSUME NEW f \in Kept PROVE f \in Kept' \cup reached'
        <5>1. CASE f \in Range(stash.missed)
          BY <3>2, <4>1, <4>2, <5>1, KeptIs
        <5>2. CASE \E d \in Conns : pc[d] \in {"tail", "send"} /\ f \in Range(frames[d])
          BY <4>1, <4>3, <5>2, KeptIs
        <5> QED BY <4>4, <5>1, <5>2, KeptIs
      <4>5. BufferedUntilReached'
        BY <4>1, <4>4, ReachMove
      <4> QED BY <1>1, <4>1, <4>5
    <3>4. CASE stash.lease # c
      <4>1. /\ stash' = stash /\ frames' = [frames EXCEPT ![c] = <<>>]
            /\ pc' = [pc EXCEPT ![c] = "ready"] /\ pc[c] = "commit"
            /\ UNCHANGED <<exists, buffered, reached, lost>>
        BY <2>11, <3>4 DEF Commit
      <4> QED BY <1>1, <1>3, <4>1
    <3> QED BY <3>3, <3>4
  <2>12. CASE TailCheck(c)
    <3>1. pc[c] = "tail" /\ UNCHANGED <<stash, exists, buffered, reached, lost>>
      BY <2>12 DEF TailCheck
    <3>2. CASE frames[c] = <<>>
      <4>1. frames' = frames /\ pc' = [pc EXCEPT ![c] = "ready"]
        BY <2>12, <3>2 DEF TailCheck
      <4>2. \A f \in Kept : f \in Kept'
        BY <1>1, <1>2, <3>1, <3>2, <4>1, KeptIs
      <4>3. BufferedUntilReached'
        BY <3>1, <4>2, ReachMove
      <4> QED BY <1>1, <3>1, <4>1, <4>3
    <3>3. CASE frames[c] # <<>> /\ Head(frames[c])[1] \in exists
      <4>1. frames' = frames /\ pc' = [pc EXCEPT ![c] = "send"]
        BY <2>12, <3>3 DEF TailCheck
      <4>2. \A f \in Kept : f \in Kept'
        BY <1>1, <3>1, <4>1 DEF Kept
      <4>3. BufferedUntilReached'
        BY <3>1, <4>2, ReachMove
      <4> QED BY <1>1, <3>1, <4>1, <4>3
    <3>4. CASE frames[c] # <<>> /\ Head(frames[c])[1] \notin exists
      <4>1. frames' = [frames EXCEPT ![c] = Tail(frames[c])] /\ pc' = pc
        BY <2>12, <3>4 DEF TailCheck
      <4>2. Range(frames[c]) = {Head(frames[c])} \cup Range(Tail(frames[c]))
        BY <1>1, <3>4, SeqElements
      <4>3. \A f \in Kept : f[1] \in exists' => f \in Kept'
        BY <1>1, <3>1, <3>4, <4>1, <4>2, KeptIs
      <4>4. BufferedUntilReached'
        BY <3>1, <4>3, ReachMove
      <4> QED BY <1>1, <3>1, <4>1, <4>4
    <3> QED BY <3>2, <3>3, <3>4
  <2>13. CASE TailSend(c)
    <3>1. /\ pc[c] = "send" /\ frames[c] # <<>>
          /\ UNCHANGED <<stash, exists, buffered>>
      BY <1>1, <2>13 DEF TailSend
    <3>2. Range(frames[c]) = {Head(frames[c])} \cup Range(Tail(frames[c]))
      BY <1>1, <3>1, SeqElements
    <3>3. \/ /\ frames' = [frames EXCEPT ![c] = Tail(frames[c])]
             /\ pc' = [pc EXCEPT ![c] = "tail"]
             /\ reached' = reached \cup {Head(frames[c])} /\ lost' = lost
          \/ /\ frames' = [frames EXCEPT ![c] = <<>>]
             /\ pc' = [pc EXCEPT ![c] = "ready"]
             /\ lost' = lost \cup Range(frames[c]) /\ reached' = reached
      BY <2>13 DEF TailSend
    <3>4. \A f \in Kept : f \in Kept' \cup reached' \cup lost'
      BY <1>1, <3>1, <3>2, <3>3, KeptIs
    <3>5. BufferedUntilReached'
      BY <3>1, <3>3, <3>4, ReachMove
    <3> QED BY <1>1, <3>1, <3>3, <3>5
  <2>14. ASSUME NEW r \in Rooms, Restore(c, r) PROVE ReachInv'
    BY <1>1, <2>14 DEF Restore
  <2> QED BY <2>1, <2>2, <2>3, <2>4, <2>5, <2>6, <2>7, <2>8, <2>9, <2>10, <2>11, <2>12, <2>13, <2>14, <1>4 DEF Registering
<1>5. ASSUME NEW c \in Conns, Requesting(c) PROVE ReachInv'
  <2>1. CASE JoinApply(c)
    <3>1. /\ pc[c] = "joining" /\ pc' = [pc EXCEPT ![c] = "ready"]
          /\ UNCHANGED <<exists, stash, frames, buffered, reached, lost>>
      BY <2>1 DEF JoinApply
    <3> QED BY <1>3, <3>1
  <2>2. CASE LeaveApply(c)
    <3>1. /\ pc[c] = "leaving" /\ pc' = [pc EXCEPT ![c] = "ready"]
          /\ UNCHANGED <<exists, stash, frames, buffered, reached, lost>>
      BY <2>2 DEF LeaveApply
    <3> QED BY <1>3, <3>1
  <2>3. ASSUME NEW r \in Rooms, JoinCheck(c, r) PROVE ReachInv'
    BY <1>1, <2>3 DEF JoinCheck
  <2>4. ASSUME NEW r \in Rooms, LeaveCheck(c, r) PROVE ReachInv'
    BY <1>1, <2>4 DEF LeaveCheck
  <2> QED BY <2>1, <2>2, <2>3, <2>4, <1>5 DEF Requesting
<1>6. ASSUME NEW c \in Conns, Ending(c) PROVE ReachInv'
  <2>1. CASE Disconnect(c)
    BY <1>1, <2>1 DEF Disconnect
  <2>2. CASE Cleanup(c)
    <3>1. \E p : /\ pc' = [pc EXCEPT ![c] = p] /\ p \notin {"commit", "tail", "send"}
                 /\ \A d \in Conns \ {c} : frames'[d] = frames[d]
      BY <1>1, <2>2 DEF Cleanup, Finish
    <3>2. pc[c] = "cleanup" /\ UNCHANGED <<stash, exists, buffered, reached, lost>>
      BY <2>2 DEF Cleanup, Finish
    <3> QED BY <1>3, <3>1, <3>2
  <2>3. CASE StashFilter(c)
    BY <1>1, <2>3 DEF StashFilter
  <2>4. CASE StashInsert(c)
    BY <1>1, <2>4 DEF StashInsert
  <2>5. CASE StashRecheck(c)
    BY <1>1, <2>5 DEF StashRecheck
  <2>6. CASE Remove(c)
    <3>1. /\ pc[c] \in {"leave", "remove"} /\ pc' = [pc EXCEPT ![c] = "done"]
          /\ frames' = [frames EXCEPT ![c] = <<>>]
          /\ UNCHANGED <<exists, stash, buffered, reached, lost>>
      BY <2>6 DEF Remove, Finish
    <3> QED BY <1>1, <1>3, <3>1
  <2>7. CASE FailedRemove(c)
    <3>1. \E p : pc' = [pc EXCEPT ![c] = p] /\ p \notin {"commit", "tail", "send"}
      BY <2>7 DEF FailedRemove
    <3>2. pc[c] = "failed" /\ UNCHANGED <<stash, frames, exists, buffered, reached, lost>>
      BY <2>7 DEF FailedRemove
    <3> QED BY <1>3, <3>1, <3>2
  <2>8. CASE Unwound(c)
    BY <1>1, <2>8 DEF Unwound
  <2>9. CASE Release(c)
    BY <1>1, <1>3, <2>9 DEF Release, Finish, StashTypes
  <2>10. ASSUME NEW r \in Rooms, Leave(c, r) PROVE ReachInv'
    BY <1>1, <2>10 DEF Leave
  <2> QED BY <2>1, <2>2, <2>3, <2>4, <2>5, <2>6, <2>7, <2>8, <2>9, <2>10, <1>6 DEF Ending
<1>7. CASE StashExpires
  BY <1>1, <1>7 DEF StashExpires
<1>8. CASE Publishing
  <2>1. UNCHANGED <<pc, frames, reached, lost>> /\ exists' \subseteq exists
    BY <1>8 DEF Publishing, Rename, Destroy, Buffer, Publish, DestroyMembers,
       ForgetTombstone, ForgetSweep
  <2>2. stash.missed \in Seq(Frame) /\ Range(stash.missed) \subseteq Frame
    BY <1>1, SeqElements DEF StashTypes
  <2>3. CASE Buffer
    <3>1. pub.frame \in Frame
      BY <2>3 DEF Buffer, TypeInv, RoomTypes
    <3>2. Range(Append(stash.missed, pub.frame)) = Range(stash.missed) \cup {pub.frame}
      BY <2>2, <3>1, SeqElements
    <3>3. \/ UNCHANGED <<stash, buffered>>
          \/ /\ Range(stash'.missed) = Range(stash.missed) \cup {pub.frame}
             /\ buffered' = buffered \cup {pub.frame}
      BY <1>1, <2>3, <3>2 DEF Buffer, StashTypes
    <3>4. Kept \subseteq Kept' /\ buffered' \subseteq buffered \cup Kept'
      BY <2>1, <3>3 DEF Kept
    <3> QED BY <2>1, <3>4, ReachMove
  <2>4. CASE ForgetSweep
    <3>1. stash'.missed = About(stash.missed, Rooms \ {pub.frame[1]})
      BY <1>1, <2>4 DEF ForgetSweep, StashTypes
    <3>2. pub.frame[1] \notin exists /\ UNCHANGED <<exists, buffered>>
      BY <2>4 DEF ForgetSweep, MembersInv
    <3>3. \A f \in Range(stash.missed) : f[1] \in exists => f \in Range(stash'.missed)
      <4>1. exists \subseteq Rooms
        BY DEF TypeInv, RoomTypes
      <4> QED BY <2>2, <3>1, <3>2, <4>1, AboutKeeps
    <3>4. \A f \in Kept : f[1] \in exists' => f \in Kept'
      BY <2>1, <3>2, <3>3 DEF Kept
    <3> QED BY <2>1, <3>2, <3>4, ReachMove
  <2>5. CASE ~ Buffer /\ ~ ForgetSweep
    <3>1. UNCHANGED <<stash, buffered>>
      BY <1>8, <2>5 DEF Publishing, Rename, Destroy, Publish, DestroyMembers,
         ForgetTombstone
    <3> QED BY <2>1, <3>1
  <2> QED BY <2>3, <2>4, <2>5
<1>9. CASE UNCHANGED vars
  BY <1>1, <1>9 DEF vars
<1> QED BY <1>4, <1>5, <1>6, <1>7, <1>8, <1>9, NextIs

(* What the stash accepted reaches a session or is still in the stash or a *)
(* tail, unless it was discarded with them, or its room is gone: snapshot, *)
(* replay and tail together lose nothing.                                  *)
THEOREM AcceptedFramesArrive == Spec => []BufferedUntilReached
<1>1. Init => MembersInv /\ ReachInv
  BY DEF Init, MembersInv, ReachInv, BufferedUntilReached
<1>2. ReachInv => BufferedUntilReached
  BY DEF ReachInv
<1> QED BY <1>1, <1>2, MembersStep, ForgetInit, ForgetStep, ReachStep, TypeInit,
           TypeStep, PTL DEF Spec

-----------------------------------------------------------------------------
(* The stash is what the agent had. *)

(* Registered, and not acknowledged. *)
Unacked == {"restore", "refresh", "write", "commit", "failed"}

(* Who registers how: a lease is of a connection that reclaims, which is   *)
(* the installed one until it has committed or given up; a takeover finds  *)
(* no stash, and a first registration no session and nothing to restore.   *)
PlaceInv ==
    \A c \in Conns :
        /\ pc[c] = "new" => way[c] = "fresh"
        /\ way[c] = "fresh" /\ pc[c] \in {"new", "install", "restore"} => todo[c] = {}
        /\ way[c] = "fresh" /\ pc[c] = "install" => live = None
        /\ way[c] = "takeover" /\ pc[c] = "install" => ~ stash.present /\ live # None
        /\ pc[c] = "snapshot" => way[c] = "reclaim"
        /\ way[c] = "reclaim" /\ pc[c] \in {"snapshot", "install"} =>
               stash.lease = c \/ ~ stash.present
        /\ stash.lease = c => way[c] = "reclaim"
        /\ stash.lease = c /\ pc[c] \in Unacked => live = c
        /\ pc[c] \in {"unwind", "release"} => live # c

(* A step leaves the tasks where they can be. *)
LEMMA PlaceStep ==
    ASSUME TypeInv, MembersInv, PlaceInv, [Next]_vars
    PROVE  PlaceInv'
<1> USE SessionAssumption DEF PlaceInv, Unacked, Goto, Set, Locked, Claiming, NoStash,
        rooms, registry, local, history
<1>1. ConnTypes /\ LockTypes /\ StashTypes
  BY DEF TypeInv
<1> USE DEF ConnTypes, LockTypes, StashTypes
<1>2. ASSUME NEW c \in Conns, Registering(c) PROVE PlaceInv'
  <2>1. CASE BeginReclaim(c)
    BY <1>1, <2>1 DEF BeginReclaim
  <2>2. CASE Snapshot(c)
    BY <1>1, <2>2 DEF Snapshot
  <2>3. CASE SnapshotPanics(c)
    BY <1>1, <2>3 DEF SnapshotPanics
  <2>4. CASE TakeOver(c)
    BY <1>1, <2>4 DEF TakeOver
  <2>5. CASE RegisterFresh(c)
    BY <1>1, <2>5 DEF RegisterFresh
  <2>6. CASE Install(c)
    BY <1>1, <2>6 DEF Install
  <2>7. CASE Restored(c)
    BY <1>1, <2>7 DEF Restored
  <2>8. CASE Refresh(c)
    BY <1>1, <2>8 DEF Refresh
  <2>9. CASE Written(c)
    BY <1>1, <2>9 DEF Written
  <2>10. CASE WriteFails(c)
    BY <1>1, <2>10 DEF WriteFails
  <2>11. CASE Commit(c)
    BY <1>1, <2>11 DEF Commit
  <2>12. CASE TailCheck(c)
    BY <1>1, <2>12 DEF TailCheck
  <2>13. CASE TailSend(c)
    BY <1>1, <2>13 DEF TailSend
  <2>14. ASSUME NEW r \in Rooms, Restore(c, r) PROVE PlaceInv'
    BY <1>1, <2>14 DEF Restore
  <2> QED BY <2>1, <2>2, <2>3, <2>4, <2>5, <2>6, <2>7, <2>8, <2>9, <2>10, <2>11, <2>12, <2>13, <2>14, <1>2 DEF Registering
<1>3. ASSUME NEW c \in Conns, Requesting(c) PROVE PlaceInv'
  <2>1. CASE JoinApply(c)
    BY <1>1, <2>1 DEF JoinApply, LifecycleFree
  <2>2. CASE LeaveApply(c)
    BY <1>1, <2>2 DEF LeaveApply
  <2>3. ASSUME NEW r \in Rooms, JoinCheck(c, r) PROVE PlaceInv'
    BY <1>1, <2>3 DEF JoinCheck
  <2>4. ASSUME NEW r \in Rooms, LeaveCheck(c, r) PROVE PlaceInv'
    BY <1>1, <2>4 DEF LeaveCheck
  <2> QED BY <2>1, <2>2, <2>3, <2>4, <1>3 DEF Requesting
<1>4. ASSUME NEW c \in Conns, Ending(c) PROVE PlaceInv'
  <2>1. CASE Disconnect(c)
    BY <1>1, <2>1 DEF Disconnect
  <2>2. CASE Cleanup(c)
    BY <1>1, <2>2 DEF Cleanup, Finish
  <2>3. CASE StashFilter(c)
    BY <1>1, <2>3 DEF StashFilter
  <2>4. CASE StashInsert(c)
    BY <1>1, <2>4 DEF StashInsert
  <2>5. CASE StashRecheck(c)
    BY <1>1, <2>5 DEF StashRecheck
  <2>6. CASE Remove(c)
    BY <1>1, <2>6 DEF Remove, Finish
  <2>7. CASE FailedRemove(c)
    BY <1>1, <2>7 DEF FailedRemove
  <2>8. CASE Unwound(c)
    BY <1>1, <2>8 DEF Unwound
  <2>9. CASE Release(c)
    BY <1>1, <2>9 DEF Release, Finish
  <2>10. ASSUME NEW r \in Rooms, Leave(c, r) PROVE PlaceInv'
    BY <1>1, <2>10 DEF Leave
  <2> QED BY <2>1, <2>2, <2>3, <2>4, <2>5, <2>6, <2>7, <2>8, <2>9, <2>10, <1>4 DEF Ending
<1>5. CASE StashExpires
  BY <1>1, <1>5 DEF StashExpires
<1>6. CASE Publishing
  <2>1. UNCHANGED <<live, pc, way, todo>>
    BY <1>6 DEF Publishing, Rename, Destroy, Buffer, Publish, DestroyMembers,
       ForgetTombstone, ForgetSweep
  <2>2. stash'.lease = stash.lease /\ stash'.present = stash.present
    <3>1. CASE Buffer
      <4>1. stash' \in {stash, [stash EXCEPT !.missed = Append(@, pub.frame)]}
        BY <3>1 DEF Buffer
      <4> QED BY <1>1, <4>1
    <3>2. CASE ForgetSweep
      BY <1>1, <3>2 DEF ForgetSweep
    <3>3. CASE ~ Buffer /\ ~ ForgetSweep
      BY <1>6, <3>3 DEF Publishing, Rename, Destroy, Publish, DestroyMembers,
         ForgetTombstone
    <3> QED BY <3>1, <3>2, <3>3
  <2> QED BY <2>1, <2>2
<1>7. CASE UNCHANGED vars
  BY <1>1, <1>7 DEF vars
<1> QED BY <1>2, <1>3, <1>4, <1>5, <1>6, <1>7, NextIs

(* The same rooms, but for those that are gone and those that a replaced   *)
(* session joined or left.                                                 *)
Same(A, B) == (A \cap exists) \ late = (B \cap exists) \ late

(* Registered or about to be, and neither acknowledged nor given up. *)
Pending(c) == pc[c] = "install" \/ (live = c /\ pc[c] \in Unacked \ {"commit"})

(* What a connection is about to restore or to stash is what the agent     *)
(* had: by the stash, the members, or nothing.                             *)
CarriesOwned(c) ==
    /\ way[c] = "takeover" /\ pc[c] \in {"install", "restore"} =>
           (todo[c] \cap exists) \ late \subseteq members
    /\ way[c] = "fresh" /\ Pending(c) => ~ stash.present /\ Same({}, owned)
    /\ way[c] = "reclaim" /\ Pending(c) => stash.lease = c
    /\ way[c] = "reclaim" /\ pc[c] = "install" =>
           live = None /\ stash.present /\ Same(todo[c], stash.rooms)
    /\ way[c] = "reclaim" /\ pc[c] = "restore" =>
           stash.present /\ Same(members \cup todo[c], stash.rooms)
    /\ way[c] = "reclaim" /\ live = c /\ stash.present
           /\ pc[c] \in {"refresh", "write", "commit"} => Same(members, stash.rooms)
    /\ pc[c] = "filter" => Same(todo[c], owned)
    /\ pc[c] = "insert" => Same(saving, owned)
    /\ pc[c] \in {"recheck", "leave"} => stash.present

(* A stash holds what the agent had.  Beside a session there is one only   *)
(* while that session reclaims it or is stashing; otherwise what the agent *)
(* had is what it is a member of.                                          *)
StashOwned ==
    /\ stash.present => Same(stash.rooms, owned)
    /\ stash.present /\ live # None =>
           \/ stash.lease = live /\ pc[live] \in Unacked
           \/ pc[live] \in {"recheck", "leave"}
    /\ ~ stash.present => Same(IF live = None THEN {} ELSE members, owned)

OwnedInv == ~ excused => StashOwned /\ \A c \in Conns : CarriesOwned(c)

(* A step keeps the stash, and what is carried to it, what the agent had. *)
LEMMA OwnedStep ==
    ASSUME TypeInv, MembersInv, ForgetInv, PlaceInv, OwnedInv, [Next]_vars
    PROVE  OwnedInv'
<1> USE SessionAssumption DEF Goto, Set, NoStash, rooms, registry, local, history
<1>1. ConnTypes /\ LockTypes /\ StashTypes
  BY DEF TypeInv
<1> USE DEF OwnedInv, StashOwned, CarriesOwned, Same, Pending, PlaceInv, Unacked,
        MembersInv, Locked, Claiming, ConnTypes, LockTypes, StashTypes
<1>2. ASSUME NEW c \in Conns, Registering(c) PROVE OwnedInv'
  <2>1. CASE BeginReclaim(c)
    BY <1>1, <2>1 DEF BeginReclaim
  <2>2. CASE Snapshot(c)
    BY <1>1, <2>2 DEF Snapshot
  <2>3. CASE SnapshotPanics(c)
    BY <1>1, <2>3 DEF SnapshotPanics
  <2>4. CASE TakeOver(c)
    BY <1>1, <2>4 DEF TakeOver
  <2>5. CASE RegisterFresh(c)
    BY <1>1, <2>5 DEF RegisterFresh
  <2>6. CASE Install(c)
    BY <1>1, <2>6 DEF Install
  <2>7. CASE Restored(c)
    <3>1. /\ pc[c] = "restore" /\ todo[c] = {} /\ pc' = [pc EXCEPT ![c] = "refresh"]
          /\ lock' = None
          /\ UNCHANGED <<exists, live, stash, way, todo, saving, excused, members, owned, late>>
      BY <2>7 DEF Restored
    <3>2. excused \/ StashOwned'
      BY <1>1, <3>1
    <3>3. \A d \in Conns : excused \/ CarriesOwned(d)'
      BY <1>1, <3>1
    <3> QED BY <3>1, <3>2, <3>3
  <2>8. CASE Refresh(c)
    BY <1>1, <2>8 DEF Refresh
  <2>9. CASE Written(c)
    BY <1>1, <2>9 DEF Written
  <2>10. CASE WriteFails(c)
    <3>1. /\ pc[c] = "write" /\ pc' = [pc EXCEPT ![c] = "failed"]
          /\ UNCHANGED <<exists, live, lock, stash, way, todo, saving, excused, members, owned,
                         late>>
      BY <2>10 DEF WriteFails
    <3>2. excused \/ StashOwned'
      BY <1>1, <3>1
    <3>3. \A d \in Conns : excused \/ CarriesOwned(d)'
      BY <1>1, <3>1
    <3> QED BY <3>1, <3>2, <3>3
  <2>11. CASE Commit(c)
    BY <1>1, <2>11 DEF Commit
  <2>12. CASE TailCheck(c)
    BY <1>1, <2>12 DEF TailCheck
  <2>13. CASE TailSend(c)
    BY <1>1, <2>13 DEF TailSend
  <2>14. ASSUME NEW r \in Rooms, Restore(c, r) PROVE OwnedInv'
    BY <1>1, <2>14 DEF Restore
  <2> QED BY <2>1, <2>2, <2>3, <2>4, <2>5, <2>6, <2>7, <2>8, <2>9, <2>10, <2>11, <2>12, <2>13, <2>14, <1>2 DEF Registering
<1>3. ASSUME NEW c \in Conns, Requesting(c) PROVE OwnedInv'
  <2>1. CASE JoinApply(c)
    <3>1. /\ pc[c] = "joining" /\ pc' = [pc EXCEPT ![c] = "ready"]
          /\ todo' = [todo EXCEPT ![c] = {}]
          /\ UNCHANGED <<exists, live, lock, stash, way, saving, excused>>
      BY <2>1 DEF JoinApply
    <3>2. CASE UNCHANGED <<members, owned, late>>
      BY <1>1, <3>1, <3>2
    <3>3. CASE ~ UNCHANGED <<members, owned, late>>
      <4>1. /\ members' = members \cup todo[c]
            /\ \/ /\ live = c /\ lock = None
                  /\ owned' = owned \cup todo[c] /\ late' = late
               \/ /\ ~ (live = c /\ lock = None)
                  /\ owned' = owned /\ late' = late \cup todo[c]
        BY <2>1, <3>3 DEF JoinApply, Alone
      <4>2. CASE live = c /\ lock = None
        BY <1>1, <3>1, <4>1, <4>2
      <4>3. CASE ~ (live = c /\ lock = None)
        BY <1>1, <3>1, <4>1, <4>3
      <4> QED BY <4>2, <4>3
    <3> QED BY <3>2, <3>3
  <2>2. CASE LeaveApply(c)
    <3>1. /\ pc[c] = "leaving" /\ pc' = [pc EXCEPT ![c] = "ready"]
          /\ todo' = [todo EXCEPT ![c] = {}] /\ members' = members \ todo[c]
          /\ UNCHANGED <<exists, live, lock, stash, way, saving, excused>>
          /\ \/ /\ live = c /\ lock = None
                /\ owned' = owned \ todo[c] /\ late' = late
             \/ /\ ~ (live = c /\ lock = None)
                /\ owned' = owned /\ late' = late \cup todo[c]
      BY <2>2 DEF LeaveApply, Alone
    <3>2. CASE live = c /\ lock = None
      BY <1>1, <3>1, <3>2
    <3>3. CASE ~ (live = c /\ lock = None)
      BY <1>1, <3>1, <3>3
    <3> QED BY <3>2, <3>3
  <2>3. ASSUME NEW r \in Rooms, JoinCheck(c, r) PROVE OwnedInv'
    BY <1>1, <2>3 DEF JoinCheck
  <2>4. ASSUME NEW r \in Rooms, LeaveCheck(c, r) PROVE OwnedInv'
    BY <1>1, <2>4 DEF LeaveCheck
  <2> QED BY <2>1, <2>2, <2>3, <2>4, <1>3 DEF Requesting
<1>4. ASSUME NEW c \in Conns, Ending(c) PROVE OwnedInv'
  <2>1. CASE Disconnect(c)
    BY <1>1, <2>1 DEF Disconnect
  <2>2. CASE Cleanup(c)
    BY <1>1, <2>2 DEF Cleanup, Finish
  <2>3. CASE StashFilter(c)
    <3>1. destroyed \cap exists = {}
      BY DEF ForgetInv
    <3>2. Same(todo[c], owned) => Same(todo[c] \ destroyed, owned)
      BY <3>1
    <3> QED BY <1>1, <2>3, <3>2 DEF StashFilter
  <2>4. CASE StashInsert(c)
    BY <1>1, <2>4 DEF StashInsert
  <2>5. CASE StashRecheck(c)
    <3>1. destroyed \cap exists = {}
      BY DEF ForgetInv
    <3>2. /\ stash'.rooms = stash.rooms \ destroyed
          /\ stash'.present = stash.present /\ stash'.lease = stash.lease
      BY <1>1, <2>5 DEF StashRecheck
    <3>3. /\ pc[c] = "recheck" /\ pc' = [pc EXCEPT ![c] = "leave"]
          /\ UNCHANGED <<exists, live, lock, way, todo, saving, excused, members, owned, late>>
      BY <2>5 DEF StashRecheck
    <3>4. \A A : Same(A, stash.rooms) <=> Same(A, stash'.rooms)
      BY <3>1, <3>2
    <3>5. Same(stash.rooms, owned) <=> Same(stash'.rooms, owned)
      BY <3>1, <3>2
    <3> QED BY <1>1, <3>2, <3>3, <3>5
  <2>6. CASE Remove(c)
    BY <1>1, <2>6 DEF Remove, Finish
  <2>7. CASE FailedRemove(c)
    <3>1. /\ pc[c] = "failed" /\ lock = None
          /\ UNCHANGED <<exists, stash, way, saving, members, owned, late>>
      BY <2>7 DEF FailedRemove
    <3>2. CASE live = c
      <4>1. /\ pc' = [pc EXCEPT ![c] = "unwind"] /\ live' = None
            /\ todo' = [todo EXCEPT ![c] = members]
            /\ ~ excused' => ~ excused /\ way[c] # "takeover"
        BY <2>7, <3>2 DEF FailedRemove
      <4> QED BY <1>1, <3>1, <3>2, <4>1
    <3>3. CASE live # c
      <4>1. /\ pc' = [pc EXCEPT ![c] = "release"]
            /\ UNCHANGED <<live, todo, excused>>
        BY <2>7, <3>3 DEF FailedRemove
      <4> QED BY <1>1, <3>1, <3>3, <4>1
    <3> QED BY <3>2, <3>3
  <2>8. CASE Unwound(c)
    BY <1>1, <2>8 DEF Unwound
  <2>9. CASE Release(c)
    <3>1. /\ pc[c] = "release" /\ pc' = [pc EXCEPT ![c] = "done"]
          /\ way' = [way EXCEPT ![c] = "fresh"]
          /\ stash'.present = stash.present /\ stash'.rooms = stash.rooms
          /\ stash'.lease = stash.lease \/ (stash.lease = c /\ stash'.lease = None)
          /\ UNCHANGED <<exists, live, lock, todo, saving, excused, members, owned, late>>
      BY <1>1, <2>9 DEF Release, Finish
    <3>2. excused \/ StashOwned'
      BY <1>1, <3>1
    <3>3. \A d \in Conns : excused \/ CarriesOwned(d)'
      BY <1>1, <3>1
    <3> QED BY <3>1, <3>2, <3>3
  <2>10. ASSUME NEW r \in Rooms, Leave(c, r) PROVE OwnedInv'
    <3>1. /\ pc[c] \in {"leave", "unwind"} /\ members' = members \ {r}
          /\ todo' = [todo EXCEPT ![c] = todo[c] \ {r}]
          /\ UNCHANGED <<exists, live, lock, stash, pc, way, saving, excused, owned, late>>
      BY <2>10 DEF Leave
    <3>2. CASE pc[c] = "leave"
      BY <1>1, <3>1, <3>2
    <3>3. CASE pc[c] = "unwind"
      BY <1>1, <3>1, <3>3
    <3> QED BY <3>1, <3>2, <3>3
  <2> QED BY <2>1, <2>2, <2>3, <2>4, <2>5, <2>6, <2>7, <2>8, <2>9, <2>10, <1>4 DEF Ending
<1>5. CASE StashExpires
  BY <1>1, <1>5 DEF StashExpires
<1>6. CASE Publishing
  <2>1. UNCHANGED <<live, lock, pc, way, todo, saving, excused, owned, late>>
    BY <1>6 DEF Publishing, Rename, Destroy, Buffer, Publish, DestroyMembers,
       ForgetTombstone, ForgetSweep
  <2>2. exists' \subseteq exists
    BY <1>6 DEF Publishing, Rename, Destroy, Buffer, Publish, DestroyMembers,
       ForgetTombstone, ForgetSweep
  <2>3. members' \subseteq members /\ members \cap exists \subseteq members'
    BY <1>6 DEF Publishing, Rename, Destroy, Buffer, Publish, DestroyMembers,
       ForgetTombstone, ForgetSweep
  <2>4. /\ stash'.lease = stash.lease /\ stash'.present = stash.present
        /\ stash'.rooms \subseteq stash.rooms /\ stash.rooms \cap exists \subseteq stash'.rooms
    <3>1. CASE Buffer
      <4>1. stash' \in {stash, [stash EXCEPT !.missed = Append(@, pub.frame)]}
        BY <3>1 DEF Buffer
      <4>2. /\ stash'.lease = stash.lease /\ stash'.present = stash.present
            /\ stash'.rooms = stash.rooms
        BY <1>1, <4>1
      <4> QED BY <4>2
    <3>2. CASE ForgetSweep
      BY <1>1, <3>2 DEF ForgetSweep
    <3>3. CASE ~ Buffer /\ ~ ForgetSweep
      BY <1>6, <3>3 DEF Publishing, Rename, Destroy, Publish, DestroyMembers,
         ForgetTombstone
    <3> QED BY <3>1, <3>2, <3>3
  <2> QED BY <2>1, <2>2, <2>3, <2>4
<1>7. CASE UNCHANGED vars
  BY <1>1, <1>7 DEF vars
<1> QED BY <1>2, <1>3, <1>4, <1>5, <1>6, <1>7, NextIs

(* With nobody connected the stash holds the rooms the agent was in, no    *)
(* fewer and no more, through takeovers, failed registrations and retries, *)
(* but for the three ways to lose it: it expired, a takeover could not be  *)
(* acknowledged, or the agent registered without asking for it.            *)
THEOREM StashIsExact == Spec => []StashIsWhatTheAgentHad
<1>1. Init => MembersInv /\ PlaceInv /\ OwnedInv
  BY SessionAssumption DEF Init, MembersInv, PlaceInv, OwnedInv, StashOwned, CarriesOwned,
     Pending, Same, NoStash, Unacked
<1>2. TypeInv /\ OwnedInv => StashIsWhatTheAgentHad
  BY DEF TypeInv, StashTypes, NoStash, OwnedInv, StashOwned, Same, Settled,
     StashIsWhatTheAgentHad
<1> QED BY <1>1, <1>2, MembersStep, ForgetInit, ForgetStep, PlaceStep, OwnedStep, TypeInit,
           TypeStep, PTL DEF Spec

-----------------------------------------------------------------------------
(* The events of a room reach a session once and in order. *)

(* The frames of a room are in the order of its changes. *)
Sorted(s) == \A i, j \in 1..Len(s) : i < j /\ s[i][1] = s[j][1] => s[i][2] < s[j][2]

(* In a queue s they are, but for those of the tail and early ones.        *)
Orderly(s, tail, soon) ==
    \A i, j \in 1..Len(s) : i < j /\ s[i][1] = s[j][1] =>
        /\ s[i] # s[j]
        /\ \/ s[i][2] < s[j][2]
           \/ s[j] \in tail
           \/ s[j] \in soon /\ s[i][2] # Gone

(* A frame is a room and a version, or the end of the room. *)
LEMMA FramePairs ==
    ASSUME NEW f \in Frame
    PROVE  f[1] \in Rooms /\ f[2] \in 1..Gone /\ f[2] \in Nat /\ f = <<f[1], f[2]>>
BY SessionAssumption DEF Frame, Gone

(* Some of the frames are in order if all are. *)
LEMMA SortedOnly ==
    ASSUME NEW s \in Seq(Frame), Sorted(s), NEW T
    PROVE  Sorted(Only(s, T))
<1> DEFINE u == Only(s, T)
<1>1. PICK e : Places(e, u, s, T, Len(s))
  BY OnlyPlaces
<1> HIDE DEF u
<1>2. ASSUME NEW i \in 1..Len(u), NEW j \in 1..Len(u), i < j, u[i][1] = u[j][1]
      PROVE  u[i][2] < u[j][2]
  <2>1. /\ e[i] \in 1..Len(s) /\ e[j] \in 1..Len(s) /\ e[i] < e[j]
        /\ u[i] = s[e[i]] /\ u[j] = s[e[j]]
    BY <1>1, <1>2 DEF Places
  <2> QED BY <1>2, <2>1 DEF Sorted
<1>3. Sorted(u)
  BY <1>2 DEF Sorted
<1> QED BY <1>3 DEF u

(* The first frame of a sequence in order is not among the rest. *)
LEMMA SortedTail ==
    ASSUME NEW s \in Seq(Frame), s # <<>>, Sorted(s)
    PROVE  Sorted(Tail(s)) /\ Head(s) \notin Range(Tail(s))
<1>1. /\ Tail(s) \in Seq(Frame) /\ Len(s) \in Nat \ {0}
      /\ Head(s) = s[1] /\ Len(Tail(s)) = Len(s) - 1
      /\ \A i \in 1..(Len(s) - 1) : Tail(s)[i] = s[i + 1]
  BY HeadTailProperties, EmptySeq, LenProperties
<1>2. \A i \in 1..(Len(s) - 1) : i + 1 \in 1..Len(s) /\ 1 < i + 1
  BY <1>1
<1>3. Sorted(Tail(s))
  BY <1>1, <1>2 DEF Sorted
<1>4. ASSUME NEW i \in 1..(Len(s) - 1) PROVE s[1] # s[i + 1]
  <2>1. s[1] \in Frame /\ 1 \in 1..Len(s)
    BY <1>1, ElementOfSeq
  <2>2. s[1][2] \in Nat
    BY <2>1, FramePairs
  <2>3. s[1] = s[i + 1] => s[1][2] < s[1][2]
    BY <1>2, <2>1 DEF Sorted
  <2> QED BY <2>2, <2>3
<1>5. Range(Tail(s)) = {Tail(s)[i] : i \in 1..(Len(s) - 1)}
  <2>1. \A u \in Seq(Frame) : Range(u) = {u[i] : i \in 1..Len(u)}
    BY SeqElements
  <2> QED BY <1>1, <2>1
<1> QED BY <1>1, <1>3, <1>4, <1>5

(* A newer frame may follow. *)
LEMMA SortedAppend ==
    ASSUME NEW s \in Seq(Frame), Sorted(s), NEW f \in Frame,
           \A e \in Range(s) : e[1] = f[1] => e[2] < f[2]
    PROVE  Sorted(Append(s, f))
<1> DEFINE u == Append(s, f)
<1>1. /\ Len(u) = Len(s) + 1 /\ u[Len(s) + 1] = f /\ Len(s) \in Nat
      /\ \A i \in 1..Len(s) : u[i] = s[i] /\ s[i] \in Range(s)
  BY SeqElements, LenProperties, AppendProperties
<1> HIDE DEF u
<1>2. ASSUME NEW i \in 1..Len(u), NEW j \in 1..Len(u), i < j, u[i][1] = u[j][1]
      PROVE  u[i][2] < u[j][2]
  <2>1. i \in 1..Len(s) /\ (j \in 1..Len(s) \/ j = Len(s) + 1)
    BY <1>1, <1>2
  <2> QED BY <1>1, <1>2, <2>1 DEF Sorted
<1>3. Sorted(u)
  BY <1>2 DEF Sorted
<1> QED BY <1>3 DEF u

(* A frame is queued behind those that are there. *)
LEMMA OrderlyAppend ==
    ASSUME NEW s \in Seq(Frame), NEW T, NEW E, NEW T2, NEW E2, Orderly(s, T, E),
           T \subseteq T2, E \subseteq E2, NEW f \in Frame, f \notin Range(s),
           \A e \in Range(s) : e[1] = f[1] => e[2] < f[2] \/ f \in T2
    PROVE  Orderly(Append(s, f), T2, E2)
<1> DEFINE u == Append(s, f)
<1>1. /\ Len(u) = Len(s) + 1 /\ u[Len(s) + 1] = f /\ Len(s) \in Nat
      /\ \A i \in 1..Len(s) : u[i] = s[i] /\ s[i] \in Range(s)
  BY SeqElements, LenProperties, AppendProperties
<1> HIDE DEF u
<1>2. ASSUME NEW i \in 1..Len(u), NEW j \in 1..Len(u), i < j, u[i][1] = u[j][1]
      PROVE  /\ u[i] # u[j]
             /\ \/ u[i][2] < u[j][2]
                \/ u[j] \in T2
                \/ u[j] \in E2 /\ u[i][2] # Gone
  <2>1. i \in 1..Len(s) /\ (j \in 1..Len(s) \/ j = Len(s) + 1)
    BY <1>1, <1>2
  <2>2. CASE j \in 1..Len(s)
    <3>1. u[i] = s[i] /\ u[j] = s[j]
      BY <1>1, <2>1, <2>2
    <3> QED BY <1>2, <2>1, <2>2, <3>1 DEF Orderly
  <2>3. CASE j = Len(s) + 1
    BY <1>1, <1>2, <2>1, <2>3
  <2> QED BY <2>1, <2>2, <2>3
<1>3. Orderly(u, T2, E2)
  BY <1>2 DEF Orderly
<1> QED BY <1>3 DEF u

(* A replay is written before what is queued. *)
LEMMA OrderlyReplay ==
    ASSUME NEW s \in Seq(Frame), NEW t \in Seq(Frame), NEW T, NEW E, Sorted(s),
           Orderly(t, T, E), Range(t) \subseteq E, Range(s) \cap Range(t) = {},
           \A f \in Range(s) : f[2] # Gone
    PROVE  Orderly(s \o t, T, E)
<1> DEFINE u == s \o t
<1>1. /\ Len(u) = Len(s) + Len(t) /\ Len(s) \in Nat /\ Len(t) \in Nat
      /\ \A i \in 1..Len(s) : u[i] = s[i] /\ s[i] \in Range(s) /\ s[i] \in Frame
      /\ \A i \in 1..Len(t) : t[i] \in Range(t)
  BY SeqElements, LenProperties, ConcatProperties, ElementOfSeq
<1>2. \A i \in 1..Len(u) : i \notin 1..Len(s) =>
          i - Len(s) \in 1..Len(t) /\ u[i] = t[i - Len(s)]
  BY <1>1, ConcatProperties
<1> HIDE DEF u
<1>3. ASSUME NEW i \in 1..Len(u), NEW j \in 1..Len(u), i < j, u[i][1] = u[j][1]
      PROVE  /\ u[i] # u[j]
             /\ \/ u[i][2] < u[j][2]
                \/ u[j] \in T
                \/ u[j] \in E /\ u[i][2] # Gone
  <2>1. CASE j \in 1..Len(s)
    <3>1. i \in 1..Len(s) /\ u[i] = s[i] /\ u[j] = s[j] /\ u[i] \in Frame
      BY <1>1, <1>3, <2>1
    <3>2. u[i][2] < u[j][2] /\ u[i][2] \in Nat
      BY <1>3, <2>1, <3>1, FramePairs DEF Sorted
    <3> QED BY <3>2
  <2>2. CASE i \in 1..Len(s) /\ j \notin 1..Len(s)
    <3>1. u[i] \in Range(s) /\ u[j] \in Range(t)
      BY <1>1, <1>2, <2>2
    <3> QED BY <3>1
  <2>3. CASE i \notin 1..Len(s) /\ j \notin 1..Len(s)
    <3>1. /\ i - Len(s) \in 1..Len(t) /\ j - Len(s) \in 1..Len(t)
          /\ u[i] = t[i - Len(s)] /\ u[j] = t[j - Len(s)] /\ i - Len(s) < j - Len(s)
      <4>1. i \in Nat /\ j \in Nat /\ i - Len(s) < j - Len(s)
        BY <1>1, <1>3
      <4> QED BY <1>2, <2>3, <4>1
    <3> QED BY <1>3, <3>1 DEF Orderly
  <2>4. j \notin 1..Len(s) \/ i \in 1..Len(s)
    BY <1>1, <1>3
  <2> QED BY <2>1, <2>2, <2>3, <2>4
<1>4. Orderly(u, T, E)
  BY <1>3 DEF Orderly
<1> QED BY <1>4 DEF u

(* The empty queue. *)
LEMMA EmptyOrder ==
    /\ Range(<<>>) = {} /\ <<>> \in Seq(Frame) /\ Sorted(<<>>)
    /\ \A T, E : Orderly(<<>>, T, E)
<1>1. <<>> \in Seq(Frame) /\ Len(<<>>) = 0
  BY EmptySeq
<1>2. Range(<<>>) = {}
  BY <1>1, SeqElements
<1>3. 1..Len(<<>>) = {}
  BY <1>1
<1>4. Sorted(<<>>) /\ \A T, E : Orderly(<<>>, T, E)
  BY <1>3 DEF Sorted, Orderly
<1> QED BY <1>1, <1>2, <1>4

(* A frame that was published before the one under way.  Under way is the  *)
(* newest of its room.                                                     *)
Past(f) ==
    /\ IF f[2] = Gone THEN f[1] \notin exists ELSE f[2] <= version[f[1]]
    /\ pub.step # "idle" /\ pub.frame[1] = f[1] => f[2] < pub.frame[2]

Newest ==
    pub.step # "idle" =>
        IF pub.frame[2] = Gone THEN pub.frame[1] \notin exists
        ELSE pub.frame[2] = version[pub.frame[1]]

(* Its acknowledgement is not written. *)
Unwritten == {"new", "snapshot", "panicked", "install", "restore", "refresh", "write"}

(* A session holds frames the stash accepted, in order; before its         *)
(* acknowledgement it has been sent none of those, when it commits those   *)
(* it replayed, and afterwards none of its tail.                           *)
QueueOrder(c) ==
    /\ \A f \in Range(out[c]) : Past(f)
    /\ Range(frames[c]) \subseteq buffered /\ Sorted(frames[c])
    /\ pc[c] \in Unwritten =>
           Range(out[c]) \cap buffered = {} /\ Range(out[c]) \subseteq early[c]
    /\ pc[c] = "commit" => Range(out[c]) \cap buffered \subseteq Range(frames[c])
    /\ pc[c] \in {"tail", "send"} => Range(frames[c]) \cap Range(out[c]) = {}
    /\ Orderly(out[c], tailed[c], early[c])

OrderInv ==
    /\ Newest
    /\ \A f \in buffered : Past(f) /\ f[2] # Gone
    /\ Range(stash.missed) \subseteq buffered /\ Sorted(stash.missed)
    /\ \A c \in Conns : QueueOrder(c)

(* What changes nothing for the other connections. *)
LEMMA OrderMove ==
    ASSUME OrderInv, NEW c \in Conns, UNCHANGED <<rooms, buffered>>,
           stash'.missed \in {stash.missed, <<>>},
           \A d \in Conns \ {c} :
               /\ pc'[d] = pc[d] /\ out'[d] = out[d] /\ frames'[d] = frames[d]
               /\ tailed'[d] = tailed[d] /\ early'[d] = early[d],
           QueueOrder(c)'
    PROVE  OrderInv'
<1>1. Newest' /\ \A f : Past(f)' <=> Past(f)
  BY DEF OrderInv, Newest, Past, rooms
<1>2. \A f \in buffered' : Past(f)' /\ f[2] # Gone
  BY <1>1 DEF OrderInv
<1>3. Range(stash'.missed) \subseteq buffered' /\ Sorted(stash'.missed)
  BY EmptyOrder DEF OrderInv
<1>4. ASSUME NEW d \in Conns \ {c} PROVE QueueOrder(d)'
  <2>1. QueueOrder(d)
    BY DEF OrderInv
  <2> QED BY <1>1, <2>1 DEF QueueOrder
<1> QED BY <1>1, <1>2, <1>3, <1>4 DEF OrderInv

(* A task moves with what it has, but not to a step that asks more of it. *)
LEMMA OrderQuiet ==
    ASSUME OrderInv, NEW c \in Conns, UNCHANGED <<rooms, buffered, out, frames, tailed, early>>,
           stash'.missed \in {stash.missed, <<>>},
           NEW p, pc \in [Conns -> PCs], pc' = [pc EXCEPT ![c] = p],
           p \notin {"commit", "tail", "send"}, p \in Unwritten => pc[c] \in Unwritten
    PROVE  OrderInv'
<1>1. QueueOrder(c) /\ \A f : Past(f)' <=> Past(f)
  BY DEF OrderInv, Past, rooms
<1>2. QueueOrder(c)'
  BY <1>1 DEF QueueOrder
<1> QED BY <1>2, OrderMove

(* A task ends with its queue. *)
LEMMA OrderFinish ==
    ASSUME OrderInv, NEW c \in Conns, UNCHANGED rooms, stash'.missed = stash.missed,
           ConnTypes, pc \in [Conns -> PCs], Finish(c)
    PROVE  OrderInv'
<1>1. /\ out' = [out EXCEPT ![c] = <<>>] /\ frames' = [frames EXCEPT ![c] = <<>>]
      /\ pc' = [pc EXCEPT ![c] = "done"] /\ buffered' = buffered
      /\ tailed' = [tailed EXCEPT ![c] = {}] /\ early' = [early EXCEPT ![c] = {}]
  BY DEF Finish, Goto, Set
<1>2. out'[c] = <<>> /\ frames'[c] = <<>> /\ pc'[c] = "done"
  BY <1>1 DEF ConnTypes
<1>3. QueueOrder(c)'
  BY <1>2, EmptyOrder DEF QueueOrder, Unwritten
<1> QED BY <1>1, <1>3, OrderMove DEF ConnTypes

(* The steps of a registration. *)
LEMMA OrderRegistering ==
    ASSUME TypeInv, OrderInv, NEW c \in Conns, Registering(c)
    PROVE  OrderInv'
<1> USE DEF Goto, Set
<1>1. ConnTypes /\ StashTypes /\ pc \in [Conns -> PCs]
  BY DEF TypeInv, LockTypes
<1>2. QueueOrder(c) /\ frames[c] \in Seq(Frame) /\ out[c] \in Seq(Frame)
  BY <1>1 DEF OrderInv, ConnTypes
<1>3. ASSUME UNCHANGED <<rooms, buffered, out, frames, tailed, early>>,
             stash'.missed = stash.missed,
             NEW p, pc' = [pc EXCEPT ![c] = p], p \notin {"commit", "tail", "send"},
             p \in Unwritten => pc[c] \in Unwritten
      PROVE  OrderInv'
  BY <1>1, <1>3, OrderQuiet
<1>4. ASSUME UNCHANGED rooms PROVE \A f : Past(f)' <=> Past(f)
  BY <1>4 DEF Past, rooms
<1>5. CASE BeginReclaim(c)
  <2>1. stash'.missed = stash.missed
    BY <1>1, <1>5 DEF BeginReclaim, StashTypes
  <2> QED BY <1>3, <1>5, <2>1 DEF BeginReclaim, Unwritten, history
<1>6. CASE Snapshot(c)
  <2>1. /\ pc[c] = "snapshot" /\ pc' = [pc EXCEPT ![c] = "install"]
        /\ frames' = [frames EXCEPT ![c] = About(stash.missed, exists)]
        /\ UNCHANGED <<rooms, stash, out, buffered, tailed, early>>
    BY <1>6 DEF Snapshot, history
  <2>2. /\ Range(About(stash.missed, exists)) \subseteq Range(stash.missed)
        /\ Sorted(About(stash.missed, exists))
    BY <1>1, AboutKeeps, SortedOnly DEF StashTypes, OrderInv, About
  <2>3. QueueOrder(c)'
    BY <1>1, <1>2, <1>4, <2>1, <2>2 DEF QueueOrder, OrderInv, ConnTypes, Unwritten
  <2> QED BY <1>1, <2>1, <2>3, OrderMove DEF ConnTypes
<1>7. CASE SnapshotPanics(c)
  BY <1>3, <1>7 DEF SnapshotPanics, Unwritten, history, local
<1>8. CASE TakeOver(c)
  BY <1>3, <1>8 DEF TakeOver, Unwritten, history
<1>9. CASE RegisterFresh(c)
  BY <1>3, <1>9 DEF RegisterFresh, Unwritten, local
<1>10. CASE Install(c)
  BY <1>3, <1>10 DEF Install, Unwritten, history, local
<1>11. CASE Restored(c)
  BY <1>3, <1>11 DEF Restored, Unwritten, history, local
<1>12. CASE Refresh(c)
  <2> DEFINE s == IF stash.lease = c THEN stash.missed ELSE frames[c]
  <2>1. /\ pc[c] = "refresh" /\ pc' = [pc EXCEPT ![c] = "write"]
        /\ frames' = [frames EXCEPT ![c] = About(s, exists)]
        /\ UNCHANGED <<rooms, stash, out, buffered, tailed, early>>
    BY <1>12 DEF Refresh, history
  <2>2. s \in Seq(Frame) /\ Sorted(s) /\ Range(s) \subseteq buffered
    BY <1>1, <1>2 DEF StashTypes, OrderInv, QueueOrder
  <2> HIDE DEF s
  <2>3. Range(About(s, exists)) \subseteq Range(s) /\ Sorted(About(s, exists))
    BY <2>2, AboutKeeps, SortedOnly DEF About
  <2>4. QueueOrder(c)'
    BY <1>1, <1>2, <1>4, <2>1, <2>2, <2>3 DEF QueueOrder, ConnTypes, Unwritten
  <2> QED BY <1>1, <2>1, <2>4, OrderMove DEF ConnTypes
<1>13. CASE Written(c)
  <2>1. /\ pc[c] = "write" /\ pc' = [pc EXCEPT ![c] = "commit"]
        /\ out' = [out EXCEPT ![c] = frames[c] \o out[c]]
        /\ UNCHANGED <<rooms, stash, frames, buffered, tailed, early>>
    BY <1>13 DEF Written, local
  <2>2. /\ pc'[c] = "commit" /\ out'[c] = frames[c] \o out[c]
        /\ Range(out'[c]) = Range(frames[c]) \cup Range(out[c])
    BY <1>1, <1>2, <2>1, SeqElements DEF ConnTypes
  <2>3. Orderly(out'[c], tailed[c], early[c])
    <3>1. \A f \in Range(frames[c]) : f[2] # Gone
      BY <1>2 DEF QueueOrder, OrderInv
    <3>2. Range(frames[c]) \cap Range(out[c]) = {} /\ Range(out[c]) \subseteq early[c]
      BY <1>2, <2>1 DEF QueueOrder, Unwritten
    <3>3. Sorted(frames[c]) /\ Orderly(out[c], tailed[c], early[c])
      BY <1>2 DEF QueueOrder
    <3>4. Orderly(frames[c] \o out[c], tailed[c], early[c])
      BY <1>2, <3>1, <3>2, <3>3, OrderlyReplay
    <3> QED BY <2>2, <3>4
  <2>4. \A f \in Range(out'[c]) : Past(f)
    BY <1>2, <2>2 DEF QueueOrder, OrderInv
  <2>5. Range(out'[c]) \cap buffered \subseteq Range(frames[c])
    BY <1>2, <2>1, <2>2 DEF QueueOrder, Unwritten
  <2>6. QueueOrder(c)'
    BY <1>2, <1>4, <2>1, <2>2, <2>3, <2>4, <2>5 DEF QueueOrder, Unwritten
  <2> QED BY <1>1, <2>1, <2>6, OrderMove DEF ConnTypes
<1>14. CASE WriteFails(c)
  BY <1>3, <1>14 DEF WriteFails, Unwritten, history, local
<1>15. CASE Commit(c)
  <2>1. CASE stash.lease = c
    <3> DEFINE rest == Only(stash.missed, Frame \ Range(frames[c]))
    <3>1. /\ pc[c] = "commit" /\ pc' = [pc EXCEPT ![c] = "tail"] /\ stash' = NoStash
          /\ frames' = [frames EXCEPT ![c] = rest]
          /\ UNCHANGED <<rooms, out, buffered, tailed, early>>
      BY <1>15, <2>1 DEF Commit
    <3>2. /\ Range(rest) \subseteq buffered /\ Sorted(rest)
          /\ Range(rest) \cap Range(frames[c]) = {}
      BY <1>1, OnlyKeeps, SortedOnly DEF StashTypes, OrderInv
    <3>3. frames'[c] = rest /\ pc'[c] = "tail"
      BY <1>1, <3>1 DEF ConnTypes
    <3> HIDE DEF rest
    <3>4. Range(rest) \cap Range(out[c]) = {}
      BY <1>2, <3>1, <3>2 DEF QueueOrder
    <3>5. QueueOrder(c)'
      BY <1>2, <1>4, <3>1, <3>2, <3>3, <3>4 DEF QueueOrder, Unwritten
    <3> QED BY <1>1, <3>1, <3>5, OrderMove DEF ConnTypes, NoStash
  <2>2. CASE stash.lease # c
    <3>1. /\ pc[c] = "commit" /\ pc' = [pc EXCEPT ![c] = "ready"] /\ stash' = stash
          /\ frames' = [frames EXCEPT ![c] = <<>>]
          /\ UNCHANGED <<rooms, out, buffered, tailed, early>>
      BY <1>15, <2>2 DEF Commit
    <3>2. frames'[c] = <<>> /\ pc'[c] = "ready"
      BY <1>1, <3>1 DEF ConnTypes
    <3>3. QueueOrder(c)'
      BY <1>2, <1>4, <3>1, <3>2, EmptyOrder DEF QueueOrder, Unwritten
    <3> QED BY <1>1, <3>1, <3>3, OrderMove DEF ConnTypes
  <2> QED BY <2>1, <2>2
<1>16. CASE TailCheck(c)
  <2>1. /\ pc[c] = "tail" /\ UNCHANGED <<rooms, stash, out, buffered, tailed, early>>
        /\ \/ pc' = [pc EXCEPT ![c] = "ready"] /\ frames' = frames
           \/ pc' = [pc EXCEPT ![c] = "send"] /\ frames' = frames
           \/ /\ pc' = pc /\ frames[c] # <<>>
              /\ frames' = [frames EXCEPT ![c] = Tail(frames[c])]
    BY <1>16 DEF TailCheck, history
  <2>2. /\ Range(frames'[c]) \subseteq Range(frames[c]) /\ Sorted(frames'[c])
        /\ pc'[c] \in {"ready", "send", "tail"}
    <3>1. Sorted(frames[c])
      BY <1>2 DEF QueueOrder
    <3>2. pc'[c] \in {"ready", "send", "tail"}
      BY <1>1, <2>1
    <3>3. CASE frames' = frames
      BY <3>1, <3>2, <3>3
    <3>4. CASE frames[c] # <<>> /\ frames' = [frames EXCEPT ![c] = Tail(frames[c])]
      <4>1. frames'[c] = Tail(frames[c])
        BY <1>1, <3>4 DEF ConnTypes
      <4>2. Range(Tail(frames[c])) \subseteq Range(frames[c]) /\ Sorted(Tail(frames[c]))
        BY <1>2, <3>1, <3>4, SeqElements, SortedTail
      <4> QED BY <3>2, <4>1, <4>2
    <3> QED BY <2>1, <3>3, <3>4
  <2>3. QueueOrder(c)'
    BY <1>2, <1>4, <2>1, <2>2 DEF QueueOrder, Unwritten
  <2> QED BY <1>1, <2>1, <2>3, OrderMove DEF ConnTypes
<1>17. CASE TailSend(c)
  <2> DEFINE f == Head(frames[c])
  <2>1. pc[c] = "send" /\ UNCHANGED <<rooms, stash, buffered, early>>
    BY <1>17 DEF TailSend
  <2>2. CASE live = c /\ frames[c] # <<>>
    <3>1. /\ out' = [out EXCEPT ![c] = Append(out[c], f)]
          /\ tailed' = [tailed EXCEPT ![c] = tailed[c] \cup {f}]
          /\ frames' = [frames EXCEPT ![c] = Tail(frames[c])]
          /\ pc' = [pc EXCEPT ![c] = "tail"]
      BY <1>17, <2>2 DEF TailSend
    <3>2. /\ f \in Frame /\ Range(frames[c]) = {f} \cup Range(Tail(frames[c]))
          /\ Sorted(Tail(frames[c])) /\ f \notin Range(Tail(frames[c]))
      BY <1>2, <2>2, SeqElements, SortedTail DEF QueueOrder
    <3> HIDE DEF f
    <3>3. /\ out'[c] = Append(out[c], f) /\ tailed'[c] = tailed[c] \cup {f}
          /\ frames'[c] = Tail(frames[c]) /\ pc'[c] = "tail"
          /\ Range(out'[c]) = Range(out[c]) \cup {f}
      BY <1>1, <1>2, <3>1, <3>2, SeqElements DEF ConnTypes
    <3>4. /\ f \notin Range(out[c]) /\ Past(f)
          /\ Range(Tail(frames[c])) \cap Range(out'[c]) = {}
      BY <1>2, <2>1, <3>2, <3>3 DEF QueueOrder, OrderInv
    <3>5. Orderly(out'[c], tailed'[c], early[c])
      BY <1>2, <3>2, <3>3, <3>4, OrderlyAppend DEF QueueOrder
    <3>6. QueueOrder(c)'
      BY <1>2, <1>4, <2>1, <3>2, <3>3, <3>4, <3>5 DEF QueueOrder, Unwritten
    <3> QED BY <1>1, <2>1, <3>1, <3>6, OrderMove DEF ConnTypes
  <2>3. CASE live # c
    <3>1. /\ frames' = [frames EXCEPT ![c] = <<>>] /\ pc' = [pc EXCEPT ![c] = "ready"]
          /\ UNCHANGED <<out, tailed>>
      BY <1>17, <2>3 DEF TailSend
    <3>2. frames'[c] = <<>> /\ pc'[c] = "ready"
      BY <1>1, <3>1 DEF ConnTypes
    <3>3. QueueOrder(c)'
      BY <1>2, <1>4, <2>1, <3>1, <3>2, EmptyOrder DEF QueueOrder, Unwritten
    <3> QED BY <1>1, <2>1, <3>1, <3>3, OrderMove DEF ConnTypes
  <2>4. frames[c] # <<>>
    BY <1>1, <2>1 DEF ConnTypes
  <2> QED BY <2>2, <2>3, <2>4
<1>18. ASSUME NEW r \in Rooms, Restore(c, r) PROVE OrderInv'
  <2>1. pc' = [pc EXCEPT ![c] = pc[c]] /\ pc[c] = "restore"
    BY <1>1, <1>18 DEF Restore
  <2> QED BY <1>3, <1>18, <2>1 DEF Restore, Unwritten
<1> QED BY <1>5, <1>6, <1>7, <1>8, <1>9, <1>10, <1>11, <1>12, <1>13, <1>14, <1>15,
           <1>16, <1>17, <1>18 DEF Registering

(* The steps of a request, and of the end of a session. *)
LEMMA OrderEnding ==
    ASSUME TypeInv, OrderInv, NEW c \in Conns, Requesting(c) \/ Ending(c)
    PROVE  OrderInv'
<1> USE DEF Goto, Set
<1>1. ConnTypes /\ StashTypes /\ pc \in [Conns -> PCs]
  BY DEF TypeInv, LockTypes
<1>2. ASSUME UNCHANGED <<rooms, buffered, out, frames, tailed, early>>,
             stash'.missed \in {stash.missed, <<>>},
             NEW p, pc' = [pc EXCEPT ![c] = p], p \notin {"commit", "tail", "send"},
             p \in Unwritten => pc[c] \in Unwritten
      PROVE  OrderInv'
  BY <1>1, <1>2, OrderQuiet
<1>3. CASE JoinApply(c)
  BY <1>2, <1>3 DEF JoinApply, Unwritten
<1>4. CASE LeaveApply(c)
  BY <1>2, <1>4 DEF LeaveApply, Unwritten
<1>5. ASSUME NEW r \in Rooms, JoinCheck(c, r) PROVE OrderInv'
  BY <1>2, <1>5 DEF JoinCheck, Unwritten, history
<1>6. ASSUME NEW r \in Rooms, LeaveCheck(c, r) PROVE OrderInv'
  BY <1>2, <1>6 DEF LeaveCheck, Unwritten, history
<1>7. CASE Disconnect(c)
  BY <1>2, <1>7 DEF Disconnect, Unwritten, history, local
<1>8. CASE Cleanup(c)
  <2>1. CASE live = c
    <3>1. \E p \in {"remove", "filter"} : pc' = [pc EXCEPT ![c] = p]
      BY <1>8, <2>1 DEF Cleanup
    <3> QED BY <1>2, <1>8, <2>1, <3>1 DEF Cleanup, Unwritten, history
  <2>2. CASE live # c
    BY <1>1, <1>8, <2>2, OrderFinish DEF Cleanup
  <2> QED BY <2>1, <2>2
<1>9. CASE StashFilter(c)
  BY <1>2, <1>9 DEF StashFilter, Unwritten, history
<1>10. CASE StashInsert(c)
  <2>1. stash'.missed = <<>>
    BY <1>10 DEF StashInsert
  <2> QED BY <1>2, <1>10, <2>1 DEF StashInsert, Unwritten
<1>11. CASE StashRecheck(c)
  <2>1. stash'.missed = stash.missed
    BY <1>1, <1>11 DEF StashRecheck, StashTypes
  <2> QED BY <1>2, <1>11, <2>1 DEF StashRecheck, Unwritten, history, local
<1>12. CASE Remove(c)
  BY <1>1, <1>12, OrderFinish DEF Remove
<1>13. CASE FailedRemove(c)
  <2>1. \E p \in {"unwind", "release"} : pc' = [pc EXCEPT ![c] = p]
    BY <1>13 DEF FailedRemove
  <2> QED BY <1>2, <1>13, <2>1 DEF FailedRemove, Unwritten
<1>14. CASE Unwound(c)
  BY <1>2, <1>14 DEF Unwound, Unwritten, history, local
<1>15. CASE Release(c)
  <2>1. stash'.missed = stash.missed
    BY <1>1, <1>15 DEF Release, StashTypes
  <2> QED BY <1>1, <1>15, <2>1, OrderFinish DEF Release
<1>16. ASSUME NEW r \in Rooms, Leave(c, r) PROVE OrderInv'
  <2>1. pc' = [pc EXCEPT ![c] = pc[c]] /\ pc[c] \in {"leave", "unwind"}
    BY <1>1, <1>16 DEF Leave
  <2> QED BY <1>2, <1>16, <2>1 DEF Leave, Unwritten, history
<1> QED BY <1>3, <1>4, <1>5, <1>6, <1>7, <1>8, <1>9, <1>10, <1>11, <1>12, <1>13, <1>14,
           <1>15, <1>16 DEF Requesting, Ending

(* The steps of the publisher. *)
LEMMA OrderPublishing ==
    ASSUME TypeInv, ForgetInv, OrderInv, Publishing
    PROVE  OrderInv'
<1> USE DEF Goto, Set, PubStep
<1>1. ConnTypes /\ StashTypes /\ pc \in [Conns -> PCs] /\ RoomTypes
  BY DEF TypeInv, LockTypes
<1>2. Gone = MaxVersion + 1 /\ Gone \in Nat
  BY SessionAssumption DEF Gone
(* What follows if nothing is queued or buffered. *)
<1>3. ASSUME UNCHANGED <<pc, out, frames, tailed, early, buffered>>, Newest',
             Range(stash'.missed) \subseteq Range(stash.missed), Sorted(stash'.missed),
             \A f \in Frame : Past(f) => Past(f)'
      PROVE  OrderInv'
  <2>1. \A f \in buffered' : Past(f)' /\ f[2] # Gone
    BY <1>1, <1>3 DEF OrderInv, TypeInv, HistoryTypes
  <2>2. ASSUME NEW c \in Conns PROVE QueueOrder(c)'
    <3>1. QueueOrder(c) /\ Range(out[c]) \subseteq Frame
      BY <1>1, SeqElements DEF OrderInv, ConnTypes
    <3> QED BY <1>3, <3>1 DEF QueueOrder
  <2> QED BY <1>3, <2>1, <2>2 DEF OrderInv
<1>4. ASSUME NEW r \in Rooms, Rename(r) PROVE OrderInv'
  <2>1. /\ pub.step = "idle" /\ r \in exists /\ version[r] < MaxVersion
        /\ version' = [version EXCEPT ![r] = version[r] + 1]
        /\ pub'.step = "buffer" /\ pub'.frame = <<r, version[r] + 1>>
        /\ UNCHANGED <<exists, stash, pc, out, frames, tailed, early, buffered>>
    BY <1>4 DEF Rename, local, history
  <2>2. /\ version[r] \in 0..MaxVersion /\ version'[r] = version[r] + 1
        /\ \A q \in Rooms \ {r} : version'[q] = version[q]
    BY <1>1, <2>1 DEF RoomTypes
  <2>3. Newest'
    BY <1>2, <2>1, <2>2, SessionAssumption DEF Newest
  <2>4. ASSUME NEW f \in Frame, Past(f) PROVE Past(f)'
    <3>1. f[1] \in Rooms /\ f[2] \in Nat
      BY FramePairs
    <3>2. CASE f[1] = r
      BY <1>2, <2>1, <2>2, <2>4, <3>1, <3>2, SessionAssumption DEF Past
    <3>3. CASE f[1] # r
      BY <2>1, <2>2, <2>4, <3>1, <3>3 DEF Past
    <3> QED BY <3>2, <3>3
  <2> QED BY <1>3, <2>1, <2>3, <2>4 DEF OrderInv
<1>5. ASSUME NEW r \in Rooms, Destroy(r) PROVE OrderInv'
  <2>1. /\ pub.step = "idle" /\ r \in exists /\ exists' = exists \ {r}
        /\ pub'.step = "members" /\ pub'.frame = <<r, Gone>>
        /\ UNCHANGED <<version, stash, pc, out, frames, tailed, early, buffered>>
    BY <1>5 DEF Destroy, local, history
  <2>2. Newest'
    BY <2>1 DEF Newest
  <2>3. ASSUME NEW f \in Frame, Past(f) PROVE Past(f)'
    <3>1. f[1] \in Rooms /\ f[2] \in Nat /\ version[f[1]] \in 0..MaxVersion
      BY <1>1, FramePairs DEF RoomTypes
    <3>2. CASE f[1] = r
      <4>1. f[2] # Gone /\ f[2] <= version[f[1]]
        BY <2>1, <2>3, <3>2 DEF Past
      <4> QED BY <1>2, <2>1, <2>3, <3>1, <3>2, <4>1, SessionAssumption DEF Past
    <3>3. CASE f[1] # r
      BY <2>1, <2>3, <3>1, <3>3 DEF Past
    <3> QED BY <3>2, <3>3
  <2> QED BY <1>3, <2>1, <2>2, <2>3 DEF OrderInv
(* What follows of the frame under way when it is out. *)
<1>6. pub.step # "idle" => /\ pub.frame \in Frame /\ pub.frame[2] \in Nat
                           /\ ~ Past(pub.frame)
                           /\ \A f \in Frame : Past(f) /\ f[1] = pub.frame[1] => f[2] < pub.frame[2]
  BY <1>1, FramePairs DEF Past, RoomTypes
<1>7. ASSUME pub.step # "idle", pub'.step = "idle", UNCHANGED <<exists, version>>
      PROVE  \A f \in Frame : Past(f) \/ f = pub.frame => Past(f)'
  <2>1. pub.frame[1] \in Rooms /\ pub.frame[2] \in Nat /\ version[pub.frame[1]] \in Nat
    BY <1>1, <1>6, <1>7, FramePairs DEF RoomTypes
  <2> QED BY <1>7, <2>1 DEF OrderInv, Newest, Past
<1>8. ASSUME pub.step # "idle", pub'.step # "idle", UNCHANGED <<exists, version>>,
             pub'.frame = pub.frame
      PROVE  Newest' /\ \A f \in Frame : Past(f) => Past(f)'
  BY <1>8 DEF OrderInv, Newest, Past
<1>9. CASE Buffer
  <2>1. pub.step = "buffer" /\ UNCHANGED <<exists, version, pc, out, frames, tailed, early>>
    BY <1>9 DEF Buffer, local
  <2>2. CASE /\ stash.present /\ Len(stash.missed) < MaxBuffered
             /\ pub.frame[1] \notin destroyed
    <3>1. /\ stash' = [stash EXCEPT !.missed = Append(stash.missed, pub.frame)]
          /\ buffered' = buffered \cup {pub.frame}
          /\ pub'.step = "idle"
      BY <1>9, <2>2 DEF Buffer
    <3>2. /\ stash'.missed = Append(stash.missed, pub.frame)
          /\ stash.missed \in Seq(Frame) /\ Range(stash.missed) \subseteq buffered
      BY <1>1, <3>1 DEF StashTypes, OrderInv
    <3>3. pub.frame \in Frame /\ pub.frame[2] # Gone
      BY <1>6, <2>1 DEF OrderInv, Newest, ForgetInv
    <3>4. Range(stash'.missed) \subseteq buffered'
      BY <3>1, <3>2, <3>3, SeqElements
    <3>5. Sorted(stash'.missed)
      <4>1. \A e \in Range(stash.missed) : e \in Frame /\ Past(e)
        BY <3>2, SeqElements DEF OrderInv
      <4> QED BY <1>6, <2>1, <3>2, <3>3, <4>1, SortedAppend DEF OrderInv
    <3>6. Newest'
      BY <3>1 DEF Newest
    <3>7. \A f \in buffered' : Past(f)' /\ f[2] # Gone
      BY <1>7, <2>1, <3>1, <3>3 DEF OrderInv, TypeInv, HistoryTypes
    <3>8. ASSUME NEW c \in Conns PROVE QueueOrder(c)'
      <4>1. QueueOrder(c) /\ Range(out[c]) \subseteq Frame
        BY <1>1, SeqElements DEF OrderInv, ConnTypes
      <4>2. pub.frame \notin Range(out[c]) /\ \A f \in Range(out[c]) : Past(f)'
        BY <1>6, <1>7, <2>1, <3>1, <4>1 DEF QueueOrder
      <4> QED BY <2>1, <3>1, <4>1, <4>2 DEF QueueOrder
    <3> QED BY <3>4, <3>5, <3>6, <3>7, <3>8 DEF OrderInv
  <2>3. CASE ~ (/\ stash.present /\ Len(stash.missed) < MaxBuffered
                /\ pub.frame[1] \notin destroyed)
    <3>1. pub' = [pub EXCEPT !.step = "live"] /\ UNCHANGED <<stash, buffered>>
      BY <1>9, <2>3 DEF Buffer
    <3>2. pub'.step = "live" /\ pub'.frame = pub.frame
      BY <1>1, <3>1 DEF RoomTypes
    <3> QED BY <1>3, <1>8, <2>1, <3>1, <3>2 DEF OrderInv
  <2> QED BY <2>2, <2>3
<1>10. CASE Publish
  <2>1. /\ pub.step = "live" /\ pub'.step = "idle" /\ SendLive(pub.frame)
        /\ UNCHANGED <<exists, version, stash, pc, frames, tailed, buffered>>
    BY <1>10 DEF Publish, local
  <2>2. Newest' /\ \A f \in buffered' : Past(f)' /\ f[2] # Gone
    BY <1>7, <2>1 DEF Newest, OrderInv, TypeInv, HistoryTypes
  <2>3. ASSUME NEW c \in Conns PROVE QueueOrder(c)'
    <3>1. /\ QueueOrder(c) /\ Range(out[c]) \subseteq Frame /\ Range(frames[c]) \subseteq Frame
          /\ out[c] \in Seq(Frame)
      BY <1>1, SeqElements DEF OrderInv, ConnTypes
    <3>2. \A f \in Range(out[c]) \cup {pub.frame} : Past(f)'
      BY <1>6, <1>7, <2>1, <3>1 DEF QueueOrder
    <3>3. CASE live # c
      <4>1. out'[c] = out[c] /\ early'[c] = early[c]
        BY <1>1, <2>1, <3>3 DEF SendLive, ConnTypes
      <4> QED BY <2>1, <3>1, <3>2, <4>1 DEF QueueOrder
    <3>4. CASE live = c
      <4>1. /\ out'[c] = Append(out[c], pub.frame)
            /\ early'[c] = IF pc[c] \in Acked THEN early[c] ELSE early[c] \cup {pub.frame}
        BY <1>1, <2>1, <3>4, SessionAssumption DEF SendLive, ConnTypes
      <4>2. Range(out'[c]) = Range(out[c]) \cup {pub.frame}
        BY <1>6, <2>1, <3>1, <4>1, SeqElements
      <4>3. pub.frame \notin buffered /\ pub.frame \notin Range(out[c])
        BY <1>6, <2>1, <3>1 DEF QueueOrder, OrderInv
      <4>4. \A e \in Range(out[c]) : e[1] = pub.frame[1] => e[2] < pub.frame[2]
        BY <1>6, <2>1, <3>1 DEF QueueOrder
      <4>5. early[c] \subseteq early'[c] /\ (pc[c] \in Unwritten => pub.frame \in early'[c])
        BY <4>1 DEF Unwritten, Acked
      <4>6. Orderly(out'[c], tailed[c], early'[c])
        <5>1. Orderly(out[c], tailed[c], early[c])
          BY <3>1 DEF QueueOrder
        <5> QED BY <1>6, <2>1, <3>1, <4>1, <4>3, <4>4, <4>5, <5>1, OrderlyAppend
      <4> QED BY <2>1, <3>1, <3>2, <4>2, <4>3, <4>5, <4>6 DEF QueueOrder
    <3> QED BY <3>3, <3>4
  <2> QED BY <2>1, <2>2, <2>3 DEF OrderInv
<1>11. CASE DestroyMembers \/ ForgetTombstone
  <2>1. /\ pub.step # "idle"
        /\ UNCHANGED <<exists, version, pc, out, frames, tailed, early, buffered, stash>>
        /\ \E p \in {"tombstone", "sweep"} : pub' = [pub EXCEPT !.step = p]
    BY <1>11 DEF DestroyMembers, ForgetTombstone, local, history
  <2>2. pub'.step # "idle" /\ pub'.frame = pub.frame
    BY <1>1, <2>1 DEF RoomTypes
  <2> QED BY <1>3, <1>8, <2>1, <2>2 DEF OrderInv
<1>12. CASE ForgetSweep
  <2>1. /\ pub.step # "idle" /\ pub' = [pub EXCEPT !.step = "live"]
        /\ UNCHANGED <<exists, version, pc, out, frames, tailed, early, buffered>>
    BY <1>12 DEF ForgetSweep, local, history
  <2>2. pub'.step # "idle" /\ pub'.frame = pub.frame
    BY <1>1, <2>1 DEF RoomTypes
  <2>3. /\ stash'.missed = About(stash.missed, Rooms \ {pub.frame[1]})
        /\ stash.missed \in Seq(Frame) /\ Sorted(stash.missed)
    BY <1>1, <1>12 DEF ForgetSweep, StashTypes, OrderInv
  <2>4. Range(stash'.missed) \subseteq Range(stash.missed)
    BY <2>3, AboutKeeps
  <2>5. Sorted(stash'.missed)
    BY <2>3, SortedOnly DEF About
  <2> QED BY <1>3, <1>8, <2>1, <2>2, <2>4, <2>5
<1> QED BY <1>4, <1>5, <1>9, <1>10, <1>11, <1>12 DEF Publishing

(* A step keeps the frames in order, wherever they are. *)
LEMMA OrderStep ==
    ASSUME TypeInv, ForgetInv, OrderInv, [Next]_vars
    PROVE  OrderInv'
<1>1. CASE StashExpires
  <2>1. /\ stash'.missed = <<>>
        /\ UNCHANGED <<rooms, pc, buffered, out, frames, tailed, early>>
    BY <1>1 DEF StashExpires, NoStash, local
  <2>2. Newest' /\ \A f : Past(f)' <=> Past(f)
    BY <2>1 DEF OrderInv, Newest, Past, rooms
  <2>3. \A c \in Conns : QueueOrder(c)'
    BY <2>1, <2>2 DEF OrderInv, QueueOrder
  <2> QED BY <2>1, <2>2, <2>3, EmptyOrder DEF OrderInv
<1>2. CASE UNCHANGED vars
  <2>1. UNCHANGED <<exists, version, pub, stash, pc, buffered, out, frames, tailed, early>>
    BY <1>2 DEF vars, rooms, local, history
  <2> QED BY <2>1 DEF OrderInv, Newest, Past, QueueOrder
<1> QED BY <1>1, <1>2, OrderRegistering, OrderEnding, OrderPublishing, NextIs

(* A session gets every room event at most once and in the order of the    *)
(* changes, over snapshot, queue and tail, but for a frame of the tail and *)
(* one queued before the acknowledgement.                                  *)
THEOREM EventsComeOnceAndInOrder == Spec => []EventsOnceInOrder
<1>1. Init => OrderInv
  <2> SUFFICES ASSUME Init PROVE OrderInv
    OBVIOUS
  <2>1. Newest /\ buffered = {} /\ stash.missed = <<>>
    BY DEF Init, Newest, NoStash
  <2>2. ASSUME NEW c \in Conns PROVE QueueOrder(c)
    BY EmptyOrder DEF Init, QueueOrder
  <2> QED BY <2>1, <2>2, EmptyOrder DEF OrderInv
<1>2. OrderInv => EventsOnceInOrder
  BY DEF OrderInv, QueueOrder, Orderly, EventsOnceInOrder
<1>3. Init => MembersInv
  BY DEF Init, MembersInv
<1> QED BY <1>1, <1>2, <1>3, OrderStep, MembersStep, ForgetInit, ForgetStep, TypeInit, TypeStep,
           PTL DEF Spec
=============================================================================
