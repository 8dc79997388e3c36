---------------------------- MODULE FdEventProofs ----------------------------
(* The safety of the event loop, for any number of fdevents, descriptors   *)
(* and events, whatever the handlers do, and with the input threads that   *)
(* remove fdevents meanwhile.                                              *)
EXTENDS FdEvent, FiniteSetTheorems, WellFoundedInduction, TLAPS

(* A leaf that names no prover is Zenon's.                                *)
USE Zenon

(* An entry of fd_table is an fdevent with that descriptor, even when two  *)
(* fdevents have it (after a close elsewhere).                             *)
TableIsActive == \A f \in Fds : fd_table[f] # None => fd[fd_table[f]] = f

(* As long as descriptors are closed by their fdevents only, they are open. *)
ActiveIsOpen == ~stray => \A e \in Fdes : Active(e) => fd[e] \in isOpen

(* What is given to select(), and what it found, stays registered until it *)
(* is scanned, unless it is taken away just then.                          *)
FoundIsRegistered ==
  /\ pc \notin {"wait", "scan"} => \A f \in Fds : found[f] = {}
  /\ ~stray /\ ~raced => \A f \in Fds : found[f] # {} => fd_table[f] # None

(* The inductive invariant.                                                *)
IInv ==
  /\ PendingIsListed /\ WatchesWhatIsWanted /\ NeverFatal
  /\ TableIsActive /\ ActiveIsOpen /\ FoundIsRegistered

---------------------------------------------------------------------------
(* Sets of descriptors, and sequences.                                     *)

(* A set of descriptor numbers that is not empty has a largest.            *)
LEMMA MaxFdNat == MaxFd \in Nat
  BY SMT DEF MaxFd

(* The largest is what Max gives.                                          *)
LEMMA MaxOfFds ==
  ASSUME NEW S \in SUBSET (0 .. MaxFd), S # {}
  PROVE  Max(S) \in S /\ \A x \in S : x <= Max(S)
<1> DEFINE T == {n \in Nat : MaxFd - n \in S}
<1>1. \A x \in S : MaxFd - x \in T
  BY MaxFdNat, SMT
<1>2. T \subseteq Nat /\ T # {}
  BY <1>1
<1>3. PICK m \in T : \A y \in T : <<y, m>> \notin OpToRel(<, Nat)
  <2> HIDE DEF T
  <2> QED BY <1>2, WFMin, NatLessThanWellFounded
<1>4. \A y \in T : <<y, m>> \in Nat \X Nat /\ ~(y < m)
  BY <1>3 DEF OpToRel
<1>5. MaxFd - m \in S
  BY <1>3
<1>6. ASSUME NEW y \in S PROVE MaxFd - m >= y
  <2>1. MaxFd - y \in T
    BY <1>1
  <2>2. ~(MaxFd - y < m)
    <3> HIDE DEF T
    <3> QED BY <1>4, <2>1
  <2>3. y \in Nat /\ m \in Nat
    BY MaxFdNat, SMT
  <2> QED BY <2>2, <2>3, MaxFdNat, SMT
<1> QED
  BY <1>5, <1>6 DEF Max

(* A set of descriptors is finite.                                         *)
LEMMA FdsFinite ==
  ASSUME NEW S \in SUBSET Fds
  PROVE  IsFiniteSet(S) /\ Cardinality(S) \in Nat
<1>1. IsFiniteSet(0 .. MaxFd)
  BY FS_Interval, MaxFdNat, SMT
<1> QED
  BY <1>1, FS_Subset, FS_CardinalityType, FdEventAssumption

(* The elements of a concatenation.                                        *)
LEMMA ConcatAt ==
  ASSUME NEW S, NEW s \in Seq(S), NEW t \in Seq(S), NEW k \in 1 .. Len(s \o t)
  PROVE  (s \o t)[k] = IF k <= Len(s) THEN s[k] ELSE t[k - Len(s)]
BY SMT

(* An fdevent that is on a list without repetitions is taken off it.       *)
LEMMA RemoveOne ==
  ASSUME NEW s \in Seq(Fdes), IsInjective(s), NEW i \in DOMAIN s
  PROVE  /\ Without(s, i) \in Seq(Fdes)
         /\ IsInjective(Without(s, i))
         /\ Range(Without(s, i)) = Range(s) \ {s[i]}
<1> DEFINE r == Without(s, i)
      a == SubSeq(s, 1, i - 1)
      b == SubSeq(s, i + 1, Len(s))
<1>0. /\ a \in Seq(Fdes) /\ Len(a) = i - 1 /\ \A k \in 1 .. i - 1 : a[k] = s[k]
      /\ b \in Seq(Fdes) /\ Len(b) = Len(s) - i /\ \A k \in 1 .. Len(s) - i : b[k] = s[k + i]
  BY SMT
<1>1. r \in Seq(Fdes) /\ Len(r) = Len(s) - 1
  <2> HIDE DEF a, b
  <2>1. r = a \o b
    BY DEF Without, a, b
  <2> QED BY <1>0, <2>1, SMT
<1>2. ASSUME NEW k \in 1 .. Len(r) PROVE r[k] = IF k < i THEN s[k] ELSE s[k + 1]
  <2> HIDE DEF a, b
  <2>1. r = a \o b
    BY DEF Without, a, b
  <2>2. r[k] = IF k < i THEN a[k] ELSE b[k - (i - 1)]
    <3> HIDE DEF r
    <3>0. k \in 1 .. Len(a \o b)
      BY <2>1
    <3>1. (a \o b)[k] = IF k <= Len(a) THEN a[k] ELSE b[k - Len(a)]
      BY <1>0, <3>0, ConcatAt
    <3>2. k <= Len(a) <=> k < i
      BY <1>0, <1>1, SMT
    <3> QED BY <1>0, <2>1, <3>1, <3>2
  <2>3. CASE k < i
    BY <1>0, <2>2, <2>3, SMT
  <2>4. CASE ~(k < i)
    <3>1. k - (i - 1) \in 1 .. Len(s) - i /\ k - (i - 1) + i = k + 1
      BY <1>1, <2>4, SMT
    <3> QED BY <1>0, <2>2, <2>4, <3>1
  <2> QED BY <2>3, <2>4
<1>3. IsInjective(r)
  <2> SUFFICES ASSUME NEW j \in 1 .. Len(r), NEW k \in 1 .. Len(r), r[j] = r[k] PROVE j = k
    BY <1>1, SMT DEF IsInjective
  <2> DEFINE Old(n) == IF n < i THEN n ELSE n + 1
  <2>0. ASSUME NEW n \in 1 .. Len(r) PROVE Old(n) \in DOMAIN s /\ r[n] = s[Old(n)]
    <3> HIDE DEF r
    <3>1. Old(n) \in DOMAIN s
      BY <1>1, SMT
    <3> QED BY <1>2, <3>1
  <2>1. Old(j) \in DOMAIN s /\ Old(k) \in DOMAIN s /\ s[Old(j)] = s[Old(k)]
    BY <2>0
  <2>2. Old(j) = Old(k)
    BY <2>1 DEF IsInjective
  <2> QED BY <2>2, SMT
<1>4. Range(r) \subseteq Range(s) \ {s[i]}
  BY <1>1, <1>2, SMT DEF IsInjective, Range
<1>5. ASSUME NEW k \in DOMAIN s, s[k] # s[i] PROVE s[k] \in Range(r)
  <2>1. CASE k < i
    <3>1. k \in 1 .. Len(r) /\ r[k] = s[k]
      BY <2>1, <1>1, <1>2, SMT
    <3> QED BY <3>1, <1>1, SMT DEF Range
  <2>2. CASE k > i
    <3>1. k - 1 \in 1 .. Len(r) /\ r[k - 1] = s[k]
      BY <2>2, <1>1, <1>2, SMT
    <3> QED BY <3>1, <1>1, SMT DEF Range
  <2> QED BY <1>5, <2>1, <2>2, SMT
<1> QED
  BY <1>1, <1>3, <1>4, <1>5 DEF Range

(* A list without repetitions that is put behind another one.              *)
LEMMA Joined ==
  ASSUME NEW s \in Seq(Fdes), NEW t \in Seq(Fdes), IsInjective(s), IsInjective(t),
         Range(s) \cap Range(t) = {}
  PROVE  /\ s \o t \in Seq(Fdes)
         /\ IsInjective(s \o t)
         /\ Range(s \o t) = Range(s) \cup Range(t)
<1> DEFINE r == s \o t
<1>1. r \in Seq(Fdes) /\ Len(r) = Len(s) + Len(t) /\ Len(s) \in Nat /\ Len(t) \in Nat
      /\ DOMAIN r = 1 .. Len(r) /\ DOMAIN s = 1 .. Len(s) /\ DOMAIN t = 1 .. Len(t)
  BY SMT
<1>2. /\ \A i \in 1 .. Len(s) : r[i] = s[i]
      /\ \A i \in Len(s) + 1 .. Len(r) : r[i] = t[i - Len(s)]
  BY SMT
<1> HIDE DEF r
<1>3. ASSUME NEW i \in 1 .. Len(r), i > Len(s)
      PROVE  i - Len(s) \in DOMAIN t /\ r[i] = t[i - Len(s)] /\ r[i] \in Range(t)
  BY <1>1, <1>2, <1>3, SMT DEF Range
<1>4. ASSUME NEW i \in 1 .. Len(r), i <= Len(s)
      PROVE  i \in DOMAIN s /\ r[i] = s[i] /\ r[i] \in Range(s)
  <2>1. i \in 1 .. Len(s)
    BY <1>1, <1>4, SMT
  <2> QED BY <1>1, <1>2, <2>1 DEF Range
<1>5. IsInjective(r)
  <2> SUFFICES ASSUME NEW i \in 1 .. Len(r), NEW j \in 1 .. Len(r), r[i] = r[j] PROVE i = j
    BY <1>1 DEF IsInjective
  <2>1. CASE i > Len(s) /\ j > Len(s)
    <3>1. i - Len(s) = j - Len(s)
      BY <2>1, <1>3 DEF IsInjective
    <3> QED BY <3>1, <1>1, SMT
  <2>2. CASE i <= Len(s) /\ j <= Len(s)
    BY <2>2, <1>4 DEF IsInjective
  <2> QED BY <2>1, <2>2, <1>1, <1>3, <1>4, SMT
<1>6. ASSUME NEW i \in 1 .. Len(r) PROVE r[i] \in Range(s) \cup Range(t)
  BY <1>1, <1>3, <1>4, SMT
<1>7. Range(s) \subseteq Range(r)
  BY <1>1, <1>2, SMT DEF Range
<1>8. ASSUME NEW i \in 1 .. Len(t) PROVE t[i] \in Range(r)
  <2>1. i + Len(s) \in 1 .. Len(r) /\ r[i + Len(s)] = t[i]
    BY <1>1, <1>2, SMT
  <2> QED BY <2>1, <1>1 DEF Range
<1> QED
  BY <1>1, <1>5, <1>6, <1>7, <1>8 DEF r, Range

(* A list without repetitions without its head.                            *)
LEMMA Beheaded ==
  ASSUME NEW s \in Seq(Fdes), IsInjective(s), s # << >>
  PROVE  /\ Head(s) \in Range(s)
         /\ Tail(s) \in Seq(Fdes)
         /\ IsInjective(Tail(s))
         /\ Range(Tail(s)) = Range(s) \ {Head(s)}
<1>1. 1 \in DOMAIN s /\ Head(s) = s[1]
  BY SMT
<1>2. Without(s, 1) = Tail(s)
  BY <1>1, SMT DEF Without
<1> QED
  <2>1. Head(s) \in Range(s)
    BY <1>1 DEF Range
  <2> QED BY <1>1, <1>2, <2>1, RemoveOne

(* fdevent_plist_remove takes a pending fdevent off the list, unless the   *)
(* loop has just taken it off.                                             *)
LEMMA Unlinking ==
  ASSUME PendingIsListed, fatal = "no", NEW e \in pending, ~(pc = "call" /\ e = cur)
  PROVE  /\ ~Unlinked(e)
         /\ plist_remove(e) \in Seq(Fdes)
         /\ IsInjective(plist_remove(e))
         /\ Range(plist_remove(e)) = Range(list_pending) \ {e}
<1>1. e \in Range(list_pending)
  BY DEF PendingIsListed
<1>2. PICK i \in DOMAIN list_pending :
        list_pending[i] = e /\ plist_remove(e) = Without(list_pending, i)
  BY <1>1 DEF plist_remove, Unlinked, Range
<1>3. list_pending \in Seq(Fdes) /\ IsInjective(list_pending)
  BY DEF PendingIsListed, TypeOK
<1>4. /\ Without(list_pending, i) \in Seq(Fdes) /\ IsInjective(Without(list_pending, i))
      /\ Range(Without(list_pending, i)) = Range(list_pending) \ {e}
  BY <1>2, <1>3, RemoveOne
<1> QED
  BY <1>1, <1>2, <1>4 DEF Unlinked

---------------------------------------------------------------------------
(* Each step keeps the invariant.                                          *)

(* The invariant holds at the start.                                       *)
LEMMA InitIInv == Init => IInv
<1> SUFFICES ASSUME Init PROVE IInv
  OBVIOUS
<1>1. TypeOK
  <2>1. select_n \in 0 .. MaxFd + 1 /\ list_pending \in Seq(Fdes)
    BY MaxFdNat, SMT DEF Init
  <2> QED BY <2>1 DEF Init, TypeOK
<1>2. IsInjective(list_pending) /\ Range(list_pending) = {}
  BY SMT DEF Init, IsInjective, Range
<1> QED
  BY <1>1, <1>2 DEF Init, IInv, PendingIsListed, WatchesWhatIsWanted, NeverFatal, Active,
     TableIsActive, ActiveIsOpen, FoundIsRegistered

(* A handler's fdevent_install keeps the invariant,                        *)
LEMMA InstallKeeps ==
  ASSUME IInv, pc = "handler", fatal = "no", NEW e \in Fdes, NEW f \in Fds,
         fdevent_install(e, f), UNCHANGED <<loopVars, history>>
  PROVE  IInv'
<1> USE DEF fdevent_install, Active, loopVars, history
<1>1. TypeOK
  BY DEF IInv, PendingIsListed
<1>2. /\ select_n' \in 0 .. MaxFd + 1 /\ select_n <= select_n' /\ f < select_n'
  <2>1. {select_n, f + 1} \subseteq 0 .. MaxFd + 1
    BY <1>1, FdEventAssumption, MaxFdNat, SMT DEF TypeOK
  <2>2. select_n' = IF select_n >= f + 1 THEN select_n ELSE f + 1
    BY <2>1, MaxFdNat, SMT DEF Max
  <2> QED BY <2>1, <2>2, <1>1, FdEventAssumption, MaxFdNat, SMT DEF TypeOK
<1>3. TypeOK'
  BY <1>1, <1>2 DEF TypeOK
<1>4. PendingIsListed'
  BY <1>1, <1>3, FdEventAssumption DEF IInv, PendingIsListed, TypeOK
<1>5. ~stray => fd_table[f] = None
  BY <1>1, FdEventAssumption, SMT DEF IInv, TypeOK, TableIsActive, ActiveIsOpen
<1>6. TableIsActive' /\ ActiveIsOpen'
  BY <1>1, FdEventAssumption, SMT DEF IInv, TypeOK, TableIsActive, ActiveIsOpen
<1>7. WatchesWhatIsWanted'
  BY <1>1, <1>2, <1>5, FdEventAssumption, SMT DEF IInv, TypeOK, WatchesWhatIsWanted, TableIsActive
<1>8. NeverFatal' /\ FoundIsRegistered'
  BY <1>1, FdEventAssumption DEF IInv, TypeOK, NeverFatal, FoundIsRegistered
<1> QED
  BY <1>4, <1>6, <1>7, <1>8 DEF IInv

(* select_n shrinks, but stays above what is registered.                   *)
LEMMA DisconnectShrinks ==
  ASSUME TypeOK, NEW e \in Fdes, fdevent_disconnect(e)
  PROVE  /\ select_n' \in 0 .. MaxFd + 1
         /\ \A f \in Fds : f < select_n /\ fd_table[f] # None => f < select_n'
<1> DEFINE R == Registered \cup {0}
<1>1. R \in SUBSET (0 .. MaxFd) /\ R # {}
  <2>1. Registered \subseteq Fds
    BY DEF Registered
  <2>2. 0 \in 0 .. MaxFd
    BY MaxFdNat, SMT
  <2> QED BY <2>1, <2>2, FdEventAssumption
<1>2. Max(R) \in 0 .. MaxFd /\ \A x \in R : x <= Max(R)
  BY <1>1, MaxOfFds
<1>3. select_n' = Max(R) + 1
  BY DEF fdevent_disconnect
<1>4. ASSUME NEW f \in Fds, f < select_n, fd_table[f] # None PROVE f < select_n'
  <2>1. f \in R
    BY <1>4 DEF Registered
  <2> HIDE DEF R
  <2> QED BY <1>1, <1>2, <1>3, <2>1, MaxFdNat, SMT
<1> QED
  <2> HIDE DEF R
  <2> QED BY <1>2, <1>3, <1>4, MaxFdNat, SMT

(* an fdevent_remove, by a handler or by another thread, keeps it too,     *)
LEMMA RemoveKeeps ==
  ASSUME IInv, fatal = "no", NEW e \in Fdes,
         fdevent_remove(e), UNCHANGED <<loopVars, stray>>, raced' \in BOOLEAN,
         ~raced' => ~raced /\ pc \notin {"wait", "scan", "call"}
  PROVE  IInv'
<1> USE DEF fdevent_remove, Active, loopVars
<1>1. TypeOK /\ PendingIsListed
  BY DEF IInv, PendingIsListed
<1>2. fd[e] \in Fds
  BY <1>1 DEF TypeOK
<1>3. /\ list_pending' \in Seq(Fdes)
      /\ ~Unlinked(e) => /\ IsInjective(list_pending')
                         /\ Range(list_pending') = Range(list_pending) \ {e}
      /\ Unlinked(e) => pc = "call"
      /\ fatal' = "no" => ~Unlinked(e)
  <2>0. list_pending \in Seq(Fdes)
    BY <1>1 DEF TypeOK
  <2>1. /\ IsInjective(list_pending)
        /\ Range(list_pending) = IF pc = "call" THEN pending \ {cur} ELSE pending
    BY <1>1 DEF PendingIsListed
  <2>2. CASE Unlinked(e)
    <3>1. list_pending' = list_pending /\ fatal' = "unlink"
      BY <2>2 DEF plist_remove
    <3>2. pc = "call"
      BY <2>1, <2>2 DEF Unlinked
    <3> QED BY <2>0, <2>2, <3>1, <3>2
  <2>3. CASE ~Unlinked(e) /\ e \in pending
    <3>1. list_pending' = plist_remove(e)
      BY <2>3
    <3>2. ~(pc = "call" /\ e = cur)
      BY <2>1, <2>3 DEF Unlinked
    <3> QED BY <1>1, <2>1, <2>3, <3>1, <3>2, Unlinking
  <2>4. CASE e \notin pending
    <3>1. list_pending' = list_pending /\ e \notin Range(list_pending)
      BY <2>1, <2>4
    <3> QED BY <2>0, <2>1, <2>4, <3>1 DEF Unlinked
  <2> QED BY <2>2, <2>3, <2>4
<1>4. fds' = [fds EXCEPT ![fd[e]] = {}]
  BY DEF fdevent_disconnect
<1>5. TypeOK'
  BY <1>1, <1>2, <1>3, <1>4, DisconnectShrinks DEF TypeOK
<1>6. PendingIsListed'
  <2> SUFFICES ASSUME fatal' = "no" PROVE PendingIsListed'
    BY <1>5 DEF PendingIsListed
  <2>1. ~Unlinked(e) /\ pending' = pending \ {e}
    BY <1>3
  <2>2. /\ IsInjective(list_pending')
        /\ Range(list_pending') = IF pc = "call" THEN pending' \ {cur} ELSE pending'
    BY <1>1, <1>3, <2>1 DEF PendingIsListed
  <2>3. pc = "call" => cur \in pending'
    BY <1>1, <2>1 DEF PendingIsListed, Unlinked
  <2>4. \A d \in pending' : fd'[d] # None /\ events'[d] # {}
    BY <1>1, <2>1 DEF PendingIsListed, TypeOK
  <2> QED BY <1>5, <2>2, <2>3, <2>4 DEF PendingIsListed
<1>7. TableIsActive' /\ ActiveIsOpen'
  <2>1. ASSUME NEW f \in Fds, fd_table'[f] # None
        PROVE  f # fd[e] /\ fd_table'[f] = fd_table[f] /\ fd_table[f] \in Fdes /\ fd[fd_table[f]] = f
    BY <1>1, <1>2, <2>1 DEF IInv, TypeOK, TableIsActive
  <2>2. ASSUME NEW d \in Fdes, d # e PROVE fd'[d] = fd[d]
    BY <1>1, <2>2 DEF TypeOK
  <2>3. TableIsActive'
    <3>1. ASSUME NEW f \in Fds, fd_table'[f] # None PROVE fd'[fd_table'[f]] = f
      <4>1. f # fd[e] /\ fd_table'[f] = fd_table[f] /\ fd_table[f] \in Fdes /\ fd[fd_table[f]] = f
        BY <2>1, <3>1
      <4> QED BY <2>2, <4>1
    <3> QED BY <3>1 DEF TableIsActive
  <2>4. ASSUME ~stray, NEW d \in Fdes, fd'[d] # None PROVE fd'[d] \in isOpen'
    <3>1. d # e
      BY <1>1, <2>4 DEF TypeOK
    <3>2. fd'[d] = fd[d] /\ fd[d] # None
      BY <2>2, <2>4, <3>1
    <3>3. fd_table[fd[d]] = d /\ fd[d] \in isOpen
      BY <2>4, <3>2 DEF IInv, ActiveIsOpen, WatchesWhatIsWanted
    <3>4. fd_table[fd[e]] = e
      BY <2>4 DEF IInv, WatchesWhatIsWanted
    <3>5. fd[d] # fd[e] /\ isOpen' = isOpen \ {fd[e]}
      BY <3>1, <3>3, <3>4
    <3> QED BY <3>2, <3>3, <3>5
  <2>5. ActiveIsOpen'
    BY <2>4 DEF ActiveIsOpen
  <2> QED BY <2>3, <2>5
<1>8. WatchesWhatIsWanted'
  <2> SUFFICES ASSUME ~stray, fd_table[fd[e]] = e PROVE WatchesWhatIsWanted'
    BY <1>1 DEF IInv, WatchesWhatIsWanted
  <2>1. \A d \in Fdes : fd'[d] # None => fd_table'[fd'[d]] = d
    BY <1>1, <1>2 DEF IInv, TypeOK, WatchesWhatIsWanted
  <2>2. ASSUME NEW f \in Fds, f # fd[e]
        PROVE  /\ fd_table'[f] = fd_table[f] /\ fds'[f] = fds[f]
               /\ fd_table[f] # None => /\ fd_table[f] # e
                                        /\ fd'[fd_table[f]] = f
                                        /\ want'[fd_table[f]] = want[fd_table[f]]
                                        /\ f < select_n'
    <3>1. fd_table'[f] = fd_table[f] /\ fds'[f] = fds[f]
      BY <1>1, <1>2, <1>4, <2>2 DEF TypeOK
    <3>2. ASSUME fd_table[f] # None
          PROVE  fd_table[f] \in Fdes /\ fd[fd_table[f]] = f /\ fd_table[f] # e /\ f < select_n
      <4>1. fd_table[f] \in Fdes /\ fd[fd_table[f]] = f
        BY <1>1, <3>2 DEF IInv, TypeOK, TableIsActive
      <4> QED BY <2>2, <3>2, <4>1 DEF IInv, WatchesWhatIsWanted
    <3>3. ASSUME fd_table[f] # None
          PROVE  fd'[fd_table[f]] = f /\ want'[fd_table[f]] = want[fd_table[f]]
      BY <1>1, <3>2, <3>3 DEF TypeOK
    <3>4. ASSUME fd_table[f] # None PROVE f < select_n'
      BY <1>1, <1>2, <2>2, <3>2, <3>4, DisconnectShrinks, SMT DEF IInv, TypeOK, WatchesWhatIsWanted
    <3> QED BY <3>1, <3>2, <3>3, <3>4
  <2>3. fd_table'[fd[e]] = None /\ fds'[fd[e]] = {}
    BY <1>1, <1>2, <1>4 DEF TypeOK
  <2>4. ASSUME NEW f \in Fds
        PROVE  /\ fd_table'[f] # None => fd'[fd_table'[f]] = f
               /\ fds'[f] = IF fd_table'[f] = None THEN {} ELSE want'[fd_table'[f]]
               /\ fd_table'[f] # None => f < select_n'
    <3>1. CASE f = fd[e]
      BY <3>1, <2>3
    <3>2. CASE f # fd[e]
      <4>1. /\ fds[f] = IF fd_table[f] = None THEN {} ELSE want[fd_table[f]]
            /\ fd_table'[f] = fd_table[f] /\ fds'[f] = fds[f]
        BY <3>2, <2>2 DEF IInv, WatchesWhatIsWanted
      <4>2. CASE fd_table[f] = None
        BY <4>1, <4>2
      <4>3. CASE fd_table[f] # None
        <5>1. fd'[fd_table[f]] = f /\ want'[fd_table[f]] = want[fd_table[f]] /\ f < select_n'
          BY <3>2, <2>2, <4>3
        <5> QED BY <4>1, <4>3, <5>1
      <4> QED BY <4>2, <4>3
    <3> QED BY <3>1, <3>2
  <2> QED BY <2>1, <2>4 DEF WatchesWhatIsWanted
<1>9. NeverFatal' /\ FoundIsRegistered'
  <2>1. NeverFatal'
    BY <1>3 DEF IInv, NeverFatal, WatchesWhatIsWanted
  <2>2. ASSUME ~raced' PROVE \A f \in Fds : found[f] = {}
    BY <2>2 DEF IInv, FoundIsRegistered
  <2>3. FoundIsRegistered'
    BY <2>2 DEF IInv, FoundIsRegistered
  <2> QED BY <2>1, <2>3
<1> QED
  BY <1>6, <1>7, <1>8, <1>9 DEF IInv

(* and so does an fdevent_set.                                             *)
LEMMA SetKeeps ==
  ASSUME IInv, fatal = "no", NEW e \in Fdes, NEW evs \in SUBSET Events,
         fdevent_set(e, evs), UNCHANGED <<loopVars, stray>>, raced' \in BOOLEAN,
         ~raced' => ~raced /\ pc \notin {"wait", "scan", "call"}
  PROVE  IInv'
<1> USE DEF fdevent_set, Active, loopVars
<1>1. TypeOK /\ PendingIsListed
  BY DEF IInv, PendingIsListed
<1>2. fd[e] \in Fds
  BY <1>1 DEF TypeOK
<1> DEFINE drop == e \in pending /\ events[e] \ evs = {}
<1>3. /\ list_pending' \in Seq(Fdes) /\ fatal' \in {"no", "unlink"}
      /\ fatal' # "no" => pc = "call"
      /\ fatal' = "no" => /\ drop => ~(pc = "call" /\ e = cur)
                         /\ IsInjective(list_pending')
                         /\ Range(list_pending') = IF drop THEN Range(list_pending) \ {e}
                                                            ELSE Range(list_pending)
  <2>0. list_pending \in Seq(Fdes)
    BY <1>1 DEF TypeOK
  <2>1. /\ IsInjective(list_pending)
        /\ Range(list_pending) = IF pc = "call" THEN pending \ {cur} ELSE pending
    BY <1>1 DEF PendingIsListed
  <2>2. CASE drop /\ Unlinked(e)
    <3>1. list_pending' = list_pending /\ fatal' = "unlink"
      BY <2>2 DEF plist_remove
    <3>2. pc = "call"
      BY <2>1, <2>2 DEF Unlinked
    <3> QED BY <2>0, <3>1, <3>2
  <2>3. CASE drop /\ ~Unlinked(e)
    <3>1. list_pending' = plist_remove(e) /\ fatal' = "no"
      BY <2>3
    <3>2. ~(pc = "call" /\ e = cur)
      BY <2>1, <2>3 DEF Unlinked
    <3>3. /\ plist_remove(e) \in Seq(Fdes) /\ IsInjective(plist_remove(e))
          /\ Range(plist_remove(e)) = Range(list_pending) \ {e}
      BY <1>1, <2>3, <3>2, Unlinking
    <3> QED BY <2>3, <3>1, <3>2, <3>3
  <2>4. CASE ~drop
    <3>1. list_pending' = list_pending /\ fatal' = "no"
      BY <2>4
    <3> QED BY <2>0, <2>1, <2>4, <3>1
  <2> QED BY <2>2, <2>3, <2>4
<1>4. pending' = IF drop THEN pending \ {e} ELSE pending
  OBVIOUS
<1>5. TypeOK'
  BY <1>1, <1>2, <1>3, <1>4 DEF TypeOK
<1>6. PendingIsListed'
  <2> SUFFICES ASSUME fatal' = "no" PROVE PendingIsListed'
    BY <1>5 DEF PendingIsListed
  <2>1. /\ IsInjective(list_pending')
        /\ Range(list_pending') = IF pc = "call" THEN pending' \ {cur} ELSE pending'
    BY <1>1, <1>3, <1>4 DEF PendingIsListed
  <2>2. pc = "call" => cur \in pending'
    BY <1>1, <1>3, <1>4 DEF PendingIsListed
  <2>3. ASSUME NEW d \in pending' PROVE fd'[d] # None /\ events'[d] # {}
    <3>1. d \in pending /\ d \in Fdes /\ fd[d] # None /\ events[d] # {}
      BY <1>1, <1>4 DEF PendingIsListed, TypeOK
    <3>2. CASE d = e
      BY <1>1, <1>4, <3>1, <3>2 DEF TypeOK
    <3>3. CASE d # e
      BY <1>1, <3>1, <3>3 DEF TypeOK
    <3> QED BY <3>2, <3>3
  <2> QED BY <1>5, <2>1, <2>2, <2>3 DEF PendingIsListed
<1>7. TableIsActive' /\ ActiveIsOpen'
  BY <1>1, <1>2, FdEventAssumption DEF IInv, TypeOK, TableIsActive, ActiveIsOpen, WatchesWhatIsWanted
<1>8. WatchesWhatIsWanted'
  <2> SUFFICES ASSUME ~stray, fd_table[fd[e]] = e PROVE WatchesWhatIsWanted'
    BY <1>1 DEF IInv, WatchesWhatIsWanted
  <2>1. ASSUME NEW f \in Fds, f # fd[e]
        PROVE  fds'[f] = fds[f] /\ (fd_table[f] # None => fd_table[f] # e)
    BY <1>1, <1>2, <2>1, FdEventAssumption DEF IInv, TypeOK, WatchesWhatIsWanted
  <2>2. fds'[fd[e]] = evs /\ want'[e] = evs
    BY <1>1, <1>2 DEF TypeOK
  <2>3. ASSUME NEW f \in Fds
        PROVE  /\ fd_table'[f] # None => fd'[fd_table'[f]] = f
               /\ fds'[f] = IF fd_table'[f] = None THEN {} ELSE want'[fd_table'[f]]
               /\ fd_table'[f] # None => f < select_n'
    <3>1. CASE f = fd[e]
      BY <3>1, <2>2, FdEventAssumption DEF IInv, WatchesWhatIsWanted
    <3>2. CASE f # fd[e]
      <4>1. fd_table[f] # None => want'[fd_table[f]] = want[fd_table[f]]
        BY <3>2, <2>1, <1>1 DEF TypeOK
      <4> QED BY <3>2, <2>1, <4>1 DEF IInv, WatchesWhatIsWanted
    <3> QED BY <3>1, <3>2
  <2> QED BY <2>3 DEF IInv, WatchesWhatIsWanted
<1>9. NeverFatal' /\ FoundIsRegistered'
  <2>1. NeverFatal'
    BY <1>3 DEF IInv, NeverFatal
  <2>2. ASSUME ~raced' PROVE \A f \in Fds : found[f] = {}
    BY <2>2 DEF IInv, FoundIsRegistered
  <2>3. FoundIsRegistered'
    BY <2>2 DEF IInv, FoundIsRegistered
  <2> QED BY <2>1, <2>3
<1> QED
  BY <1>6, <1>7, <1>8, <1>9 DEF IInv

(* So do the call of select(), also when it fails with EBADF,              *)
LEMMA SelectKeeps ==
  ASSUME IInv, process_select, UNCHANGED history
  PROVE  IInv'
<1> USE DEF process_select, fdeVars, history, Active
<1>1. TypeOK
  BY DEF IInv, PendingIsListed
<1>2. found' \in [Fds -> SUBSET Events]
  BY <1>1, FdEventAssumption DEF TypeOK
<1>3. TypeOK'
  BY <1>1, <1>2 DEF TypeOK
<1>4. PendingIsListed'
  BY <1>3 DEF IInv, PendingIsListed
<1>5. ASSUME ~stray, ~raced, NEW f \in Fds, found'[f] # {} PROVE fd_table[f] # None
  <2>1. f \in Bad \/ fds[f] # {}
    BY <1>5
  <2> QED BY <1>5, <2>1 DEF IInv, WatchesWhatIsWanted, Bad, Registered
<1> QED
  BY <1>4, <1>5 DEF IInv, WatchesWhatIsWanted, NeverFatal, TableIsActive, ActiveIsOpen, FoundIsRegistered

(* its return,                                                             *)
LEMMA SelectReturnKeeps ==
  ASSUME IInv, select_returns, UNCHANGED history
  PROVE  IInv'
<1> USE DEF select_returns, fdeVars, history, Active
<1>1. TypeOK
  BY DEF IInv, PendingIsListed
<1>2. found' \in [Fds -> SUBSET Events]
  BY <1>1 DEF TypeOK
<1>3. TypeOK'
  BY <1>1, <1>2 DEF TypeOK
<1>4. PendingIsListed'
  BY <1>3 DEF IInv, PendingIsListed
<1>5. ASSUME NEW f \in Fds, found'[f] # {} PROVE found[f] # {}
  BY <1>5
<1> QED
  BY <1>4, <1>5 DEF IInv, WatchesWhatIsWanted, NeverFatal, TableIsActive, ActiveIsOpen, FoundIsRegistered

(* the scan of what it found,                                              *)
LEMMA ScanKeeps ==
  ASSUME IInv, fatal = "no", process_scan, UNCHANGED history
  PROVE  IInv'
<1> USE DEF Active, history
<1> DEFINE hit == {f \in Fds : found[f] # {}}
           new == {f \in hit : fd_table[f] # None /\ fd_table[f] \notin pending}
<1>1. TypeOK /\ PendingIsListed /\ TableIsActive
  BY DEF IInv, PendingIsListed
<1>2. /\ pc = "scan" /\ pc' = "dequeue"
      /\ fatal' = IF \E f \in hit : fd_table[f] = None THEN "missing fde" ELSE fatal
      /\ events' = [e \in Fdes |->
                      IF fd[e] # None /\ fd_table[fd[e]] = e THEN events[e] \cup found[fd[e]] ELSE events[e]]
      /\ pending' = pending \cup {fd_table[f] : f \in new}
      /\ found' = [f \in Fds |-> {}]
      /\ UNCHANGED <<fd_table, fd, want, fds, select_n, isOpen, ready, cur, got>>
  BY DEF process_scan
<1>3. PICK order \in Ascending(new) :
        list_pending' = list_pending \o [i \in DOMAIN order |-> fd_table[order[i]]]
  BY DEF process_scan
<1> DEFINE n == Cardinality(new)
           tail == [i \in 1 .. n |-> fd_table[order[i]]]
<1>4. n \in Nat /\ order \in [1 .. n -> new] /\ Range(order) = new
  BY FdsFinite DEF Ascending
<1>5. ASSUME NEW f \in new
      PROVE  /\ f \in Fds /\ fd_table[f] \in Fdes /\ fd[fd_table[f]] = f
             /\ fd_table[f] \notin pending
  BY <1>1 DEF TypeOK, TableIsActive
<1>6. \A i, j \in 1 .. n : order[i] = order[j] => i = j
  <2>1. \A i, j \in 1 .. n : i < j => order[i] < order[j]
    BY <1>4 DEF Ascending
  <2>2. ASSUME NEW i \in 1 .. n PROVE order[i] \in Nat
    <3>1. order[i] \in Fds
      BY <1>4
    <3>2. Fds \subseteq Nat
      BY FdEventAssumption, MaxFdNat, SMT
    <3> QED BY <3>1, <3>2
  <2> HIDE DEF n
  <2> QED BY <2>1, <2>2, <1>4, SMT
<1>7. list_pending' = list_pending \o tail
  BY <1>3, <1>4
<1>8. tail \in Seq(Fdes) /\ IsInjective(tail) /\ Range(tail) = {fd_table[f] : f \in new}
  <2> HIDE DEF n, new
  <2>1. \A i \in 1 .. n : order[i] \in new
    BY <1>4
  <2>2. tail \in [1 .. n -> Fdes]
    BY <2>1, <1>5
  <2>3. tail \in Seq(Fdes) /\ DOMAIN tail = 1 .. n
    BY <2>2, <1>4, SMT
  <2>4. IsInjective(tail)
    <3> SUFFICES ASSUME NEW i \in 1 .. n, NEW j \in 1 .. n, tail[i] = tail[j] PROVE i = j
      BY <2>3 DEF IsInjective
    <3>1. order[i] = order[j]
      BY <2>1, <1>5
    <3> QED BY <3>1, <1>6
  <2>5. Range(tail) = {fd_table[f] : f \in new}
    BY <1>4 DEF Range
  <2> QED BY <2>3, <2>4, <2>5
<1>10. Range(list_pending) = pending /\ IsInjective(list_pending) /\ list_pending \in Seq(Fdes)
  BY <1>1, <1>2 DEF PendingIsListed, TypeOK
<1>11. Range(list_pending) \cap Range(tail) = {}
  BY <1>5, <1>8, <1>10
<1>14. list_pending' \in Seq(Fdes) /\ IsInjective(list_pending') /\ Range(list_pending') = pending'
  <2> HIDE DEF tail
  <2>1. /\ list_pending \o tail \in Seq(Fdes) /\ IsInjective(list_pending \o tail)
        /\ Range(list_pending \o tail) = Range(list_pending) \cup Range(tail)
    BY <1>8, <1>10, <1>11, Joined
  <2> QED BY <1>2, <1>7, <1>8, <1>10, <2>1
<1>15. TypeOK'
  <2>1. ASSUME NEW e \in Fdes PROVE events'[e] \in SUBSET Events
    BY <1>1, <1>2 DEF TypeOK
  <2>2. events' \in [Fdes -> SUBSET Events]
    BY <1>2, <2>1
  <2>3. pending' \subseteq Fdes
    <3>1. pending \subseteq Fdes
      BY <1>1 DEF TypeOK
    <3>2. {fd_table[f] : f \in new} \subseteq Fdes
      <4> HIDE DEF new
      <4> QED BY <1>5
    <3> QED BY <1>2, <3>1, <3>2
  <2> QED BY <2>2, <2>3, <1>1, <1>2, <1>14 DEF TypeOK
<1>16. PendingIsListed'
  <2>1. \A e \in pending : fd'[e] # None /\ events'[e] # {}
    BY <1>1, <1>2 DEF PendingIsListed, TypeOK
  <2>2. ASSUME NEW f \in new PROVE fd'[fd_table[f]] # None /\ events'[fd_table[f]] # {}
    BY <1>2, <1>5, FdEventAssumption
  <2>3. \A e \in pending' : fd'[e] # None /\ events'[e] # {}
    BY <2>1, <2>2, <1>2
  <2> QED BY <1>2, <1>14, <1>15, <2>3 DEF PendingIsListed
<1>17. NeverFatal' /\ FoundIsRegistered'
  BY <1>2 DEF IInv, NeverFatal, FoundIsRegistered
<1> QED
  BY <1>2, <1>16, <1>17 DEF IInv, WatchesWhatIsWanted, TableIsActive, ActiveIsOpen

(* the taking of the first pending fdevent,                                *)
LEMMA DequeueKeeps ==
  ASSUME IInv, fatal = "no", plist_dequeue, UNCHANGED history
  PROVE  IInv'
<1> USE DEF plist_dequeue, Active, history
<1>1. TypeOK /\ PendingIsListed
  BY DEF IInv, PendingIsListed
<1>2. CASE list_pending = << >>
  BY <1>1, <1>2 DEF IInv, PendingIsListed, TypeOK, WatchesWhatIsWanted, NeverFatal, TableIsActive,
     ActiveIsOpen, FoundIsRegistered
<1>3. CASE list_pending # << >>
  <2>1. /\ list_pending \in Seq(Fdes) /\ IsInjective(list_pending) /\ Range(list_pending) = pending
        /\ cur' = Head(list_pending) /\ list_pending' = Tail(list_pending)
    BY <1>1, <1>3 DEF PendingIsListed, TypeOK
  <2>2. /\ cur' \in pending /\ list_pending' \in Seq(Fdes) /\ IsInjective(list_pending')
        /\ Range(list_pending') = pending \ {cur'}
    BY <1>3, <2>1, Beheaded
  <2>5. TypeOK'
    BY <1>1, <1>3, <2>2 DEF TypeOK
  <2>6. PendingIsListed'
    BY <1>1, <1>3, <2>2, <2>5 DEF PendingIsListed
  <2> QED BY <1>3, <2>6 DEF IInv, WatchesWhatIsWanted, NeverFatal, TableIsActive, ActiveIsOpen, FoundIsRegistered
<1> QED BY <1>2, <1>3

(* the call of its handler,                                                *)
LEMMA CallKeeps ==
  ASSUME IInv, fatal = "no", call_fdfunc, UNCHANGED history
  PROVE  IInv'
<1> USE DEF call_fdfunc, Active, history
<1>1. TypeOK /\ PendingIsListed /\ cur \in pending
  BY DEF IInv, PendingIsListed
<1>2. TypeOK'
  BY <1>1 DEF TypeOK
<1>3. PendingIsListed'
  BY <1>1, <1>2 DEF PendingIsListed, TypeOK
<1> QED
  BY <1>1, <1>3 DEF IInv, WatchesWhatIsWanted, NeverFatal, TableIsActive, ActiveIsOpen, FoundIsRegistered

(* the handler's return,                                                   *)
LEMMA ReturnKeeps ==
  ASSUME IInv, handler_returns, UNCHANGED history
  PROVE  IInv'
<1> USE DEF handler_returns, fdeVars, Active, history
<1>1. TypeOK'
  BY DEF IInv, PendingIsListed, TypeOK
<1>2. PendingIsListed'
  BY <1>1 DEF IInv, PendingIsListed
<1> QED
  BY <1>2 DEF IInv, WatchesWhatIsWanted, NeverFatal, TableIsActive, ActiveIsOpen, FoundIsRegistered

(* the end of a shell,                                                     *)
LEMMA SubprocKeeps ==
  ASSUME IInv, NEW e \in Fdes, subproc_exit(e), UNCHANGED history
  PROVE  IInv'
<1> USE DEF subproc_exit, Active, history
<1>1. TypeOK /\ PendingIsListed
  BY DEF IInv, PendingIsListed
<1>2. TypeOK'
  BY <1>1, FdEventAssumption DEF TypeOK
<1>3. PendingIsListed'
  BY <1>1, <1>2 DEF PendingIsListed, TypeOK
<1> QED
  BY <1>3 DEF IInv, WatchesWhatIsWanted, NeverFatal, TableIsActive, ActiveIsOpen, FoundIsRegistered

(* and what happens outside the loop.                                      *)
LEMMA EnvKeeps ==
  ASSUME IInv, \/ Env /\ UNCHANGED history
               \/ \E f \in Fds : ClosedElsewhere(f)
               \/ UNCHANGED vars
  PROVE  IInv'
<1>1. /\ UNCHANGED <<fdeVars, loopVars, fatal>>
      /\ ready' \in [Fds -> SUBSET Events] /\ isOpen' \subseteq Fds /\ stray' \in BOOLEAN /\ raced' = raced
      /\ ~stray' => ~stray /\ isOpen' = isOpen
  <2> USE DEF IInv, PendingIsListed, TypeOK, history
  <2>1. ASSUME NEW f \in Fds, NEW ev \in Events, Arrives(f, ev) \/ Consumed(f, ev)
        PROVE  UNCHANGED <<fdeVars, isOpen, loopVars, fatal>> /\ ready' \in [Fds -> SUBSET Events]
    <3>1. CASE Arrives(f, ev)
      BY <3>1 DEF Arrives
    <3>2. CASE Consumed(f, ev)
      BY <3>2 DEF Consumed
    <3> QED BY <2>1, <3>1, <3>2
  <2>2. CASE Env /\ UNCHANGED history
    BY <2>1, <2>2 DEF Env
  <2>3. ASSUME NEW f \in Fds, ClosedElsewhere(f)
        PROVE  /\ UNCHANGED <<fdeVars, loopVars, fatal, raced>> /\ stray'
               /\ ready' \in [Fds -> SUBSET Events] /\ isOpen' \subseteq Fds
    BY <2>3 DEF ClosedElsewhere
  <2>4. CASE UNCHANGED vars
    BY <2>4 DEF vars
  <2> QED BY <2>2, <2>3, <2>4
<1> USE DEF fdeVars, loopVars, Active
<1>2. TypeOK'
  BY <1>1 DEF IInv, PendingIsListed, TypeOK
<1>3. PendingIsListed'
  BY <1>1, <1>2 DEF IInv, PendingIsListed
<1> QED
  BY <1>1, <1>3 DEF IInv, WatchesWhatIsWanted, NeverFatal, TableIsActive, ActiveIsOpen, FoundIsRegistered

---------------------------------------------------------------------------
(* The theorems.                                                           *)

(* The invariant of the event loop is inductive: fdevent.c keeps its       *)
(* table, its lists and its sets in agreement, for any number of fdevents, *)
(* descriptors and events.                                                 *)
THEOREM Invariance == Spec => []IInv
<1>1. IInv /\ [Next]_vars => IInv'
  <2> SUFFICES ASSUME IInv, [Next]_vars PROVE IInv'
    OBVIOUS
  <2>1. CASE Loop /\ fatal = "no" /\ UNCHANGED history
    BY <2>1, SelectKeeps, SelectReturnKeeps, ScanKeeps, DequeueKeeps, CallKeeps DEF Loop
  <2>2. CASE handler_calls /\ fatal = "no" /\ UNCHANGED history
    <3>0. /\ UNCHANGED <<loopVars, stray>> /\ raced' \in BOOLEAN
          /\ ~raced' => ~raced /\ pc \notin {"wait", "scan", "call"}
      BY <2>2 DEF handler_calls, history, IInv, PendingIsListed, TypeOK
    <3>1. PICK e \in Fdes : \/ \E f \in Fds : fdevent_install(e, f)
                           \/ fdevent_remove(e)
                           \/ \E evs \in SUBSET Events : fdevent_set(e, evs)
      BY <2>2 DEF handler_calls
    <3>2. CASE \E f \in Fds : fdevent_install(e, f)
      BY <2>2, <3>2, InstallKeeps DEF handler_calls
    <3>3. CASE fdevent_remove(e)
      BY <2>2, <3>0, <3>3, RemoveKeeps
    <3>4. CASE \E evs \in SUBSET Events : fdevent_set(e, evs)
      BY <2>2, <3>0, <3>4, SetKeeps
    <3> QED BY <3>1, <3>2, <3>3, <3>4
  <2>3. CASE UNCHANGED history /\ (handler_returns \/ \E e \in Fdes : subproc_exit(e))
    BY <2>3, ReturnKeeps, SubprocKeeps
  <2>4. CASE \/ Env /\ UNCHANGED history
             \/ \E f \in Fds : ClosedElsewhere(f)
             \/ UNCHANGED vars
    BY <2>4, EnvKeeps
  <2>5. ASSUME fatal = "no", NEW e \in Fdes, close_all_sockets(e) PROVE IInv'
    <3>1. /\ UNCHANGED <<loopVars, stray>> /\ raced' \in BOOLEAN
          /\ ~raced' => ~raced /\ pc \notin {"wait", "scan", "call"}
      BY <2>5 DEF close_all_sockets, InUse
    <3>2. CASE fdevent_remove(e)
      BY <2>5, <3>1, <3>2, RemoveKeeps
    <3>3. CASE fdevent_set(e, want[e] \ {Read})
      <4>1. want[e] \ {Read} \in SUBSET Events
        BY DEF IInv, PendingIsListed, TypeOK
      <4> QED BY <2>5, <3>1, <3>3, <4>1, SetKeeps
    <3> QED BY <2>5, <3>2, <3>3 DEF close_all_sockets
  <2> QED
    BY <2>1, <2>2, <2>3, <2>4, <2>5 DEF Next
<1> QED
  BY <1>1, InitIInv, PTL DEF Spec

(* FDE_PENDING and list_pending agree while handlers install, change and   *)
(* remove fdevents, and input threads remove them, in the middle of the    *)
(* loop's walk.                                                            *)
THEOREM PendingAreListed == Spec => []PendingIsListed
<1>1. IInv => PendingIsListed
  BY DEF IInv
<1> QED
  BY <1>1, Invariance, PTL

(* select() watches what the fdevents ask for, and nothing of one that was *)
(* removed.                                                                *)
THEOREM SelectWatchesWhatIsWanted == Spec => []WatchesWhatIsWanted
<1>1. IInv => WatchesWhatIsWanted
  BY DEF IInv
<1> QED
  BY <1>1, Invariance, PTL

(* The FATALs of fdevent.c are reached only after a registered descriptor  *)
(* was closed elsewhere or after an input thread took an fdevent away      *)
(* while the loop was using it; its removals at other times are harmless.  *)
THEOREM LoopNeverDies == Spec => []NeverFatal
<1>1. IInv => NeverFatal
  BY DEF IInv
<1> QED
  BY <1>1, Invariance, PTL
=============================================================================
