----------------------- MODULE ProviderCapacityProofs -----------------------
(***************************************************************************)
(* Proofs about ProviderCapacity, for any requests, pools, ceilings and     *)
(* rates.                                                                   *)
(***************************************************************************)
EXTENDS ProviderCapacity, FiniteSetTheorems, TLAPS

\* What the steps of a request assume of the state's shape.
Shape ==
    /\ clock \in Nat
    /\ phase \in [Request -> CapPhase]
    /\ seen \in [Request -> Nat]
    /\ row \in [Pool -> Request \cup {Nobody}]
    /\ lease \in [Request -> Nat]
    /\ blocked \in [Pool -> Nat]
    /\ limited \in [Request -> BOOLEAN]

\* The pools a request draws on are pools.
LEMMA PoolsArePools ==
    \A r \in Request : PoolsOf(r) \subseteq Pool /\ Transport(r) \in Pool
BY CapacityAssumption DEF PoolsOf, Transport, Range

\* Every step keeps the shape.
LEMMA ShapeStep == Shape /\ [CapNext]_capVars => Shape'
<1> SUFFICES ASSUME Shape, [CapNext]_capVars PROVE Shape'
  OBVIOUS
<1> USE CapacityAssumption, PoolsArePools
    DEF Shape, CapPhase, Acquiring, InCall, Enter, Unlock, bucketVars
<1>1. ASSUME NEW r \in Request, NEW p \in Pool, Lock(r, p) PROVE Shape'
  BY <1>1 DEF Lock
<1>2. ASSUME NEW r \in Request, Begin(r) PROVE Shape'
  BY <1>2 DEF Begin
<1>3. ASSUME NEW r \in Request, Admit(r) PROVE Shape'
  BY <1>3 DEF Admit
<1>4. ASSUME NEW r \in Request, ParkRequest(r) PROVE Shape'
  BY <1>4 DEF ParkRequest
<1>5. ASSUME NEW r \in Request, Consume(r) PROVE Shape'
  <2>1. seen[r] + Ttl \in Nat
    BY <1>5
  <2>2. lease' \in [Request -> Nat] /\ phase' \in [Request -> CapPhase]
    BY <1>5, <2>1 DEF Consume
  <2>3. row' \in [Pool -> Request \cup {Nobody}]
    BY <1>5 DEF Consume
  <2> QED BY <1>5, <2>2, <2>3 DEF Consume
<1>6. ASSUME NEW r \in Request, Call(r) PROVE Shape'
  BY <1>6 DEF Call
<1>7. ASSUME NEW r \in Request, NEW b \in BOOLEAN, Return(r, b) PROVE Shape'
  BY <1>7 DEF Return
<1>8. ASSUME NEW r \in Request, NEW c \in 0..MaxCooldown, Release(r, c)
      PROVE  Shape'
  <2>1. \A p \in Pool : Raised(p, seen[r] + c) \in Nat
    <3>1. seen[r] + c \in Nat
      BY DEF Shape
    <3> QED BY <3>1 DEF Raised, Larger
  <2>2. blocked' = [p \in Pool |-> IF limited[r] /\ p \in PoolsOf(r)
                                  THEN Raised(p, seen[r] + c) ELSE blocked[p]]
    BY <1>8 DEF Release
  <2>3. blocked' \in [Pool -> Nat]
    BY <2>1, <2>2
  <2> QED BY <1>8, <2>3 DEF Release
<1>9. ASSUME NEW r \in Request, Die(r) PROVE Shape'
  BY <1>9 DEF Die
<1>10. CASE Tick
  BY <1>10 DEF Tick
<1>11. CASE UNCHANGED capVars
  BY <1>11 DEF capVars
<1> HIDE CapacityAssumption, PoolsArePools
    DEF Shape, CapPhase, Acquiring, InCall, Enter, Unlock, bucketVars
<1> QED
  BY <1>1, <1>2, <1>3, <1>4, <1>5, <1>6, <1>7, <1>8, <1>9, <1>10, <1>11
     DEF CapNext

LEMMA ShapeKept == CapSpec => []Shape
<1>1. CapInit => Shape
  BY CapacityAssumption DEF CapInit, Shape, CapPhase
<1> QED BY <1>1, ShapeStep, PTL DEF CapSpec

\* No 429, however late, shortens a cooldown, for any requests and pools.
THEOREM CooldownOnlyGrows == CapSpec => CooldownStands
<1>1. Shape /\ [CapNext]_capVars => [\A p \in Pool : blocked'[p] >= blocked[p]]_capVars
  <2> SUFFICES ASSUME Shape, [CapNext]_capVars, NEW p \in Pool
               PROVE  blocked'[p] >= blocked[p]
    OBVIOUS
  <2>1. CASE blocked' = blocked
    BY <2>1 DEF Shape
  <2>2. ASSUME NEW r \in Request, NEW c \in 0..MaxCooldown, Release(r, c)
        PROVE  blocked'[p] >= blocked[p]
    BY <2>2, CapacityAssumption DEF Shape, Release, Raised, Larger
  <2> QED
    BY <2>1, <2>2
       DEF CapNext, capVars, bucketVars, Lock, Begin, Admit, ParkRequest, Consume,
           Call, Return, Die, Tick
<1> QED BY <1>1, ShapeKept, PTL DEF CapSpec, CooldownStands

----------------------------------------------------------------------------
(***************************************************************************)
(* Row locks.                                                               *)
(***************************************************************************)

\* The canonical order of the four pool kinds: transport, connection,
\* funded-global, funded-account.
Canonical(kind) ==
    /\ kind \in [Pool -> 0..3]
    /\ \A r \in Request : \A i, j \in DOMAIN Draws[r] :
           i < j => kind[Draws[r][i]] < kind[Draws[r][j]]

\* Rows are locked only by requests that take or use locks.
HoldersActive ==
    \A p \in Pool, r \in Request :
        row[p] = r => p \in PoolsOf(r) /\ phase[r] \in Acquiring \cup {"returning"}

\* The rows a request holds are an unbroken prefix of its pools.
HeldPrefix ==
    \A r \in Request : \A i, j \in DOMAIN Draws[r] :
        i < j /\ row[Draws[r][j]] = r => row[Draws[r][i]] = r

\* An admitted request holds all its rows.
AdmittedHolds ==
    \A r \in Request : phase[r] = "admitted" => \A p \in PoolsOf(r) : row[p] = r

LockInv == HoldersActive /\ HeldPrefix /\ AdmittedHolds

\* Where a request's pools are found.
LEMMA DrawsDomain ==
    ASSUME NEW r \in Request
    PROVE  /\ \A i \in DOMAIN Draws[r] : Draws[r][i] \in Pool /\ i \in Int
           /\ \A p \in PoolsOf(r) : \E i \in DOMAIN Draws[r] : Draws[r][i] = p
           /\ \A i \in DOMAIN Draws[r] : Draws[r][i] \in PoolsOf(r)
           /\ \A i, j \in DOMAIN Draws[r] : Draws[r][i] = Draws[r][j] => i = j
BY CapacityAssumption DEF PoolsOf, Range, IsInjective

\* A lock is taken next to the ones already held.
LEMMA TakeLock ==
    ASSUME Shape, LockInv, NEW r \in Request, NEW p \in Pool, Lock(r, p)
    PROVE  LockInv'
<1>1. PICK k \in DOMAIN Draws[r] :
          Draws[r][k] = p /\ \A j \in DOMAIN Draws[r] : j < k => row[Draws[r][j]] = r
  BY DEF Lock, Asks, LockedBefore
<1>2. /\ phase' = phase /\ phase[r] \in {"locking", "returning"}
      /\ row[p] = Nobody /\ row' = [row EXCEPT ![p] = r]
  BY DEF Lock, Asks
<1>3. \A q \in Request, u \in Pool : q # r => (row'[u] = q <=> row[u] = q)
  BY <1>2, CapacityAssumption DEF Shape
<1>4. \A u \in Pool : row'[u] = r <=> (row[u] = r \/ u = p)
  BY <1>2, CapacityAssumption DEF Shape
<1>5. HoldersActive'
  BY <1>1, <1>2, <1>3, <1>4, DrawsDomain DEF LockInv, HoldersActive, Acquiring
<1>6. HeldPrefix'
  <2> SUFFICES ASSUME NEW q \in Request, NEW i \in DOMAIN Draws[q],
                      NEW j \in DOMAIN Draws[q], i < j, row'[Draws[q][j]] = q
               PROVE  row'[Draws[q][i]] = q
    BY DEF HeldPrefix
  <2>0. /\ Draws[q][i] \in Pool /\ Draws[q][j] \in Pool /\ i \in Int /\ j \in Int
        /\ q = r => k \in Int
    BY DrawsDomain
  <2>1. CASE row[Draws[q][j]] = q
    BY <1>3, <1>4, <2>0, <2>1 DEF LockInv, HeldPrefix
  <2>2. CASE row[Draws[q][j]] # q
    <3>1. q = r /\ Draws[r][j] = p
      BY <1>3, <1>4, <2>0, <2>2
    <3>2. j = k
      BY <1>1, <3>1, DrawsDomain
    <3> QED BY <1>1, <1>4, <2>0, <3>1, <3>2
  <2> QED BY <2>1, <2>2
<1>7. AdmittedHolds'
  BY <1>2, <1>3, PoolsArePools DEF LockInv, AdmittedHolds
<1> QED BY <1>5, <1>6, <1>7 DEF LockInv

\* All locks of a request are given up together.
LEMMA GiveUpLocks ==
    ASSUME Shape, LockInv, NEW r \in Request, Unlock(r),
           NEW ph \in {"parked", "granted", "done", "gone"}, Enter(r, ph)
    PROVE  LockInv'
<1>1. \A p \in Pool : row'[p] # r
  BY CapacityAssumption DEF Unlock
<1>2. \A p \in Pool, q \in Request : q # r => (row'[p] = q <=> row[p] = q)
  BY CapacityAssumption DEF Unlock
<1>3. \A q \in Request : phase'[q] = IF q = r THEN ph ELSE phase[q]
  BY DEF Enter, Shape
<1>4. HoldersActive'
  BY <1>1, <1>2, <1>3 DEF LockInv, HoldersActive
<1>5. HeldPrefix'
  BY <1>1, <1>2, DrawsDomain DEF LockInv, HeldPrefix
<1>6. AdmittedHolds'
  BY <1>2, <1>3, PoolsArePools DEF LockInv, AdmittedHolds
<1> QED BY <1>4, <1>5, <1>6 DEF LockInv

\* Every step keeps the locks in order.
LEMMA LockStep == Shape /\ LockInv /\ [CapNext]_capVars => LockInv'
<1> SUFFICES ASSUME Shape, LockInv, [CapNext]_capVars PROVE LockInv'
  OBVIOUS
<1>1. ASSUME NEW r \in Request, NEW p \in Pool, Lock(r, p) PROVE LockInv'
  BY <1>1, TakeLock
<1>2. ASSUME NEW r \in Request,
             \/ ParkRequest(r) \/ Consume(r) \/ Die(r)
             \/ \E c \in 0..MaxCooldown : Release(r, c)
      PROVE  LockInv'
  BY <1>2, GiveUpLocks DEF ParkRequest, Consume, Die, Release
<1>3. ASSUME row' = row, NEW r \in Request, NEW ph, Enter(r, ph),
             phase[r] \in Acquiring => ph \in Acquiring,
             phase[r] = "returning" => ph = "returning",
             ph = "admitted" => AllLocked(r)
      PROVE  LockInv'
  <2>1. \A q \in Request : phase'[q] = IF q = r THEN ph ELSE phase[q]
    BY <1>3 DEF Enter, Shape
  <2>2. HoldersActive'
    BY <1>3, <2>1 DEF LockInv, HoldersActive
  <2>3. HeldPrefix'
    BY <1>3 DEF LockInv, HeldPrefix
  <2>4. AdmittedHolds'
    BY <1>3, <2>1 DEF LockInv, AdmittedHolds, AllLocked
  <2> QED BY <2>2, <2>3, <2>4 DEF LockInv
<1>4. ASSUME NEW r \in Request,
             Begin(r) \/ Admit(r) \/ Call(r) \/ \E b \in BOOLEAN : Return(r, b)
      PROVE  LockInv'
  <2>1. CASE Begin(r)
    BY <1>3, <2>1 DEF Begin, Acquiring
  <2>2. CASE Admit(r)
    BY <1>3, <2>2 DEF Admit, Acquiring
  <2>3. CASE Call(r)
    BY <1>3, <2>3 DEF Call, Acquiring
  <2>4. CASE \E b \in BOOLEAN : Return(r, b)
    BY <1>3, <2>4 DEF Return, Acquiring, InCall
  <2> QED BY <1>4, <2>1, <2>2, <2>3, <2>4
<1>5. CASE Tick \/ UNCHANGED capVars
  BY <1>5 DEF Tick, capVars, LockInv, HoldersActive, HeldPrefix, AdmittedHolds
<1> QED BY <1>1, <1>2, <1>4, <1>5 DEF CapNext

LEMMA LockInvKept == CapSpec => []LockInv
<1>1. CapInit => LockInv
  BY CapacityAssumption, PoolsArePools, DrawsDomain
     DEF CapInit, LockInv, HoldersActive, HeldPrefix, AdmittedHolds
<1> QED BY <1>1, LockStep, ShapeKept, PTL DEF CapSpec

\* Who waits for a row asks for a pool of a lower kind than its holder does.
LEMMA WaitsRise ==
    ASSUME Shape, LockInv, NEW kind, Canonical(kind), NEW q \in Request,
           NEW p \in Pool, row[p] = q, NEW u \in Pool, Asks(q, u)
    PROVE  kind[p] < kind[u]
<1>1. PICK j \in DOMAIN Draws[q] : Draws[q][j] = p
  BY DrawsDomain DEF LockInv, HoldersActive
<1>2. PICK i \in DOMAIN Draws[q] : Draws[q][i] = u /\ row[u] # q
  BY DEF Asks
<1>3. j \in Int /\ i \in Int
  BY DrawsDomain
<1>4. j < i
  BY <1>1, <1>2, <1>3 DEF LockInv, HeldPrefix
<1> QED BY <1>1, <1>2, <1>4 DEF Canonical

\* A request asks for one pool at a time.
LEMMA AsksOne ==
    ASSUME NEW r \in Request, NEW p, NEW u, Asks(r, p), Asks(r, u) PROVE p = u
<1>1. PICK i \in DOMAIN Draws[r] :
          /\ Draws[r][i] = p /\ row[p] # r
          /\ \A j \in DOMAIN Draws[r] : j < i => row[Draws[r][j]] = r
  BY DEF Asks, LockedBefore
<1>2. PICK k \in DOMAIN Draws[r] :
          /\ Draws[r][k] = u /\ row[u] # r
          /\ \A j \in DOMAIN Draws[r] : j < k => row[Draws[r][j]] = r
  BY DEF Asks, LockedBefore
<1>3. i \in Int /\ k \in Int
  BY DrawsDomain
<1>4. ~(i < k) /\ ~(k < i)
  BY <1>1, <1>2
<1> QED BY <1>1, <1>2, <1>3, <1>4

\* Along a circle of waits the kind of the pool asked for would rise for ever,
\* and there are only four kinds.
LEMMA NoCircle ==
    ASSUME Shape, LockInv, NEW kind, Canonical(kind) PROVE NoCircularWait
<1> SUFFICES ASSUME NEW circle \in (SUBSET Request) \ {{}},
                    \A r \in circle : \E q \in circle : Waits(r, q)
             PROVE  FALSE
  BY DEF NoCircularWait
<1> DEFINE AsksFor(r, n) == \E u \in Pool : Asks(r, u) /\ kind[u] >= n
<1>1. \A r \in circle, n \in 0..3 :
          AsksFor(r, n) => \E q \in circle : AsksFor(q, n + 1)
  <2> SUFFICES ASSUME NEW r \in circle, NEW n \in 0..3, AsksFor(r, n)
               PROVE  \E q \in circle : AsksFor(q, n + 1)
    OBVIOUS
  <2>1. PICK q \in circle : Waits(r, q)
    OBVIOUS
  <2>2. PICK p \in Pool : Asks(r, p) /\ row[p] = q
    BY <2>1 DEF Waits
  <2>3. kind[p] >= n
    <3>1. PICK u \in Pool : Asks(r, u) /\ kind[u] >= n
      OBVIOUS
    <3>2. u = p
      BY <2>2, <3>1, AsksOne
    <3> QED BY <3>1, <3>2
  <2>4. PICK v \in Pool : Asks(q, v)
    BY DEF Waits
  <2>5. kind[p] < kind[v]
    BY <2>2, <2>4, WaitsRise
  <2>6. kind[p] \in Int /\ kind[v] \in Int
    BY DEF Canonical
  <2> QED BY <2>3, <2>4, <2>5, <2>6
<1>2. PICK r0 \in circle : AsksFor(r0, 0)
  <2>1. PICK r \in circle : \E q \in circle : Waits(r, q)
    OBVIOUS
  <2>2. PICK u \in Pool : Asks(r, u)
    BY <2>1 DEF Waits
  <2>3. kind[u] >= 0
    BY DEF Canonical
  <2> QED BY <2>2, <2>3
<1> HIDE DEF AsksFor
<1>3. PICK r1 \in circle : AsksFor(r1, 1)
  BY <1>1, <1>2
<1>4. PICK r2 \in circle : AsksFor(r2, 2)
  BY <1>1, <1>3
<1>5. PICK r3 \in circle : AsksFor(r3, 3)
  BY <1>1, <1>4
<1>6. PICK r4 \in circle : AsksFor(r4, 4)
  BY <1>1, <1>5
<1> QED BY <1>6 DEF AsksFor, Canonical

\* Requests and releases that draw on their pools in the canonical order never
\* deadlock on them, however many they are.
THEOREM NoDeadlock ==
    ASSUME NEW CONSTANT kind, Canonical(kind)
    PROVE  CapSpec => []NoCircularWait
<1>1. Shape /\ LockInv => NoCircularWait
  BY NoCircle
<1> QED BY <1>1, ShapeKept, LockInvKept, PTL

----------------------------------------------------------------------------
(***************************************************************************)
(* The ceilings.                                                            *)
(***************************************************************************)

\* Clocks are read in the past, and what is taken lasts beyond the present.
InTime ==
    \A r \in Request :
        /\ seen[r] <= clock
        /\ phase[r] \in Acquiring \cup InCall => clock < seen[r] + Ttl
        /\ phase[r] \in InCall => lease[r] = seen[r] + Ttl

\* While an admitted request keeps its rows locked there is room for it.
RoomKept ==
    \A r \in Request : phase[r] = "admitted" =>
        \A p \in PoolsOf(r) : Cardinality(Active(p, seen[r])) + 1 <= Ceiling[p]

\* Sets of requests are finite and compared by size.
LEMMA FewerRequests ==
    ASSUME NEW S \in SUBSET Request, NEW T \in SUBSET S
    PROVE  /\ IsFiniteSet(S) /\ IsFiniteSet(T)
           /\ Cardinality(S) \in Nat /\ Cardinality(T) \in Nat
           /\ Cardinality(T) <= Cardinality(S)
<1>1. IsFiniteSet(S)
  BY CapacityAssumption, FS_Subset
<1>2. IsFiniteSet(T) /\ Cardinality(T) <= Cardinality(S)
  BY <1>1, FS_Subset
<1> QED BY <1>1, <1>2, FS_CardinalityType

\* Time passes only while no acquisition and no call outlasts its lease.
LEMMA InTimeStep == Shape /\ InTime /\ [CapNext]_capVars => InTime'
<1> SUFFICES ASSUME Shape, InTime, [CapNext]_capVars PROVE InTime'
  OBVIOUS
<1> USE CapacityAssumption
    DEF Shape, InTime, Acquiring, InCall, CapPhase, Enter, bucketVars
<1>1. ASSUME NEW r \in Request, NEW p \in Pool, Lock(r, p) PROVE InTime'
  BY <1>1 DEF Lock
<1>2. ASSUME NEW r \in Request, Begin(r) PROVE InTime'
  BY <1>2 DEF Begin
<1>3. ASSUME NEW r \in Request, Admit(r) \/ ParkRequest(r) PROVE InTime'
  <2>1. /\ UNCHANGED <<clock, seen, lease>> /\ phase[r] = "locking"
        /\ phase' = [phase EXCEPT ![r] = "admitted"]
           \/ phase' = [phase EXCEPT ![r] = "parked"]
    BY <1>3 DEF Admit, ParkRequest
  <2> QED BY <2>1
<1>4. ASSUME NEW r \in Request, Consume(r) PROVE InTime'
  BY <1>4 DEF Consume
<1>5. ASSUME NEW r \in Request, Call(r) PROVE InTime'
  BY <1>5 DEF Call
<1>6. ASSUME NEW r \in Request, NEW b \in BOOLEAN, Return(r, b) PROVE InTime'
  BY <1>6 DEF Return
<1>7. ASSUME NEW r \in Request, NEW c \in 0..MaxCooldown, Release(r, c)
      PROVE  InTime'
  BY <1>7 DEF Release
<1>8. ASSUME NEW r \in Request, Die(r) PROVE InTime'
  BY <1>8 DEF Die
<1>9. CASE Tick
  BY <1>9 DEF Tick, WithinTtl
<1>10. CASE UNCHANGED capVars
  BY <1>10 DEF capVars
<1> QED
  BY <1>1, <1>2, <1>3, <1>4, <1>5, <1>6, <1>7, <1>8, <1>9, <1>10 DEF CapNext

\* The locks keep anyone from taking the room an admitted request has found.
LEMMA RoomStep ==
    Shape /\ LockInv /\ RoomKept /\ [CapNext]_capVars => RoomKept'
<1> SUFFICES ASSUME Shape, LockInv, RoomKept, [CapNext]_capVars PROVE RoomKept'
  OBVIOUS
<1>1. ASSUME \A r \in Request : phase'[r] = "admitted" =>
                 /\ phase[r] = "admitted" /\ seen'[r] = seen[r]
                 /\ \A q \in Request :
                       lease'[q] > lease[q] => PoolsOf(q) \cap PoolsOf(r) = {}
      PROVE  RoomKept'
  <2> SUFFICES ASSUME NEW r \in Request, phase'[r] = "admitted", NEW p \in PoolsOf(r)
               PROVE  Cardinality({q \in Request : p \in PoolsOf(q) /\ lease'[q] > seen'[r]})
                        + 1 <= Ceiling[p]
    BY DEF RoomKept, Active
  <2> DEFINE before == {q \in Request : p \in PoolsOf(q) /\ lease[q] > seen[r]}
             after == {q \in Request : p \in PoolsOf(q) /\ lease'[q] > seen'[r]}
  <2>1. Cardinality(before) + 1 <= Ceiling[p]
    BY <1>1 DEF RoomKept, Active
  <2>2. \A q \in Request : lease[q] \in Nat /\ lease'[q] \in Nat /\ seen[r] \in Nat
    BY ShapeStep DEF Shape
  <2>3. after \subseteq before
    BY <1>1, <2>2
  <2>4. /\ Cardinality(after) <= Cardinality(before)
        /\ Cardinality(after) \in Nat /\ Cardinality(before) \in Nat
    BY <2>3, FewerRequests
  <2>5. Ceiling[p] \in Nat
    BY PoolsArePools, CapacityAssumption
  <2> QED BY <2>1, <2>4, <2>5
<1>2. ASSUME NEW q \in Request, Admit(q) PROVE RoomKept'
  <2>1. \A p \in PoolsOf(q) : ~Full(q, p)
    BY <1>2 DEF Admit, Refused
  <2>2. seen' = seen /\ lease' = lease
    BY <1>2 DEF Admit
  <2>3. \A p \in PoolsOf(q) : Cardinality(Active(p, seen[q])) + 1 <= Ceiling[p]
    <3> TAKE p \in PoolsOf(q)
    <3>1. Cardinality(Active(p, seen[q])) \in Nat
      BY FewerRequests DEF Active
    <3>2. Ceiling[p] \in Nat
      BY PoolsArePools, CapacityAssumption
    <3> QED BY <2>1, <3>1, <3>2 DEF Full
  <2>4. \A r \in Request : r # q => phase'[r] = phase[r]
    BY <1>2 DEF Admit, Enter, Shape
  <2> QED BY <2>2, <2>3, <2>4 DEF RoomKept, Active
<1>3. ASSUME NEW q \in Request, Consume(q) PROVE RoomKept'
  <2>1. \A p \in PoolsOf(q) : row[p] = q
    BY <1>3 DEF Consume, LockInv, AdmittedHolds
  <2>2. /\ phase[q] = "admitted" /\ phase'[q] # "admitted" /\ seen' = seen
        /\ \A r \in Request : r # q => phase'[r] = phase[r] /\ lease'[r] = lease[r]
    BY <1>3 DEF Consume, Enter, Shape
  <2>3. ASSUME NEW r \in Request, phase'[r] = "admitted"
        PROVE  PoolsOf(q) \cap PoolsOf(r) = {} /\ phase[r] = "admitted" /\ r # q
    BY <2>1, <2>2, <2>3 DEF LockInv, AdmittedHolds
  <2>4. \A r \in Request : lease[r] \in Nat
    BY DEF Shape
  <2> QED BY <1>1, <2>2, <2>3, <2>4
<1>4. ASSUME NEW q \in Request, NEW c \in 0..MaxCooldown, Release(q, c)
      PROVE  RoomKept'
  <2>1. \A r \in Request : phase'[r] = "admitted" => phase[r] = "admitted"
    BY <1>4 DEF Release, Enter, Shape
  <2>2. \A r \in Request : ~(lease'[r] > lease[r])
    BY <1>4 DEF Release, Shape
  <2> QED BY <1>1, <1>4, <2>1, <2>2 DEF Release
<1>5. ASSUME lease' = lease,
             \A r \in Request : phase'[r] = "admitted" =>
                 phase[r] = "admitted" /\ seen'[r] = seen[r]
      PROVE  RoomKept'
  BY <1>5 DEF RoomKept, Active
<1>6. ASSUME NEW q \in Request,
             \/ Begin(q) \/ ParkRequest(q) \/ Call(q) \/ Die(q)
             \/ \E p \in Pool : Lock(q, p)
             \/ \E b \in BOOLEAN : Return(q, b)
      PROVE  RoomKept'
  <2>1. lease' = lease
    BY <1>6 DEF Begin, ParkRequest, Call, Die, Lock, Return
  <2>2. \A r \in Request : phase'[r] = "admitted" =>
                 phase[r] = "admitted" /\ seen'[r] = seen[r]
    BY <1>6 DEF Begin, ParkRequest, Call, Die, Lock, Return, Enter, Shape
  <2> QED BY <1>5, <2>1, <2>2
<1>7. CASE Tick \/ UNCHANGED capVars
  BY <1>5, <1>7 DEF Tick, capVars
<1> QED BY <1>2, <1>3, <1>4, <1>6, <1>7 DEF CapNext

\* A call in flight has a lease every later check counts, so a request that
\* found room leaves the pool within its ceiling.
LEMMA OvershootStep ==
    Shape /\ InTime /\ RoomKept /\ NoOvershoot /\ [CapNext]_capVars => NoOvershoot'
<1> SUFFICES ASSUME Shape, InTime, RoomKept, NoOvershoot, [CapNext]_capVars,
                    NEW p \in Pool
             PROVE  Cardinality({r \in Request : phase'[r] \in InCall /\ p \in PoolsOf(r)})
                      <= Ceiling[p]
  BY DEF NoOvershoot, InFlight, InCall
<1> DEFINE before == {r \in Request : phase[r] \in InCall /\ p \in PoolsOf(r)}
           after == {r \in Request : phase'[r] \in InCall /\ p \in PoolsOf(r)}
<1>0. /\ Cardinality(before) <= Ceiling[p] /\ Ceiling[p] \in Nat
      /\ Cardinality(before) \in Nat /\ IsFiniteSet(before)
  BY CapacityAssumption, FewerRequests DEF NoOvershoot, InFlight
<1>1. ASSUME after \subseteq before PROVE Cardinality(after) <= Ceiling[p]
  BY <1>0, <1>1, FewerRequests
<1>2. ASSUME NEW q \in Request, Consume(q) PROVE Cardinality(after) <= Ceiling[p]
  <2>1. phase[q] = "admitted" /\ \A r \in Request : r # q => phase'[r] = phase[r]
    BY <1>2 DEF Consume, Enter, Shape
  <2>2. CASE p \notin PoolsOf(q)
    BY <1>1, <2>1, <2>2
  <2>3. CASE p \in PoolsOf(q)
    <3>1. before \subseteq Active(p, seen[q])
      BY DEF InTime, Active, Shape
    <3>2. Cardinality(Active(p, seen[q])) + 1 <= Ceiling[p]
      BY <2>1, <2>3 DEF RoomKept
    <3>3. Active(p, seen[q]) \in SUBSET Request
      BY DEF Active
    <3>4. /\ Cardinality(before) <= Cardinality(Active(p, seen[q]))
          /\ Cardinality(Active(p, seen[q])) \in Nat
      BY <3>1, <3>3, FewerRequests
    <3>5. after \subseteq before \cup {q}
      BY <2>1
    <3>6. /\ IsFiniteSet(before \cup {q})
          /\ Cardinality(before \cup {q}) <= Cardinality(before) + 1
          /\ Cardinality(before \cup {q}) \in Nat
      <4>1. /\ IsFiniteSet(before \cup {q})
            /\ Cardinality(before \cup {q}) =
                  IF q \in before THEN Cardinality(before) ELSE Cardinality(before) + 1
        BY <1>0, FS_AddElement
      <4> QED BY <1>0, <4>1
    <3>7. before \cup {q} \in SUBSET Request
      OBVIOUS
    <3>8. Cardinality(after) <= Cardinality(before \cup {q}) /\ Cardinality(after) \in Nat
      BY <3>5, <3>7, FewerRequests
    <3> QED BY <1>0, <3>2, <3>4, <3>6, <3>8
  <2> QED BY <2>2, <2>3
<1>3. ASSUME NEW q \in Request,
             \/ Begin(q) \/ Admit(q) \/ ParkRequest(q) \/ Call(q) \/ Die(q)
             \/ \E u \in Pool : Lock(q, u)
             \/ \E b \in BOOLEAN : Return(q, b)
             \/ \E c \in 0..MaxCooldown : Release(q, c)
      PROVE  after \subseteq before
  BY <1>3 DEF Begin, Admit, ParkRequest, Call, Die, Lock, Return, Release, Enter,
              Shape, InCall
<1>4. ASSUME Tick \/ UNCHANGED capVars PROVE after \subseteq before
  BY <1>4 DEF Tick, capVars
<1>5. CASE \E q \in Request : Consume(q)
  BY <1>2, <1>5
<1>6. CASE \E q \in Request :
              \/ Begin(q) \/ Admit(q) \/ ParkRequest(q) \/ Call(q) \/ Die(q)
              \/ \E u \in Pool : Lock(q, u)
              \/ \E b \in BOOLEAN : Return(q, b)
              \/ \E c \in 0..MaxCooldown : Release(q, c)
  <2>1. after \subseteq before
    <3> HIDE DEF before, after
    <3> QED BY <1>3, <1>6
  <2> QED BY <1>1, <2>1
<1>7. CASE Tick \/ UNCHANGED capVars
  BY <1>1, <1>4, <1>7
<1>8. \/ \E q \in Request : Consume(q)
      \/ \E q \in Request :
            \/ Begin(q) \/ Admit(q) \/ ParkRequest(q) \/ Call(q) \/ Die(q)
            \/ \E u \in Pool : Lock(q, u)
            \/ \E b \in BOOLEAN : Return(q, b)
            \/ \E c \in 0..MaxCooldown : Release(q, c)
      \/ Tick \/ UNCHANGED capVars
  BY DEF CapNext
<1> QED BY <1>5, <1>6, <1>7, <1>8

\* However many requests and pools there are and however long requests wait for
\* their locks, no pool has more calls in flight than its ceiling, provided a
\* call ends within its lease.
THEOREM CeilingHolds == CapSpec => []NoOvershoot
<1>1. CapInit => InTime /\ RoomKept /\ NoOvershoot
  <2> SUFFICES ASSUME CapInit PROVE InTime /\ RoomKept /\ NoOvershoot
    OBVIOUS
  <2>1. \A p \in Pool : InFlight(p) = {}
    BY DEF CapInit, InFlight, InCall
  <2>2. NoOvershoot
    <3>1. Cardinality({}) = 0 /\ \A p \in Pool : Ceiling[p] \in Nat
      BY FS_EmptySet, CapacityAssumption
    <3> QED BY <2>1, <3>1 DEF NoOvershoot
  <2> QED BY <2>2, CapacityAssumption DEF CapInit, InTime, RoomKept, Acquiring, InCall
<1> QED
  BY <1>1, InTimeStep, RoomStep, OvershootStep, ShapeKept, LockInvKept, PTL
     DEF CapSpec
----------------------------------------------------------------------------
(***************************************************************************)
(* Tokens and leases.                                                       *)
(***************************************************************************)

Bounds ==
    /\ clock \in 0..Horizon
    /\ seen \in [Request -> 0..Horizon]
    /\ tokens \in [Pool -> 0..Burst]
    /\ refilled \in [Pool -> 0..Horizon]

\* The token an admitted request was promised is still in its transport pool:
\* the row lock keeps others from refilling or consuming in between.
TokenKept ==
    \A r \in Request :
        Configured /\ phase[r] = "admitted" => tokens[Transport(r)] >= 1

\* A transport holds no more than a burst after its refill, and what a paced
\* request found is a token.
LEMMA RefillBounds ==
    ASSUME Shape, Bounds, NEW r \in Request
    PROVE  Refilled(r) \in 0..Burst
<1> DEFINE p == Transport(r)
           gain == Larger(0, seen[r] - refilled[p])
<1>1. p \in Pool
  BY PoolsArePools
<1>2. tokens[p] \in Nat /\ tokens[p] <= Burst /\ refilled[p] \in Int /\ seen[r] \in Int
  BY <1>1 DEF Bounds
<1>3. gain \in Nat
  BY <1>2 DEF Larger
<1>4. gain * Rate \in Nat /\ Burst \in Nat
  <2> HIDE DEF gain
  <2>1. Rate \in Nat /\ Burst \in Nat
    BY CapacityAssumption
  <2> QED BY <1>3, <2>1
<1>5. Refilled(r) = Smaller(Burst, tokens[p] + gain * Rate)
  BY DEF Refilled
<1> HIDE DEF gain, p
<1> QED BY <1>2, <1>4, <1>5 DEF Smaller

\* Whoever keeps a refill holds the transport's row.
LEMMA RefillKeeps ==
    ASSUME Shape, Bounds, NEW r \in Request, KeepRefill(r)
    PROVE  /\ tokens' \in [Pool -> 0..Burst]
           /\ refilled' \in [Pool -> 0..Horizon]
           /\ \A p \in Pool : p # Transport(r) => tokens'[p] = tokens[p]
           /\ ReachesPacing(r) => tokens'[Transport(r)] = Refilled(r)
<1>1. Transport(r) \in Pool
  BY PoolsArePools
<1>2. CASE ReachesPacing(r)
  <2>1. /\ tokens' = [tokens EXCEPT ![Transport(r)] = Refilled(r)]
        /\ refilled' = [refilled EXCEPT ![Transport(r)] = seen[r]]
    BY <1>2 DEF KeepRefill
  <2>2. seen[r] \in 0..Horizon
    BY DEF Bounds
  <2> QED BY <1>1, <2>1, <2>2, RefillBounds DEF Bounds
<1>3. CASE ~ReachesPacing(r)
  BY <1>3 DEF KeepRefill, Bounds
<1> QED BY <1>2, <1>3

\* The transport is one of a request's pools.
LEMMA TransportDrawn == \A r \in Request : Transport(r) \in PoolsOf(r)
<1> TAKE r \in Request
<1>1. Draws[r] \in Seq(Pool) /\ Draws[r] # <<>>
  BY CapacityAssumption
<1>2. 1 \in DOMAIN Draws[r]
  BY <1>1
<1> QED BY <1>2 DEF Transport, PoolsOf, Range

\* A request that was admitted holds its transport's row.
LEMMA TransportHeld ==
    ASSUME LockInv, NEW r \in Request, phase[r] = "admitted"
    PROVE  row[Transport(r)] = r
BY TransportDrawn DEF LockInv, AdmittedHolds

\* Every step keeps clocks and tokens within their bounds.
LEMMA TokenStep ==
    Shape /\ LockInv /\ Bounds /\ TokenKept /\ [CapNext]_capVars
        => Bounds' /\ TokenKept'
<1> SUFFICES ASSUME Shape, LockInv, Bounds, TokenKept, [CapNext]_capVars
             PROVE  Bounds' /\ TokenKept'
  OBVIOUS
<1>1. ASSUME UNCHANGED <<clock, seen, tokens, refilled>>,
             \A r \in Request : phase'[r] = "admitted" => phase[r] = "admitted"
      PROVE  Bounds' /\ TokenKept'
  BY <1>1 DEF Bounds, TokenKept
<1>2. ASSUME NEW r \in Request, NEW p \in Pool, Lock(r, p) PROVE Bounds' /\ TokenKept'
  BY <1>1, <1>2 DEF Lock, bucketVars
<1>3. ASSUME NEW r \in Request, Begin(r) \/ \E b \in BOOLEAN : Return(r, b)
      PROVE  Bounds' /\ TokenKept'
  <2>1. /\ UNCHANGED <<clock, tokens, refilled>>
        /\ seen' = [seen EXCEPT ![r] = clock]
        /\ phase' = [phase EXCEPT ![r] = "locking"]
           \/ phase' = [phase EXCEPT ![r] = "returning"]
    BY <1>3 DEF Begin, Return, Enter, bucketVars
  <2> QED BY <2>1 DEF Bounds, TokenKept, Shape
<1>4. ASSUME NEW r \in Request, Admit(r) PROVE Bounds' /\ TokenKept'
  <2>1. KeepRefill(r) /\ UNCHANGED <<clock, seen>>
        /\ phase' = [phase EXCEPT ![r] = "admitted"] /\ AllLocked(r) /\ ~Refused(r)
    BY <1>4 DEF Admit, Enter
  <2>2. Bounds'
    BY <2>1, RefillKeeps DEF Bounds
  <2>3. ASSUME NEW q \in Request, Configured, phase'[q] = "admitted", q # r
        PROVE  tokens'[Transport(q)] >= 1
    <3>1. phase[q] = "admitted"
      BY <2>1, <2>3 DEF Shape
    <3>2. row[Transport(q)] = q /\ Transport(q) \in Pool
      BY <3>1, TransportHeld, PoolsArePools
    <3>3. Transport(q) # Transport(r)
      BY <2>1, <2>3, <3>2, TransportDrawn DEF AllLocked
    <3> QED BY <2>1, <2>3, <3>1, <3>2, <3>3, RefillKeeps DEF TokenKept
  <2>4. Configured => tokens'[Transport(r)] >= 1
    <3> HAVE Configured
    <3>1. ReachesPacing(r) /\ ~(Refilled(r) < 1)
      BY <2>1, TransportDrawn DEF Refused, Paced, ReachesPacing
    <3> QED BY <2>1, <3>1, RefillKeeps, RefillBounds
  <2> QED BY <2>2, <2>3, <2>4 DEF TokenKept
<1>5. ASSUME NEW r \in Request, ParkRequest(r) PROVE Bounds' /\ TokenKept'
  <2>1. KeepRefill(r) /\ UNCHANGED <<clock, seen>>
        /\ phase' = [phase EXCEPT ![r] = "parked"] /\ AllLocked(r)
    BY <1>5 DEF ParkRequest, Enter
  <2>2. Bounds'
    BY <2>1, RefillKeeps DEF Bounds
  <2>3. ASSUME NEW q \in Request, Configured, phase'[q] = "admitted"
        PROVE  tokens'[Transport(q)] >= 1
    <3>1. phase[q] = "admitted" /\ q # r
      BY <2>1, <2>3 DEF Shape
    <3>2. row[Transport(q)] = q /\ Transport(q) \in Pool
      BY <3>1, TransportHeld, PoolsArePools
    <3>3. Transport(q) # Transport(r)
      BY <2>1, <3>1, <3>2, TransportDrawn DEF AllLocked
    <3> QED BY <2>1, <2>3, <3>1, <3>2, <3>3, RefillKeeps DEF TokenKept
  <2> QED BY <2>2, <2>3 DEF TokenKept
<1>6. ASSUME NEW r \in Request, Consume(r) PROVE Bounds' /\ TokenKept'
  <2>1. /\ phase[r] = "admitted" /\ phase' = [phase EXCEPT ![r] = "granted"]
        /\ UNCHANGED <<clock, seen, refilled>>
    BY <1>6 DEF Consume, Enter
  <2>2. Transport(r) \in Pool /\ row[Transport(r)] = r
    BY <2>1, TransportHeld, PoolsArePools
  <2>3. CASE Configured
    <3>1. tokens' = [tokens EXCEPT ![Transport(r)] = @ - 1] /\ tokens[Transport(r)] >= 1
      BY <1>6, <2>1, <2>3 DEF Consume, TokenKept
    <3>2. Burst \in Nat
      BY CapacityAssumption
    <3>3. tokens' \in [Pool -> 0..Burst]
      BY <2>2, <3>1, <3>2 DEF Bounds
    <3>4. ASSUME NEW q \in Request, phase'[q] = "admitted"
          PROVE  tokens'[Transport(q)] >= 1
      <4>1. phase[q] = "admitted" /\ q # r
        BY <2>1, <3>4 DEF Shape
      <4>2. row[Transport(q)] = q /\ Transport(q) \in Pool
        BY <4>1, TransportHeld, PoolsArePools
      <4> QED BY <2>2, <2>3, <3>1, <4>1, <4>2 DEF TokenKept, Bounds
    <3> QED BY <2>1, <3>3, <3>4 DEF Bounds, TokenKept
  <2>4. CASE ~Configured
    BY <1>6, <2>1, <2>4 DEF Consume, Bounds, TokenKept
  <2> QED BY <2>3, <2>4
<1>7. ASSUME NEW r \in Request,
             Call(r) \/ Die(r) \/ \E c \in 0..MaxCooldown : Release(r, c)
      PROVE  Bounds' /\ TokenKept'
  <2>1. UNCHANGED <<clock, seen, tokens, refilled>>
    BY <1>7 DEF Call, Die, Release, bucketVars
  <2>2. \A q \in Request : phase'[q] = "admitted" => phase[q] = "admitted"
    BY <1>7 DEF Call, Die, Release, Enter, Shape
  <2> QED BY <1>1, <2>1, <2>2
<1>8. CASE Tick
  BY <1>8, CapacityAssumption DEF Tick, Bounds, TokenKept, bucketVars
<1>9. CASE UNCHANGED capVars
  BY <1>1, <1>9 DEF capVars
<1> QED BY <1>2, <1>3, <1>4, <1>5, <1>6, <1>7, <1>8, <1>9 DEF CapNext

LEMMA TokensKept == CapSpec => [](Bounds /\ TokenKept)
<1>1. CapInit => Bounds /\ TokenKept
  BY CapacityAssumption DEF CapInit, Bounds, TokenKept
<1> QED BY <1>1, TokenStep, ShapeKept, LockInvKept, PTL DEF CapSpec

\* A transport's tokens stay between none and a burst, for any requests, pools
\* and rates: the check and the consumption of a token are one lock apart.
THEOREM CapTypes == CapSpec => []CapTypeOK
<1>1. Shape /\ Bounds => CapTypeOK
  BY DEF Shape, Bounds, CapTypeOK
<1> QED BY <1>1, ShapeKept, TokensKept, PTL

\* A lease ends at most its time to live after the `now` its request last read.
LeaseWithin == \A r \in Request : lease[r] <= seen[r] + Ttl

LEMMA LeaseWithinStep ==
    Shape /\ InTime /\ LeaseWithin /\ [CapNext]_capVars => LeaseWithin'
<1> SUFFICES ASSUME Shape, InTime, LeaseWithin, [CapNext]_capVars PROVE LeaseWithin'
  OBVIOUS
<1>0. Ttl \in Nat /\ \A r \in Request : lease[r] \in Nat /\ seen[r] \in Nat
  BY CapacityAssumption DEF Shape
<1>1. ASSUME NEW r \in Request, Begin(r) \/ \E b \in BOOLEAN : Return(r, b)
      PROVE  LeaseWithin'
  <2>1. lease' = lease /\ seen' = [seen EXCEPT ![r] = clock] /\ seen[r] <= clock
    BY <1>1 DEF Begin, Return, InTime
  <2> QED BY <1>0, <2>1 DEF LeaseWithin, Shape
<1>2. ASSUME NEW r \in Request, Consume(r) PROVE LeaseWithin'
  <2>1. lease' = [lease EXCEPT ![r] = seen[r] + Ttl] /\ seen' = seen
    BY <1>2 DEF Consume
  <2> QED BY <1>0, <2>1 DEF LeaseWithin, Shape
<1>3. ASSUME NEW r \in Request, NEW c \in 0..MaxCooldown, Release(r, c)
      PROVE  LeaseWithin'
  <2>1. lease' = [lease EXCEPT ![r] = 0] /\ seen' = seen
    BY <1>3 DEF Release
  <2> QED BY <1>0, <2>1 DEF LeaseWithin, Shape
<1>4. CASE UNCHANGED <<lease, seen>>
  BY <1>4 DEF LeaseWithin
<1>5. ASSUME NEW r \in Request,
             \/ Admit(r) \/ ParkRequest(r) \/ Call(r) \/ Die(r)
             \/ \E p \in Pool : Lock(r, p)
      PROVE  UNCHANGED <<lease, seen>>
  BY <1>5 DEF Admit, ParkRequest, Call, Die, Lock
<1>6. CASE Tick \/ UNCHANGED capVars
  BY <1>4, <1>6 DEF Tick, capVars
<1> QED BY <1>1, <1>2, <1>3, <1>4, <1>5, <1>6 DEF CapNext

\* No capacity is lost for good, however many workers died with it: leases end
\* with their requests or soon after.
THEOREM NothingLostHolds == CapSpec => []NothingLost
<1>1. CapInit => InTime /\ LeaseWithin
  BY CapacityAssumption DEF CapInit, InTime, Acquiring, InCall, LeaseWithin
<1>2. Shape /\ LeaseWithin => NothingLost
  <2> SUFFICES ASSUME Shape, LeaseWithin, NEW p \in Pool,
                      \A r \in Request : clock >= seen[r] + Ttl
               PROVE  Active(p, clock) = {}
    BY DEF NothingLost
  <2>1. \A r \in Request : ~(lease[r] > clock)
    BY CapacityAssumption DEF LeaseWithin, Shape
  <2> QED BY <2>1 DEF Active
<1> QED BY <1>1, <1>2, InTimeStep, LeaseWithinStep, ShapeKept, PTL DEF CapSpec
=============================================================================
