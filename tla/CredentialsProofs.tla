------------------------- MODULE CredentialsProofs -------------------------
(***************************************************************************)
(* Proofs about the credential manager, for any number of operations,      *)
(* status requests, keys, expiries of the lock and faults.                 *)
(***************************************************************************)
EXTENDS Credentials, FiniteSetTheorems, TLAPS

(* Where an operation has written nothing yet, where it has not touched    *)
(* the pointer yet, and where it works under the lock.                     *)
BeforeWrite == {"idle", "lock", "read", "write"}
BeforeMove == BeforeWrite \cup {"verify", "activate", "delete"}
UnderLock == {"write", "verify", "activate", "delete"}

(* Versions are numbered without a hole, one operation writes one version, *)
(* and what is remembered of a version names one that exists.              *)
Exists(v) == v = 0 \/ v \in DOMAIN envelopes
VersionsInv ==
  /\ \E k \in 0 .. N : DOMAIN envelopes = 1 .. k
  /\ \A v \in DOMAIN envelopes : /\ envelopes[v].version = v /\ envelopes[v].secret \in Ops
                                 /\ pc[envelopes[v].secret] \notin BeforeWrite
  /\ \A v, w \in DOMAIN envelopes : envelopes[v].secret = envelopes[w].secret => v = w
  /\ Exists(pointer) /\ Exists(highest) /\ \A o \in Ops : Exists(current[o])
  /\ \A o \in Ops : /\ pc[o] = "write" => candidate[o] > 0
                    /\ candidate[o] > 0 => Exists(candidate[o] - 1)
                    /\ pc[o] \in {"verify", "activate"} => candidate[o] \in DOMAIN envelopes

(* The holder of the lock still sees the pointer it read, and its version  *)
(* is above every version that was ever current.                           *)
LockInv ==
  \A o \in Ops : lock = o /\ pc[o] \in UnderLock =>
    /\ current[o] = pointer
    /\ pc[o] \in {"verify", "activate"} => candidate[o] > highest

VerifiedInv ==
  /\ pointer # 0 => pointer \in verified
  /\ \A o \in Ops : pc[o] = "activate" => candidate[o] \in verified

Answers == {"", "not configured", "another key", "not authentic", "verified"}
StatusInv ==
  /\ spc \in [Requests -> {"idle", "envelope", "done"}]
  /\ answer \in [Requests -> Answers] /\ DOMAIN asked = Requests
  /\ \A r \in Requests : spc[r] = "envelope" => asked[r] \in DOMAIN envelopes

AuditInv ==
  /\ AuditFaithful
  /\ \A o \in Ops :
       /\ pc[o] \in BeforeMove => o \notin changed /\ <<o, "failed">> \notin audit
       /\ pc[o] \notin {"idle", "done"} => <<o, "started">> \in audit
       /\ pc[o] = "audit" => o \in changed
       /\ pc[o] = "fail" => o \notin changed \/ o \in lost

IndInv == TypeOK /\ VersionsInv /\ LockInv /\ VerifiedInv /\ StatusInv /\ AuditInv

-----------------------------------------------------------------------------
LEMMA FaultsBound ==
  ASSUME TypeOK, NEW o \in Ops, Fault \/ Failing(o) \/ UNCHANGED faults
  PROVE  faults' \in 0 .. MaxFaults
  BY CredentialsAssumption DEF TypeOK, Fault, Failing

(* As many versions as there are operations that have written one: an      *)
(* operation that has not leaves room for its own.                         *)
LEMMA RoomForOne ==
  ASSUME VersionsInv, NEW o \in Ops, pc[o] \in BeforeWrite, NEW k \in 0 .. N, DOMAIN envelopes = 1 .. k
  PROVE  k < N
  <1> DEFINE f == [v \in 1 .. k |-> envelopes[v].secret]
             T == Ops \ {o}
  <1>1. f \in [1 .. k -> T]
    BY DEF VersionsInv
  <1>2. IsFiniteSet(T) /\ Cardinality(T) = N - 1
    <2>1. IsFiniteSet(Ops) /\ Cardinality(Ops) = N
      BY FS_Interval, CredentialsAssumption DEF Ops
    <2> QED
      BY <2>1, FS_RemoveElement
  <1>3. IsFiniteSet(1 .. k) /\ Cardinality(1 .. k) = k
    BY FS_Interval
  <1>4. \A v, w \in 1 .. k : v # w => f[v] # f[w]
    BY DEF VersionsInv
  <1> HIDE DEF f, T
  <1>5. ~ (N - 1 < k)
    BY <1>1, <1>2, <1>3, <1>4, FS_PigeonHole
  <1> QED
    BY <1>5, CredentialsAssumption

(* The first free version above what an operation read is the next number. *)
LEMMA NextVersion ==
  ASSUME TypeOK, VersionsInv, NEW o \in Ops, pc[o] = "write", ~ Taken(candidate[o])
  PROVE  \E k \in 0 .. N - 1 : DOMAIN envelopes = 1 .. k /\ candidate[o] = k + 1
  <1>1. PICK k \in 0 .. N : DOMAIN envelopes = 1 .. k
    BY DEF VersionsInv
  <1>2. k < N
    BY <1>1, RoomForOne DEF BeforeWrite
  <1>3. candidate[o] \in Nat /\ candidate[o] > 0 /\ candidate[o] - 1 \in 0 .. k
    BY <1>1, CredentialsAssumption DEF VersionsInv, TypeOK, Exists
  <1>4. candidate[o] = k + 1
    BY <1>1, <1>3 DEF Taken
  <1> QED
    BY <1>1, <1>2, <1>4, CredentialsAssumption

LEMMA InitInv == Init => IndInv
  <1> SUFFICES ASSUME Init PROVE IndInv
    OBVIOUS
  <1>1. N \in Nat /\ MaxFaults \in Nat
    BY CredentialsAssumption
  <1>2. DOMAIN envelopes = {}
    BY Zenon DEF Init
  <1>3. /\ pointer = 0 /\ lock = None /\ audit = {} /\ faults = 0 /\ highest = 0 /\ ended = {}
        /\ pc = [o \in Ops |-> "idle"] /\ held = [o \in Ops |-> FALSE]
        /\ current = [o \in Ops |-> 0] /\ candidate = [o \in Ops |-> 0]
    BY Zenon DEF Init
  <1>4. TypeOK
    BY <1>2, <1>1, <1>3 DEF TypeOK, Versions, Labels
  <1>5. VersionsInv
    <2>1. DOMAIN envelopes = 1 .. 0 /\ 0 \in 0 .. N
      BY <1>2, <1>1
    <2> QED
      BY <1>2, <1>3, <2>1 DEF VersionsInv, Exists
  <1>6. LockInv /\ VerifiedInv /\ StatusInv /\ AuditInv
    BY CredentialsAssumption DEF Init, LockInv, VerifiedInv, StatusInv, AuditInv, AuditFaithful,
                                 UnderLock, Answers
  <1> QED
    BY <1>4, <1>5, <1>6 DEF IndInv

-----------------------------------------------------------------------------
(* One lemma per step of an operation.                                     *)
LEMMA StartInv ==
  ASSUME IndInv, NEW o \in Ops, Start(o), UNCHANGED <<op, ended, status>>
  PROVE  IndInv'
  <1> USE DEF IndInv, Start, Goto, redis, status, ghosts
  <1>1. TypeOK'
    <2>1. faults' \in 0 .. MaxFaults
      BY FaultsBound
    <2> QED
      BY <2>1 DEF TypeOK, Labels
  <1>2. VersionsInv'
    BY DEF VersionsInv, TypeOK, Exists, BeforeWrite
  <1>3. LockInv' /\ VerifiedInv'
    BY DEF LockInv, VerifiedInv, TypeOK, UnderLock
  <1>4. StatusInv'
    BY DEF StatusInv
  <1>5. AuditInv'
    BY DEF AuditInv, AuditFaithful, TypeOK, BeforeMove, BeforeWrite
  <1> QED
    BY <1>1, <1>2, <1>3, <1>4, <1>5

LEMMA RefuseInv ==
  ASSUME IndInv, NEW o \in Ops, Refuse(o), UNCHANGED <<op, ended, status>>
  PROVE  IndInv'
  <1> USE DEF IndInv, Refuse, Goto, redis, status, ghosts
  <1>1. TypeOK'
    <2>1. faults' \in 0 .. MaxFaults
      BY FaultsBound
    <2> QED
      BY <2>1 DEF TypeOK, Labels
  <1>2. VersionsInv'
    BY DEF VersionsInv, TypeOK, Exists, BeforeWrite
  <1>3. LockInv' /\ VerifiedInv'
    BY DEF LockInv, VerifiedInv, TypeOK, UnderLock
  <1>4. StatusInv'
    BY DEF StatusInv
  <1>5. AuditInv'
    BY DEF AuditInv, AuditFaithful, TypeOK, BeforeMove, BeforeWrite
  <1> QED
    BY <1>1, <1>2, <1>3, <1>4, <1>5

LEMMA AcquireLockInv ==
  ASSUME IndInv, NEW o \in Ops, AcquireLock(o), UNCHANGED <<op, ended, status>>
  PROVE  IndInv'
  <1> USE DEF IndInv, AcquireLock, Goto, redis, status, ghosts
  <1>1. TypeOK'
    <2>1. faults' \in 0 .. MaxFaults
      BY FaultsBound
    <2> QED
      BY <2>1 DEF TypeOK, Labels
  <1>2. VersionsInv'
    BY DEF VersionsInv, TypeOK, Exists, BeforeWrite
  <1>3. LockInv' /\ VerifiedInv'
    BY DEF LockInv, VerifiedInv, TypeOK, UnderLock
  <1>4. StatusInv'
    BY DEF StatusInv
  <1>5. AuditInv'
    BY DEF AuditInv, AuditFaithful, TypeOK, BeforeMove, BeforeWrite
  <1> QED
    BY <1>1, <1>2, <1>3, <1>4, <1>5

LEMMA ReadCurrentInv ==
  ASSUME IndInv, NEW o \in Ops, ReadCurrent(o), UNCHANGED <<op, ended, status>>
  PROVE  IndInv'
  <1> USE DEF IndInv, ReadCurrent, Goto, redis, status, ghosts
  <1>1. TypeOK'
    <2>1. faults' \in 0 .. MaxFaults
      BY FaultsBound
    <2> QED
      BY <2>1, CredentialsAssumption DEF TypeOK, Labels, Versions
  <1>2. VersionsInv'
    BY DEF VersionsInv, TypeOK, Exists, BeforeWrite
  <1>3. LockInv' /\ VerifiedInv'
    BY DEF LockInv, VerifiedInv, TypeOK, UnderLock
  <1>4. StatusInv'
    BY DEF StatusInv
  <1>5. AuditInv'
    BY DEF AuditInv, AuditFaithful, TypeOK, BeforeMove, BeforeWrite
  <1> QED
    BY <1>1, <1>2, <1>3, <1>4, <1>5

LEMMA WriteVersionInv ==
  ASSUME IndInv, NEW o \in Ops, WriteVersion(o), UNCHANGED <<op, ended, status>>
  PROVE  IndInv'
  <1> USE DEF IndInv, WriteVersion, Goto, redis, status, ghosts
  <1> DEFINE v == candidate[o]
  <1>1. CASE /\ UNCHANGED envelopes
             /\ \/ pc' = [pc EXCEPT ![o] = "fail"] /\ UNCHANGED candidate
                \/ Taken(v) /\ candidate' = [candidate EXCEPT ![o] = v + 1] /\ UNCHANGED pc
    <2>1. TypeOK'
      <3>1. faults' \in 0 .. MaxFaults
        BY FaultsBound
      <3>2. Taken(v) => v + 1 \in 0 .. N + 1
        BY CredentialsAssumption DEF TypeOK, Taken, Versions
      <3> QED
        BY <1>1, <3>1, <3>2 DEF TypeOK, Labels
    <2>2. VersionsInv'
      BY <1>1 DEF VersionsInv, TypeOK, Exists, BeforeWrite, Taken
    <2>3. LockInv' /\ VerifiedInv'
      BY <1>1 DEF LockInv, VerifiedInv, TypeOK, UnderLock
    <2>4. StatusInv'
      BY <1>1 DEF StatusInv
    <2>5. AuditInv'
      BY DEF AuditInv, AuditFaithful, TypeOK, BeforeMove, BeforeWrite
    <2> QED
      BY <2>1, <2>2, <2>3, <2>4, <2>5
  <1>2. CASE Store(o, v) /\ ~ Taken(v) /\ UNCHANGED candidate /\ pc' \in {[pc EXCEPT ![o] = l] : l \in {"verify", "fail"}}
    <2>1. PICK k \in 0 .. N - 1 : DOMAIN envelopes = 1 .. k /\ v = k + 1
      BY <1>2, NextVersion
    <2>2. /\ DOMAIN envelopes' = DOMAIN envelopes \cup {v}
          /\ envelopes'[v] = Encrypt(o, v)
          /\ \A n \in DOMAIN envelopes : n # v /\ envelopes'[n] = envelopes[n]
      BY <1>2 DEF Store, Taken
    <2>3. k + 1 \in 1 .. N /\ DOMAIN envelopes' = 1 .. k + 1
      BY <2>1, <2>2, CredentialsAssumption
    <2>4. TypeOK'
      <3>1. faults' \in 0 .. MaxFaults
        BY FaultsBound
      <3>2. DOMAIN envelopes' \subseteq Versions \ {0}
        BY <2>3, CredentialsAssumption DEF Versions
      <3> QED
        BY <1>2, <3>1, <3>2 DEF TypeOK, Labels
    <2>5. VersionsInv'
      <3>1. \E n \in 0 .. N : DOMAIN envelopes' = 1 .. n
        BY <2>3, CredentialsAssumption
      <3>2. pc'[o] \notin BeforeWrite /\ \A q \in Ops \ {o} : pc'[q] = pc[q]
        BY <1>2 DEF TypeOK, BeforeWrite
      <3>3. \A n \in DOMAIN envelopes' :
              /\ envelopes'[n].version = n /\ envelopes'[n].secret \in Ops
              /\ pc'[envelopes'[n].secret] \notin BeforeWrite
        BY <2>2, <3>2 DEF VersionsInv, Encrypt
      <3>4. \A n, m \in DOMAIN envelopes' : envelopes'[n].secret = envelopes'[m].secret => n = m
        <4>1. \A n \in DOMAIN envelopes : envelopes[n].secret # o
          BY DEF VersionsInv, BeforeWrite
        <4> QED
          BY <2>2, <4>1 DEF VersionsInv, Encrypt
      <3>5. \A n : Exists(n) => Exists(n)'
        BY <2>2 DEF Exists
      <3>6. Exists(pointer)' /\ Exists(highest)' /\ \A q \in Ops : Exists(current[q])'
        BY <2>2 DEF Exists, VersionsInv
      <3>7. ASSUME NEW q \in Ops
            PROVE  /\ pc'[q] = "write" => candidate'[q] > 0
                   /\ candidate'[q] > 0 => Exists(candidate[q] - 1)'
                   /\ pc'[q] \in {"verify", "activate"} => candidate'[q] \in DOMAIN envelopes'
        <4>1. candidate'[q] = candidate[q]
          BY <1>2
        <4>2. pc'[q] = "write" => candidate'[q] > 0
          BY <3>2, <4>1 DEF VersionsInv, BeforeWrite
        <4>3. candidate'[q] > 0 => Exists(candidate[q] - 1)'
          BY <2>2, <4>1, <1>2 DEF VersionsInv, Exists
        <4>4. pc'[q] \in {"verify", "activate"} => candidate'[q] \in DOMAIN envelopes'
          BY <2>2, <3>2, <4>1 DEF VersionsInv
        <4> QED
          BY <4>2, <4>3, <4>4
      <3> QED
        BY <3>1, <3>3, <3>4, <3>6, <3>7 DEF VersionsInv
    <2>6. LockInv' /\ VerifiedInv'
      <3>1. v > highest
        BY <2>1 DEF VersionsInv, Exists
      <3> QED
        BY <1>2, <3>1 DEF LockInv, VerifiedInv, TypeOK, UnderLock
    <2>7. StatusInv'
      BY <2>2 DEF StatusInv
    <2>8. AuditInv'
      BY <1>2 DEF AuditInv, AuditFaithful, TypeOK, BeforeMove, BeforeWrite
    <2> QED
      BY <2>4, <2>5, <2>6, <2>7, <2>8
  <1> QED
    BY <1>1, <1>2

LEMMA VerifyInv ==
  ASSUME IndInv, NEW o \in Ops, Verify(o), UNCHANGED <<op, ended, status>>
  PROVE  IndInv'
  <1> USE DEF IndInv, Verify, Goto, redis, status, ghosts
  <1>1. TypeOK'
    <2>1. faults' \in 0 .. MaxFaults
      BY FaultsBound
    <2> QED
      BY <2>1 DEF TypeOK, Labels
  <1>2. VersionsInv'
    BY DEF VersionsInv, TypeOK, Exists, BeforeWrite
  <1>3. LockInv' /\ VerifiedInv'
    BY DEF LockInv, VerifiedInv, TypeOK, UnderLock
  <1>4. StatusInv'
    BY DEF StatusInv
  <1>5. AuditInv'
    BY DEF AuditInv, AuditFaithful, TypeOK, BeforeMove, BeforeWrite
  <1> QED
    BY <1>1, <1>2, <1>3, <1>4, <1>5

LEMMA ActivateInv ==
  ASSUME IndInv, NEW o \in Ops, Activate(o), UNCHANGED <<op, ended, status>>
  PROVE  IndInv'
  <1> USE DEF IndInv, Activate, SetPointer, Move, NoMove, Owns, Goto, redis, status, ghosts
  <1>1. TypeOK'
    <2>1. faults' \in 0 .. MaxFaults
      BY FaultsBound
    <2>2. candidate[o] \in Versions
      BY DEF TypeOK, VersionsInv
    <2> QED
      BY <2>1, <2>2 DEF TypeOK, Labels
  <1>2. VersionsInv'
    BY DEF VersionsInv, TypeOK, Exists, BeforeWrite
  <1>3. LockInv' /\ VerifiedInv'
    BY DEF LockInv, VerifiedInv, TypeOK, UnderLock
  <1>4. StatusInv'
    BY DEF StatusInv
  <1>5. AuditInv'
    BY DEF AuditInv, AuditFaithful, TypeOK, BeforeMove, BeforeWrite
  <1> QED
    BY <1>1, <1>2, <1>3, <1>4, <1>5

LEMMA DeleteInv ==
  ASSUME IndInv, NEW o \in Ops, Delete(o), UNCHANGED <<op, ended, status>>
  PROVE  IndInv'
  <1> USE DEF IndInv, Delete, SetPointer, Move, NoMove, Owns, Goto, redis, status, ghosts
  <1>1. TypeOK'
    <2>1. faults' \in 0 .. MaxFaults
      BY FaultsBound
    <2> QED
      BY <2>1, CredentialsAssumption DEF TypeOK, Labels, Versions
  <1>2. VersionsInv'
    BY DEF VersionsInv, TypeOK, Exists, BeforeWrite
  <1>3. LockInv' /\ VerifiedInv'
    BY DEF LockInv, VerifiedInv, TypeOK, UnderLock
  <1>4. StatusInv'
    BY DEF StatusInv
  <1>5. AuditInv'
    BY DEF AuditInv, AuditFaithful, TypeOK, BeforeMove, BeforeWrite
  <1> QED
    BY <1>1, <1>2, <1>3, <1>4, <1>5

LEMMA SucceededInv ==
  ASSUME IndInv, NEW o \in Ops, Succeeded(o), UNCHANGED <<op, ended, status>>
  PROVE  IndInv'
  <1> USE DEF IndInv, Succeeded, Audit, Return, Goto, redis, status, ghosts
  <1>1. TypeOK'
    <2>1. faults' \in 0 .. MaxFaults
      BY FaultsBound
    <2>2. 0 \in Versions /\ 0 \in 0 .. N + 1
      BY CredentialsAssumption DEF Versions
    <2>3. audit' \subseteq Ops \X {"started", "succeeded", "failed"}
      BY DEF TypeOK
    <2>4. CASE held[o]
      BY <2>1, <2>3, <2>4 DEF TypeOK, Labels
    <2>5. CASE ~ held[o]
      BY <2>1, <2>2, <2>3, <2>5, ZenonT(40) DEF TypeOK, Labels
    <2> QED
      BY <2>4, <2>5
  <1>2. VersionsInv'
    <2>1. CASE held[o]
      BY <2>1 DEF VersionsInv, TypeOK, Exists, BeforeWrite
    <2>2. CASE ~ held[o]
      BY <2>2, SMTT(30) DEF VersionsInv, TypeOK, Exists, BeforeWrite
    <2> QED
      BY <2>1, <2>2
  <1>3. LockInv' /\ VerifiedInv'
    BY DEF LockInv, VerifiedInv, TypeOK, UnderLock
  <1>4. StatusInv'
    BY DEF StatusInv
  <1>5. AuditInv'
    BY DEF AuditInv, AuditFaithful, TypeOK, BeforeMove, BeforeWrite
  <1> QED
    BY <1>1, <1>2, <1>3, <1>4, <1>5

LEMMA FailInv ==
  ASSUME IndInv, NEW o \in Ops, Fail(o), UNCHANGED <<op, ended, status>>
  PROVE  IndInv'
  <1> USE DEF IndInv, Fail, Audit, Return, Goto, redis, status, ghosts
  <1>1. TypeOK'
    <2>1. faults' \in 0 .. MaxFaults
      BY FaultsBound
    <2>2. 0 \in Versions /\ 0 \in 0 .. N + 1
      BY CredentialsAssumption DEF Versions
    <2>3. audit' \subseteq Ops \X {"started", "succeeded", "failed"}
      BY DEF TypeOK
    <2>4. CASE held[o]
      BY <2>1, <2>3, <2>4 DEF TypeOK, Labels
    <2>5. CASE ~ held[o]
      BY <2>1, <2>2, <2>3, <2>5, ZenonT(40) DEF TypeOK, Labels
    <2> QED
      BY <2>4, <2>5
  <1>2. VersionsInv'
    <2>1. CASE held[o]
      BY <2>1 DEF VersionsInv, TypeOK, Exists, BeforeWrite
    <2>2. CASE ~ held[o]
      BY <2>2, SMTT(30) DEF VersionsInv, TypeOK, Exists, BeforeWrite
    <2> QED
      BY <2>1, <2>2
  <1>3. LockInv' /\ VerifiedInv'
    BY DEF LockInv, VerifiedInv, TypeOK, UnderLock
  <1>4. StatusInv'
    BY DEF StatusInv
  <1>5. AuditInv'
    BY DEF AuditInv, AuditFaithful, TypeOK, BeforeMove, BeforeWrite
  <1> QED
    BY <1>1, <1>2, <1>3, <1>4, <1>5

LEMMA ReleaseLockInv ==
  ASSUME IndInv, NEW o \in Ops, ReleaseLock(o), UNCHANGED <<op, ended, status>>
  PROVE  IndInv'
  <1> USE DEF IndInv, ReleaseLock, Return, Owns, Goto, redis, status, ghosts
  <1>1. TypeOK'
    <2>1. faults' \in 0 .. MaxFaults
      BY FaultsBound
    <2> QED
      BY <2>1, CredentialsAssumption DEF TypeOK, Labels, Versions
  <1>2. VersionsInv'
    BY DEF VersionsInv, TypeOK, Exists, BeforeWrite
  <1>3. LockInv' /\ VerifiedInv'
    BY CredentialsAssumption DEF LockInv, VerifiedInv, TypeOK, UnderLock
  <1>4. StatusInv'
    BY DEF StatusInv
  <1>5. AuditInv'
    BY DEF AuditInv, AuditFaithful, TypeOK, BeforeMove, BeforeWrite
  <1> QED
    BY <1>1, <1>2, <1>3, <1>4, <1>5

LEMMA OperationInv ==
  ASSUME IndInv, NEW o \in Ops, Operation(o)
  PROVE  IndInv'
  <1>1. UNCHANGED <<op, ended, status>>
    BY DEF Operation
  <1> QED
    BY <1>1, RefuseInv, StartInv, AcquireLockInv, ReadCurrentInv, WriteVersionInv, VerifyInv,
       ActivateInv, DeleteInv, SucceededInv, FailInv, ReleaseLockInv DEF Operation

-----------------------------------------------------------------------------
LEMMA StatusStepInv ==
  ASSUME IndInv, NEW r \in Requests, Status(r)
  PROVE  IndInv'
  <1> USE DEF IndInv, Status, redis, local, ghosts
  <1>1. TypeOK' /\ VersionsInv' /\ LockInv' /\ VerifiedInv' /\ AuditInv'
    BY DEF TypeOK, VersionsInv, Exists, LockInv, VerifiedInv, AuditInv, AuditFaithful
  <1>2. CASE StatusPointer(r)
    BY <1>1, <1>2 DEF StatusPointer, StatusInv, Answers, VersionsInv, Exists
  <1>3. CASE StatusEnvelope(r)
    <2>1. asked[r] \in DOMAIN envelopes /\ envelopes[asked[r]].version = asked[r]
      BY <1>3 DEF StatusEnvelope, StatusInv, VersionsInv
    <2>2. Examine(envelopes[asked[r]], asked[r], StatusKey) \in Answers
      BY <2>1 DEF Examine, Validate, Answers
    <2> QED
      BY <1>1, <1>3, <2>1, <2>2 DEF StatusEnvelope, StatusInv
  <1> QED
    BY <1>2, <1>3

(* The context of an operation ends, its process dies, its lock expires.   *)
LEMMA EnvironmentInv ==
  ASSUME IndInv, (\E o \in Ops : ContextEnds(o) \/ Die(o)) \/ Expire
  PROVE  IndInv'
  <1> USE DEF IndInv, redis, local, status, ghosts
  <1>1. ASSUME NEW o \in Ops, ContextEnds(o) PROVE IndInv'
    <2>1. faults' \in 0 .. MaxFaults
      BY <1>1, FaultsBound DEF ContextEnds
    <2>2. TypeOK'
      BY <1>1, <2>1 DEF ContextEnds, TypeOK
    <2> QED
      BY <1>1, <2>2 DEF ContextEnds, VersionsInv, Exists, LockInv, VerifiedInv, StatusInv, AuditInv, AuditFaithful
  <1>2. ASSUME NEW o \in Ops, Die(o) PROVE IndInv'
    <2> USE <1>2 DEF Die, Return, Goto
    <2>1. TypeOK'
      <3>1. faults' \in 0 .. MaxFaults
        BY FaultsBound
      <3> QED
        BY <3>1, CredentialsAssumption DEF TypeOK, Labels, Versions
    <2>2. VersionsInv'
      BY DEF VersionsInv, TypeOK, Exists, BeforeWrite
    <2>3. LockInv' /\ VerifiedInv'
      BY DEF LockInv, VerifiedInv, TypeOK, UnderLock
    <2>4. StatusInv'
      BY DEF StatusInv
    <2>5. AuditInv'
      BY DEF AuditInv, AuditFaithful, TypeOK, BeforeMove, BeforeWrite
    <2> QED
      BY <2>1, <2>2, <2>3, <2>4, <2>5
  <1>3. CASE Expire
    BY <1>3, CredentialsAssumption DEF Expire, TypeOK, VersionsInv, Exists, LockInv, VerifiedInv, StatusInv,
                                       AuditInv, AuditFaithful
  <1> QED
    BY <1>1, <1>2, <1>3

LEMMA StutterInv == IndInv /\ UNCHANGED vars => IndInv'
  BY DEF vars, redis, local, status, ghosts, IndInv, TypeOK, VersionsInv, Exists, LockInv,
         VerifiedInv, StatusInv, AuditInv, AuditFaithful

LEMMA NextInv == IndInv /\ [Next]_vars => IndInv'
  BY OperationInv, StatusStepInv, EnvironmentInv, StutterInv DEF Next

(* The inductive invariant of the credential manager.                      *)
THEOREM IndInvHolds == Spec => []IndInv
  BY InitInv, NextInv, PTL DEF Spec

(* The current pointer names a version that exists, carries its own number *)
(* and was read back and decrypted before SetIfLockOwner activated it, so  *)
(* a status request always finds it; the versions of an account are never  *)
(* more than its rotations.                                                *)
THEOREM CurrentVerified == Spec => []CurrentIsVerified
  <1>1. IndInv => CurrentIsVerified
    BY DEF IndInv, CurrentIsVerified, VersionsInv, Exists, VerifiedInv, StatusInv, Answers
  <1> QED
    BY <1>1, IndInvHolds, PTL

(* The audit says "succeeded" and "failed" of the operations it may say it *)
(* of, whatever answers were lost.                                         *)
THEOREM AuditIsFaithful == Spec => []AuditFaithful
  <1>1. IndInv => AuditFaithful
    BY DEF IndInv, AuditInv
  <1> QED
    BY <1>1, IndInvHolds, PTL

-----------------------------------------------------------------------------
(* What a step that moves the pointer finds: it is a script of the holder  *)
(* of the lock, whose pointer nobody has moved since it read it.           *)
LEMMA MovesOfHolder ==
  ASSUME IndInv, [Next]_vars, pointer' # pointer \/ changed' # changed
  PROVE  \E o \in Ops : /\ lock = o /\ changed' = changed \cup {o} /\ current[o] = pointer
                        /\ \/ pc[o] = "activate" /\ pointer' = candidate[o] /\ candidate[o] > highest
                           \/ pc[o] = "delete" /\ pointer' = 0
  <1>1. PICK o \in Ops : Operation(o)
    BY DEF Next, Status, ContextEnds, Die, Expire, vars, redis, ghosts
  <1>2. Activate(o) \/ Delete(o)
    BY <1>1 DEF Operation, Refuse, Start, AcquireLock, ReadCurrent, WriteVersion, Verify, Succeeded,
                Fail, Audit, ReleaseLock, redis, ghosts
  <1>3. lock = o /\ changed' = changed \cup {o}
    BY <1>2 DEF Activate, Delete, SetPointer, Move, NoMove, Owns
  <1>4. pointer' = (IF pc[o] = "activate" THEN candidate[o] ELSE 0) /\ pc[o] \in {"activate", "delete"}
    BY <1>2 DEF Activate, Delete, SetPointer, Move, NoMove
  <1> QED
    BY <1>3, <1>4 DEF IndInv, LockInv, UnderLock

(* A version that was replaced or disabled is never current again.         *)
THEOREM NoReactivation == Spec => NeverReactivated
  <1>1. IndInv /\ [Next]_vars => [pointer' \notin {pointer, 0} => pointer' > highest]_vars
    BY MovesOfHolder
  <1> QED
    BY <1>1, IndInvHolds, PTL DEF Spec, NeverReactivated

(* Rotate and Disable move the pointer only from the value they read, even *)
(* when their lock expired and another operation went through.             *)
THEOREM NoStaleMoves == Spec => NoStaleMove
  <1>1. IndInv /\ [Next]_vars
          => [\A o \in Ops : o \in changed' \ changed => current[o] = pointer]_vars
    BY MovesOfHolder
  <1> QED
    BY <1>1, IndInvHolds, PTL DEF Spec, NoStaleMove
=============================================================================
