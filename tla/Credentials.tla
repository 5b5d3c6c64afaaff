---------------------------- MODULE Credentials ----------------------------
(***************************************************************************)
(* The credential manager: the versions and the current pointer of one     *)
(* account in Redis, the expiring lock over them, the audit in PostgreSQL, *)
(* and the operations Rotate, Disable and Status of several processes (the *)
(* operations page and relayctl).                                          *)
(*                                                                         *)
(* Every call of a store is a step of its own: it succeeds, it fails, or   *)
(* its answer is lost after it took effect.  The context of an operation   *)
(* may end (the browser leaves, relayctl times out), its process may die,  *)
(* and the lock may expire at any time.  An operation id stands for the    *)
(* random lock token and for the plaintext of a rotation.                  *)
(***************************************************************************)
EXTENDS Naturals, FiniteSets

CONSTANTS N,                     \* operations, numbered in the order they start
          Plans,                 \* what they may be
          Requests,              \* status requests
          StatusKey,             \* the key they verify with
          None,
          MaxTry,                \* candidate versions of one rotation (1000)
          MaxFaults, MaxRunning  \* bounds of the environment

Ops == 1 .. N

(* A key is <<id, bytes>>; valid is whether the input passes the checks.   *)
ASSUME CredentialsAssumption ==
  /\ N \in Nat /\ None \notin Ops
  /\ \A plan \in Plans, o \in Ops : /\ plan[o].kind \in {"rotate", "disable"}
                                   /\ plan[o].valid \in BOOLEAN
  /\ MaxTry \in Nat \ {0} /\ MaxFaults \in Nat /\ MaxRunning \in Nat \ {0}

VARIABLES
  op,         \* what the operations are
  envelopes,  \* credentials:vN: a function from versions to envelopes
  pointer,    \* credentials:current, 0 if the key does not exist
  lock,       \* credentials:lock, the token in it
  audit,      \* oc_credential_audit: {<<operation, status>>}
  pc, current, candidate,   \* of each operation, and
  held,       \* whether its ReleaseLock is deferred
  ended,      \* operations whose context has ended
  spc, asked, answer,       \* of each status request
  faults,
  verified,   \* versions that were read back and decrypted,
  changed,    \* operations that moved the pointer,
  lost,       \* operations that were not told so,
  highest     \* the highest version that was ever current (all ghosts)

redis == <<envelopes, pointer, lock>>
local == <<pc, current, candidate, held>>
status == <<spc, asked, answer>>
ghosts == <<verified, changed, lost, highest>>
vars == <<op, redis, audit, local, ended, status, faults, ghosts>>

-----------------------------------------------------------------------------
(* envelope.go.  The identity is authenticated with the ciphertext.        *)
Encrypt(o, v) == [version |-> v, key |-> op[o].key, secret |-> o]
Validate(e, v, id) == e.version = v /\ e.key[1] = id
Decrypts(e, key) == e.key = key

-----------------------------------------------------------------------------
(* One call of a store that takes Effect: it is made and answered, it      *)
(* fails, or its answer is lost.  Nothing is sent once the context ended.  *)
Fault == faults < MaxFaults /\ faults' = faults + 1
Failing(o) == IF o \in ended THEN UNCHANGED faults ELSE Fault

Goto(o, l) == pc' = [pc EXCEPT ![o] = l]
Running(o) == pc[o] \notin {"idle", "done"}
Turn(o) == \A q \in 1 .. o - 1 : pc[q] # "idle"
Room == Cardinality({o \in Ops : Running(o)}) < MaxRunning

(* The operation returns.                                                  *)
Return(o) ==
  /\ Goto(o, "done")
  /\ current' = [current EXCEPT ![o] = 0] /\ candidate' = [candidate EXCEPT ![o] = 0]
  /\ held' = [held EXCEPT ![o] = FALSE]

(* The checks before the first effect: the administrator's token, the      *)
(* account and its confirmation, the operator, the key and the input.      *)
Refuse(o) ==
  /\ pc[o] = "idle" /\ ~ op[o].valid /\ Turn(o)
  /\ Goto(o, "done")
  /\ UNCHANGED <<redis, audit, current, candidate, held, faults, ghosts>>

(* appendAudit of "started"; without it nothing is done.                   *)
Start(o) ==
  /\ pc[o] = "idle" /\ op[o].valid /\ Turn(o) /\ Room
  /\ \/ o \notin ended /\ audit' = audit \cup {<<o, "started">>} /\ Goto(o, "lock")
        /\ UNCHANGED faults
     \/ Failing(o) /\ Goto(o, "done") /\ UNCHANGED audit
     \/ o \notin ended /\ Fault /\ audit' = audit \cup {<<o, "started">>} /\ Goto(o, "done")
  /\ UNCHANGED <<redis, current, candidate, held, ghosts>>

(* AcquireLock: SET NX with a TTL.  A lost answer leaves the lock behind,  *)
(* and its release has not been deferred yet.                              *)
AcquireLock(o) ==
  /\ pc[o] = "lock"
  /\ \/ /\ o \notin ended /\ UNCHANGED faults
        /\ IF lock = None THEN lock' = o /\ held' = [held EXCEPT ![o] = TRUE] /\ Goto(o, "read")
                          ELSE UNCHANGED <<lock, held>> /\ Goto(o, "fail")
     \/ Failing(o) /\ Goto(o, "fail") /\ UNCHANGED <<lock, held>>
     \/ /\ o \notin ended /\ Fault /\ lock = None
        /\ lock' = o /\ Goto(o, "fail") /\ UNCHANGED held
  /\ UNCHANGED <<envelopes, pointer, audit, current, candidate, ghosts>>

(* currentVersion, under the lock.                                         *)
ReadCurrent(o) ==
  /\ pc[o] = "read"
  /\ \/ /\ o \notin ended /\ UNCHANGED faults
        /\ current' = [current EXCEPT ![o] = pointer]
        /\ candidate' = [candidate EXCEPT ![o] = pointer + 1]
        /\ Goto(o, IF op[o].kind = "rotate" THEN "write" ELSE "delete")
     \/ Failing(o) /\ Goto(o, "fail") /\ UNCHANGED <<current, candidate>>
  /\ UNCHANGED <<redis, audit, held, ghosts>>

(* Mutant: SET instead of SET NX.                                          *)
MutTaken(v) == FALSE

(* SetIfAbsent of the next candidate version.                              *)
Taken(v) == v \in DOMAIN envelopes
Store(o, v) ==
  envelopes' = [n \in DOMAIN envelopes \cup {v} |->
                  IF n = v THEN Encrypt(o, v) ELSE envelopes[n]]

WriteVersion(o) ==
  /\ pc[o] = "write"
  /\ LET v == candidate[o]
     IN  \/ /\ v > current[o] + MaxTry            \* VERSION_EXHAUSTED
            /\ Goto(o, "fail") /\ UNCHANGED <<envelopes, candidate, faults>>
         \/ /\ v <= current[o] + MaxTry /\ o \notin ended /\ UNCHANGED faults
            /\ IF Taken(v)
               THEN candidate' = [candidate EXCEPT ![o] = v + 1] /\ UNCHANGED <<envelopes, pc>>
               ELSE Store(o, v) /\ Goto(o, "verify") /\ UNCHANGED candidate
         \/ /\ v <= current[o] + MaxTry /\ Failing(o)
            /\ Goto(o, "fail") /\ UNCHANGED <<envelopes, candidate>>
         \/ /\ v <= current[o] + MaxTry /\ o \notin ended /\ Fault /\ ~ Taken(v)
            /\ Store(o, v) /\ Goto(o, "fail") /\ UNCHANGED candidate
  /\ UNCHANGED <<pointer, lock, audit, current, held, ghosts>>

(* Mutant: the version is activated without reading it back.               *)
MutVerify(o) ==
  /\ pc[o] = "verify" /\ Goto(o, "activate")
  /\ UNCHANGED <<redis, audit, current, candidate, held, faults, ghosts>>

(* The version is read back, compared, decoded, validated and decrypted.   *)
Verify(o) ==
  /\ pc[o] = "verify"
  /\ LET v == candidate[o]
         e == envelopes[v]
         good == e = Encrypt(o, v) /\ Validate(e, v, op[o].key[1]) /\ Decrypts(e, op[o].key)
     IN  \/ /\ o \notin ended /\ UNCHANGED faults
            /\ Goto(o, IF good THEN "activate" ELSE "fail")
            /\ verified' = IF good THEN verified \cup {v} ELSE verified
         \/ Failing(o) /\ Goto(o, "fail") /\ UNCHANGED verified
  /\ UNCHANGED <<redis, audit, current, candidate, held, changed, lost, highest>>

(* Mutant: the script does not look at the lock.                           *)
MutOwns(o) == TRUE

(* The Lua scripts: the pointer moves only while the caller owns the lock. *)
Owns(o) == lock = o

Move(o, v) ==
  /\ pointer' = v
  /\ changed' = changed \cup {o}
  /\ highest' = IF v > highest THEN v ELSE highest

NoMove == UNCHANGED <<pointer, changed, highest>>

(* Mutant: the answer 0 of the script is taken for success.                *)
MutSetPointer(o, v) ==
  /\ o \notin ended
  /\ IF Owns(o) THEN Move(o, v) ELSE NoMove
  /\ Goto(o, "audit")
  /\ UNCHANGED <<envelopes, lock, audit, current, candidate, held, faults, verified, lost>>

(* SetIfLockOwner for a rotation, DeleteIfLockOwner for a disable.         *)
SetPointer(o, v) ==
  /\ \/ /\ o \notin ended /\ UNCHANGED <<faults, lost>>
        /\ IF Owns(o) THEN Move(o, v) /\ Goto(o, "audit") ELSE NoMove /\ Goto(o, "fail")
     \/ Failing(o) /\ NoMove /\ Goto(o, "fail") /\ UNCHANGED lost
     \/ /\ o \notin ended /\ Fault /\ Owns(o)
        /\ Move(o, v) /\ lost' = lost \cup {o} /\ Goto(o, "fail")
  /\ UNCHANGED <<envelopes, lock, audit, current, candidate, held, verified>>

Activate(o) == pc[o] = "activate" /\ SetPointer(o, candidate[o])
Delete(o) == pc[o] = "delete" /\ SetPointer(o, 0)

(* appendAudit of "succeeded", and fail's of "failed"; the operation ends  *)
(* either way.                                                             *)
Audit(o, at, word) ==
  /\ pc[o] = at
  /\ \/ o \notin ended /\ audit' = audit \cup {<<o, word>>} /\ UNCHANGED faults
     \/ Failing(o) /\ UNCHANGED audit
     \/ o \notin ended /\ Fault /\ audit' = audit \cup {<<o, word>>}
  /\ IF held[o] THEN Goto(o, "release") /\ UNCHANGED <<current, candidate, held>>
                ELSE Return(o)
  /\ UNCHANGED <<redis, ghosts>>

Succeeded(o) == Audit(o, "audit", "succeeded")
Fail(o) == Audit(o, "fail", "failed")

(* The deferred ReleaseLock, on a context of its own; errors are ignored.  *)
ReleaseLock(o) ==
  /\ pc[o] = "release" /\ Return(o)
  /\ \/ lock' = (IF Owns(o) THEN None ELSE lock) /\ UNCHANGED faults
     \/ Fault /\ UNCHANGED lock
  /\ UNCHANGED <<envelopes, pointer, audit, ghosts>>

Operation(o) ==
  /\ \/ Refuse(o) \/ Start(o) \/ AcquireLock(o) \/ ReadCurrent(o) \/ WriteVersion(o)
     \/ Verify(o) \/ Activate(o) \/ Delete(o) \/ Succeeded(o) \/ Fail(o) \/ ReleaseLock(o)
  /\ UNCHANGED <<op, ended, status>>

-----------------------------------------------------------------------------
(* Status, without a lock: the pointer, then the envelope it names.        *)
StatusPointer(r) ==
  /\ spc[r] = "idle"
  /\ asked' = [asked EXCEPT ![r] = pointer]
  /\ spc' = [spc EXCEPT ![r] = IF pointer = 0 THEN "done" ELSE "envelope"]
  /\ answer' = [answer EXCEPT ![r] = IF pointer = 0 THEN "not configured" ELSE ""]

Examine(e, v, key) ==
  CASE ~ Validate(e, v, e.key[1]) -> "invalid"
    [] e.key[1] # key[1]          -> "another key"
    [] ~ Decrypts(e, key)         -> "not authentic"
    [] OTHER                      -> "verified"

StatusEnvelope(r) ==
  /\ spc[r] = "envelope"
  /\ spc' = [spc EXCEPT ![r] = "done"]
  /\ answer' = [answer EXCEPT ![r] = IF asked[r] \in DOMAIN envelopes
                                     THEN Examine(envelopes[asked[r]], asked[r], StatusKey)
                                     ELSE "missing"]
  /\ UNCHANGED asked

Status(r) ==
  /\ StatusPointer(r) \/ StatusEnvelope(r)
  /\ UNCHANGED <<op, redis, audit, local, ended, faults, ghosts>>

-----------------------------------------------------------------------------
(* The environment.                                                        *)
ContextEnds(o) ==
  /\ Running(o) /\ o \notin ended /\ Fault
  /\ ended' = ended \cup {o}
  /\ UNCHANGED <<op, redis, audit, local, status, ghosts>>

(* Mutant: the lock has no time to live.                                   *)
MutExpire == lock \notin Ops \cup {None} /\ UNCHANGED vars

(* The process dies: nothing of the operation runs any more.               *)
Die(o) ==
  /\ Running(o) /\ Fault /\ Return(o)
  /\ UNCHANGED <<op, redis, audit, ended, status, ghosts>>

Expire ==
  /\ lock # None /\ lock' = None
  /\ UNCHANGED <<op, envelopes, pointer, audit, local, ended, status, faults, ghosts>>

Next ==
  \/ \E o \in Ops : Operation(o) \/ ContextEnds(o) \/ Die(o)
  \/ \E r \in Requests : Status(r)
  \/ Expire

Init ==
  /\ op \in Plans
  /\ envelopes = [v \in {} |-> None] /\ pointer = 0 /\ lock = None /\ audit = {}
  /\ pc = [o \in Ops |-> "idle"]
  /\ current = [o \in Ops |-> 0] /\ candidate = [o \in Ops |-> 0]
  /\ held = [o \in Ops |-> FALSE] /\ ended = {}
  /\ spc = [r \in Requests |-> "idle"] /\ asked = [r \in Requests |-> 0]
  /\ answer = [r \in Requests |-> ""]
  /\ faults = 0 /\ verified = {} /\ changed = {} /\ lost = {} /\ highest = 0

(* While operations run, one of them goes on, and Redis expires a lock.    *)
Fairness == WF_vars(\E o \in Ops : Operation(o)) /\ WF_vars(Expire)

Spec == Init /\ [][Next]_vars /\ Fairness

-----------------------------------------------------------------------------
Versions == 0 .. N
Labels == {"idle", "lock", "read", "write", "verify", "activate", "delete",
           "audit", "fail", "release", "done"}

(* The keys of Redis, the audit and the operations have their types; no    *)
(* version is numbered beyond the rotations that ran.                      *)
TypeOK ==
  /\ DOMAIN envelopes \subseteq Versions \ {0} /\ pointer \in Versions
  /\ lock \in Ops \cup {None}
  /\ audit \subseteq Ops \X {"started", "succeeded", "failed"}
  /\ pc \in [Ops -> Labels] /\ current \in [Ops -> Versions]
  /\ candidate \in [Ops -> 0 .. N + 1]
  /\ held \in [Ops -> BOOLEAN] /\ ended \subseteq Ops /\ faults \in 0 .. MaxFaults

(* A version that was replaced or disabled never becomes current again: a  *)
(* rotation that lost its lock cannot bring its older version back, and a  *)
(* rotation after a disable allocates above every earlier version.         *)
NeverReactivated ==
  [][pointer' \notin {pointer, 0} => pointer' > highest]_vars

(* Only the holder of the lock moves the pointer, from the value it read:  *)
(* what happened after its lock expired is not overwritten.                *)
NoStaleMove ==
  [][\A o \in Ops : o \in changed' \ changed => current[o] = pointer]_vars

(* The current version exists, carries its own number and was decrypted    *)
(* once, so that a status request, which takes no lock, finds it; and      *)
(* TypeOK.                                                                 *)
CurrentIsVerified ==
  /\ TypeOK
  /\ pointer # 0 => pointer \in DOMAIN envelopes /\ pointer \in verified
  /\ \A r \in Requests : answer[r] \notin {"missing", "invalid"}

(* What the audit says (the API refers the operator to it): "succeeded"    *)
(* only of an operation that moved the pointer, "failed" only of one that  *)
(* did not or was not told, and an operation that moved it was recorded    *)
(* before it did.                                                          *)
AuditFaithful ==
  \A o \in Ops :
    /\ <<o, "succeeded">> \in audit => o \in changed
    /\ <<o, "failed">> \in audit => o \notin changed \/ o \in lost
    /\ o \in changed => <<o, "started">> \in audit

(* Every operation that started ends, and the lock does not stay behind    *)
(* whoever died with it.                                                   *)
OperationsEnd ==
  /\ <>[](\A o \in Ops : ~ Running(o))
  /\ []<>(lock = None)
=============================================================================
